-------------------------- MODULE ActionCallProofs --------------------------
(***************************************************************************)
(* Proofs about ActionCall, for any controllers, retry policy and kinds of *)
(* termination: a parked parent can be woken, it records what its child    *)
(* did, no child outlives it but a late one, and the child runs once.      *)
(***************************************************************************)
EXTENDS ActionCall, TLAPS

ClaimedPCs == {"claimed", "lineage", "admit", "admitted", "refused"}
NodePCs == {"node", "invocation"} \cup ClaimedPCs
RunningPCs == {"running", "done"} \cup NodePCs
StoppingPCs == {"stopping", "cancel", "reload", "settle", "closure"}
ClosingPCs == {"children", "publish"}
JoiningPCs == {"wait", "ledger", "resolve"}

\* The parent is being stopped, or the call is over.
Decided == kind # "none" \/ outcome # "none"

\* The attempts stay within the policy, and the call is made before the park.
NodeOK ==
    /\ inv \in {"absent", "ready"} => att = 0
    /\ inv = "retry-wait" => att < MaxAttempts
    /\ inv \in {"absent", "ready", "running", "retry-wait"} => resolution = "none"

\* A termination is frozen with a reason and the Run then only ends for it.
EndOK ==
    /\ kind # "none" => run \in {"stopping", kind}
    /\ run = "stopping" => kind # "none"
    /\ child = "stopping" => childKind # "none"

ParkOK == run = "waiting" =>
    call = TRUE /\ inv = "waiting" /\ child # "none" /\ resolution = "pending" /\ outcome = "none"

\* What a pass at `at' with current reads of `keys' knows: some facts for ever,
\* others while its reads are current.
Knows(at, keys) ==
    /\ at \in StoppingPCs => kind # "none"
    /\ at \in {"done"} \cup ClosingPCs => Decided
    /\ at = "publish" /\ child \in ChildLive => late = TRUE
    /\ at = "admitted" => child # "none"
    /\ at \in {"join"} \cup JoiningPCs => child \in Terminal
    /\ at \in {"join", "ack"} \cup JoiningPCs => resolution # "none"
    /\ at = "ack" => Decided \/ run \in Terminal
    /\ "run" \in keys =>
           /\ at \in RunningPCs => run = "running"
           /\ at \in StoppingPCs => run = "stopping"
           /\ at \in ClosingPCs => run \in {"running", "stopping"}
           /\ at \in JoiningPCs => run = "waiting"
    /\ "snapshot" \in keys => (at \in NodePCs => outcome = "none")
    /\ "invocation" \in keys => (at \in ClaimedPCs => inv = "running")

PassOK(c) == Knows(pc[c], fresh[c])

StoreOK == NodeOK /\ EndOK /\ ParkOK /\ JoinFaithful /\ ActiveChildClosed

Inv == TypeOK /\ StoreOK /\ \A c \in Controllers : PassOK(c)

\* What no step takes back.
Onward ==
    /\ kind # "none" => kind' # "none"
    /\ outcome # "none" => outcome' # "none"
    /\ child # "none" => child' # "none"
    /\ child \in Terminal => child' \in Terminal
    /\ resolution # "none" => resolution' # "none"
    /\ run \in Terminal => run' \in Terminal
    /\ Decided /\ (child \in ChildLive => late = TRUE) => (child' \in ChildLive => late' = TRUE)

\* A controller that does not move keeps only reads that are current.
Kept(d) ==
    /\ pc'[d] = pc[d]
    /\ fresh'[d] \subseteq fresh[d]
    /\ "run" \in fresh'[d] => run' = run
    /\ "snapshot" \in fresh'[d] => outcome' = outcome
    /\ "invocation" \in fresh'[d] => inv' = inv

StoreTyped ==
    /\ handled \in BOOLEAN
    /\ run \in RunStatuses /\ kind \in Kinds /\ cleanup \in Intents
    /\ inv \in {"absent"} \cup InvOpen \cup InvEnded /\ att \in 0..MaxAttempts
    /\ call \in BOOLEAN /\ outcome \in {"none", "succeeded", "failed"}
    /\ child \in ChildStatuses /\ childKind \in Kinds /\ late \in BOOLEAN
    /\ resolution \in Intents

PassTyped ==
    /\ pc \in [Controllers -> PCs]
    /\ fresh \in [Controllers -> SUBSET Keys]

\* The type invariant of the store and that of the passes.
LEMMA TypeParts == TypeOK <=> StoreTyped /\ PassTyped
BY DEF TypeOK, StoreTyped, PassTyped

\* The reasons of a termination are terminal statuses.
LEMMA KindsEnd == \A k \in Kinds : k # "none" => k \in Terminal
BY CallAssumption DEF Kinds, Terminal

-----------------------------------------------------------------------------
(* The shapes of a step.                                                   *)

\* A controller that does not move keeps what its pass knows.
LEMMA OtherPass ==
    ASSUME NEW d \in Controllers, PassOK(d), Onward, Kept(d)
    PROVE  PassOK(d)'
<1>a. PICK at, keys : at = pc[d] /\ keys = fresh'[d]
    OBVIOUS
<1>0. pc'[d] = at /\ Knows(at, fresh[d])
    BY <1>a DEF Kept, PassOK
<1>1. /\ at \in StoppingPCs => kind' # "none"
      /\ at \in {"done"} \cup ClosingPCs => Decided'
      /\ at = "admitted" => child' # "none"
      /\ at \in {"join"} \cup JoiningPCs => child' \in Terminal
      /\ at \in {"join", "ack"} \cup JoiningPCs => resolution' # "none"
      /\ at = "ack" => Decided' \/ run' \in Terminal
    BY <1>0 DEF Knows, Onward, Decided
<1>2. at = "publish" /\ child' \in ChildLive => late' = TRUE
    BY <1>0 DEF Knows, Onward, ClosingPCs
<1>3. "run" \in keys =>
          /\ at \in RunningPCs => run' = "running"
          /\ at \in StoppingPCs => run' = "stopping"
          /\ at \in ClosingPCs => run' \in {"running", "stopping"}
          /\ at \in JoiningPCs => run' = "waiting"
    BY <1>a, <1>0 DEF Kept, Knows
<1>4. "snapshot" \in keys => (at \in NodePCs => outcome' = "none")
    BY <1>a, <1>0 DEF Kept, Knows
<1>5. "invocation" \in keys => (at \in ClaimedPCs => inv' = "running")
    BY <1>a, <1>0 DEF Kept, Knows
<1>6. Knows(at, keys)'
    BY <1>1, <1>2, <1>3, <1>4, <1>5, Zenon DEF Knows
<1>7. QED
    BY <1>a, <1>0, <1>6 DEF PassOK

\* One controller acts.
LEMMA StepOfOne ==
    ASSUME Inv, TypeOK', StoreOK', Onward, NEW c \in Controllers, PassOK(c)',
           \A d \in Controllers \ {c} : Kept(d)
    PROVE  Inv'
<1>1. ASSUME NEW d \in Controllers \ {c}
      PROVE  PassOK(d)'
    BY <1>1, OtherPass DEF Inv
<1>2. \A d \in Controllers : PassOK(d)'
    BY <1>1
<1>3. QED
    BY <1>2 DEF Inv

\* No controller moves.
LEMMA StepOfNone ==
    ASSUME Inv, TypeOK', StoreOK', Onward, \A d \in Controllers : Kept(d)
    PROVE  Inv'
<1>1. ASSUME NEW d \in Controllers
      PROVE  PassOK(d)'
    BY <1>1, OtherPass DEF Inv
<1>2. QED
    BY <1>1 DEF Inv

\* A step of a pass that leaves the store alone.
LEMMA LookKeeps ==
    ASSUME Inv, UNCHANGED store, NEW c \in Controllers, NEW at \in PCs, Goto(c, at),
           NEW keys \in SUBSET Keys, fresh' = [fresh EXCEPT ![c] = keys], Knows(at, keys)
    PROVE  Inv'
<1>0. TypeOK /\ StoreTyped /\ PassTyped
    BY TypeParts DEF Inv
<1>1. /\ handled' = handled /\ run' = run /\ kind' = kind /\ cleanup' = cleanup /\ inv' = inv /\ att' = att
      /\ call' = call /\ outcome' = outcome /\ child' = child /\ childKind' = childKind /\ late' = late
      /\ resolution' = resolution
    BY DEF store, parent, node, projection, childRun
<1>2. TypeOK'
    <2>1. StoreTyped'
        BY <1>0, <1>1 DEF StoreTyped
    <2>2. PassTyped'
        BY <1>0 DEF PassTyped, Goto
    <2>3. QED
        BY <2>1, <2>2 DEF TypeOK, StoreTyped, PassTyped
<1>3. StoreOK'
    BY <1>1 DEF Inv, StoreOK, NodeOK, EndOK, ParkOK, JoinFaithful, ActiveChildClosed
<1>4. Onward
    BY <1>1 DEF Onward
<1>5. \A d \in Controllers \ {c} : Kept(d)
    BY <1>0, <1>1 DEF Kept, PassTyped, Goto
<1>6. PassOK(c)'
    <2>1. pc'[c] = at /\ fresh'[c] = keys
        BY <1>0 DEF PassTyped, Goto
    <2>2. QED
        BY <1>1, <2>1 DEF PassOK, Knows, Decided
<1>7. QED
    BY <1>2, <1>3, <1>4, <1>5, <1>6, StepOfOne

\* A commit of a pass, which names every key it changes.
LEMMA CommitKeeps ==
    ASSUME Inv, NEW c \in Controllers, NEW at \in PCs, NEW keys \in SUBSET Keys, Commit(c, keys, at),
           run' # run => "run" \in keys, outcome' # outcome => "snapshot" \in keys,
           inv' # inv => "invocation" \in keys,
           StoreTyped', StoreOK', Onward, at = "idle" \/ PassOK(c)'
    PROVE  Inv'
<1>0. TypeOK /\ PassTyped
    BY TypeParts DEF Inv
<1>1. /\ pc' = [pc EXCEPT ![c] = at]
      /\ fresh' = [d \in Controllers |->
                      IF d = c THEN (IF at = "idle" THEN {} ELSE fresh[c]) ELSE fresh[d] \ keys]
    BY DEF Commit, Goto
<1>2. PassTyped'
    BY <1>0, <1>1 DEF PassTyped
<1>3. TypeOK'
    BY <1>2 DEF TypeOK, StoreTyped, PassTyped
<1>4. ASSUME NEW d \in Controllers \ {c}
      PROVE  Kept(d)
    <2>1. pc'[d] = pc[d] /\ fresh'[d] = fresh[d] \ keys
        BY <1>0, <1>1 DEF PassTyped
    <2>2. QED
        BY <2>1 DEF Kept
<1>5. ASSUME at = "idle"
      PROVE  PassOK(c)'
    <2>1. pc'[c] = "idle" /\ fresh'[c] = {}
        BY <1>0, <1>1, <1>5 DEF PassTyped
    <2>2. QED
        BY <2>1 DEF PassOK, Knows, StoppingPCs, ClosingPCs, JoiningPCs, RunningPCs, NodePCs, ClaimedPCs
<1>6. QED
    BY <1>3, <1>4, <1>5, StepOfOne

\* Reading an aggregate and going on.
LEMMA ReadKeeps ==
    ASSUME Inv, NEW c \in Controllers, NEW at \in PCs, NEW keys \in SUBSET Keys, Read(c, keys, at),
           Knows(at, fresh[c] \cup keys)
    PROVE  Inv'
<1>1. fresh[c] \cup keys \in SUBSET Keys /\ fresh' = [fresh EXCEPT ![c] = fresh[c] \cup keys]
    BY TypeParts DEF Inv, PassTyped, Read
<1>2. QED
    BY <1>1, LookKeeps DEF Read

\* Going on without a read that a commit names.
LEMMA GotoKeeps ==
    ASSUME Inv, NEW c \in Controllers, NEW at \in PCs, Goto(c, at), UNCHANGED <<store, fresh>>,
           Knows(at, fresh[c])
    PROVE  Inv'
<1>1. fresh[c] \in SUBSET Keys /\ fresh' = [fresh EXCEPT ![c] = fresh[c]]
    BY TypeParts DEF Inv, PassTyped
<1>2. QED
    BY <1>1, LookKeeps

-----------------------------------------------------------------------------
(* The steps that read.                                                    *)

\* The reads of Drive.
LEMMA DriveReadsKeep ==
    ASSUME Inv, NEW c \in Controllers,
           \/ LoadRun(c) \/ LoadSnapshot(c) \/ LoadInvocation(c) \/ CheckParent(c) \/ CheckInvocation(c)
           \/ ReloadSnapshot(c) \/ CheckIntents(c) \/ ListInvocations(c) \/ ListChildren(c)
    PROVE  Inv'
<1> USE DEF StoppingPCs, ClosingPCs, JoiningPCs, RunningPCs, NodePCs, ClaimedPCs, PCs, Keys
<1>0. Knows(pc[c], fresh[c]) /\ StoreOK /\ StoreTyped
    BY TypeParts DEF Inv, PassOK
<1>1. CASE LoadRun(c)
    <2>1. run \in {"running", "stopping"} /\ Read(c, {"run"}, run)
        BY <1>1 DEF LoadRun
    <2>2. Knows(run, fresh[c] \cup {"run"})
        BY <1>0, <2>1 DEF Knows, StoreOK, EndOK
    <2>3. QED
        BY <2>1, <2>2, ReadKeeps
<1>2. CASE LoadSnapshot(c)
    <2>1. CASE pc[c] = "running" /\ outcome = "none" /\ Read(c, {"snapshot"}, "node")
        <3>1. Knows("node", fresh[c] \cup {"snapshot"})
            BY <1>0, <2>1 DEF Knows
        <3>2. QED
            BY <2>1, <3>1, ReadKeeps
    <2>2. CASE pc[c] = "running" /\ outcome # "none" /\ Read(c, {"snapshot"}, "done")
        <3>1. Knows("done", fresh[c] \cup {"snapshot"})
            BY <1>0, <2>2 DEF Knows, Decided
        <3>2. QED
            BY <2>2, <3>1, ReadKeeps
    <2>3. CASE pc[c] = "stopping" /\ Read(c, {"snapshot"}, "cancel")
        <3>1. Knows("cancel", fresh[c] \cup {"snapshot"})
            BY <1>0, <2>3 DEF Knows
        <3>2. QED
            BY <2>3, <3>1, ReadKeeps
    <2>4. QED
        BY <1>2, <2>1, <2>2, <2>3 DEF LoadSnapshot
<1>3. CASE LoadInvocation(c)
    <2>1. pc[c] = "node" /\ Read(c, {"invocation"}, "invocation")
        BY <1>3 DEF LoadInvocation
    <2>2. Knows("invocation", fresh[c] \cup {"invocation"})
        BY <1>0, <2>1 DEF Knows
    <2>3. QED
        BY <2>1, <2>2, ReadKeeps
<1>4. CASE CheckParent(c) \/ CheckInvocation(c)
    <2>1. PICK at \in {"refused", "lineage", "admit"} : Goto(c, at)
        BY <1>4 DEF CheckParent, CheckInvocation
    <2>2. pc[c] \in {"claimed", "lineage"} /\ UNCHANGED <<store, fresh>>
        BY <1>4 DEF CheckParent, CheckInvocation
    <2>3. Knows(at, fresh[c])
        BY <1>0, <2>1, <2>2 DEF Knows
    <2>4. QED
        BY <2>1, <2>2, <2>3, GotoKeeps
<1>5. CASE ReloadSnapshot(c)
    <2>1. pc[c] = "reload" /\ Read(c, {"snapshot"}, "settle")
        BY <1>5 DEF ReloadSnapshot
    <2>2. Knows("settle", fresh[c] \cup {"snapshot"})
        BY <1>0, <2>1 DEF Knows
    <2>3. QED
        BY <2>1, <2>2, ReadKeeps
<1>6. CASE CheckIntents(c)
    <2>1. pc[c] = "settle" /\ Goto(c, "closure") /\ UNCHANGED <<store, fresh>>
        BY <1>6 DEF CheckIntents
    <2>2. Knows("closure", fresh[c])
        BY <1>0, <2>1 DEF Knows
    <2>3. QED
        BY <2>1, <2>2, GotoKeeps
<1>7. CASE ListInvocations(c)
    <2>1. pc[c] \in {"closure", "done"} /\ Goto(c, "children") /\ UNCHANGED <<store, fresh>>
        BY <1>7 DEF ListInvocations
    <2>2. Knows("children", fresh[c])
        BY <1>0, <2>1 DEF Knows, Decided
    <2>3. QED
        BY <2>1, <2>2, GotoKeeps
<1>8. CASE ListChildren(c)
    <2>1. pc[c] = "children" /\ Goto(c, "publish") /\ UNCHANGED <<store, fresh>> /\ child \notin ChildLive
        BY <1>8 DEF ListChildren, ChildClosed
    <2>2. Knows("publish", fresh[c])
        BY <1>0, <2>1 DEF Knows
    <2>3. QED
        BY <2>1, <2>2, GotoKeeps
<1>9. QED
    BY <1>1, <1>2, <1>3, <1>4, <1>5, <1>6, <1>7, <1>8

\* The reads of the resolution handler, and a pass that is given up.
LEMMA HandlerReadsKeep ==
    ASSUME Inv, NEW c \in Controllers,
           LoadChild(c) \/ LoadParent(c) \/ LoadWait(c) \/ LoadCallInvocation(c) \/ Abandon(c)
    PROVE  Inv'
<1> USE DEF StoppingPCs, ClosingPCs, JoiningPCs, RunningPCs, NodePCs, ClaimedPCs, PCs, Keys
<1>0. Knows(pc[c], fresh[c]) /\ StoreOK /\ StoreTyped
    BY TypeParts DEF Inv, PassOK
<1>1. CASE LoadChild(c)
    <2>1. resolution = "pending" /\ child \in Terminal /\ Goto(c, "join") /\ UNCHANGED <<store, fresh>>
        BY <1>1 DEF LoadChild
    <2>2. Knows("join", fresh[c])
        BY <2>1 DEF Knows
    <2>3. QED
        BY <2>1, <2>2, GotoKeeps
<1>2. CASE LoadParent(c)
    <2>1. CASE /\ pc[c] = "join" /\ run \in Terminal \cup {"stopping"} /\ Goto(c, "ack")
               /\ UNCHANGED <<store, fresh>>
        <3>1. Knows("ack", fresh[c])
            BY <1>0, <2>1 DEF Knows, Decided, StoreOK, EndOK
        <3>2. QED
            BY <2>1, <3>1, GotoKeeps
    <2>2. CASE pc[c] = "join" /\ run = "waiting" /\ Read(c, {"run"}, "wait")
        <3>1. Knows("wait", fresh[c] \cup {"run"})
            BY <1>0, <2>2 DEF Knows
        <3>2. QED
            BY <2>2, <3>1, ReadKeeps
    <2>3. QED
        BY <1>2, <2>1, <2>2 DEF LoadParent
<1>3. CASE LoadWait(c)
    <2>1. pc[c] = "wait" /\ Read(c, {"snapshot"}, "ledger")
        BY <1>3 DEF LoadWait
    <2>2. Knows("ledger", fresh[c] \cup {"snapshot"})
        BY <1>0, <2>1 DEF Knows
    <2>3. QED
        BY <2>1, <2>2, ReadKeeps
<1>4. CASE LoadCallInvocation(c)
    <2>1. pc[c] = "ledger" /\ Read(c, {"invocation"}, "resolve")
        BY <1>4 DEF LoadCallInvocation
    <2>2. Knows("resolve", fresh[c] \cup {"invocation"})
        BY <1>0, <2>1 DEF Knows
    <2>3. QED
        BY <2>1, <2>2, ReadKeeps
<1>5. CASE Abandon(c)
    <2>1. Goto(c, "idle") /\ fresh' = [fresh EXCEPT ![c] = {}] /\ UNCHANGED store
        BY <1>5 DEF Abandon
    <2>2. Knows("idle", {}) /\ {} \in SUBSET Keys
        BY DEF Knows
    <2>3. QED
        BY <2>1, <2>2, LookKeeps
<1>6. QED
    BY <1>1, <1>2, <1>3, <1>4, <1>5

-----------------------------------------------------------------------------
(* The commits of Drive.                                                   *)

\* The Invocation is created, claimed, and given back after a lost lease.
LEMMA ClaimsKeep ==
    ASSUME Inv, NEW c \in Controllers, ActivateInvocation(c) \/ ClaimInvocation(c) \/ ExpireForRetry(c)
    PROVE  Inv'
<1>0. Knows(pc[c], fresh[c]) /\ StoreOK /\ StoreTyped /\ PassTyped /\ pc[c] = "invocation"
    BY TypeParts DEF Inv, PassOK, ActivateInvocation, ClaimInvocation, ExpireForRetry
<1>1. /\ handled' = handled /\ run' = run /\ kind' = kind /\ cleanup' = cleanup
      /\ call' = call /\ outcome' = outcome /\ child' = child /\ childKind' = childKind /\ late' = late
      /\ resolution' = resolution
    BY DEF ActivateInvocation, ClaimInvocation, ExpireForRetry, parent, projection, childRun
<1>2. Onward
    BY <1>1 DEF Onward
<1>3. MaxAttempts \in Nat \ {0}
    BY CallAssumption
<1>4. ASSUME inv \in {"absent", "ready", "retry-wait", "running"},
             inv' \in {"ready", "running", "retry-wait"}, inv' = "ready" => att' = 0,
             att' \in 0..MaxAttempts, inv' = "retry-wait" => att' < MaxAttempts
      PROVE  StoreTyped' /\ StoreOK'
    <2>1. StoreTyped'
        BY <1>0, <1>1, <1>4 DEF StoreTyped, InvOpen
    <2>2. resolution = "none" /\ run # "waiting" /\ outcome = "none"
        BY <1>0, <1>4 DEF StoreOK, NodeOK, ParkOK, JoinFaithful, StoreTyped
    <2>3. NodeOK' /\ EndOK' /\ ParkOK'
        BY <1>0, <1>1, <1>4, <2>2 DEF StoreOK, NodeOK, EndOK, ParkOK
    <2>4. JoinFaithful' /\ ActiveChildClosed'
        BY <1>0, <1>1, <2>2 DEF StoreOK, JoinFaithful, ActiveChildClosed
    <2>5. QED
        BY <2>1, <2>3, <2>4 DEF StoreOK
<1>5. att \in 0..MaxAttempts
    BY <1>0 DEF StoreTyped
<1>6. CASE ActivateInvocation(c)
    <2>1. inv = "absent" /\ inv' = "ready" /\ att' = att /\ Commit(c, {"invocation"}, "idle")
        BY <1>6 DEF ActivateInvocation
    <2>2. att = 0
        BY <1>0, <2>1 DEF StoreOK, NodeOK
    <2>3. StoreTyped' /\ StoreOK'
        BY <1>4, <1>5, <2>1, <2>2
    <2>4. QED
        BY <1>1, <1>2, <2>1, <2>3, CommitKeeps DEF PCs, Keys
<1>7. CASE ClaimInvocation(c)
    <2>1. inv \in {"ready", "retry-wait"} /\ inv' = "running" /\ att' = att + 1
          /\ Commit(c, {"invocation"}, "claimed")
        BY <1>7 DEF ClaimInvocation
    <2>2. att < MaxAttempts
        BY <1>0, <1>3, <2>1 DEF StoreOK, NodeOK
    <2>3. StoreTyped' /\ StoreOK'
        BY <1>3, <1>4, <1>5, <2>1, <2>2
    <2>4. pc'[c] = "claimed" /\ fresh'[c] = fresh[c]
        BY <1>0, <2>1 DEF Commit, Goto, PassTyped
    <2>5. PassOK(c)'
        BY <1>0, <1>1, <2>1, <2>4 DEF PassOK, Knows, StoppingPCs, ClosingPCs, JoiningPCs, RunningPCs, NodePCs, ClaimedPCs
    <2>6. QED
        BY <1>1, <1>2, <2>1, <2>3, <2>5, CommitKeeps DEF PCs, Keys
<1>8. CASE ExpireForRetry(c)
    <2>1. inv = "running" /\ inv' = "retry-wait" /\ att' = att /\ att < MaxAttempts
          /\ Commit(c, {"invocation"}, "idle")
        BY <1>8 DEF ExpireForRetry
    <2>2. StoreTyped' /\ StoreOK'
        BY <1>4, <1>5, <2>1
    <2>3. QED
        BY <1>1, <1>2, <2>1, <2>2, CommitKeeps DEF PCs, Keys
<1>9. QED
    BY <1>6, <1>7, <1>8

\* The call fails for good before it was parked.
LEMMA NodeFailureKeeps ==
    ASSUME Inv, NEW c \in Controllers, ExpireForGood(c) \/ FailCall(c)
    PROVE  Inv'
<1>0. Knows(pc[c], fresh[c]) /\ StoreOK /\ StoreTyped /\ PassTyped /\ CommitNodeFailure(c)
    BY TypeParts DEF Inv, PassOK, ExpireForGood, FailCall
<1>1. pc[c] \in {"invocation", "claimed", "refused"} /\ (pc[c] = "invocation" => inv = "running")
    BY DEF ExpireForGood, FailCall
<1>2. {"invocation", "snapshot"} \subseteq fresh[c]
    BY <1>0 DEF CommitNodeFailure, Commit, Keys
<1>3. inv = "running" /\ outcome = "none"
    BY <1>0, <1>1, <1>2 DEF Knows, NodePCs, ClaimedPCs
<1>4. resolution = "none" /\ run # "waiting"
    BY <1>0, <1>3 DEF StoreOK, NodeOK, ParkOK
<1>5. /\ inv' = "failed" /\ outcome' = "failed" /\ call' = FALSE /\ handled' = handled /\ att' = att
      /\ child' = child /\ childKind' = childKind /\ late' = late /\ resolution' = resolution
    BY <1>0 DEF CommitNodeFailure, childRun
<1>6. CASE handled /\ Commit(c, {"invocation", "snapshot"}, "idle") /\ UNCHANGED parent
    <2>1. run' = run /\ kind' = kind /\ cleanup' = cleanup
        BY <1>6 DEF parent
    <2>2. StoreTyped'
        BY <1>0, <1>5, <2>1 DEF StoreTyped, InvEnded
    <2>3. StoreOK'
        BY <1>0, <1>4, <1>5, <2>1 DEF StoreOK, NodeOK, EndOK, ParkOK, JoinFaithful, ActiveChildClosed
    <2>4. Onward
        BY <1>5, <2>1 DEF Onward
    <2>5. QED
        BY <1>6, <2>1, <2>2, <2>3, <2>4, CommitKeeps DEF PCs, Keys
<1>7. CASE ~handled /\ Commit(c, Keys, "idle") /\ EnterStopping("failed")
    <2>1. run' = "stopping" /\ kind' = "failed" /\ cleanup' = "pending"
        BY <1>7 DEF EnterStopping
    <2>2. run = "running"
        BY <1>0, <1>1, <1>7 DEF Knows, RunningPCs, NodePCs, ClaimedPCs, Commit, Keys
    <2>3. StoreTyped'
        BY <1>0, <1>5, <2>1 DEF StoreTyped, InvEnded, RunStatuses, Kinds, Intents
    <2>4. StoreOK'
        BY <1>0, <1>4, <1>5, <2>1 DEF StoreOK, NodeOK, EndOK, ParkOK, JoinFaithful, ActiveChildClosed, Terminal
    <2>5. Onward
        BY <1>5, <2>1, <2>2 DEF Onward, Terminal
    <2>6. QED
        BY <1>7, <2>3, <2>4, <2>5, CommitKeeps DEF PCs, Keys
<1>8. QED
    BY <1>0, <1>6, <1>7 DEF CommitNodeFailure

\* The child is admitted, or its admission replayed: a child that comes too late
\* for its call is marked as such.
LEMMA AdmitKeeps ==
    ASSUME Inv, NEW c \in Controllers, AdmitChild(c)
    PROVE  Inv'
<1>0. Knows(pc[c], fresh[c]) /\ StoreOK /\ StoreTyped /\ PassTyped /\ pc[c] = "admit" /\ TypeOK
    BY TypeParts DEF Inv, PassOK, AdmitChild
<1>1. /\ handled' = handled /\ run' = run /\ kind' = kind /\ cleanup' = cleanup /\ inv' = inv /\ att' = att
      /\ call' = call /\ outcome' = outcome /\ childKind' = childKind /\ resolution' = resolution
      /\ fresh' = fresh /\ Goto(c, "admitted")
    BY DEF AdmitChild, parent, node, projection
<1>2. \/ child = "none" /\ child' = "accepted" /\ late' = (run # "running" \/ inv # "running")
      \/ child # "none" /\ child' = child /\ late' = late
    BY DEF AdmitChild
<1>3. StoreTyped'
    BY <1>0, <1>1, <1>2 DEF StoreTyped, ChildStatuses
<1>4. PassTyped'
    BY <1>0, <1>1 DEF PassTyped, Goto, PCs
<1>5. TypeOK'
    BY <1>3, <1>4 DEF TypeOK, StoreTyped, PassTyped
<1>6. child' # "none" /\ (child \in Terminal => child' = child)
    BY <1>2 DEF Terminal
<1>7. Decided => run # "running" \/ inv # "running"
    <2>1. kind # "none" => run # "running"
        BY <1>0, KindsEnd DEF StoreOK, EndOK, StoreTyped, Terminal
    <2>2. outcome # "none" => inv # "running"
        BY <1>0 DEF StoreOK, JoinFaithful, StoreTyped
    <2>3. QED
        BY <2>1, <2>2 DEF Decided
<1>8. Decided /\ (child \in ChildLive => late = TRUE) => (child' \in ChildLive => late' = TRUE)
    BY <1>2, <1>7
<1>9. Onward
    BY <1>1, <1>6, <1>8 DEF Onward
<1>a. NodeOK' /\ EndOK' /\ ParkOK' /\ JoinFaithful'
    <2>1. child' = "stopping" => child = "stopping"
        BY <1>2
    <2>2. outcome = "succeeded" => child' = "succeeded"
        BY <1>0, <1>6 DEF StoreOK, JoinFaithful, Terminal
    <2>3. outcome # "none" /\ resolution # "none" => child' \in Terminal
        BY <1>0, <1>6 DEF StoreOK, JoinFaithful
    <2>4. QED
        BY <1>0, <1>1, <1>6, <2>1, <2>2, <2>3 DEF StoreOK, NodeOK, EndOK, ParkOK, JoinFaithful
<1>b. ActiveChildClosed'
    <2>1. ASSUME run \in Terminal, child' \in ChildLive
          PROVE  late' = TRUE
        BY <1>0, <1>2, <2>1 DEF StoreOK, ActiveChildClosed, Terminal, StoreTyped
    <2>2. QED
        BY <1>1, <2>1 DEF ActiveChildClosed
<1>c. pc'[c] = "admitted"
    BY <1>0, <1>1 DEF PassTyped, Goto
<1>d. PassOK(c)'
    BY <1>0, <1>1, <1>6, <1>c DEF PassOK, Knows, StoppingPCs, ClosingPCs, JoiningPCs, RunningPCs, NodePCs, ClaimedPCs
<1>e. \A d \in Controllers \ {c} : Kept(d)
    BY <1>0, <1>1 DEF Kept, PassTyped, Goto
<1>f. QED
    BY <1>5, <1>9, <1>a, <1>b, <1>d, <1>e, StepOfOne DEF StoreOK

\* The parent parks with the child admitted and the resolution intent open.
LEMMA ParkKeeps ==
    ASSUME Inv, NEW c \in Controllers, ParkCall(c)
    PROVE  Inv'
<1>0. Knows(pc[c], fresh[c]) /\ StoreOK /\ StoreTyped /\ pc[c] = "admitted" /\ Commit(c, Keys, "idle")
    BY TypeParts DEF Inv, PassOK, ParkCall
<1>1. run = "running" /\ outcome = "none" /\ inv = "running" /\ child # "none"
    BY <1>0 DEF Knows, RunningPCs, NodePCs, ClaimedPCs, Commit, Keys
<1>2. /\ run' = "waiting" /\ inv' = "waiting" /\ call' = TRUE /\ resolution' = "pending"
      /\ handled' = handled /\ kind' = kind /\ cleanup' = cleanup /\ att' = att /\ outcome' = outcome
      /\ child' = child /\ childKind' = childKind /\ late' = late
    BY DEF ParkCall, childRun
<1>3. StoreTyped'
    BY <1>0, <1>2 DEF StoreTyped, RunStatuses, InvOpen, Intents
<1>4. kind = "none"
    BY <1>0, <1>1, KindsEnd DEF StoreOK, EndOK, StoreTyped, Terminal
<1>5. StoreOK'
    BY <1>0, <1>1, <1>2, <1>4 DEF StoreOK, NodeOK, EndOK, ParkOK, JoinFaithful, ActiveChildClosed, Terminal
<1>6. Onward
    BY <1>1, <1>2 DEF Onward, Terminal
<1>7. QED
    BY <1>0, <1>3, <1>5, <1>6, CommitKeeps DEF PCs, Keys

\* The terminal commit.
LEMMA PublishKeeps ==
    ASSUME Inv, NEW c \in Controllers, PublishTerminal(c)
    PROVE  Inv'
<1>0. Knows(pc[c], fresh[c]) /\ StoreOK /\ StoreTyped /\ pc[c] = "publish" /\ Commit(c, {"run", "snapshot"}, "idle")
    BY TypeParts DEF Inv, PassOK, PublishTerminal
<1>1. run \in {"running", "stopping"} /\ (child \in ChildLive => late = TRUE)
    BY <1>0 DEF Knows, ClosingPCs, Commit
<1>2. /\ run' = IF run = "stopping" THEN kind ELSE "succeeded"
      /\ handled' = handled /\ kind' = kind /\ cleanup' = cleanup /\ inv' = inv /\ att' = att
      /\ call' = call /\ outcome' = outcome /\ child' = child /\ childKind' = childKind /\ late' = late
      /\ resolution' = resolution
    BY DEF PublishTerminal, node, projection, childRun
<1>3. run' \in Terminal /\ (kind # "none" => run' = kind)
    <2>1. CASE run = "stopping"
        BY <1>0, <1>2, <2>1, KindsEnd DEF StoreOK, EndOK, StoreTyped
    <2>2. CASE run = "running"
        <3>1. kind = "none"
            BY <1>0, <2>2, KindsEnd DEF StoreOK, EndOK, StoreTyped, Terminal
        <3>2. QED
            BY <1>2, <2>2, <3>1 DEF Terminal
    <2>3. QED
        BY <1>1, <2>1, <2>2
<1>4. StoreTyped'
    BY <1>0, <1>2, <1>3 DEF StoreTyped, RunStatuses
<1>5. NodeOK' /\ EndOK' /\ ParkOK' /\ JoinFaithful'
    BY <1>0, <1>2, <1>3 DEF StoreOK, NodeOK, EndOK, ParkOK, JoinFaithful, Terminal
<1>6. ActiveChildClosed'
    BY <1>1, <1>2 DEF ActiveChildClosed
<1>7. Onward
    BY <1>2, <1>3 DEF Onward
<1>8. QED
    BY <1>0, <1>2, <1>4, <1>5, <1>6, <1>7, CommitKeeps DEF PCs, Keys, StoreOK

\* A stopping parent asks its child to stop.
LEMMA StopChildKeeps ==
    ASSUME Inv, NEW c \in Controllers, StopChild(c)
    PROVE  Inv'
<1>0. Knows(pc[c], fresh[c]) /\ StoreOK /\ StoreTyped /\ pc[c] = "cancel" /\ child \in {"accepted", "running"}
    BY TypeParts DEF Inv, PassOK, StopChild
<1>1. kind # "none"
    BY <1>0 DEF Knows, StoppingPCs
<1>2. /\ child' = "stopping" /\ childKind' = kind
      /\ handled' = handled /\ run' = run /\ kind' = kind /\ cleanup' = cleanup /\ inv' = inv /\ att' = att
      /\ call' = call /\ outcome' = outcome /\ late' = late /\ resolution' = resolution
      /\ pc' = pc /\ fresh' = fresh
    BY DEF StopChild, parent, node, projection
<1>3. TypeOK'
    BY <1>0, <1>2 DEF Inv, TypeOK, ChildStatuses
<1>4. StoreOK'
    BY <1>0, <1>1, <1>2 DEF StoreOK, NodeOK, EndOK, ParkOK, JoinFaithful, ActiveChildClosed, Terminal, ChildLive
<1>5. Onward
    BY <1>0, <1>2 DEF Onward, Terminal, ChildLive
<1>6. \A d \in Controllers : Kept(d)
    BY <1>2 DEF Kept
<1>7. QED
    BY <1>3, <1>4, <1>5, <1>6, StepOfNone

\* A stopping parent cancels the open Invocation.
LEMMA CancelKeeps ==
    ASSUME Inv, NEW c \in Controllers, CancelInvocation(c)
    PROVE  Inv'
<1>0. Knows(pc[c], fresh[c]) /\ StoreOK /\ StoreTyped /\ PassTyped /\ pc[c] = "cancel"
    BY TypeParts DEF Inv, PassOK, CancelInvocation
<1>1. kind # "none" /\ run # "waiting"
    <2>1. kind # "none" /\ run \in {"stopping", kind}
        BY <1>0 DEF Knows, StoppingPCs, StoreOK, EndOK
    <2>2. QED
        BY <1>0, <2>1, KindsEnd DEF StoreTyped, Terminal
<1>2. /\ handled' = handled /\ run' = run /\ kind' = kind /\ cleanup' = cleanup /\ att' = att
      /\ call' = call /\ outcome' = outcome /\ child' = child /\ childKind' = childKind /\ late' = late
      /\ resolution' = resolution /\ Goto(c, "reload")
    BY DEF CancelInvocation, parent, projection, childRun
<1>3. \/ inv \in InvOpen /\ inv' = "canceled" /\ fresh' = [d \in Controllers |-> fresh[d] \ {"invocation"}]
      \/ inv' = inv /\ fresh' = fresh
    BY DEF CancelInvocation
<1>4. /\ fresh' \in [Controllers -> SUBSET Keys]
      /\ \A d \in Controllers : fresh'[d] \subseteq fresh[d] /\ (inv' # inv => "invocation" \notin fresh'[d])
    BY <1>0, <1>3 DEF PassTyped
<1>5. TypeOK'
    <2>1. StoreTyped'
        BY <1>0, <1>2, <1>3 DEF StoreTyped, InvEnded
    <2>2. PassTyped'
        BY <1>0, <1>2, <1>4 DEF PassTyped, Goto, PCs
    <2>3. QED
        BY <2>1, <2>2 DEF TypeOK, StoreTyped, PassTyped
<1>6. StoreOK'
    <2>1. outcome # "none" => inv' = outcome
        BY <1>0, <1>3 DEF StoreOK, JoinFaithful, StoreTyped, InvOpen
    <2>2. NodeOK'
        BY <1>0, <1>2, <1>3 DEF StoreOK, NodeOK
    <2>3. QED
        BY <1>0, <1>1, <1>2, <2>1, <2>2 DEF StoreOK, EndOK, ParkOK, JoinFaithful, ActiveChildClosed
<1>7. Onward
    BY <1>2 DEF Onward
<1>8. \A d \in Controllers \ {c} : Kept(d)
    BY <1>0, <1>2, <1>4 DEF Kept, PassTyped, Goto
<1>9. PassOK(c)'
    <2>1. pc'[c] = "reload" /\ fresh'[c] \subseteq fresh[c]
        BY <1>0, <1>2, <1>4 DEF PassTyped, Goto
    <2>2. QED
        BY <1>0, <1>2, <2>1 DEF PassOK, Knows, StoppingPCs, ClosingPCs, JoiningPCs, RunningPCs, NodePCs, ClaimedPCs
<1>a. QED
    BY <1>5, <1>6, <1>7, <1>8, <1>9, StepOfOne

-----------------------------------------------------------------------------
(* The commits of the resolution handler.                                  *)

\* The terminal child is joined.
LEMMA JoinKeeps ==
    ASSUME Inv, NEW c \in Controllers, NEW to \in {"succeeded", "failed"}, Join(c, to)
    PROVE  Inv'
<1>0. Knows(pc[c], fresh[c]) /\ StoreOK /\ StoreTyped /\ PassTyped /\ pc[c] = "resolve" /\ Commit(c, Keys, "ack")
    BY TypeParts DEF Inv, PassOK, Join
<1>1. run = "waiting" /\ child \in Terminal /\ resolution # "none" /\ (to = "succeeded" => child = "succeeded")
    BY <1>0 DEF Knows, JoiningPCs, Commit, Keys, Join
<1>2. /\ inv' = to /\ outcome' = to /\ call' = FALSE /\ handled' = handled /\ att' = att
      /\ child' = child /\ childKind' = childKind /\ late' = late /\ resolution' = resolution
    BY DEF Join, childRun
<1>3. \/ run' = "stopping" /\ kind' = "failed" /\ cleanup' = "pending"
      \/ run' = "running" /\ kind' = kind /\ cleanup' = cleanup
    BY DEF Join, EnterStopping
<1>4. kind = "none"
    BY <1>0, <1>1, KindsEnd DEF StoreOK, EndOK, StoreTyped, Terminal
<1>5. StoreTyped'
    BY <1>0, <1>2, <1>3 DEF StoreTyped, RunStatuses, Kinds, Intents, InvEnded
<1>6. StoreOK'
    BY <1>0, <1>1, <1>2, <1>3, <1>4 DEF StoreOK, NodeOK, EndOK, ParkOK, JoinFaithful, ActiveChildClosed, Terminal
<1>7. Onward
    BY <1>1, <1>2, <1>3, <1>4 DEF Onward, Terminal
<1>8. pc'[c] = "ack"
    BY <1>0 DEF Commit, Goto, PassTyped
<1>9. PassOK(c)'
    BY <1>1, <1>2, <1>8 DEF PassOK, Knows, Decided, StoppingPCs, ClosingPCs, JoiningPCs, RunningPCs, NodePCs, ClaimedPCs
<1>a. QED
    BY <1>0, <1>5, <1>6, <1>7, <1>9, CommitKeeps DEF PCs, Keys

\* The worker completes the intent: the parent does not wait for it any more.
LEMMA AckKeeps ==
    ASSUME Inv, NEW c \in Controllers, AckResolution(c)
    PROVE  Inv'
<1>0. Knows(pc[c], fresh[c]) /\ StoreOK /\ StoreTyped /\ PassTyped /\ pc[c] = "ack"
    BY TypeParts DEF Inv, PassOK, AckResolution
<1>1. resolution # "none" /\ (kind # "none" \/ outcome # "none" \/ run \in Terminal)
    BY <1>0 DEF Knows, Decided
<1>2. run # "waiting"
    <2>1. CASE kind # "none"
        BY <1>0, <2>1, KindsEnd DEF StoreOK, EndOK, StoreTyped, Terminal
    <2>2. CASE outcome # "none"
        BY <1>0, <2>2 DEF StoreOK, ParkOK
    <2>3. CASE run \in Terminal
        BY <2>3 DEF Terminal
    <2>4. QED
        BY <1>1, <2>1, <2>2, <2>3
<1>3. /\ resolution' = "completed" /\ Goto(c, "idle") /\ fresh' = [fresh EXCEPT ![c] = {}]
      /\ handled' = handled /\ run' = run /\ kind' = kind /\ cleanup' = cleanup /\ inv' = inv /\ att' = att
      /\ call' = call /\ outcome' = outcome /\ child' = child /\ childKind' = childKind /\ late' = late
    BY DEF AckResolution, parent, node, projection, childRun
<1>4. TypeOK'
    <2>1. StoreTyped'
        BY <1>0, <1>3 DEF StoreTyped, Intents
    <2>2. PassTyped'
        BY <1>0, <1>3 DEF PassTyped, Goto, PCs
    <2>3. QED
        BY <2>1, <2>2 DEF TypeOK, StoreTyped, PassTyped
<1>5. StoreOK'
    BY <1>0, <1>1, <1>2, <1>3 DEF StoreOK, NodeOK, EndOK, ParkOK, JoinFaithful, ActiveChildClosed
<1>6. Onward
    BY <1>3 DEF Onward
<1>7. \A d \in Controllers \ {c} : Kept(d)
    BY <1>0, <1>3 DEF Kept, PassTyped, Goto
<1>8. PassOK(c)'
    <2>1. pc'[c] = "idle" /\ fresh'[c] = {}
        BY <1>0, <1>3 DEF PassTyped, Goto
    <2>2. QED
        BY <2>1 DEF PassOK, Knows, StoppingPCs, ClosingPCs, JoiningPCs, RunningPCs, NodePCs, ClaimedPCs
<1>9. QED
    BY <1>4, <1>5, <1>6, <1>7, <1>8, StepOfOne

-----------------------------------------------------------------------------
(* Operators, the cleanup intent and the child.                            *)

\* An operator stops the parent.
LEMMA RequestKeeps ==
    ASSUME Inv, NEW k \in StopKinds, RequestTermination(k)
    PROVE  Inv'
<1>0. StoreOK /\ StoreTyped /\ PassTyped /\ run \in {"running", "waiting"}
    BY TypeParts DEF Inv, RequestTermination
<1>1. k \in Kinds /\ k # "none"
    BY CallAssumption DEF Kinds
<1>2. /\ run' = "stopping" /\ kind' = k /\ cleanup' = "pending"
      /\ handled' = handled /\ inv' = inv /\ att' = att /\ call' = call /\ outcome' = outcome
      /\ child' = child /\ childKind' = childKind /\ late' = late /\ resolution' = resolution
      /\ pc' = pc /\ fresh' = [d \in Controllers |-> fresh[d] \ {"run"}]
    BY DEF RequestTermination, EnterStopping, CommitNow, node, projection, childRun
<1>3. TypeOK'
    <2>1. StoreTyped'
        BY <1>0, <1>1, <1>2 DEF StoreTyped, RunStatuses, Intents
    <2>2. PassTyped'
        BY <1>0, <1>2 DEF PassTyped
    <2>3. QED
        BY <2>1, <2>2 DEF TypeOK, StoreTyped, PassTyped
<1>4. StoreOK'
    BY <1>0, <1>1, <1>2 DEF StoreOK, NodeOK, EndOK, ParkOK, JoinFaithful, ActiveChildClosed, Terminal
<1>5. Onward
    BY <1>0, <1>1, <1>2 DEF Onward, Terminal
<1>6. \A d \in Controllers : Kept(d)
    BY <1>0, <1>2 DEF Kept, PassTyped
<1>7. QED
    BY <1>3, <1>4, <1>5, <1>6, StepOfNone

\* The cleanup intent of the parent is completed.
LEMMA CleanupKeeps ==
    ASSUME Inv, AckCleanup
    PROVE  Inv'
<1>1. /\ handled' = handled /\ run' = run /\ kind' = kind /\ cleanup' = "completed" /\ inv' = inv /\ att' = att
      /\ call' = call /\ outcome' = outcome /\ child' = child /\ childKind' = childKind /\ late' = late
      /\ resolution' = resolution /\ pc' = pc /\ fresh' = fresh
    BY DEF AckCleanup, node, projection, childRun
<1>2. TypeOK'
    BY <1>1 DEF Inv, TypeOK, Intents
<1>3. StoreOK'
    BY <1>1 DEF Inv, StoreOK, NodeOK, EndOK, ParkOK, JoinFaithful, ActiveChildClosed
<1>4. Onward
    BY <1>1 DEF Onward
<1>5. \A d \in Controllers : Kept(d)
    BY <1>1 DEF Kept
<1>6. QED
    BY <1>2, <1>3, <1>4, <1>5, StepOfNone

\* The child lives its own life.
LEMMA ChildKeeps ==
    ASSUME Inv, NEW to \in ChildStatuses, NEW k \in Kinds, ChildMoves(to, k), child \in ChildLive,
           to # "none", to = "stopping" => k # "none"
    PROVE  Inv'
<1>0. StoreOK /\ StoreTyped
    BY TypeParts DEF Inv
<1>1. /\ handled' = handled /\ run' = run /\ kind' = kind /\ cleanup' = cleanup /\ inv' = inv /\ att' = att
      /\ call' = call /\ outcome' = outcome /\ child' = to /\ childKind' = k /\ late' = late
      /\ resolution' = resolution /\ pc' = pc /\ fresh' = fresh
    BY DEF ChildMoves, parent, node, projection
<1>2. TypeOK'
    BY <1>1 DEF Inv, TypeOK
<1>3. child \notin Terminal /\ child # "none"
    BY DEF ChildLive, Terminal
<1>4. StoreOK'
    BY <1>0, <1>1, <1>3 DEF StoreOK, NodeOK, EndOK, ParkOK, JoinFaithful, ActiveChildClosed, Terminal
<1>5. Onward
    BY <1>1, <1>3 DEF Onward
<1>6. \A d \in Controllers : Kept(d)
    BY <1>1 DEF Kept
<1>7. QED
    BY <1>2, <1>4, <1>5, <1>6, StepOfNone

\* Every step of the child's own.
LEMMA ChildStepsKeep ==
    ASSUME Inv, \/ StartChild \/ SucceedChild \/ FailChild \/ CloseChild
                \/ \E k \in StopKinds : RequestChildTermination(k)
    PROVE  Inv'
<1>0. StoreOK /\ StoreTyped
    BY TypeParts DEF Inv
<1>1. CASE StartChild
    BY <1>1, ChildKeeps DEF StartChild, ChildLive, ChildStatuses, Kinds
<1>2. CASE SucceedChild
    BY <1>2, ChildKeeps DEF SucceedChild, ChildLive, ChildStatuses, Kinds, Terminal
<1>3. CASE FailChild
    BY <1>3, ChildKeeps DEF FailChild, ChildLive, ChildStatuses, Kinds
<1>4. CASE CloseChild
    <2>1. child = "stopping" /\ ChildMoves(childKind, childKind)
        BY <1>4 DEF CloseChild
    <2>2. childKind \in Kinds /\ childKind # "none"
        BY <1>0, <2>1 DEF StoreOK, EndOK, StoreTyped
    <2>3. childKind \in Terminal
        BY <2>2, KindsEnd
    <2>4. QED
        BY <2>1, <2>2, <2>3, ChildKeeps DEF ChildLive, ChildStatuses
<1>5. ASSUME NEW k \in StopKinds, RequestChildTermination(k)
      PROVE  Inv'
    <2>1. k \in Kinds /\ k # "none"
        BY CallAssumption DEF Kinds
    <2>2. QED
        BY <1>5, <2>1, ChildKeeps DEF RequestChildTermination, ChildLive, ChildStatuses
<1>6. QED
    BY <1>1, <1>2, <1>3, <1>4, <1>5

-----------------------------------------------------------------------------
(* The theorems.                                                           *)

\* Nothing has happened at first.
LEMMA InitInv == Init => Inv
<1> SUFFICES ASSUME Init PROVE Inv
    OBVIOUS
<1>1. TypeOK
    <2>1. handled \in BOOLEAN /\ call \in BOOLEAN /\ late \in BOOLEAN
        BY Zenon DEF Init
    <2>2. att \in 0..MaxAttempts
        BY CallAssumption DEF Init
    <2>3. run \in RunStatuses /\ kind \in Kinds /\ childKind \in Kinds
        BY Zenon DEF Init, RunStatuses, Kinds
    <2>4. cleanup \in Intents /\ resolution \in Intents /\ child \in ChildStatuses
        BY Zenon DEF Init, Intents, ChildStatuses
    <2>5. inv \in {"absent"} \cup InvOpen \cup InvEnded /\ outcome \in {"none", "succeeded", "failed"}
        BY Zenon DEF Init
    <2>6. StoreTyped
        BY <2>1, <2>2, <2>3, <2>4, <2>5, Zenon DEF StoreTyped
    <2>7. PassTyped
        BY DEF Init, PassTyped, PCs
    <2>8. QED
        BY <2>6, <2>7, TypeParts
<1>2. StoreOK
    BY DEF Init, StoreOK, NodeOK, EndOK, ParkOK, JoinFaithful, ActiveChildClosed, Terminal
<1>3. ASSUME NEW c \in Controllers
      PROVE  PassOK(c)
    <2>1. pc[c] = "idle" /\ fresh[c] = {}
        BY DEF Init
    <2>2. QED
        BY <2>1 DEF PassOK, Knows, StoppingPCs, ClosingPCs, JoiningPCs, RunningPCs, NodePCs, ClaimedPCs
<1>4. QED
    BY <1>1, <1>2, <1>3 DEF Inv

\* Every step keeps the invariant.
LEMMA NextInv == Inv /\ [Next]_vars => Inv'
<1> SUFFICES ASSUME Inv, [Next]_vars PROVE Inv'
    OBVIOUS
<1>1. ASSUME NEW c \in Controllers, DriveStep(c)
      PROVE  Inv'
    BY <1>1, DriveReadsKeep, ClaimsKeep, NodeFailureKeeps, AdmitKeeps, ParkKeeps, PublishKeeps,
        StopChildKeeps, CancelKeeps DEF DriveStep
<1>2. ASSUME NEW c \in Controllers, HandlerStep(c) \/ Abandon(c)
      PROVE  Inv'
    BY <1>2, HandlerReadsKeep, JoinKeeps, AckKeeps DEF HandlerStep
<1>3. CASE UNCHANGED vars
    BY <1>3 DEF vars, store, parent, node, projection, childRun, Inv, TypeOK, StoreOK, NodeOK, EndOK, ParkOK,
        JoinFaithful, ActiveChildClosed, PassOK, Knows, Decided
<1>4. QED
    BY <1>1, <1>2, <1>3, RequestKeeps, CleanupKeeps, ChildStepsKeep DEF Next

\* The aggregates of the parent, the child and every pass of Drive and of the
\* resolution handler fit together (executeClaimedActionCall, ResolveActionCall).
THEOREM InvHolds == Spec => []Inv
BY InitInv, NextInv, PTL DEF Spec

\* A parked parent can be woken: its child exists and the intent that joins it
\* is open (commitWaiting).
THEOREM ParkedCanBeWoken == Spec => []ParkedIsWoken
<1>1. Inv => ParkedIsWoken
    BY DEF Inv, StoreOK, ParkOK, ParkedIsWoken
<1>2. QED
    BY <1>1, InvHolds, PTL

\* The parent records what its child did (ResolveActionCall).
THEOREM RecordsTheChild == Spec => []JoinFaithful
<1>1. Inv => JoinFaithful
    BY DEF Inv, StoreOK
<1>2. QED
    BY <1>1, InvHolds, PTL

\* Only a child that came too late for its call outlives the parent
\* (terminateOpenChildren, deriveOwnershipClosure).
THEOREM NoChildOutlives == Spec => []ActiveChildClosed
<1>1. Inv => ActiveChildClosed
    BY DEF Inv, StoreOK
<1>2. QED
    BY <1>1, InvHolds, PTL

\* What becomes of the child in one step.
ChildGoesOn ==
    /\ child # "none" => child' # "none"
    /\ child \notin {"none", "accepted"} => child' # "accepted"
    /\ child \in Terminal => child' = child

\* A step of Drive changes the child only by admitting it or by stopping it.
LEMMA DriveAndChild ==
    ASSUME NEW c \in Controllers, DriveStep(c)
    PROVE  \/ child' = child
           \/ child = "none" /\ child' = "accepted"
           \/ child \in {"accepted", "running"} /\ child' = "stopping"
<1>1. CASE \/ LoadRun(c) \/ LoadSnapshot(c) \/ LoadInvocation(c) \/ CheckParent(c) \/ CheckInvocation(c)
           \/ ReloadSnapshot(c) \/ CheckIntents(c) \/ ListInvocations(c) \/ ListChildren(c)
    <2>1. UNCHANGED store
        BY <1>1, Zenon DEF LoadRun, LoadSnapshot, LoadInvocation, CheckParent, CheckInvocation, ReloadSnapshot,
            CheckIntents, ListInvocations, ListChildren, Read
    <2>2. QED
        BY <2>1 DEF store, childRun
<1>2. CASE ActivateInvocation(c) \/ ClaimInvocation(c) \/ ExpireForRetry(c) \/ ParkCall(c) \/ PublishTerminal(c)
    BY <1>2 DEF ActivateInvocation, ClaimInvocation, ExpireForRetry, ParkCall, PublishTerminal, childRun
<1>3. CASE ExpireForGood(c) \/ FailCall(c) \/ CancelInvocation(c)
    BY <1>3 DEF ExpireForGood, FailCall, CommitNodeFailure, CancelInvocation, childRun
<1>4. CASE AdmitChild(c) \/ StopChild(c)
    BY <1>4 DEF AdmitChild, StopChild
<1>5. QED
    BY <1>1, <1>2, <1>3, <1>4 DEF DriveStep

\* The call is made once: attempts after a crash find the same child, which
\* starts once and whose end is final (invokeChild).
THEOREM CallMadeOnce == Spec => ChildRunsOnce
<1>1. ASSUME Inv, [Next]_vars
      PROVE  ChildGoesOn
    <2>0. StoreOK /\ StoreTyped
        BY <1>1, TypeParts DEF Inv
    <2>1. ASSUME NEW c \in Controllers, DriveStep(c)
          PROVE  ChildGoesOn
        BY <2>1, DriveAndChild DEF ChildGoesOn, Terminal
    <2>2. ASSUME NEW c \in Controllers, HandlerStep(c) \/ Abandon(c)
          PROVE  child' = child
        <3>1. CASE LoadChild(c) \/ LoadParent(c) \/ LoadWait(c) \/ LoadCallInvocation(c) \/ Abandon(c)
            BY <3>1 DEF LoadChild, LoadParent, LoadWait, LoadCallInvocation, Abandon, Read, store, childRun
        <3>2. ASSUME NEW to \in {"succeeded", "failed"}, Join(c, to)
              PROVE  child' = child
            BY <3>2 DEF Join, childRun
        <3>3. CASE AckResolution(c)
            BY <3>3 DEF AckResolution, childRun
        <3>4. QED
            BY <2>2, <3>1, <3>2, <3>3 DEF HandlerStep
    <2>3. ASSUME NEW k \in StopKinds, RequestTermination(k) \/ RequestChildTermination(k)
          PROVE  ChildGoesOn
        BY <2>3 DEF RequestTermination, RequestChildTermination, ChildMoves, childRun, ChildGoesOn, Terminal
    <2>4. CASE AckCleanup \/ StartChild \/ SucceedChild \/ FailChild
        BY <2>4 DEF AckCleanup, StartChild, SucceedChild, FailChild, ChildMoves, childRun, ChildGoesOn, Terminal
    <2>5. CASE CloseChild
        <3>1. child = "stopping" /\ child' = childKind
            BY <2>5 DEF CloseChild, ChildMoves
        <3>2. childKind \in Terminal
            BY <2>0, <3>1, KindsEnd DEF StoreOK, EndOK, StoreTyped
        <3>3. QED
            BY <3>1, <3>2 DEF ChildGoesOn, Terminal
    <2>6. CASE UNCHANGED vars
        BY <2>6 DEF vars, store, childRun, ChildGoesOn
    <2>7. child' = child => ChildGoesOn
        BY DEF ChildGoesOn
    <2>8. QED
        BY <1>1, <2>1, <2>2, <2>3, <2>4, <2>5, <2>6, <2>7 DEF Next
<1>2. Inv /\ [Next]_vars => [ChildGoesOn]_vars
    BY <1>1
<1>3. QED
    BY <1>2, InvHolds, PTL DEF Spec, ChildRunsOnce, ChildGoesOn
=============================================================================
