----------------------------- MODULE RunControl -----------------------------
(***************************************************************************)
(* One Run driven by several controller processes over one durable store:  *)
(* controller/drive.go, failure.go, termination.go, compensation.go,       *)
(* waits.go, retry.go and the projections of controller.go.                *)
(*                                                                         *)
(* The store only offers single-aggregate reads and a multi-aggregate      *)
(* compare-and-swap.  A controller therefore reads the Run, the Snapshot   *)
(* and an Invocation one after the other, computes for as long as it       *)
(* likes, and commits if the aggregates it NAMES in the commit still have  *)
(* the revisions it read.  `fresh[c]' is the set of aggregates whose       *)
(* stored revision is still the one c read; every commit takes the         *)
(* aggregates it writes out of everybody else's set.  A commit names its   *)
(* own aggregates only: what a controller read and does not name may be    *)
(* arbitrarily old.  A command whose every read is named by its commit is  *)
(* a single step.                                                          *)
(*                                                                         *)
(* A lost compare-and-swap, an error return and a crash all leave the      *)
(* store alone and the controller idle: Abandon.                           *)
(***************************************************************************)
EXTENDS Naturals

CONSTANTS
    Controllers,     \* controller processes that drive the Run
    N,               \* nodes of the entrypoint, in stable topological order
    Edges,           \* the plan's edges: <<from, condition, to>>
    Policy,          \* per node: "plain", or the compensation policy of its owned Effect
    Compensated,     \* nodes whose descriptor names a compensation (CompensationTypeRef)
    Retryable,       \* nodes that may be executed again after a lost lease
    MaxAttempts,     \* NodeRetryPolicy.MaxAttempts
    MaxBegins,       \* bound: dispatches of one Effect
    StopKinds,       \* the terminations an operator may request
    EffectOutcomes,  \* how a provider may end an Effect
    CompOutcomes     \* how a provider may end a compensation

Nodes == 1..N
Conditions == {"success", "failure", "always"}
Policies == {"plain", "none", "required", "best-effort"}

ASSUME PlanAssumption ==
    /\ N \in Nat \ {0}
    /\ Edges \subseteq Nodes \X Conditions \X Nodes
    /\ \A e \in Edges : e[1] < e[3]
    /\ Policy \in [Nodes -> Policies]
    /\ Compensated \subseteq Nodes
    /\ Retryable \subseteq Nodes
    /\ MaxAttempts \in Nat \ {0}
    /\ MaxBegins \in Nat \ {0}
    /\ StopKinds \subseteq {"stopped", "canceled"}
    /\ EffectOutcomes \subseteq {"applied", "failed", "uncertain"}
    /\ CompOutcomes \subseteq {"succeeded", "failed"}

VARIABLES
    run,          \* Run.Status
    termination,  \* Run.Termination.Kind, "none" while it is nil
    snap,         \* the RunSnapshot: position, node outcomes, wait projection
    inv,          \* per node: Invocation.Status, "absent" before activation
    att,          \* per node: ExecutionAttemptCount
    eff,          \* per node: state of the Effect its Invocation proposed
    begins,       \* per node: how often the Effect was dispatched
    comp,         \* per node: compensation state of that Effect
    resolution,   \* per node: the wait-resolution intent of that Effect
    cleanup,      \* the Run's own cleanup intent
    graph,        \* is there an ownership graph?
    pc,           \* per controller: how far its Drive has come
    seen,         \* per controller: the Snapshot it read
    todo,         \* per controller: the aggregates it listed and has to close
    fresh         \* per controller: the aggregates unchanged since it read them

store == <<run, termination, snap, inv, att, eff, begins, comp, resolution, cleanup, graph>>
local == <<pc, seen, todo, fresh>>
vars == <<store, local>>

RunTerminal == {"succeeded", "failed", "stopped", "canceled"}
RunStatuses == {"accepted", "running", "waiting", "stopping"} \cup RunTerminal

InvOpen == {"ready", "running", "waiting", "retry-wait"}
InvTerminal == {"succeeded", "failed", "skipped", "canceled"}

EffTerminal == {"applied", "failed", "uncertain", "canceled"}
EffStates == {"none", "prepared", "applying"} \cup EffTerminal

IntentStates == {"none", "pending", "completed"}

\* The three wait projections of a Snapshot are exclusive; ActionCall waits
\* are not part of this module.
Projection == [kind : {"none", "waiting", "retry"}, ordinal : Nat]
NoProjection == [kind |-> "none", ordinal |-> 0]
Outcomes == {"none", "succeeded", "failed", "skipped"}
Snapshot == [next : 1..(N + 1), outcome : [Nodes -> Outcomes], proj : Projection]
Blank == [next |-> 1, outcome |-> [n \in Nodes |-> "none"], proj |-> NoProjection]

RunKey == <<"run", 0>>
SnapKey == <<"snapshot", 0>>
InvKey(n) == <<"invocation", n>>
EffKey(n) == <<"effect", n>>
Keys == {RunKey, SnapKey} \cup {InvKey(n) : n \in Nodes} \cup {EffKey(n) : n \in Nodes}

PCs == {"idle", "loaded", "node", "invocation", "claimed", "done", "stop", "cancel",
        "effects", "compensate", "schedule", "cleanup-failed", "settle", "close", "publish"}

-----------------------------------------------------------------------------
(* The store.                                                              *)

\* A commit of controller c that names and writes `keys', in the middle of c's
\* work: c goes on at `at', knowing the revisions it wrote.
Commit(c, keys, at) ==
    /\ keys \subseteq fresh[c]
    /\ pc' = [pc EXCEPT ![c] = at]
    /\ fresh' = [d \in Controllers |-> IF d = c THEN fresh[c] ELSE fresh[d] \ keys]

\* The last commit of c's pass: it forgets what it read and starts again.
CommitAndReturn(c, keys) ==
    /\ keys \subseteq fresh[c]
    /\ pc' = [pc EXCEPT ![c] = "idle"]
    /\ seen' = [seen EXCEPT ![c] = Blank]
    /\ todo' = [todo EXCEPT ![c] = {}]
    /\ fresh' = [d \in Controllers |-> IF d = c THEN {} ELSE fresh[d] \ keys]

\* A commit of a process that keeps nothing in memory.
CommitNow(keys) ==
    /\ fresh' = [d \in Controllers |-> fresh[d] \ keys]
    /\ UNCHANGED <<pc, seen, todo>>

\* A read: c learns the current revision of `keys'.
Read(c, keys, at) ==
    /\ pc' = [pc EXCEPT ![c] = at]
    /\ fresh' = [fresh EXCEPT ![c] = @ \cup keys]
    /\ UNCHANGED store

-----------------------------------------------------------------------------
(* The Snapshot: routing and the checks GetSnapshot makes on every read.   *)

EdgeMatches(e, outcome) ==
    \/ e[2] \in {"success", "always"} /\ outcome = "succeeded"
    \/ e[2] \in {"failure", "always"} /\ outcome = "failed"

\* currentNodeDisposition: every incoming edge has to match.
NodeReady(s) ==
    \A e \in Edges : e[3] = s.next => EdgeMatches(e, s.outcome[e[1]])

\* failureHandled: does some outgoing edge accept the failure of n?
FailureHandled(n) == \E e \in Edges : e[1] = n /\ EdgeMatches(e, "failed")

\* recordSucceededNode, recordFailedNode.
Recorded(s, outcome) ==
    [next |-> s.next + 1, outcome |-> [s.outcome EXCEPT ![s.next] = outcome],
     proj |-> NoProjection]

\* recordSkippedNode leaves the projections alone.
RecordedSkip(s) ==
    [next |-> s.next + 1, outcome |-> [s.outcome EXCEPT ![s.next] = "skipped"],
     proj |-> s.proj]

Projected(s, kind, ordinal) ==
    [next |-> s.next, outcome |-> s.outcome, proj |-> [kind |-> kind, ordinal |-> ordinal]]

Unprojected(s) == [next |-> s.next, outcome |-> s.outcome, proj |-> NoProjection]

\* validateSnapshotRunState.
ProjectionFitsRun ==
    /\ run = "waiting" => snap.proj.kind # "none"
    /\ run \in {"accepted", "running"} \cup RunTerminal => snap.proj.kind = "none"

\* validateSnapshotWaitingOccurrence, validateSnapshotRetryWait.
ProjectionFitsInvocation ==
    LET n == snap.next IN
    /\ snap.proj.kind = "waiting" =>
          n \in Nodes /\ inv[n] = "waiting" /\ att[n] = snap.proj.ordinal
    /\ snap.proj.kind = "retry" =>
          n \in Nodes /\ inv[n] = "retry-wait" /\ att[n] = snap.proj.ordinal

\* validateRunSnapshot: the outcomes are exactly a prefix of the node order.
OutcomePrefix == \A n \in Nodes : snap.outcome[n] # "none" <=> n < snap.next

\* GetSnapshot: anything else is reported as durable corruption.
Readable == ProjectionFitsRun /\ ProjectionFitsInvocation /\ OutcomePrefix

-----------------------------------------------------------------------------
(* TransitionRun: the Run's status and what it freezes with it.            *)

\* To stopping: the termination is frozen and a cleanup intent is emitted.
EnterStopping(kind) ==
    /\ run' = "stopping"
    /\ termination' = kind
    /\ cleanup' = "pending"

KeepRun == UNCHANGED <<run, termination, cleanup>>

Move(to) == run' = to /\ UNCHANGED <<termination, cleanup>>

-----------------------------------------------------------------------------
(* Drive: from reading the Run to claiming the current node.               *)

Init ==
    /\ run = "accepted"
    /\ termination = "none"
    /\ snap = Blank
    /\ inv = [n \in Nodes |-> "absent"]
    /\ att = [n \in Nodes |-> 0]
    /\ eff = [n \in Nodes |-> "none"]
    /\ begins = [n \in Nodes |-> 0]
    /\ comp = [n \in Nodes |-> "unscheduled"]
    /\ resolution = [n \in Nodes |-> "none"]
    /\ cleanup = "none"
    /\ graph = FALSE
    /\ pc = [c \in Controllers |-> "idle"]
    /\ seen = [c \in Controllers |-> Blank]
    /\ todo = [c \in Controllers |-> {}]
    /\ fresh = [c \in Controllers |-> {}]

\* The accepted Run is started.
StartRun ==
    /\ run = "accepted"
    /\ Readable
    /\ Move("running")
    /\ CommitNow({RunKey})
    /\ UNCHANGED <<snap, inv, att, eff, begins, comp, resolution, graph>>

\* resumeRetryWait, once the retry is due.
ResumeRetryWait ==
    /\ run = "waiting"
    /\ Readable
    /\ snap.proj.kind = "retry"
    /\ Move("running")
    /\ snap' = Unprojected(snap)
    /\ CommitNow({RunKey, SnapKey})
    /\ UNCHANGED <<inv, att, eff, begins, comp, resolution, graph>>

LoadRun(c) ==
    /\ pc[c] = "idle"
    /\ \/ run = "running" /\ Read(c, {RunKey}, "loaded")
       \/ run = "stopping" /\ Read(c, {RunKey}, "stop")
    /\ UNCHANGED <<seen, todo>>

\* GetSnapshot reads the Run again, but the Drive goes on with the older one.
LoadSnapshot(c) ==
    /\ pc[c] = "loaded"
    /\ Readable
    /\ Read(c, {SnapKey}, IF snap.next > N THEN "done" ELSE "node")
    /\ seen' = [seen EXCEPT ![c] = snap]
    /\ UNCHANGED todo

LoadInvocation(c) ==
    /\ pc[c] = "node"
    /\ Read(c, {InvKey(seen[c].next)}, "invocation")
    /\ UNCHANGED <<seen, todo>>

\* A controller at the invocation it read, which nobody has changed since.
AtInvocation(c, n, status) ==
    /\ pc[c] = "invocation"
    /\ n = seen[c].next
    /\ inv[n] = status
    /\ InvKey(n) \in fresh[c]

\* MUTANT of ActivateInvocation: the node behind the current one is activated.
ActivateNextInvocation(c, n) ==
    /\ AtInvocation(c, n, "absent")
    /\ inv' = [m \in Nodes |-> IF m \in {n, n + 1} THEN "ready" ELSE inv[m]]
    /\ CommitAndReturn(c, {InvKey(n)})
    /\ KeepRun
    /\ UNCHANGED <<snap, att, eff, begins, comp, resolution, graph>>

\* The node's Invocation is created; the commit names nothing but itself.
ActivateInvocation(c, n) ==
    /\ AtInvocation(c, n, "absent")
    /\ inv' = [inv EXCEPT ![n] = "ready"]
    /\ CommitAndReturn(c, {InvKey(n)})
    /\ KeepRun
    /\ UNCHANGED <<snap, att, eff, begins, comp, resolution, graph>>

SkipNode(c, n) ==
    /\ AtInvocation(c, n, "ready")
    /\ ~NodeReady(seen[c])
    /\ inv' = [inv EXCEPT ![n] = "skipped"]
    /\ snap' = RecordedSkip(seen[c])
    /\ CommitAndReturn(c, {InvKey(n), SnapKey})
    /\ KeepRun
    /\ UNCHANGED <<att, eff, begins, comp, resolution, graph>>

ClaimInvocation(c, n) ==
    /\ AtInvocation(c, n, "ready") \/ AtInvocation(c, n, "retry-wait")
    /\ NodeReady(seen[c])
    /\ inv' = [inv EXCEPT ![n] = "running"]
    /\ att' = [att EXCEPT ![n] = @ + 1]
    /\ Commit(c, {InvKey(n)}, "claimed")
    /\ KeepRun
    /\ UNCHANGED <<snap, eff, begins, comp, resolution, graph, seen, todo>>

MayRetryLost(n) == att[n] < MaxAttempts /\ n \in Retryable

\* MUTANT of ExpireForRetry: a waiting invocation is taken for a lost worker's.
ExpireWaitingForRetry(c, n) ==
    /\ AtInvocation(c, n, "running") \/ AtInvocation(c, n, "waiting")
    /\ NodeReady(seen[c])
    /\ MayRetryLost(n)
    /\ inv' = [inv EXCEPT ![n] = "ready"]
    /\ CommitAndReturn(c, {InvKey(n)})
    /\ KeepRun
    /\ UNCHANGED <<snap, att, eff, begins, comp, resolution, graph>>

\* The lease of somebody else's attempt has run out; the node may run again.
ExpireForRetry(c, n) ==
    /\ AtInvocation(c, n, "running")
    /\ NodeReady(seen[c])
    /\ MayRetryLost(n)
    /\ inv' = [inv EXCEPT ![n] = "ready"]
    /\ CommitAndReturn(c, {InvKey(n)})
    /\ KeepRun
    /\ UNCHANGED <<snap, att, eff, begins, comp, resolution, graph>>

-----------------------------------------------------------------------------
(* executeClaimed: what becomes of the attempt.  The node runs between the *)
(* claim and these commits.                                                *)

AtClaim(c, n) == pc[c] = "claimed" /\ n = seen[c].next

\* The result commit names the Invocation and the Snapshot, not the Run.
CompleteNode(c, n) ==
    /\ AtClaim(c, n)
    /\ inv' = [inv EXCEPT ![n] = "succeeded"]
    /\ snap' = Recorded(seen[c], "succeeded")
    /\ CommitAndReturn(c, {InvKey(n), SnapKey})
    /\ KeepRun
    /\ UNCHANGED <<att, eff, begins, comp, resolution, graph>>

\* MUTANT of WaitForEffect: the commit does not name the Run.
WaitForEffectUnfenced(c, n) ==
    /\ AtClaim(c, n)
    /\ Policy[n] # "plain" /\ eff[n] = "none"
    /\ inv' = [inv EXCEPT ![n] = "waiting"]
    /\ snap' = Projected(seen[c], "waiting", att[n])
    /\ Move("waiting")
    /\ eff' = [eff EXCEPT ![n] = "prepared"]
    /\ CommitAndReturn(c, {InvKey(n), SnapKey})
    /\ UNCHANGED <<att, begins, comp, resolution, graph>>

\* commitWaiting: the node proposed an Effect and waits for it.
WaitForEffect(c, n) ==
    /\ AtClaim(c, n)
    /\ Policy[n] # "plain" /\ eff[n] = "none"
    /\ seen[c].proj.kind = "none"
    /\ inv' = [inv EXCEPT ![n] = "waiting"]
    /\ snap' = Projected(seen[c], "waiting", att[n])
    /\ Move("waiting")
    /\ eff' = [eff EXCEPT ![n] = "prepared"]
    /\ CommitAndReturn(c, {RunKey, InvKey(n), SnapKey})
    /\ UNCHANGED <<att, begins, comp, resolution, graph>>

\* scheduleClaimedRetry after a transient failure.
ScheduleRetry(c, n) ==
    /\ AtClaim(c, n)
    /\ att[n] < MaxAttempts
    /\ inv' = [inv EXCEPT ![n] = "retry-wait"]
    /\ snap' = Projected(seen[c], "retry", att[n])
    /\ Move("waiting")
    /\ CommitAndReturn(c, {RunKey, InvKey(n), SnapKey})
    /\ UNCHANGED <<att, eff, begins, comp, resolution, graph>>

\* MUTANT of FailNode: the failure is stored, the position is not advanced.
FailNodeUnrecorded(c, n) ==
    /\ \/ AtClaim(c, n)
       \/ AtInvocation(c, n, "running") /\ NodeReady(seen[c]) /\ ~MayRetryLost(n)
    /\ inv' = [inv EXCEPT ![n] = "failed"]
    /\ snap' = [next |-> n, outcome |-> [seen[c].outcome EXCEPT ![n] = "failed"],
                proj |-> NoProjection]
    /\ \/ FailureHandled(n) /\ KeepRun /\ CommitAndReturn(c, {InvKey(n), SnapKey})
       \/ /\ ~FailureHandled(n)
          /\ EnterStopping("failed")
          /\ CommitAndReturn(c, {RunKey, InvKey(n), SnapKey})
    /\ UNCHANGED <<att, eff, begins, comp, resolution, graph>>

\* commitTerminalNodeFailure: of a claimed attempt, or of one whose worker is
\* lost and that may not run again.  An unhandled failure stops the Run.
FailNode(c, n) ==
    /\ \/ AtClaim(c, n)
       \/ AtInvocation(c, n, "running") /\ NodeReady(seen[c]) /\ ~MayRetryLost(n)
    /\ inv' = [inv EXCEPT ![n] = "failed"]
    /\ snap' = Recorded(seen[c], "failed")
    /\ \/ FailureHandled(n) /\ KeepRun /\ CommitAndReturn(c, {InvKey(n), SnapKey})
       \/ /\ ~FailureHandled(n)
          /\ EnterStopping("failed")
          /\ CommitAndReturn(c, {RunKey, InvKey(n), SnapKey})
    /\ UNCHANGED <<att, eff, begins, comp, resolution, graph>>

\* beginFailure: the inputs or the result do not resolve, or a compensation
\* failed at the end of a Run that would have succeeded.
BeginFailure(c) ==
    /\ \/ pc[c] = "node" /\ NodeReady(seen[c])
       \/ pc[c] \in {"done", "cleanup-failed"}
    /\ EnterStopping("failed")
    /\ snap' = seen[c]
    /\ CommitAndReturn(c, {RunKey, SnapKey})
    /\ UNCHANGED <<inv, att, eff, begins, comp, resolution, graph>>

-----------------------------------------------------------------------------
(* finalizeStoppingRun and succeedRun.                                     *)

\* cancelOpenInvocations reads the Snapshot and lists the open Invocations.
ListInvocations(c) ==
    LET open == {n \in Nodes : inv[n] \in InvOpen} IN
    /\ pc[c] = "stop"
    /\ Readable
    /\ Read(c, {SnapKey} \cup {InvKey(n) : n \in open}, "cancel")
    /\ seen' = [seen EXCEPT ![c] = snap]
    /\ todo' = [todo EXCEPT ![c] = open]

\* One Invocation of the list is canceled, with its ordinary wait if it has one.
CancelInvocation(c, n) ==
    LET waits == seen[c].proj.kind = "waiting" /\ seen[c].next = n
        keys == IF waits THEN {InvKey(n), SnapKey} ELSE {InvKey(n)} IN
    /\ pc[c] = "cancel"
    /\ n \in todo[c]
    /\ inv' = [inv EXCEPT ![n] = "canceled"]
    /\ snap' = IF waits THEN Unprojected(seen[c]) ELSE snap
    /\ seen' = [seen EXCEPT ![c] = IF waits THEN Unprojected(seen[c]) ELSE seen[c]]
    /\ todo' = [todo EXCEPT ![c] = @ \ {n}]
    /\ Commit(c, keys, "cancel")
    /\ KeepRun
    /\ UNCHANGED <<att, eff, begins, comp, resolution, graph>>

\* cancelPreparedEffects lists, then cancels one by one.
ListEffects(c) ==
    LET open == {n \in Nodes : eff[n] = "prepared"} IN
    /\ pc[c] = "cancel"
    /\ todo[c] = {}
    /\ Read(c, {EffKey(n) : n \in open}, "effects")
    /\ todo' = [todo EXCEPT ![c] = open]
    /\ UNCHANGED seen

CancelEffect(c, n) ==
    /\ pc[c] = "effects"
    /\ n \in todo[c]
    /\ eff' = [eff EXCEPT ![n] = "canceled"]
    /\ todo' = [todo EXCEPT ![c] = @ \ {n}]
    /\ Commit(c, {EffKey(n)}, "effects")
    /\ KeepRun
    /\ UNCHANGED <<snap, inv, att, begins, comp, resolution, graph, seen>>

\* The Snapshot is read again; an ordinary wait must be gone.
ReloadSnapshot(c) ==
    /\ pc[c] = "effects"
    /\ todo[c] = {}
    /\ Readable
    /\ snap.proj.kind # "waiting"
    /\ Read(c, {SnapKey}, "compensate")
    /\ seen' = [seen EXCEPT ![c] = snap]
    /\ UNCHANGED todo

\* MUTANT of Compensatable: an Effect whose outcome is not known is included.
CompensatableEarly(n) ==
    eff[n] \in {"applying", "applied"} /\ Policy[n] \in {"required", "best-effort"}

Compensatable(n) == eff[n] = "applied" /\ Policy[n] \in {"required", "best-effort"}

\* scheduleNextEffectCompensation: which Effect is next, if any?
ChooseCompensation(c) ==
    LET busy == \E n \in Nodes : Compensatable(n) /\ comp[n] = "pending"
        failed == \E n \in Nodes : Compensatable(n) /\ comp[n] = "failed"
        next == {n \in Nodes : Compensatable(n) /\ comp[n] = "unscheduled"}
        last == CHOOSE n \in next : \A m \in next : m <= n
        stopping == pc[c] = "compensate" IN
    /\ pc[c] \in {"done", "compensate"}
    /\ \/ /\ ~busy /\ next # {}
          /\ Read(c, {EffKey(last)}, "schedule")
          /\ todo' = [todo EXCEPT ![c] = {last}]
       \/ /\ busy \/ next = {}
          /\ stopping
          /\ Read(c, {}, "settle")
          /\ UNCHANGED todo
       \/ /\ busy \/ next = {}
          /\ ~stopping
          \* Listing stops at the first busy Effect, before or after a failed one.
          /\ \/ failed /\ Read(c, {}, "cleanup-failed")
             \/ (failed => busy) /\ Read(c, {}, "close")
          /\ UNCHANGED todo
    /\ UNCHANGED seen

ScheduleCompensation(c, n) ==
    /\ pc[c] = "schedule"
    /\ n \in todo[c]
    /\ comp' = [comp EXCEPT ![n] = "pending"]
    /\ CommitAndReturn(c, {EffKey(n)})
    /\ KeepRun
    /\ UNCHANGED <<snap, inv, att, eff, begins, resolution, graph>>

\* terminationIntentsSettled.
CheckIntents(c) ==
    /\ pc[c] = "settle"
    /\ cleanup = "completed"
    /\ \A n \in Nodes : eff[n] \in EffTerminal \ {"canceled"} => resolution[n] = "completed"
    /\ Read(c, {}, "close")
    /\ UNCHANGED <<seen, todo>>

\* Is the CompensationStatus of n's ended Invocation terminal?  It starts as
\* unscheduled when the node is Compensatable, a skip and a cancellation end it,
\* and nothing schedules it for an Invocation that was executed.
CompensationOver(n) == n \in Compensated => inv[n] \in {"absent", "skipped", "canceled"}

\* MUTANT of Closed: a failed compensation closes a required one too.
ClosedFailed ==
    /\ \A n \in Nodes : inv[n] \notin InvOpen /\ CompensationOver(n)
    /\ \A n \in Nodes : eff[n] \in {"none", "applied", "failed", "canceled"}
    /\ \A n \in Nodes : Compensatable(n) => comp[n] \notin {"unscheduled", "pending"}

\* MUTANT of Closed: a failed best-effort compensation is waited for too.
ClosedSucceeded ==
    /\ \A n \in Nodes : inv[n] \notin InvOpen /\ CompensationOver(n)
    /\ \A n \in Nodes : eff[n] \in {"none", "applied", "failed", "canceled"}
    /\ \A n \in Nodes : Compensatable(n) => comp[n] \in {"succeeded", "reconciled"}

\* deriveOwnershipClosure and DeriveClosureFacts.
Closed ==
    /\ \A n \in Nodes : inv[n] \notin InvOpen /\ CompensationOver(n)
    /\ \A n \in Nodes : eff[n] \in {"none", "applied", "failed", "canceled"}
    /\ \A n \in Nodes : Compensatable(n) =>
          \/ comp[n] \in {"succeeded", "reconciled"}
          \/ comp[n] = "failed" /\ Policy[n] = "best-effort"

DeriveClosure(c) ==
    /\ pc[c] = "close"
    /\ ~graph
    /\ Closed
    /\ Read(c, {}, "publish")
    /\ UNCHANGED <<seen, todo>>

\* The terminal commit names the Run, the Snapshot and the absent graph.
PublishTerminal(c) ==
    /\ pc[c] = "publish"
    /\ ~graph
    /\ Move(IF termination = "none" THEN "succeeded" ELSE termination)
    /\ snap' = seen[c]
    /\ graph' = TRUE
    /\ CommitAndReturn(c, {RunKey, SnapKey})
    /\ UNCHANGED <<inv, att, eff, begins, comp, resolution>>

\* A lost compare-and-swap, an error, or a crash of the process.
Abandon(c) ==
    /\ pc[c] # "idle"
    /\ pc' = [pc EXCEPT ![c] = "idle"]
    /\ seen' = [seen EXCEPT ![c] = Blank]
    /\ todo' = [todo EXCEPT ![c] = {}]
    /\ fresh' = [fresh EXCEPT ![c] = {}]
    /\ UNCHANGED store

-----------------------------------------------------------------------------
(* Commands of operators, coordinators and intent handlers.                *)

RequestTermination(kind) ==
    /\ run \notin RunTerminal
    /\ termination = "none"
    /\ EnterStopping(kind)
    /\ CommitNow({RunKey})
    /\ UNCHANGED <<snap, inv, att, eff, begins, comp, resolution, graph>>

\* BeginEffect: a prepared Effect, or one that failed transiently, is
\* dispatched.  Nobody looks at the Run.
BeginEffect(n) ==
    /\ eff[n] \in {"prepared", "failed"}
    /\ begins[n] < MaxBegins
    /\ eff' = [eff EXCEPT ![n] = "applying"]
    /\ begins' = [begins EXCEPT ![n] = @ + 1]
    /\ CommitNow({EffKey(n)})
    /\ KeepRun
    /\ UNCHANGED <<snap, inv, att, comp, resolution, graph>>

\* ObserveEffect: the provider's terminal receipt, and the wait-resolution
\* intent of that terminal revision.
ObserveEffect(n, outcome) ==
    /\ eff[n] = "applying"
    /\ eff' = [eff EXCEPT ![n] = outcome]
    /\ resolution' = [resolution EXCEPT ![n] = "pending"]
    /\ CommitNow({EffKey(n)})
    /\ KeepRun
    /\ UNCHANGED <<snap, inv, att, begins, comp, graph>>

\* ResolveEffectWait: the terminal Effect ends its Invocation's wait.
ResolveEffectWait(n, to) ==
    /\ resolution[n] = "pending"
    /\ eff[n] \in EffTerminal
    /\ run = "waiting"
    /\ Readable
    /\ snap.proj.kind = "waiting" /\ snap.next = n
    /\ to = "succeeded" => eff[n] = "applied"
    /\ inv' = [inv EXCEPT ![n] = to]
    /\ snap' = Recorded(snap, to)
    /\ \/ (to = "succeeded" \/ FailureHandled(n)) /\ Move("running")
       \/ to = "failed" /\ ~FailureHandled(n) /\ EnterStopping("failed")
    /\ CommitNow({RunKey, InvKey(n), SnapKey})
    /\ UNCHANGED <<att, eff, begins, comp, resolution, graph>>

\* WaitResolutionHandler is done: it resolved the wait, or the Run's
\* termination owns the lifecycle now.
AckResolution(n) ==
    /\ resolution[n] = "pending"
    /\ eff[n] \in EffTerminal
    /\ run = "stopping" \/ run \in RunTerminal \/ inv[n] \in InvTerminal
    /\ resolution' = [resolution EXCEPT ![n] = "completed"]
    /\ KeepRun
    /\ UNCHANGED <<snap, inv, att, eff, begins, comp, graph, local>>

\* InternalCleanupHandler acknowledges the Run's cleanup signal.
AckCleanup ==
    /\ cleanup = "pending"
    /\ cleanup' = "completed"
    /\ UNCHANGED <<run, termination, snap, inv, att, eff, begins, comp, resolution, graph, local>>

\* EffectCleanupHandler: the compensation is dispatched and its receipt folded.
Compensate(n, outcome) ==
    /\ comp[n] = "pending"
    /\ comp' = [comp EXCEPT ![n] = outcome]
    /\ CommitNow({EffKey(n)})
    /\ KeepRun
    /\ UNCHANGED <<snap, inv, att, eff, begins, resolution, graph>>

\* ReconcileEffectCompensation: evidence closes a required compensation.
ReconcileCompensation(n) ==
    /\ comp[n] = "failed" /\ Policy[n] = "required"
    /\ comp' = [comp EXCEPT ![n] = "reconciled"]
    /\ CommitNow({EffKey(n)})
    /\ KeepRun
    /\ UNCHANGED <<snap, inv, att, eff, begins, resolution, graph>>

-----------------------------------------------------------------------------

DriveStep(c) ==
    \/ LoadRun(c) \/ LoadSnapshot(c) \/ LoadInvocation(c) \/ BeginFailure(c)
    \/ ListInvocations(c) \/ ListEffects(c) \/ ReloadSnapshot(c)
    \/ ChooseCompensation(c) \/ CheckIntents(c) \/ DeriveClosure(c) \/ PublishTerminal(c)
    \/ \E n \in Nodes :
          \/ ActivateInvocation(c, n) \/ SkipNode(c, n) \/ ClaimInvocation(c, n)
          \/ ExpireForRetry(c, n) \/ CompleteNode(c, n) \/ WaitForEffect(c, n)
          \/ ScheduleRetry(c, n) \/ FailNode(c, n) \/ CancelInvocation(c, n)
          \/ CancelEffect(c, n) \/ ScheduleCompensation(c, n)

HandlerStep(n) ==
    \/ \E outcome \in EffectOutcomes : ObserveEffect(n, outcome)
    \/ \E to \in {"succeeded", "failed"} : ResolveEffectWait(n, to)
    \/ AckResolution(n)
    \/ \E outcome \in CompOutcomes : Compensate(n, outcome)
    \/ ReconcileCompensation(n)

Next ==
    \/ \E c \in Controllers : DriveStep(c) \/ Abandon(c)
    \/ \E n \in Nodes : HandlerStep(n) \/ BeginEffect(n)
    \/ StartRun \/ ResumeRetryWait \/ AckCleanup
    \/ \E kind \in StopKinds : RequestTermination(kind)

Spec == Init /\ [][Next]_vars

\* A drive that can go on does, from some moment on.
NoMoreCrashes == <>[][\A c \in Controllers : Abandon(c) => ~ENABLED DriveStep(c)]_vars

\* The coordinator keeps driving the Run and keeps running the wait-resolution
\* and cleanup handlers while it is stopping.  Nothing is assumed of providers:
\* neither an Effect's nor a compensation's receipt need ever arrive.  Nor does
\* anybody have to reconcile.
FairSpec ==
    /\ Spec
    /\ NoMoreCrashes
    /\ \A c \in Controllers : WF_vars(DriveStep(c)) /\ WF_vars(Abandon(c))
    /\ \A n \in Nodes : WF_vars(AckResolution(n))
    /\ WF_vars(AckCleanup)

-----------------------------------------------------------------------------
(* Properties.                                                             *)

\* Every field holds a value of its Go type.
TypeOK ==
    /\ run \in RunStatuses
    /\ termination \in {"none", "failed"} \cup StopKinds
    /\ snap \in Snapshot
    /\ inv \in [Nodes -> {"absent"} \cup InvOpen \cup InvTerminal]
    /\ att \in [Nodes -> 0..MaxAttempts]
    /\ eff \in [Nodes -> EffStates]
    /\ begins \in [Nodes -> 0..MaxBegins]
    /\ comp \in [Nodes -> {"unscheduled", "pending", "reconciled"} \cup CompOutcomes]
    /\ resolution \in [Nodes -> IntentStates]
    /\ cleanup \in IntentStates
    /\ graph \in BOOLEAN
    /\ pc \in [Controllers -> PCs]
    /\ seen \in [Controllers -> Snapshot]
    /\ todo \in [Controllers -> SUBSET Nodes]
    /\ fresh \in [Controllers -> SUBSET Keys]

\* The Snapshot and the Invocation ledgers tell the same story although no
\* commit reads both: every node before the position ended as recorded, and no
\* node behind it was ever activated, whichever controller was stale.
PositionAgrees ==
    \A n \in Nodes :
        /\ n < snap.next => inv[n] = snap.outcome[n]
        /\ n > snap.next => inv[n] = "absent" /\ eff[n] = "none"

\* An Invocation that handed over its Effect never executes again: a proposal
\* is dispatched for one execution of the node, retries and lost leases
\* included.
EffectNotReexecuted ==
    \A n \in Nodes : inv[n] \in {"ready", "running", "retry-wait"} => eff[n] = "none"

\* Only what a provider applied is compensated, and nothing is compensated
\* while the Run can still execute nodes.
CleanupAfterWork ==
    \A n \in Nodes : comp[n] # "unscheduled" =>
        /\ eff[n] = "applied"
        /\ run \notin {"accepted", "waiting"}
        /\ run = "running" => snap.next > N

\* A terminal Run owns no Effect that is under way, and each one that was
\* applied has the compensation evidence its policy asks for.  The exception is
\* an Effect dispatched again after a transient failure: BeginEffect does not
\* look at the Run, so the second dispatch may begin when the Run has ended.
TerminalOwnsNothing ==
    run \in RunTerminal =>
        \A n \in Nodes :
            \/ begins[n] > 1
            \/ /\ eff[n] \in {"none", "applied", "failed", "canceled"}
               /\ eff[n] = "applied" /\ Policy[n] = "required" =>
                     comp[n] \in {"succeeded", "reconciled"}
               /\ eff[n] = "applied" /\ Policy[n] = "best-effort" =>
                     comp[n] \in {"succeeded", "failed"}

\* Stop wins every race: a frozen termination is never replaced, no late result
\* moves a stopping Run anywhere but to the terminal status that was frozen, and
\* a terminal Run does not move.  No late result of a worker revives an
\* Invocation that was canceled or has ended otherwise, and a node that is still
\* being executed when the Run is stopped can not hand over an Effect any more.
StopIsFinal ==
    [][/\ termination # "none" => termination' = termination
       /\ run = "stopping" => run' \in {"stopping", termination}
       /\ run \in RunTerminal => run' = run
       /\ \A n \in Nodes : inv[n] \in InvTerminal => inv'[n] = inv[n]
       /\ termination # "none" =>
             \A n \in Nodes : eff[n] = "none" => eff'[n] = "none"]_vars

\* Before a stopped, canceled or failed Run becomes terminal, and so once it is,
\* each of its Invocations is terminal (exact-run-termination.md, Closure).  The
\* code does not ensure it: a controller that read the Run while it was running
\* activates the next node after the end, and another such controller claims and
\* executes it, because these commits name the Invocation only.
StoppedIsQuiet ==
    run \in RunTerminal \ {"succeeded"} => \A n \in Nodes : inv[n] \notin InvOpen

\* What a retry may leave behind: the projection of a retry that was canceled by
\* a stop or claimed by a controller with an old Run, or a Run that still waits
\* for a retry such a controller has already executed.
RetryOutOfStep ==
    \/ snap.proj.kind = "retry" /\ inv[snap.next] # "retry-wait"
    \/ run = "waiting" /\ snap.proj.kind = "none" /\ \E n \in Nodes : att[n] > 1

\* Every commit leaves a Snapshot that GetSnapshot accepts, retries that fell out
\* of step excepted; the outcomes are a prefix of the order even then.  Nobody can
\* drive, or stop, a Run whose projections disagree with its status or its
\* Invocation.
SnapshotReadable == OutcomePrefix /\ (Readable \/ RetryOutOfStep)

\* What keeps a stopping Run open: an Effect without provider evidence or with an
\* uncertain outcome, a compensation without an answer, a required one that
\* failed and was not reconciled, an executed node whose Invocation has a
\* compensation nobody schedules, or a retry that fell out of step.
HeldOpen ==
    \/ \E n \in Nodes :
          \/ eff[n] \in {"applying", "uncertain"}
          \/ Compensatable(n) /\ comp[n] = "pending"
          \/ Compensatable(n) /\ comp[n] = "failed" /\ Policy[n] = "required"
          \/ inv[n] \in InvTerminal /\ ~CompensationOver(n)
    \/ RetryOutOfStep

\* A Run does not stay in stopping without one of these reasons: whatever the
\* providers answer, however the passes of the controllers fall, and whenever
\* they crash, the Run becomes terminal or one of the reasons lasts.
StoppingTerminates == <>[](run = "stopping") => <>[]HeldOpen
=============================================================================
