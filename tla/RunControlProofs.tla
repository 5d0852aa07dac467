-------------------------- MODULE RunControlProofs --------------------------
(***************************************************************************)
(* Proofs about RunControl, for any controllers, plan, policies and        *)
(* bounds: the Snapshot and the Invocations agree, an Effect is handed     *)
(* over once, cleanup comes after work, stop is final, a terminal Run owns *)
(* nothing but what is dispatched again, and the Snapshot stays readable   *)
(* unless a retry falls out of step.                                       *)
(***************************************************************************)
EXTENDS RunControl, WellFoundedInduction, TLAPS

RunningPCs == {"loaded", "node", "invocation", "claimed", "done", "cleanup-failed"}
StoppingPCs == {"stop", "cancel", "effects", "compensate", "settle"}
ClosingPCs == {"schedule", "close", "publish"}
LastPCs == {"done", "cleanup-failed"} \cup ClosingPCs

\* Nodes are not executed any more: the Run is being stopped, or the last node
\* was recorded while it ran.
Over == termination # "none" \/ (snap.next > N /\ run \notin {"accepted", "waiting"})

\* What a terminal Run wants to know of its Effects.
Released(n) ==
    /\ eff[n] \in {"none", "applied", "failed", "canceled"}
    /\ Compensatable(n) =>
          \/ comp[n] \in {"succeeded", "reconciled"}
          \/ comp[n] = "failed" /\ Policy[n] = "best-effort"

\* What stays true of its Effects once they are released: a second dispatch is
\* the only way out.
Settled(n) == begins[n] > 1 \/ Released(n)

-----------------------------------------------------------------------------
(* The invariant.                                                          *)

\* The position: outcomes are a prefix, the ledgers agree with them.
PositionOK ==
    /\ OutcomePrefix
    /\ PositionAgrees
    /\ run = "accepted" => snap.next = 1

\* An Invocation that may still execute has attempts left and proposed nothing.
NodeOK(n) ==
    /\ inv[n] \in {"absent", "ready", "running", "retry-wait"} => eff[n] = "none"
    /\ inv[n] \in {"absent", "ready", "retry-wait"} => att[n] < MaxAttempts
    /\ inv[n] = "running" => att[n] >= 1
    /\ inv[n] = "waiting" => snap.proj.kind = "waiting" /\ snap.next = n

\* The wait the Snapshot projects is that of the current Invocation.
WaitOK ==
    snap.proj.kind = "waiting" =>
        snap.next \in Nodes /\ inv[snap.next] = "waiting" /\ att[snap.next] = snap.proj.ordinal

\* The retry the Snapshot projects is that of the current Invocation, which was
\* executed before; if it is not waiting for the retry any more, a stop canceled
\* it or somebody claimed it again.
RetryOK ==
    snap.proj.kind = "retry" =>
        /\ snap.next \in Nodes /\ NodeReady(snap) /\ snap.proj.ordinal >= 1
        /\ inv[snap.next] # "absent"
        /\ inv[snap.next] = "retry-wait" => att[snap.next] = snap.proj.ordinal
        /\ inv[snap.next] \in {"ready", "running"} => att[snap.next] > snap.proj.ordinal

\* A termination is frozen with a reason and the Run then only ends for it.
EndOK ==
    /\ termination # "none" => run \in {"stopping", termination}
    /\ run = "stopping" => termination # "none"

\* Effects: compensated after they were applied, when nodes are done.
EffectOK(n) ==
    /\ comp[n] # "unscheduled" => eff[n] = "applied" /\ Over
    /\ comp[n] = "reconciled" => Policy[n] = "required"
    /\ eff[n] \in {"applying", "applied", "failed", "uncertain"} => begins[n] >= 1

\* A Run that executes nodes or has ended projects no wait; one that waits has a
\* projection, unless its retry was executed by somebody with an older Run.
ProjectionOK ==
    /\ run \in {"accepted", "running"} \cup RunTerminal => snap.proj.kind = "none"
    /\ run = "waiting" => snap.proj.kind # "none" \/ \E n \in Nodes : att[n] > 1

\* The Effects of a terminal Run are settled.
ClosedOK == run \in RunTerminal => Over /\ \A n \in Nodes : Settled(n)

\* What a pass knows that stands at `at', saw the Snapshot s, has to close the
\* aggregates in `list' and has current reads of `keys'.
Knows(at, s, list, keys) ==
    /\ at # "idle" => run # "accepted"
    /\ s.next <= snap.next
    /\ at \in {"node", "invocation", "claimed"} => s.next <= N
    /\ at \in StoppingPCs => termination # "none"
    /\ at \in LastPCs => Over
    /\ at \in LastPCs \cup {"compensate", "settle"} => s.proj.kind = "none"
    /\ at = "publish" => \A n \in Nodes : Settled(n)
    /\ at = "claimed" => NodeReady(s)
    /\ at = "cancel" => \A n \in Nodes : inv[n] = "retry-wait" => n \in list
    /\ at = "effects" => \A n \in Nodes : inv[n] # "retry-wait"
    /\ RunKey \in keys =>
          /\ at \in RunningPCs => run = "running"
          /\ at \in StoppingPCs => run = "stopping"
          /\ at \in ClosingPCs => run \in {"running", "stopping"}
    /\ SnapKey \in keys => s = snap
    /\ \A n \in Nodes :
          /\ InvKey(n) \in keys =>
                /\ at = "claimed" /\ s.next = n => inv[n] = "running"
                /\ at = "cancel" /\ n \in list =>
                      /\ inv[n] \in InvOpen
                      /\ inv[n] = "waiting" <=> s.proj.kind = "waiting" /\ s.next = n
          /\ EffKey(n) \in keys =>
                /\ eff[n] # "none"
                /\ at = "effects" /\ n \in list => eff[n] = "prepared"
                /\ at = "schedule" /\ n \in list => eff[n] = "applied" /\ comp[n] = "unscheduled"

PassOK(c) == Knows(pc[c], seen[c], todo[c], fresh[c])

StoreOK ==
    /\ PositionOK /\ WaitOK /\ RetryOK /\ EndOK /\ ProjectionOK /\ ClosedOK
    /\ \A n \in Nodes : NodeOK(n) /\ EffectOK(n)

Inv == TypeOK /\ StoreOK /\ \A c \in Controllers : PassOK(c)

-----------------------------------------------------------------------------
(* The parts of a step: what it does to the Run, to the nodes and to the   *)
(* Effects.                                                                *)

RunTyped == run \in RunStatuses /\ termination \in {"none", "failed"} \cup StopKinds
NodeTyped ==
    /\ snap \in Snapshot
    /\ inv \in [Nodes -> {"absent"} \cup InvOpen \cup InvTerminal]
    /\ att \in [Nodes -> 0..MaxAttempts]
EffTyped ==
    /\ eff \in [Nodes -> EffStates]
    /\ begins \in [Nodes -> 0..MaxBegins]
    /\ comp \in [Nodes -> {"unscheduled", "pending", "reconciled"} \cup CompOutcomes]
RestTyped ==
    /\ resolution \in [Nodes -> IntentStates]
    /\ cleanup \in IntentStates
    /\ graph \in BOOLEAN
LocalTyped ==
    /\ pc \in [Controllers -> PCs]
    /\ seen \in [Controllers -> Snapshot]
    /\ todo \in [Controllers -> SUBSET Nodes]
    /\ fresh \in [Controllers -> SUBSET Keys]

StoreTyped == RunTyped /\ NodeTyped /\ EffTyped /\ RestTyped

\* The type invariant of the store and that of the passes.
LEMMA TypeParts == TypeOK <=> StoreTyped /\ LocalTyped
BY Zenon DEF TypeOK, StoreTyped, RunTyped, NodeTyped, EffTyped, RestTyped, LocalTyped

NodesOK == PositionOK /\ WaitOK /\ RetryOK /\ \A n \in Nodes : NodeOK(n)

\* TransitionRun, with what the callers make sure of.
RunKept == run' = run /\ termination' = termination
RunStopped ==
    /\ termination = "none" /\ run \notin RunTerminal
    /\ run' = "stopping" /\ termination' \in {"failed"} \cup StopKinds
RunMoved ==
    /\ termination' = termination
    /\ \/ run \in {"accepted", "waiting"} /\ run' = "running"
       \/ run = "running" /\ run' = "waiting" /\ ~Over
       \/ /\ run \in {"running", "stopping"} /\ Over
          /\ run' = IF termination = "none" THEN "succeeded" ELSE termination
RunStep == RunKept \/ RunStopped \/ RunMoved

\* The steps of one Effect, but for its preparation.
EffectStep(n) ==
    \/ eff'[n] = eff[n] /\ begins'[n] = begins[n] /\ comp'[n] = comp[n]
    \/ /\ comp'[n] = comp[n]
       /\ \/ eff[n] = "prepared" /\ eff'[n] = "canceled" /\ begins'[n] = begins[n]
          \/ /\ eff[n] \in {"prepared", "failed"} /\ begins[n] < MaxBegins
             /\ eff'[n] = "applying" /\ begins'[n] = begins[n] + 1
          \/ eff[n] = "applying" /\ eff'[n] \in EffectOutcomes /\ begins'[n] = begins[n]
    \/ /\ eff'[n] = eff[n] /\ begins'[n] = begins[n]
       /\ \/ comp[n] = "unscheduled" /\ comp'[n] = "pending" /\ eff[n] = "applied" /\ Over
          \/ comp[n] = "pending" /\ comp'[n] \in CompOutcomes
          \/ comp[n] = "failed" /\ Policy[n] = "required" /\ comp'[n] = "reconciled"

\* What no step takes back of the nodes: the position, an ended Invocation, and a
\* stopped Run's retries.
Forward ==
    /\ snap.next <= snap'.next
    /\ \A n \in Nodes :
          /\ inv[n] \in InvTerminal => inv'[n] = inv[n]
          /\ termination # "none" /\ inv'[n] = "retry-wait" => inv[n] = "retry-wait"

\* What no step takes back.
Onward ==
    /\ Forward
    /\ termination # "none" => termination' = termination
    /\ run = "stopping" => run' \in {"stopping", termination}
    /\ run \in RunTerminal => run' = run
    /\ run # "accepted" => run' # "accepted"
    /\ Over => Over'
    /\ \A n \in Nodes : eff[n] # "none" => eff'[n] # "none"
    /\ termination # "none" => \A n \in Nodes : eff[n] = "none" => eff'[n] = "none"
    /\ Over => \A n \in Nodes : Settled(n) => Settled(n)'

\* The reasons of a termination are terminal statuses.
LEMMA KindsEnd == \A k \in {"failed"} \cup StopKinds : k \in RunTerminal \ {"succeeded"} /\ k # "none"
BY PlanAssumption DEF RunTerminal

\* A transition of the Run keeps its status and its termination consistent, and
\* a frozen termination wins.
LEMMA RunStepFacts ==
    ASSUME RunTyped, EndOK, RunStep
    PROVE  /\ RunTyped' /\ EndOK'
           /\ termination # "none" => termination' = termination
           /\ run = "stopping" => run' \in {"stopping", termination}
           /\ run \in RunTerminal => run' = run
           /\ run # "accepted" => run' # "accepted"
<1>1. CASE RunKept
    BY <1>1 DEF RunKept, RunTyped, EndOK
<1>2. CASE RunStopped
    <2>1. termination' # "none" /\ run' = "stopping" /\ termination = "none" /\ run \notin RunTerminal
        BY <1>2, KindsEnd DEF RunStopped
    <2>2. run # "stopping"
        BY <2>1 DEF EndOK
    <2>3. QED
        BY <1>2, <2>1, <2>2 DEF RunStopped, RunTyped, EndOK, RunStatuses
<1>3. CASE RunMoved
    <2>1. CASE run \in {"accepted", "waiting"} /\ run' = "running"
        <3>1. termination = "none"
            BY <2>1, KindsEnd DEF EndOK, RunTyped, RunTerminal
        <3>2. QED
            BY <1>3, <2>1, <3>1 DEF RunMoved, RunTyped, EndOK, RunStatuses, RunTerminal
    <2>2. CASE run = "running" /\ run' = "waiting"
        <3>1. termination = "none"
            BY <2>2, KindsEnd DEF EndOK, RunTyped, RunTerminal
        <3>2. QED
            BY <1>3, <2>2, <3>1 DEF RunMoved, RunTyped, EndOK, RunStatuses, RunTerminal
    <2>3. CASE /\ run \in {"running", "stopping"}
               /\ run' = IF termination = "none" THEN "succeeded" ELSE termination
        <3>1. run' \in RunTerminal /\ run \notin RunTerminal
            BY <2>3, KindsEnd DEF RunTyped, RunTerminal
        <3>2. QED
            BY <1>3, <2>3, <3>1 DEF RunMoved, RunTyped, EndOK, RunStatuses, RunTerminal
    <2>4. QED
        BY <1>3, <2>1, <2>2, <2>3 DEF RunMoved
<1>4. QED
    BY <1>1, <1>2, <1>3 DEF RunStep

\* Work that is over stays over.
LEMMA OverStays ==
    ASSUME RunTyped, EndOK, RunStep, N \in Nat, snap.next \in Nat, snap'.next \in Nat,
           snap.next <= snap'.next, Over
    PROVE  Over'
<1>1. CASE termination # "none"
    BY <1>1, RunStepFacts DEF Over
<1>2. CASE termination = "none" /\ snap.next > N /\ run \notin {"accepted", "waiting"}
    <2>1. snap'.next > N
        BY <1>2
    <2>2. run' \notin {"accepted", "waiting"}
        BY <1>2 DEF RunStep, RunKept, RunStopped, RunMoved
    <2>3. QED
        BY <2>1, <2>2 DEF Over
<1>3. QED
    BY <1>1, <1>2 DEF Over

\* An Effect's step keeps its facts; a settled one stays settled.
LEMMA EffectStepFacts ==
    ASSUME NEW n \in Nodes, EffTyped, EffectOK(n), EffectStep(n), Over => Over'
    PROVE  /\ eff'[n] \in EffStates /\ begins'[n] \in 0..MaxBegins
           /\ comp'[n] \in {"unscheduled", "pending", "reconciled"} \cup CompOutcomes
           /\ eff[n] = "none" <=> eff'[n] = "none"
           /\ EffectOK(n)'
           /\ Settled(n) => Settled(n)'
<1>0. /\ eff[n] \in EffStates /\ begins[n] \in 0..MaxBegins /\ MaxBegins \in Nat
      /\ comp[n] \in {"unscheduled", "pending", "reconciled"} \cup CompOutcomes
      /\ CompOutcomes \subseteq {"succeeded", "failed"} /\ EffectOutcomes \subseteq {"applied", "failed", "uncertain"}
    BY PlanAssumption DEF EffTyped
<1>1. CASE eff'[n] = eff[n] /\ begins'[n] = begins[n] /\ comp'[n] = comp[n]
    BY <1>0, <1>1 DEF EffectOK, Settled, Released, Compensatable
<1>2. CASE /\ comp'[n] = comp[n]
           /\ eff[n] \in {"prepared", "failed", "applying"}
           /\ \/ eff[n] = "prepared" /\ eff'[n] = "canceled" /\ begins'[n] = begins[n]
              \/ /\ eff[n] \in {"prepared", "failed"} /\ begins[n] < MaxBegins
                 /\ eff'[n] = "applying" /\ begins'[n] = begins[n] + 1
              \/ eff[n] = "applying" /\ eff'[n] \in EffectOutcomes /\ begins'[n] = begins[n]
    <2>1. comp[n] = "unscheduled"
        BY <1>2 DEF EffectOK
    <2>2. eff'[n] \in EffStates \ {"none", "prepared"} /\ begins'[n] \in 0..MaxBegins
        BY <1>0, <1>2 DEF EffStates, EffTerminal
    <2>3. EffectOK(n)'
        BY <1>0, <1>2, <2>1 DEF EffectOK
    <2>4. ASSUME Settled(n)
          PROVE  Settled(n)'
        BY <1>0, <1>2, <2>4 DEF Settled, Released, EffectOK
    <2>5. QED
        BY <1>0, <1>2, <2>2, <2>3, <2>4
<1>3. CASE /\ eff'[n] = eff[n] /\ begins'[n] = begins[n]
           /\ \/ comp[n] = "unscheduled" /\ comp'[n] = "pending" /\ eff[n] = "applied" /\ Over
              \/ comp[n] = "pending" /\ comp'[n] \in CompOutcomes
              \/ comp[n] = "failed" /\ Policy[n] = "required" /\ comp'[n] = "reconciled"
    <2>1. EffectOK(n)'
        BY <1>0, <1>3 DEF EffectOK
    <2>2. Settled(n) => Settled(n)'
        BY <1>0, <1>3 DEF Settled, Released, Compensatable, EffectOK
    <2>3. QED
        BY <1>0, <1>3, <2>1, <2>2
<1>4. QED
    BY <1>1, <1>2, <1>3 DEF EffectStep
\* The Effects make steps, and nothing else becomes of their tables.
EffectSteps ==
    /\ eff' = [n \in Nodes |-> eff'[n]]
    /\ begins' = [n \in Nodes |-> begins'[n]]
    /\ comp' = [n \in Nodes |-> comp'[n]]
    /\ \A n \in Nodes : EffectStep(n)

\* Effects that are left alone make no step.
LEMMA EffectsKept ==
    ASSUME EffTyped, UNCHANGED <<eff, begins, comp>>
    PROVE  EffectSteps
<1>1. \A n \in Nodes : EffectStep(n)
    BY DEF EffectStep
<1>2. QED
    BY <1>1 DEF EffectSteps, EffTyped

\* The parts of a step together.
LEMMA StoreKeeps ==
    ASSUME StoreTyped, StoreOK, RunStep, EffectSteps, NodeTyped', RestTyped',
           NodesOK', ProjectionOK', Forward,
           run' \in RunTerminal /\ run \notin RunTerminal => \A n \in Nodes : Settled(n)
    PROVE  StoreTyped' /\ StoreOK' /\ Onward
<1>0. /\ RunTyped /\ NodeTyped /\ EffTyped /\ EndOK /\ ClosedOK
      /\ \A n \in Nodes : EffectOK(n)
    BY DEF StoreTyped, StoreOK
<1>1. /\ RunTyped' /\ EndOK'
      /\ termination # "none" => termination' = termination
      /\ run = "stopping" => run' \in {"stopping", termination}
      /\ run \in RunTerminal => run' = run
      /\ run # "accepted" => run' # "accepted"
    BY <1>0, RunStepFacts
<1>2. Over => Over'
    <2>1. N \in Nat /\ snap.next \in Nat /\ snap'.next \in Nat
        BY <1>0, PlanAssumption DEF NodeTyped, Snapshot
    <2>2. QED
        BY <1>0, <2>1, OverStays DEF Forward
<1>3. ASSUME NEW n \in Nodes
      PROVE  /\ eff'[n] \in EffStates /\ begins'[n] \in 0..MaxBegins
             /\ comp'[n] \in {"unscheduled", "pending", "reconciled"} \cup CompOutcomes
             /\ eff[n] = "none" <=> eff'[n] = "none"
             /\ EffectOK(n)'
             /\ Settled(n) => Settled(n)'
    <2>1. EffectStep(n) /\ EffectOK(n)
        BY <1>0 DEF EffectSteps
    <2>2. QED
        BY <1>0, <1>2, <2>1, EffectStepFacts
<1>4. EffTyped'
    BY <1>3 DEF EffTyped, EffectSteps
<1>5. ClosedOK'
    <2>1. CASE run \in RunTerminal
        BY <1>0, <1>2, <1>3, <2>1 DEF ClosedOK
    <2>2. CASE run \notin RunTerminal /\ run' \in RunTerminal
        <3>1. Over
            BY <2>2 DEF RunStep, RunKept, RunStopped, RunMoved, RunTerminal
        <3>2. QED
            BY <1>2, <1>3, <2>2, <3>1 DEF ClosedOK
    <2>3. QED
        BY <2>1, <2>2 DEF ClosedOK
<1>6. StoreTyped'
    BY <1>1, <1>4 DEF StoreTyped
<1>7. StoreOK'
    BY <1>1, <1>3, <1>5 DEF StoreOK, NodesOK
<1>8. Onward
    BY <1>1, <1>2, <1>3 DEF Onward
<1>9. QED
    BY <1>6, <1>7, <1>8

\* What is known of the numbers.
LEMMA Numbers ==
    ASSUME StoreTyped
    PROVE  /\ N \in Nat /\ N >= 1 /\ MaxAttempts \in Nat /\ MaxAttempts >= 1
           /\ snap \in Snapshot /\ snap.next \in 1..(N + 1) /\ snap.next \in Nat
           /\ snap.proj \in Projection /\ snap.outcome \in [Nodes -> Outcomes]
           /\ \A n \in Nodes : n \in Nat /\ n >= 1 /\ n <= N /\ att[n] \in Nat /\ att[n] <= MaxAttempts
           /\ \A n \in Nat : n >= 1 /\ n <= N => n \in Nodes
<1>1. /\ snap \in [next : 1..(N + 1), outcome : [Nodes -> Outcomes], proj : Projection]
      /\ att \in [Nodes -> 0..MaxAttempts]
    BY DEF StoreTyped, NodeTyped, Snapshot
<1>2. N \in Nat /\ N >= 1 /\ MaxAttempts \in Nat /\ MaxAttempts >= 1
    BY PlanAssumption
<1>3. \A n \in Nodes : n \in Nat /\ n >= 1 /\ n <= N /\ att[n] \in Nat /\ att[n] <= MaxAttempts
    BY <1>1, <1>2 DEF Nodes
<1>4. \A n \in Nat : n >= 1 /\ n <= N => n \in Nodes
    BY <1>2 DEF Nodes
<1>5. snap.next \in 1..(N + 1) /\ snap.next \in Nat /\ snap.proj \in Projection
      /\ snap.outcome \in [Nodes -> Outcomes]
    BY <1>1, <1>2
<1>6. QED
    BY <1>1, <1>2, <1>3, <1>4, <1>5 DEF Snapshot

\* What the Snapshot operators return.
LEMMA SnapshotFacts ==
    ASSUME NEW s \in Snapshot, N \in Nat
    PROVE  /\ s.next \in Nodes =>
                 \A o \in Outcomes :
                     /\ Recorded(s, o) \in Snapshot
                     /\ Recorded(s, o).next = s.next + 1
                     /\ Recorded(s, o).proj.kind = "none"
                     /\ Recorded(s, o).outcome = [s.outcome EXCEPT ![s.next] = o]
           /\ s.next \in Nodes =>
                 /\ RecordedSkip(s) \in Snapshot
                 /\ RecordedSkip(s).next = s.next + 1
                 /\ RecordedSkip(s).proj = s.proj
                 /\ RecordedSkip(s).outcome = [s.outcome EXCEPT ![s.next] = "skipped"]
           /\ Unprojected(s) \in Snapshot
           /\ Unprojected(s).next = s.next
           /\ Unprojected(s).proj.kind = "none"
           /\ Unprojected(s).outcome = s.outcome
           /\ \A k \in {"waiting", "retry"}, i \in Nat :
                 /\ Projected(s, k, i) \in Snapshot
                 /\ Projected(s, k, i).next = s.next
                 /\ Projected(s, k, i).proj.kind = k
                 /\ Projected(s, k, i).proj.ordinal = i
                 /\ Projected(s, k, i).outcome = s.outcome
<1>1. s.next \in 1..(N + 1) /\ s.outcome \in [Nodes -> Outcomes] /\ s.proj \in Projection
    BY DEF Snapshot
<1>2. s.next \in Nodes => s.next + 1 \in 1..(N + 1)
    BY <1>1 DEF Nodes
<1>3. ASSUME s.next \in Nodes, NEW o \in Outcomes
      PROVE  [s.outcome EXCEPT ![s.next] = o] \in [Nodes -> Outcomes]
    BY <1>1, <1>3
<1>4. NoProjection \in Projection /\ NoProjection.kind = "none" /\ "skipped" \in Outcomes
    BY DEF NoProjection, Projection, Outcomes
<1>5. ASSUME s.next \in Nodes, NEW o \in Outcomes
      PROVE  /\ Recorded(s, o) \in Snapshot
             /\ Recorded(s, o).next = s.next + 1
             /\ Recorded(s, o).proj.kind = "none"
             /\ Recorded(s, o).outcome = [s.outcome EXCEPT ![s.next] = o]
    BY <1>2, <1>3, <1>4, <1>5 DEF Recorded, Snapshot
<1>6. ASSUME s.next \in Nodes
      PROVE  /\ RecordedSkip(s) \in Snapshot
             /\ RecordedSkip(s).next = s.next + 1
             /\ RecordedSkip(s).proj = s.proj
             /\ RecordedSkip(s).outcome = [s.outcome EXCEPT ![s.next] = "skipped"]
    BY <1>1, <1>2, <1>3, <1>4, <1>6 DEF RecordedSkip, Snapshot
<1>7. /\ Unprojected(s) \in Snapshot
      /\ Unprojected(s).next = s.next
      /\ Unprojected(s).proj.kind = "none"
      /\ Unprojected(s).outcome = s.outcome
    BY <1>1, <1>4 DEF Unprojected, Snapshot
<1>8. ASSUME NEW k \in {"waiting", "retry"}, NEW i \in Nat
      PROVE  /\ Projected(s, k, i) \in Snapshot
             /\ Projected(s, k, i).next = s.next
             /\ Projected(s, k, i).proj.kind = k
             /\ Projected(s, k, i).proj.ordinal = i
             /\ Projected(s, k, i).outcome = s.outcome
    <2>1. [kind |-> k, ordinal |-> i] \in Projection
        BY DEF Projection
    <2>2. QED
        BY <1>1, <2>1 DEF Projected, Snapshot
<1>9. QED
    BY <1>5, <1>6, <1>7, <1>8
-----------------------------------------------------------------------------
(* The nodes: what the ways to move an Invocation and the Snapshot do.     *)

\* The node at the position is the only one that can be open.
LEMMA OpenIsCurrent ==
    ASSUME StoreTyped, NodesOK, NEW n \in Nodes, inv[n] \in InvOpen
    PROVE  n = snap.next
<1>1. /\ n < snap.next => inv[n] = snap.outcome[n]
      /\ n > snap.next => inv[n] = "absent"
    BY DEF NodesOK, PositionOK, PositionAgrees
<1>2. snap.outcome[n] \in Outcomes /\ n \in Nat /\ snap.next \in Nat
    BY Numbers
<1>3. inv[n] \notin Outcomes /\ inv[n] # "absent"
    BY DEF InvOpen, Outcomes
<1>4. QED
    BY <1>1, <1>2, <1>3

\* An Invocation that does not exist yet, and is not ahead, is the current one.
LEMMA AbsentIsCurrent ==
    ASSUME StoreTyped, NodesOK, NEW n \in Nodes, inv[n] = "absent", n <= snap.next
    PROVE  n = snap.next
<1>1. n < snap.next => inv[n] = snap.outcome[n]
    BY DEF NodesOK, PositionOK, PositionAgrees
<1>2. snap.outcome[n] \in Outcomes /\ n \in Nat /\ snap.next \in Nat
    BY Numbers
<1>3. inv[n] \notin Outcomes
    BY DEF Outcomes
<1>4. QED
    BY <1>1, <1>2, <1>3

\* Nothing happens to the nodes; their Effects may move on.
LEMMA NodesKept ==
    ASSUME StoreTyped, NodesOK, UNCHANGED <<snap, inv, att>>, run' = "accepted" => run = "accepted",
           \A n \in Nodes : eff[n] = "none" => eff'[n] = "none"
    PROVE  NodeTyped' /\ NodesOK' /\ Forward
<1>1. NodeTyped' /\ snap.next <= snap'.next
    BY Numbers DEF StoreTyped, NodeTyped
<1>2. PositionOK'
    BY DEF NodesOK, PositionOK, OutcomePrefix, PositionAgrees
<1>3. WaitOK' /\ RetryOK'
    BY DEF NodesOK, WaitOK, RetryOK, NodeReady
<1>4. \A n \in Nodes : NodeOK(n)'
    BY DEF NodesOK, NodeOK
<1>5. QED
    BY <1>1, <1>2, <1>3, <1>4 DEF NodesOK, Forward

\* The current Invocation is created, claimed, given back or canceled.
LEMMA NodeMoved ==
    ASSUME StoreTyped, NodesOK, NEW n \in Nodes, n = snap.next,
           inv[n] \in {"absent", "ready", "running", "retry-wait"},
           NEW to \in {"ready", "running", "canceled"}, NEW a \in 0..MaxAttempts, a >= att[n],
           inv' = [inv EXCEPT ![n] = to], att' = [att EXCEPT ![n] = a], UNCHANGED <<snap, eff>>,
           run' = "accepted" => run = "accepted",
           to # "canceled" => eff[n] = "none",
           to = "ready" => inv[n] # "retry-wait" /\ a < MaxAttempts, to = "running" => a > att[n]
    PROVE  NodeTyped' /\ NodesOK' /\ Forward
<1>0. /\ inv \in [Nodes -> {"absent"} \cup InvOpen \cup InvTerminal] /\ att \in [Nodes -> 0..MaxAttempts]
      /\ snap \in Snapshot
    BY DEF StoreTyped, NodeTyped
<1>1. /\ inv'[n] = to /\ att'[n] = a
      /\ \A m \in Nodes \ {n} : inv'[m] = inv[m] /\ att'[m] = att[m]
    BY <1>0
<1>2. NodeTyped' /\ snap.next <= snap'.next
    <2>1. inv' \in [Nodes -> {"absent"} \cup InvOpen \cup InvTerminal] /\ att' \in [Nodes -> 0..MaxAttempts]
        BY <1>0 DEF InvOpen, InvTerminal
    <2>2. QED
        BY <1>0, <2>1, Numbers DEF NodeTyped
<1>3. PositionOK'
    <2>1. ASSUME NEW m \in Nodes
          PROVE  /\ m < snap.next => inv'[m] = snap.outcome[m]
                 /\ m > snap.next => inv'[m] = "absent" /\ eff[m] = "none"
        BY <1>1, Numbers DEF NodesOK, PositionOK, PositionAgrees
    <2>2. QED
        BY <2>1 DEF NodesOK, PositionOK, OutcomePrefix, PositionAgrees
<1>4. WaitOK'
    <2>1. snap.proj.kind # "waiting"
        BY DEF NodesOK, WaitOK
    <2>2. QED
        BY <2>1 DEF WaitOK
<1>5. ASSUME NEW m \in Nodes
      PROVE  NodeOK(m)'
    <2>1. CASE m = n
        BY <1>1, <2>1, Numbers DEF NodeOK
    <2>2. CASE m # n
        BY <1>1, <2>2 DEF NodeOK, NodesOK
    <2>3. QED
        BY <2>1, <2>2
<1>6. RetryOK'
    <2>1. ASSUME snap.proj.kind = "retry"
          PROVE  /\ NodeReady(snap) /\ snap.proj.ordinal >= 1 /\ inv[n] # "absent"
                 /\ inv[n] = "retry-wait" => att[n] = snap.proj.ordinal
                 /\ inv[n] \in {"ready", "running"} => att[n] > snap.proj.ordinal
        BY <2>1 DEF NodesOK, RetryOK
    <2>2. att[n] \in Nat /\ a \in Nat /\ snap.proj.ordinal \in Nat
        BY Numbers DEF Projection
    <2>3. ASSUME snap.proj.kind = "retry"
          PROVE  /\ to = "ready" => a > snap.proj.ordinal
                 /\ to = "running" => a > snap.proj.ordinal
        BY <2>1, <2>2, <2>3
    <2>4. QED
        BY <1>1, <2>1, <2>3 DEF RetryOK, NodeReady
<1>7. Forward
    BY <1>1, <1>2 DEF Forward, InvTerminal
<1>8. QED
    BY <1>2, <1>3, <1>4, <1>5, <1>6, <1>7 DEF NodesOK

\* The current Invocation ends and the Snapshot records it.
LEMMA NodeRecorded ==
    ASSUME StoreTyped, NodesOK, NEW n \in Nodes, n = snap.next,
           NEW to \in {"succeeded", "failed", "skipped"},
           inv[n] \notin InvTerminal,
           inv' = [inv EXCEPT ![n] = to], UNCHANGED <<att, eff>>,
           snap' \in Snapshot, snap'.next = n + 1, snap'.proj.kind = "none",
           snap'.outcome = [snap.outcome EXCEPT ![n] = to],
           run' # "accepted"
    PROVE  NodeTyped' /\ NodesOK' /\ Forward
<1>0. /\ inv \in [Nodes -> {"absent"} \cup InvOpen \cup InvTerminal] /\ att \in [Nodes -> 0..MaxAttempts]
      /\ snap.outcome \in [Nodes -> Outcomes]
    BY Numbers DEF StoreTyped, NodeTyped
<1>1. /\ inv'[n] = to /\ snap'.outcome[n] = to
      /\ \A m \in Nodes \ {n} : inv'[m] = inv[m] /\ snap'.outcome[m] = snap.outcome[m]
    BY <1>0
<1>2. NodeTyped' /\ snap.next <= snap'.next
    <2>1. inv' \in [Nodes -> {"absent"} \cup InvOpen \cup InvTerminal]
        BY <1>0 DEF InvOpen, InvTerminal
    <2>2. QED
        BY <1>0, <2>1, Numbers DEF NodeTyped
<1>3. PositionOK'
    <2>1. ASSUME NEW m \in Nodes
          PROVE  /\ m < snap'.next => inv'[m] = snap'.outcome[m]
                 /\ m > snap'.next => inv'[m] = "absent" /\ eff[m] = "none"
                 /\ snap'.outcome[m] # "none" <=> m < snap'.next
        <3>1. m \in Nat /\ n \in Nat
            BY Numbers
        <3>2. CASE m = n
            BY <1>1, <3>1, <3>2
        <3>3. CASE m # n
            <4>1. /\ m < n => inv[m] = snap.outcome[m]
                  /\ m > n => inv[m] = "absent" /\ eff[m] = "none"
                  /\ snap.outcome[m] # "none" <=> m < n
                BY DEF NodesOK, PositionOK, PositionAgrees, OutcomePrefix
            <4>2. QED
                BY <1>1, <3>1, <3>3, <4>1
        <3>4. QED
            BY <3>2, <3>3
    <2>2. QED
        BY <2>1 DEF PositionOK, OutcomePrefix, PositionAgrees
<1>4. WaitOK' /\ RetryOK'
    BY DEF WaitOK, RetryOK
<1>5. ASSUME NEW m \in Nodes
      PROVE  NodeOK(m)'
    <2>1. CASE m = n
        BY <1>1, <2>1 DEF NodeOK
    <2>2. CASE m # n
        BY <1>1, <2>2 DEF NodeOK, NodesOK
    <2>3. QED
        BY <2>1, <2>2
<1>6. Forward
    BY <1>1, <1>2 DEF Forward
<1>7. QED
    BY <1>2, <1>3, <1>4, <1>5, <1>6 DEF NodesOK

\* The current attempt parks, on an Effect or for a retry.
LEMMA NodeParked ==
    ASSUME StoreTyped, NodesOK, NEW n \in Nodes, n = snap.next, inv[n] = "running", run' # "accepted",
           UNCHANGED att, termination = "none", NodeReady(snap),
           \/ /\ inv' = [inv EXCEPT ![n] = "waiting"] /\ snap' = Projected(snap, "waiting", att[n])
              /\ eff' = [eff EXCEPT ![n] = "prepared"]
           \/ /\ inv' = [inv EXCEPT ![n] = "retry-wait"] /\ snap' = Projected(snap, "retry", att[n])
              /\ eff' = eff /\ att[n] < MaxAttempts
    PROVE  NodeTyped' /\ NodesOK' /\ Forward
<1>0. /\ inv \in [Nodes -> {"absent"} \cup InvOpen \cup InvTerminal] /\ att \in [Nodes -> 0..MaxAttempts]
      /\ snap \in Snapshot /\ att[n] \in Nat /\ N \in Nat /\ eff \in [Nodes -> EffStates]
    BY Numbers DEF StoreTyped, NodeTyped, EffTyped
<1>1. /\ inv'[n] \in {"waiting", "retry-wait"}
      /\ \A m \in Nodes \ {n} : inv'[m] = inv[m] /\ eff'[m] = eff[m]
    BY <1>0
<1>2. /\ snap' \in Snapshot /\ snap'.next = snap.next /\ snap'.outcome = snap.outcome
      /\ inv'[n] = "waiting" <=> snap'.proj.kind = "waiting"
      /\ snap'.proj.ordinal = att[n]
      /\ inv'[n] = "retry-wait" => eff'[n] = eff[n] /\ att[n] < MaxAttempts
    <2> DEFINE i == att[n]
    <2>1. \A k \in {"waiting", "retry"} :
              /\ Projected(snap, k, i) \in Snapshot /\ Projected(snap, k, i).next = snap.next
              /\ Projected(snap, k, i).outcome = snap.outcome
              /\ Projected(snap, k, i).proj.kind = k
              /\ Projected(snap, k, i).proj.ordinal = i
        <3>1. i \in Nat /\ snap \in Snapshot /\ N \in Nat
            BY <1>0
        <3> HIDE DEF i
        <3>2. \A k \in {"waiting", "retry"}, j \in Nat :
                  /\ Projected(snap, k, j) \in Snapshot
                  /\ Projected(snap, k, j).next = snap.next
                  /\ Projected(snap, k, j).proj.kind = k
                  /\ Projected(snap, k, j).proj.ordinal = j
                  /\ Projected(snap, k, j).outcome = snap.outcome
            BY <3>1, SnapshotFacts, Zenon
        <3>3. QED
            BY <3>1, <3>2
    <2>2. CASE inv' = [inv EXCEPT ![n] = "waiting"] /\ snap' = Projected(snap, "waiting", att[n])
        BY <1>0, <2>1, <2>2
    <2>3. CASE /\ inv' = [inv EXCEPT ![n] = "retry-wait"] /\ snap' = Projected(snap, "retry", att[n])
               /\ eff' = eff /\ att[n] < MaxAttempts
        BY <1>0, <2>1, <2>3
    <2>4. QED
        BY <2>2, <2>3
<1>3. NodeTyped' /\ snap.next <= snap'.next
    <2>1. inv' \in [Nodes -> {"absent"} \cup InvOpen \cup InvTerminal]
        BY <1>0 DEF InvOpen, InvTerminal
    <2>2. QED
        BY <1>0, <1>2, <2>1, Numbers DEF NodeTyped
<1>4. PositionOK'
    <2>1. ASSUME NEW m \in Nodes
          PROVE  /\ m < snap.next => inv'[m] = snap.outcome[m]
                 /\ m > snap.next => inv'[m] = "absent" /\ eff'[m] = "none"
        BY <1>1, Numbers DEF NodesOK, PositionOK, PositionAgrees
    <2>2. QED
        BY <1>2, <2>1 DEF NodesOK, PositionOK, OutcomePrefix, PositionAgrees
<1>5. WaitOK'
    BY <1>1, <1>2 DEF WaitOK
<1>6. ASSUME NEW m \in Nodes
      PROVE  NodeOK(m)'
    <2>1. CASE m = n
        BY <1>1, <1>2, <2>1 DEF NodeOK, NodesOK
    <2>2. CASE m # n
        BY <1>1, <1>2, <2>2 DEF NodeOK, NodesOK
    <2>3. QED
        BY <2>1, <2>2
<1>7. RetryOK'
    <2>1. NodeReady(snap')
        BY <1>2 DEF NodeReady
    <2>2. att[n] >= 1
        BY DEF NodesOK, NodeOK
    <2>3. QED
        BY <1>1, <1>2, <2>1, <2>2 DEF RetryOK, NodeReady
<1>8. Forward
    BY <1>1, <1>3 DEF Forward, InvTerminal
<1>9. QED
    BY <1>3, <1>4, <1>5, <1>6, <1>7, <1>8 DEF NodesOK

\* A projection is dropped: a retry is due, or a wait is canceled.
LEMMA NodeUnprojected ==
    ASSUME StoreTyped, NodesOK, snap' = Unprojected(snap), UNCHANGED <<att, eff>>, run' # "accepted",
           \/ snap.proj.kind = "retry" /\ inv' = inv
           \/ snap.next \in Nodes /\ inv[snap.next] = "waiting" /\ inv' = [inv EXCEPT ![snap.next] = "canceled"]
    PROVE  NodeTyped' /\ NodesOK' /\ Forward
<1>0. /\ inv \in [Nodes -> {"absent"} \cup InvOpen \cup InvTerminal] /\ att \in [Nodes -> 0..MaxAttempts]
      /\ snap' \in Snapshot /\ snap'.next = snap.next /\ snap'.outcome = snap.outcome
      /\ snap'.proj.kind = "none"
    BY Numbers, SnapshotFacts DEF StoreTyped, NodeTyped
<1>1. \A m \in Nodes : inv'[m] = inv[m] \/ (m = snap.next /\ inv'[m] = "canceled")
    BY <1>0
<1>2. \A m \in Nodes : inv'[m] # "waiting"
    BY <1>0, <1>1 DEF NodesOK, NodeOK
<1>3. NodeTyped' /\ snap.next <= snap'.next
    <2>1. inv' \in [Nodes -> {"absent"} \cup InvOpen \cup InvTerminal]
        BY <1>0 DEF InvOpen, InvTerminal
    <2>2. QED
        BY <1>0, <2>1, Numbers DEF NodeTyped
<1>4. PositionOK'
    <2>1. ASSUME NEW m \in Nodes
          PROVE  /\ m < snap.next => inv'[m] = snap.outcome[m]
                 /\ m > snap.next => inv'[m] = "absent" /\ eff[m] = "none"
        BY <1>1, Numbers DEF NodesOK, PositionOK, PositionAgrees
    <2>2. QED
        BY <1>0, <2>1 DEF NodesOK, PositionOK, OutcomePrefix, PositionAgrees
<1>5. WaitOK' /\ RetryOK'
    BY <1>0 DEF WaitOK, RetryOK
<1>6. ASSUME NEW m \in Nodes
      PROVE  NodeOK(m)'
    <2>1. CASE inv'[m] = inv[m]
        BY <1>2, <2>1 DEF NodeOK, NodesOK
    <2>2. CASE inv'[m] = "canceled"
        BY <2>2 DEF NodeOK
    <2>3. QED
        BY <1>1, <2>1, <2>2
<1>7. Forward
    BY <1>0, <1>1, <1>3 DEF Forward, InvTerminal
<1>8. QED
    BY <1>3, <1>4, <1>5, <1>6, <1>7 DEF NodesOK
-----------------------------------------------------------------------------
(* The shapes of a step.                                                   *)

\* Keys name one aggregate each.
LEMMA KeysDiffer ==
    /\ RunKey # SnapKey
    /\ \A n \in Nodes : /\ InvKey(n) \notin {RunKey, SnapKey} /\ EffKey(n) \notin {RunKey, SnapKey}
                        /\ \A m \in Nodes : /\ InvKey(n) # EffKey(m)
                                            /\ InvKey(n) = InvKey(m) => n = m
                                            /\ EffKey(n) = EffKey(m) => n = m
BY DEF RunKey, SnapKey, InvKey, EffKey

\* What has a key is typed.
LEMMA KeysTyped ==
    /\ RunKey \in Keys /\ SnapKey \in Keys
    /\ \A n \in Nodes : InvKey(n) \in Keys /\ EffKey(n) \in Keys
BY DEF Keys

\* A step changes no aggregate that `keys' does not name, but may create an Effect.
Names(keys) ==
    /\ run' # run => RunKey \in keys
    /\ snap' # snap => SnapKey \in keys
    /\ \A n \in Nodes :
          /\ inv'[n] # inv[n] => InvKey(n) \in keys
          /\ eff'[n] # eff[n] \/ comp'[n] # comp[n] => EffKey(n) \in keys \/ eff[n] = "none"

\* A controller that does not move loses the keys that a step names.
Kept(d, keys) ==
    /\ pc'[d] = pc[d] /\ seen'[d] = seen[d] /\ todo'[d] = todo[d]
    /\ fresh'[d] = fresh[d] \ keys

\* A controller that does not move keeps what its pass knows.
LEMMA OtherPass ==
    ASSUME StoreTyped, StoreTyped', NEW d \in Controllers, seen[d] \in Snapshot, PassOK(d), Onward,
           NEW keys, Names(keys), Kept(d, keys)
    PROVE  PassOK(d)'
<1>a. PICK at, s, list, old : at = pc[d] /\ s = seen[d] /\ list = todo[d] /\ old = fresh[d]
    OBVIOUS
<1>0. /\ Knows(at, s, list, old)
      /\ pc'[d] = at /\ seen'[d] = s /\ todo'[d] = list /\ fresh'[d] = old \ keys
      /\ s.next \in Nat /\ snap.next \in Nat /\ snap'.next \in Nat
    <2>1. s.next \in Nat
        BY <1>a, PlanAssumption DEF Snapshot
    <2>2. snap.next \in Nat
        BY Numbers
    <2>3. snap'.next \in Nat
        BY PlanAssumption DEF StoreTyped, NodeTyped, Snapshot
    <2>4. QED
        BY <1>a, <2>1, <2>2, <2>3 DEF PassOK, Kept
<1>1. /\ at # "idle" => run' # "accepted"
      /\ s.next <= snap'.next
      /\ at \in {"node", "invocation", "claimed"} => s.next <= N
      /\ at \in LastPCs \cup {"compensate", "settle"} => s.proj.kind = "none"
      /\ at = "claimed" => NodeReady(s)
    BY <1>0 DEF Knows, Onward, Forward
<1>b. /\ at = "cancel" => \A n \in Nodes : inv'[n] = "retry-wait" => n \in list
      /\ at = "effects" => \A n \in Nodes : inv'[n] # "retry-wait"
    BY <1>0 DEF Knows, Onward, Forward, StoppingPCs
<1>2. at \in StoppingPCs => termination' # "none"
    BY <1>0 DEF Knows, Onward
<1>3. at \in LastPCs => Over'
    BY <1>0 DEF Knows, Onward
<1>4. at = "publish" => \A n \in Nodes : Settled(n)'
    BY <1>0 DEF Knows, Onward, LastPCs, ClosingPCs
<1>5. RunKey \in old \ keys =>
          /\ at \in RunningPCs => run' = "running"
          /\ at \in StoppingPCs => run' = "stopping"
          /\ at \in ClosingPCs => run' \in {"running", "stopping"}
    BY <1>0 DEF Knows, Names
<1>6. SnapKey \in old \ keys => s = snap'
    BY <1>0 DEF Knows, Names
<1>7. ASSUME NEW n \in Nodes, InvKey(n) \in old \ keys
      PROVE  /\ at = "claimed" /\ s.next = n => inv'[n] = "running"
             /\ at = "cancel" /\ n \in list =>
                   /\ inv'[n] \in InvOpen
                   /\ inv'[n] = "waiting" <=> s.proj.kind = "waiting" /\ s.next = n
    <2>1. inv'[n] = inv[n] /\ InvKey(n) \in old
        BY <1>7 DEF Names
    <2>2. QED
        BY <1>0, <2>1 DEF Knows
<1>8. ASSUME NEW n \in Nodes, EffKey(n) \in old \ keys
      PROVE  /\ eff'[n] # "none"
             /\ at = "effects" /\ n \in list => eff'[n] = "prepared"
             /\ at = "schedule" /\ n \in list => eff'[n] = "applied" /\ comp'[n] = "unscheduled"
    <2>1. eff[n] # "none" /\ EffKey(n) \in old
        BY <1>0, <1>8 DEF Knows
    <2>2. eff'[n] = eff[n] /\ comp'[n] = comp[n]
        BY <1>8, <2>1 DEF Names
    <2>3. QED
        BY <1>0, <2>1, <2>2 DEF Knows
<1>9. Knows(at, s, list, old \ keys)'
    BY <1>1, <1>b, <1>2, <1>3, <1>4, <1>5, <1>6, <1>7, <1>8, Zenon DEF Knows, NodeReady
<1>10. QED
    BY <1>0, <1>9 DEF PassOK
\* One controller acts.
LEMMA StepOfOne ==
    ASSUME Inv, StoreTyped', StoreOK', LocalTyped', Onward, NEW keys, Names(keys),
           NEW c \in Controllers, PassOK(c)', \A d \in Controllers \ {c} : Kept(d, keys)
    PROVE  Inv'
<1>1. StoreTyped /\ LocalTyped
    BY TypeParts DEF Inv
<1>2. ASSUME NEW d \in Controllers \ {c}
      PROVE  PassOK(d)'
    <2>1. seen[d] \in Snapshot /\ PassOK(d) /\ Kept(d, keys)
        BY <1>1, <1>2 DEF LocalTyped, Inv
    <2>2. QED
        BY <1>1, <2>1, OtherPass
<1>3. TypeOK'
    BY Zenon DEF TypeOK, StoreTyped, RunTyped, NodeTyped, EffTyped, RestTyped, LocalTyped
<1>4. QED
    BY <1>2, <1>3 DEF Inv

\* No controller moves.
LEMMA StepOfNone ==
    ASSUME Inv, StoreTyped', StoreOK', LocalTyped', Onward, NEW keys, Names(keys),
           \A d \in Controllers : Kept(d, keys)
    PROVE  Inv'
<1>1. StoreTyped /\ LocalTyped
    BY TypeParts DEF Inv
<1>2. ASSUME NEW d \in Controllers
      PROVE  PassOK(d)'
    <2>1. seen[d] \in Snapshot /\ PassOK(d) /\ Kept(d, keys)
        BY <1>1, <1>2 DEF LocalTyped, Inv
    <2>2. QED
        BY <1>1, <2>1, OtherPass
<1>3. TypeOK'
    BY Zenon DEF TypeOK, StoreTyped, RunTyped, NodeTyped, EffTyped, RestTyped, LocalTyped
<1>4. QED
    BY <1>2, <1>3 DEF Inv

\* The Snapshot a pass starts with.
LEMMA BlankFacts ==
    ASSUME N \in Nat
    PROVE  Blank \in Snapshot /\ Blank.next = 1 /\ Blank.proj.kind = "none"
<1>1. NoProjection \in Projection
    BY DEF NoProjection, Projection
<1>2. [n \in Nodes |-> "none"] \in [Nodes -> Outcomes]
    BY DEF Outcomes
<1>3. 1 \in 1..(N + 1)
    OBVIOUS
<1>4. QED
    BY <1>1, <1>2, <1>3 DEF Blank, Snapshot, NoProjection

\* A commit of nobody's pass.
LEMMA CommitNowKeeps ==
    ASSUME Inv, NEW keys, Names(keys), CommitNow(keys), StoreTyped', StoreOK', Onward
    PROVE  Inv'
<1>1. LocalTyped
    BY TypeParts DEF Inv
<1>2. LocalTyped'
    BY <1>1 DEF LocalTyped, CommitNow
<1>3. \A d \in Controllers : Kept(d, keys)
    BY <1>1 DEF LocalTyped, CommitNow, Kept
<1>4. QED
    BY <1>2, <1>3, StepOfNone

\* The last commit of a pass.
LEMMA ReturnKeeps ==
    ASSUME Inv, NEW c \in Controllers, NEW keys, Names(keys), CommitAndReturn(c, keys),
           StoreTyped', StoreOK', Onward
    PROVE  Inv'
<1>1. LocalTyped /\ N \in Nat
    BY TypeParts, PlanAssumption DEF Inv
<1>2. LocalTyped'
    <2>1. pc' \in [Controllers -> PCs]
        BY <1>1 DEF LocalTyped, CommitAndReturn, PCs
    <2>2. seen' \in [Controllers -> Snapshot]
        BY <1>1, BlankFacts DEF LocalTyped, CommitAndReturn
    <2>3. todo' \in [Controllers -> SUBSET Nodes] /\ fresh' \in [Controllers -> SUBSET Keys]
        BY <1>1 DEF LocalTyped, CommitAndReturn
    <2>4. QED
        BY <2>1, <2>2, <2>3 DEF LocalTyped
<1>3. \A d \in Controllers \ {c} : Kept(d, keys)
    BY <1>1 DEF LocalTyped, CommitAndReturn, Kept
<1>4. PassOK(c)'
    <2>1. pc'[c] = "idle" /\ seen'[c] = Blank /\ todo'[c] = {} /\ fresh'[c] = {}
        BY <1>1 DEF LocalTyped, CommitAndReturn
    <2>2. snap'.next \in Nat /\ snap'.next >= 1
        BY <1>1 DEF StoreTyped, NodeTyped, Snapshot
    <2>3. QED
        BY <1>1, <2>1, <2>2, BlankFacts
        DEF PassOK, Knows, RunningPCs, StoppingPCs, ClosingPCs, LastPCs
<1>5. QED
    BY <1>2, <1>3, <1>4, StepOfOne

\* A commit in the middle of a pass.
LEMMA CommitKeeps ==
    ASSUME Inv, NEW c \in Controllers, NEW keys, NEW at \in PCs, Names(keys), Commit(c, keys, at),
           NEW s \in Snapshot, seen' = [seen EXCEPT ![c] = s],
           NEW list \in SUBSET Nodes, todo' = [todo EXCEPT ![c] = list],
           StoreTyped', StoreOK', Onward, PassOK(c)'
    PROVE  Inv'
<1>1. LocalTyped
    BY TypeParts DEF Inv
<1>2. LocalTyped'
    BY <1>1 DEF LocalTyped, Commit
<1>3. \A d \in Controllers \ {c} : Kept(d, keys)
    BY <1>1 DEF LocalTyped, Commit, Kept
<1>4. QED
    BY <1>2, <1>3, StepOfOne

\* A step that leaves the store alone.
LEMMA StoreKept ==
    ASSUME Inv, UNCHANGED store
    PROVE  StoreTyped' /\ StoreOK' /\ Onward /\ Names({})
<1>1. /\ run' = run /\ termination' = termination /\ snap' = snap /\ inv' = inv /\ att' = att
      /\ eff' = eff /\ begins' = begins /\ comp' = comp /\ resolution' = resolution
      /\ cleanup' = cleanup /\ graph' = graph
    BY DEF store
<1>2. StoreTyped /\ snap.next \in Nat
    BY TypeParts, Numbers DEF Inv
<1>3. StoreTyped'
    BY <1>1, <1>2, Zenon DEF StoreTyped, RunTyped, NodeTyped, EffTyped, RestTyped
<1>4. Over' = Over /\ \A n \in Nodes : Settled(n)' = Settled(n)
    BY <1>1 DEF Over, Settled, Released, Compensatable
<1>5. StoreOK'
    <2>1. PositionOK' /\ WaitOK' /\ RetryOK' /\ EndOK' /\ ProjectionOK'
        BY <1>1 DEF Inv, StoreOK, PositionOK, OutcomePrefix, PositionAgrees, WaitOK, RetryOK, NodeReady,
            EndOK, ProjectionOK
    <2>2. ClosedOK'
        BY <1>1, <1>4 DEF Inv, StoreOK, ClosedOK
    <2>3. \A n \in Nodes : NodeOK(n)' /\ EffectOK(n)'
        BY <1>1, <1>4 DEF Inv, StoreOK, NodeOK, EffectOK
    <2>4. QED
        BY <2>1, <2>2, <2>3 DEF StoreOK
<1>6. Onward /\ Names({})
    BY <1>1, <1>2, <1>4 DEF Onward, Forward, Names
<1>7. QED
    BY <1>3, <1>5, <1>6

\* A step of a pass that leaves the store alone.
LEMMA LookKeeps ==
    ASSUME Inv, NEW c \in Controllers, UNCHANGED store,
           NEW at \in PCs, pc' = [pc EXCEPT ![c] = at],
           NEW s \in Snapshot, seen' = [seen EXCEPT ![c] = s],
           NEW list \in SUBSET Nodes, todo' = [todo EXCEPT ![c] = list],
           NEW keys \in SUBSET Keys, fresh' = [fresh EXCEPT ![c] = keys],
           Knows(at, s, list, keys)
    PROVE  Inv' /\ Onward
<1>1. LocalTyped /\ StoreTyped' /\ StoreOK' /\ Onward /\ Names({})
    BY TypeParts, StoreKept DEF Inv
<1>2. LocalTyped'
    BY <1>1 DEF LocalTyped
<1>3. \A d \in Controllers \ {c} : Kept(d, {})
    BY <1>1 DEF LocalTyped, Kept
<1>4. PassOK(c)'
    <2>1. pc'[c] = at /\ seen'[c] = s /\ todo'[c] = list /\ fresh'[c] = keys
        BY <1>1 DEF LocalTyped
    <2>2. Knows(at, s, list, keys)'
        <3>1. /\ run' = run /\ termination' = termination /\ snap' = snap /\ inv' = inv
              /\ eff' = eff /\ begins' = begins /\ comp' = comp
            BY DEF store
        <3>2. Over' = Over /\ \A n \in Nodes : Settled(n)' = Settled(n)
            BY <3>1 DEF Over, Settled, Released, Compensatable
        <3>3. QED
            BY <3>1, <3>2 DEF Knows, NodeReady
    <2>3. QED
        BY <2>1, <2>2 DEF PassOK
<1>5. QED
    BY <1>1, <1>2, <1>3, <1>4, StepOfOne

\* Reading on.
LEMMA ReadKeeps ==
    ASSUME Inv, NEW c \in Controllers, NEW at \in PCs, NEW keys \in SUBSET Keys, Read(c, keys, at),
           NEW s \in Snapshot, seen' = [seen EXCEPT ![c] = s],
           NEW list \in SUBSET Nodes, todo' = [todo EXCEPT ![c] = list],
           Knows(at, s, list, fresh[c] \cup keys)
    PROVE  Inv' /\ Onward
<1>1. fresh[c] \cup keys \in SUBSET Keys
    BY TypeParts DEF Inv, LocalTyped
<1>2. fresh' = [fresh EXCEPT ![c] = fresh[c] \cup keys]
    BY DEF Read
<1>3. QED
    BY <1>1, <1>2, LookKeeps DEF Read
-----------------------------------------------------------------------------
(* The steps that read.                                                    *)

\* Every non-empty set of naturals has a least element.
LEMMA HasLeast ==
    ASSUME NEW T, T \subseteq Nat, T # {}
    PROVE  \E x \in T : \A y \in T : x <= y
<1>1. PICK x \in T : \A y \in T : ~(<<y, x>> \in OpToRel(<, Nat))
    <2>1. IsWellFoundedOn(OpToRel(<, Nat), Nat)
        BY NatLessThanWellFounded, Zenon
    <2>2. QED
        BY <2>1, WFMin, Zenon
<1>2. ASSUME NEW y \in T
      PROVE  x <= y
    <2>1. ~(y < x)
        BY <1>1 DEF OpToRel
    <2>2. QED
        BY <2>1
<1>3. QED
    BY <1>2

\* Every non-empty set of nodes has a greatest element.
LEMMA HasGreatest ==
    ASSUME N \in Nat, NEW T, T \subseteq Nodes, T # {}
    PROVE  \E x \in T : \A y \in T : y <= x
<1> USE DEF Nodes
<1>1. {N - x : x \in T} \subseteq Nat /\ {N - x : x \in T} # {}
    OBVIOUS
<1>2. PICK z \in {N - x : x \in T} : \A y \in {N - x : x \in T} : z <= y
    BY <1>1, HasLeast
<1>3. PICK x \in T : z = N - x
    BY <1>2
<1>4. ASSUME NEW y \in T
      PROVE  y <= x
    <2>1. N - x <= N - y
        BY <1>2, <1>3
    <2>2. QED
        BY <2>1
<1>5. QED
    BY <1>4

\* Which Effect scheduleNextEffectCompensation takes: an applied one.
LEMMA LastIsChosen ==
    ASSUME N \in Nat, NEW T, T \subseteq Nodes, T # {}
    PROVE  (CHOOSE n \in T : \A m \in T : m <= n) \in T
BY HasGreatest

\* The reads of the way to a node.
LEMMA DriveReadsKeep ==
    ASSUME Inv, NEW c \in Controllers, LoadRun(c) \/ LoadSnapshot(c) \/ LoadInvocation(c)
    PROVE  Inv' /\ Onward
<1> USE DEF RunningPCs, StoppingPCs, ClosingPCs, LastPCs
<1>0. /\ Knows(pc[c], seen[c], todo[c], fresh[c]) /\ StoreOK /\ StoreTyped /\ LocalTyped
      /\ seen[c] \in Snapshot /\ todo[c] \in SUBSET Nodes
      /\ seen = [seen EXCEPT ![c] = seen[c]] /\ todo = [todo EXCEPT ![c] = todo[c]]
    BY TypeParts DEF Inv, PassOK, LocalTyped
<1>1. CASE LoadRun(c)
    <2>1. PICK at \in {"loaded", "stop"} :
              /\ Read(c, {RunKey}, at) /\ pc[c] = "idle" /\ UNCHANGED <<seen, todo>>
              /\ at = "loaded" => run = "running"
              /\ at = "stop" => run = "stopping"
        BY <1>1 DEF LoadRun
    <2>2. Knows(at, seen[c], todo[c], fresh[c] \cup {RunKey})
        <3>1. termination # "none" \/ at = "loaded"
            BY <1>0, <2>1 DEF StoreOK, EndOK
        <3>2. QED
            BY <1>0, <2>1, <3>1, KeysDiffer DEF Knows
    <2>3. at \in PCs /\ {RunKey} \in SUBSET Keys
        BY KeysTyped DEF PCs
    <2>4. QED
        BY <1>0, <2>1, <2>2, <2>3, ReadKeeps
<1>2. CASE LoadSnapshot(c)
    <2>1. PICK at \in {"done", "node"} :
              /\ Read(c, {SnapKey}, at) /\ pc[c] = "loaded" /\ Readable
              /\ seen' = [seen EXCEPT ![c] = snap] /\ UNCHANGED todo
              /\ at = "done" => snap.next > N
              /\ at = "node" => ~(snap.next > N)
        BY <1>2 DEF LoadSnapshot
    <2>2. N \in Nat /\ snap \in Snapshot /\ snap.next \in Nat /\ snap.proj \in Projection
        BY <1>0, Numbers
    <2>3. ASSUME at = "done"
          PROVE  Over /\ snap.proj.kind = "none"
        <3>1. snap.next \notin Nodes
            BY <2>1, <2>2, <2>3 DEF Nodes
        <3>2. snap.proj.kind = "none"
            BY <2>1, <2>2, <3>1 DEF Readable, ProjectionFitsInvocation, Projection
        <3>3. run \notin {"accepted", "waiting"}
            BY <1>0, <2>1, <3>2 DEF Readable, ProjectionFitsRun, Knows
        <3>4. QED
            BY <2>1, <2>3, <3>2, <3>3 DEF Over
    <2>4. Knows(at, snap, todo[c], fresh[c] \cup {SnapKey})
        BY <1>0, <2>1, <2>2, <2>3, KeysDiffer DEF Knows
    <2>5. at \in PCs /\ {SnapKey} \in SUBSET Keys
        BY KeysTyped DEF PCs
    <2>6. QED
        BY <1>0, <2>1, <2>2, <2>4, <2>5, ReadKeeps
<1>3. CASE LoadInvocation(c)
    <2>1. PICK key : key = InvKey(seen[c].next)
        OBVIOUS
    <2>2. pc[c] = "node" /\ Read(c, {key}, "invocation") /\ UNCHANGED <<seen, todo>>
        BY <1>3, <2>1 DEF LoadInvocation
    <2>3. seen[c].next \in Nodes
        BY <1>0, <2>2, PlanAssumption DEF Knows, Snapshot, Nodes
    <2>4. Knows("invocation", seen[c], todo[c], fresh[c] \cup {key})
        BY <1>0, <2>1, <2>2, <2>3, KeysDiffer DEF Knows
    <2>5. "invocation" \in PCs /\ {key} \in SUBSET Keys
        BY <2>1, <2>3, KeysTyped DEF PCs
    <2>6. QED
        BY <1>0, <2>2, <2>4, <2>5, ReadKeeps
<1>4. QED
    BY <1>1, <1>2, <1>3

\* The reads of a Run that ends.
LEMMA EndReadsKeep ==
    ASSUME Inv, NEW c \in Controllers,
           ListInvocations(c) \/ ListEffects(c) \/ ReloadSnapshot(c) \/ CheckIntents(c) \/ DeriveClosure(c)
    PROVE  Inv' /\ Onward
<1> USE DEF RunningPCs, StoppingPCs, ClosingPCs, LastPCs
<1>0. /\ Knows(pc[c], seen[c], todo[c], fresh[c]) /\ StoreOK /\ StoreTyped /\ LocalTyped
      /\ seen[c] \in Snapshot /\ todo[c] \in SUBSET Nodes
      /\ seen = [seen EXCEPT ![c] = seen[c]] /\ todo = [todo EXCEPT ![c] = todo[c]]
      /\ N \in Nat /\ snap \in Snapshot /\ snap.next \in Nat
    BY TypeParts, Numbers DEF Inv, PassOK, LocalTyped
<1>1. CASE ListInvocations(c)
    <2>1. PICK open : open = {n \in Nodes : inv[n] \in InvOpen}
        OBVIOUS
    <2>2. PICK keys : keys = {SnapKey} \cup {InvKey(n) : n \in open}
        OBVIOUS
    <2>3. /\ pc[c] = "stop" /\ Read(c, keys, "cancel")
          /\ seen' = [seen EXCEPT ![c] = snap] /\ todo' = [todo EXCEPT ![c] = open]
        BY <1>1, <2>1, <2>2 DEF ListInvocations
    <2>4. keys \in SUBSET Keys /\ open \in SUBSET Nodes /\ "cancel" \in PCs
        BY <2>1, <2>2, KeysTyped DEF PCs
    <2>5. ASSUME NEW n \in open
          PROVE  /\ n \in Nodes /\ inv[n] \in InvOpen
                 /\ inv[n] = "waiting" <=> snap.proj.kind = "waiting" /\ snap.next = n
        BY <1>0, <2>1 DEF StoreOK, NodeOK, WaitOK
    <2>6. RunKey \notin keys /\ \A n \in Nodes : EffKey(n) \notin keys
        BY <2>2, <2>4, KeysDiffer
    <2>a. \A n \in Nodes : inv[n] = "retry-wait" => n \in open
        BY <2>1 DEF InvOpen
    <2>7. Knows("cancel", snap, open, fresh[c] \cup keys)
        BY <1>0, <2>3, <2>5, <2>6, <2>a DEF Knows
    <2>8. QED
        BY <1>0, <2>3, <2>4, <2>7, ReadKeeps
<1>2. CASE ListEffects(c)
    <2>1. PICK open : open = {n \in Nodes : eff[n] = "prepared"}
        OBVIOUS
    <2>2. PICK keys : keys = {EffKey(n) : n \in open}
        OBVIOUS
    <2>3. /\ pc[c] = "cancel" /\ todo[c] = {} /\ Read(c, keys, "effects")
          /\ UNCHANGED seen /\ todo' = [todo EXCEPT ![c] = open]
        BY <1>2, <2>1, <2>2 DEF ListEffects
    <2>4. keys \in SUBSET Keys /\ open \in SUBSET Nodes /\ "effects" \in PCs
        BY <2>1, <2>2, KeysTyped DEF PCs
    <2>5. /\ RunKey \notin keys /\ SnapKey \notin keys
          /\ \A n \in Nodes : EffKey(n) \in keys => eff[n] = "prepared"
        BY <2>1, <2>2, <2>4, KeysDiffer
    <2>6. \A n \in open : eff[n] = "prepared"
        BY <2>1
    <2>7. Knows("effects", seen[c], open, fresh[c] \cup keys)
        BY <1>0, <2>3, <2>5, <2>6 DEF Knows
    <2>8. QED
        BY <1>0, <2>3, <2>4, <2>7, ReadKeeps
<1>3. CASE ReloadSnapshot(c)
    <2>1. /\ pc[c] = "effects" /\ Read(c, {SnapKey}, "compensate") /\ snap.proj.kind # "waiting"
          /\ seen' = [seen EXCEPT ![c] = snap] /\ UNCHANGED todo
        BY <1>3 DEF ReloadSnapshot
    <2>a. snap.proj.kind = "none"
        <3>1. snap.proj.kind \in {"none", "waiting", "retry"}
            BY <1>0, Numbers DEF Projection
        <3>2. snap.proj.kind # "retry"
            BY <1>0, <1>3, <2>1 DEF ReloadSnapshot, Readable, ProjectionFitsInvocation, Knows
        <3>3. QED
            BY <2>1, <3>1, <3>2
    <2>2. Knows("compensate", snap, todo[c], fresh[c] \cup {SnapKey})
        BY <1>0, <2>1, <2>a, KeysDiffer DEF Knows
    <2>3. "compensate" \in PCs /\ {SnapKey} \in SUBSET Keys
        BY KeysTyped DEF PCs
    <2>4. QED
        BY <1>0, <2>1, <2>2, <2>3, ReadKeeps
<1>4. CASE CheckIntents(c)
    <2>1. pc[c] = "settle" /\ Read(c, {}, "close") /\ UNCHANGED <<seen, todo>>
        BY <1>4 DEF CheckIntents
    <2>2. Knows("close", seen[c], todo[c], fresh[c] \cup {})
        BY <1>0, <2>1 DEF Knows, Over
    <2>3. "close" \in PCs /\ {} \in SUBSET Keys
        BY DEF PCs
    <2>4. QED
        BY <1>0, <2>1, <2>2, <2>3, ReadKeeps
<1>5. CASE DeriveClosure(c)
    <2>1. pc[c] = "close" /\ Read(c, {}, "publish") /\ UNCHANGED <<seen, todo>> /\ Closed
        BY <1>5 DEF DeriveClosure
    <2>2. \A n \in Nodes : Settled(n)
        BY <2>1 DEF Closed, Settled, Released
    <2>3. Knows("publish", seen[c], todo[c], fresh[c] \cup {})
        BY <1>0, <2>1, <2>2 DEF Knows
    <2>4. "publish" \in PCs /\ {} \in SUBSET Keys
        BY DEF PCs
    <2>5. QED
        BY <1>0, <2>1, <2>3, <2>4, ReadKeeps
<1>6. QED
    BY <1>1, <1>2, <1>3, <1>4, <1>5

\* The choice of the next compensation, and a pass that is given up.
LEMMA ChoiceKeeps ==
    ASSUME Inv, NEW c \in Controllers, ChooseCompensation(c) \/ Abandon(c)
    PROVE  Inv' /\ Onward
<1> USE DEF RunningPCs, StoppingPCs, ClosingPCs, LastPCs
<1>0. /\ Knows(pc[c], seen[c], todo[c], fresh[c]) /\ StoreOK /\ StoreTyped /\ LocalTyped
      /\ seen[c] \in Snapshot /\ todo[c] \in SUBSET Nodes
      /\ seen = [seen EXCEPT ![c] = seen[c]] /\ todo = [todo EXCEPT ![c] = todo[c]]
      /\ N \in Nat /\ snap \in Snapshot /\ snap.next \in Nat /\ snap.next >= 1
    BY TypeParts, Numbers DEF Inv, PassOK, LocalTyped
<1>1. CASE ChooseCompensation(c)
    <2>1. PICK T : T = {n \in Nodes : Compensatable(n) /\ comp[n] = "unscheduled"}
        OBVIOUS
    <2>2. PICK last : last = CHOOSE n \in T : \A m \in T : m <= n
        OBVIOUS
    <2>3. pc[c] \in {"done", "compensate"} /\ UNCHANGED seen
        BY <1>1 DEF ChooseCompensation
    <2>4. \/ T # {} /\ Read(c, {EffKey(last)}, "schedule") /\ todo' = [todo EXCEPT ![c] = {last}]
          \/ pc[c] = "compensate" /\ Read(c, {}, "settle") /\ UNCHANGED todo
          \/ /\ pc[c] = "done" /\ UNCHANGED todo
             /\ Read(c, {}, "cleanup-failed") \/ Read(c, {}, "close")
        BY <1>1, <2>1, <2>2 DEF ChooseCompensation
    <2>5. CASE T # {} /\ Read(c, {EffKey(last)}, "schedule") /\ todo' = [todo EXCEPT ![c] = {last}]
        <3>1. last \in T
            BY <1>0, <2>1, <2>2, <2>5, LastIsChosen
        <3>2. last \in Nodes /\ eff[last] = "applied" /\ comp[last] = "unscheduled"
            BY <2>1, <3>1 DEF Compensatable
        <3>3. {last} \in SUBSET Nodes /\ {EffKey(last)} \in SUBSET Keys /\ "schedule" \in PCs
            BY <3>2, KeysTyped DEF PCs
        <3>4. /\ RunKey \in fresh[c] \cup {EffKey(last)} <=> RunKey \in fresh[c]
              /\ SnapKey \in fresh[c] \cup {EffKey(last)} <=> SnapKey \in fresh[c]
              /\ \A n \in Nodes : EffKey(n) \in fresh[c] \cup {EffKey(last)} => EffKey(n) \in fresh[c] \/ n = last
            BY <3>2, KeysDiffer
        <3>5. Knows("schedule", seen[c], {last}, fresh[c] \cup {EffKey(last)})
            BY <1>0, <2>3, <3>2, <3>4 DEF Knows, Over
        <3>6. QED
            BY <1>0, <2>3, <2>5, <3>3, <3>5, ReadKeeps
    <2>6. CASE pc[c] = "compensate" /\ Read(c, {}, "settle") /\ UNCHANGED todo
        <3>1. Knows("settle", seen[c], todo[c], fresh[c] \cup {})
            BY <1>0, <2>6 DEF Knows
        <3>2. "settle" \in PCs /\ {} \in SUBSET Keys
            BY DEF PCs
        <3>3. QED
            BY <1>0, <2>3, <2>6, <3>1, <3>2, ReadKeeps
    <2>7. ASSUME NEW at \in {"cleanup-failed", "close"}, pc[c] = "done", Read(c, {}, at), UNCHANGED todo
          PROVE  Inv' /\ Onward
        <3>1. Knows(at, seen[c], todo[c], fresh[c] \cup {})
            BY <1>0, <2>7 DEF Knows
        <3>2. at \in PCs /\ {} \in SUBSET Keys
            BY DEF PCs
        <3>3. QED
            BY <1>0, <2>3, <2>7, <3>1, <3>2, ReadKeeps
    <2>8. QED
        BY <2>4, <2>5, <2>6, <2>7
<1>2. CASE Abandon(c)
    <2>1. Knows("idle", Blank, {}, {})
        BY <1>0, BlankFacts DEF Knows
    <2>2. "idle" \in PCs /\ {} \in SUBSET Nodes /\ {} \in SUBSET Keys
        BY DEF PCs
    <2>3. QED
        BY <1>0, <1>2, <2>1, <2>2, BlankFacts, LookKeeps DEF Abandon
<1>3. QED
    BY <1>1, <1>2
-----------------------------------------------------------------------------
(* The steps of Drive that write.                                          *)

\* A step that leaves the Run alone.
LEMMA RunStays ==
    ASSUME KeepRun
    PROVE  RunStep /\ run' = run /\ termination' = termination /\ cleanup' = cleanup
BY DEF KeepRun, RunStep, RunKept

\* The parts of the invariant.
LEMMA Parts ==
    ASSUME Inv, NEW c \in Controllers
    PROVE  /\ StoreTyped /\ RunTyped /\ NodeTyped /\ EffTyped /\ RestTyped /\ LocalTyped
           /\ StoreOK /\ NodesOK /\ ProjectionOK /\ EndOK
           /\ \A n \in Nodes : NodeOK(n) /\ EffectOK(n)
           /\ Knows(pc[c], seen[c], todo[c], fresh[c])
           /\ seen[c] \in Snapshot /\ todo[c] \in SUBSET Nodes
BY TypeParts DEF Inv, StoreTyped, LocalTyped, StoreOK, NodesOK, PassOK

\* The current Invocation changes, nothing else: it is activated or given back.
LEMMA ReadyKeeps ==
    ASSUME Inv, NEW c \in Controllers, NEW n \in Nodes, ActivateInvocation(c, n) \/ ExpireForRetry(c, n)
    PROVE  Inv' /\ Onward
<1>0. /\ StoreTyped /\ EffTyped /\ RestTyped /\ StoreOK /\ NodesOK /\ ProjectionOK /\ NodeOK(n)
      /\ Knows(pc[c], seen[c], todo[c], fresh[c])
    BY Parts
<1>1. /\ pc[c] = "invocation" /\ n = seen[c].next /\ inv[n] \in {"absent", "running"}
      /\ inv[n] = "running" => att[n] < MaxAttempts
      /\ inv' = [inv EXCEPT ![n] = "ready"] /\ CommitAndReturn(c, {InvKey(n)}) /\ KeepRun
      /\ UNCHANGED <<snap, att, eff, begins, comp, resolution, graph>>
    BY DEF ActivateInvocation, ExpireForRetry, AtInvocation, MayRetryLost
<1>2. n = snap.next
    <2>1. CASE inv[n] = "absent"
        BY <1>0, <1>1, <2>1, AbsentIsCurrent DEF Knows
    <2>2. CASE inv[n] = "running"
        BY <1>0, <2>2, OpenIsCurrent DEF InvOpen
    <2>3. QED
        BY <1>1, <2>1, <2>2
<1>3. /\ RunStep /\ run' = run /\ cleanup' = cleanup
    BY <1>1, RunStays
<1>4. NodeTyped' /\ NodesOK' /\ Forward
    <2>1. att[n] \in 0..MaxAttempts /\ att' = [att EXCEPT ![n] = att[n]] /\ att[n] < MaxAttempts /\ eff[n] = "none"
        BY <1>0, <1>1 DEF StoreTyped, NodeTyped, NodeOK
    <2>2. PICK a \in 0..MaxAttempts : a = att[n] /\ a >= att[n]
        BY <2>1, Numbers
    <2>3. inv[n] \in {"absent", "ready", "running", "retry-wait"} /\ inv[n] # "retry-wait"
        BY <1>1
    <2>4. QED
        BY <1>0, <1>1, <1>2, <1>3, <2>1, <2>2, <2>3, NodeMoved
<1>5. EffectSteps /\ RestTyped' /\ ProjectionOK'
    BY <1>0, <1>1, <1>3, EffectsKept DEF RestTyped, ProjectionOK
<1>6. StoreTyped' /\ StoreOK' /\ Onward
    BY <1>0, <1>3, <1>4, <1>5, StoreKeeps
<1>7. Names({InvKey(n)})
    BY <1>0, <1>1, <1>3 DEF Names, StoreTyped, NodeTyped
<1>8. QED
    BY <1>1, <1>6, <1>7, ReturnKeeps

\* The node is claimed.
LEMMA ClaimKeeps ==
    ASSUME Inv, NEW c \in Controllers, NEW n \in Nodes, ClaimInvocation(c, n)
    PROVE  Inv' /\ Onward
<1>0. /\ StoreTyped /\ NodeTyped /\ EffTyped /\ RestTyped /\ LocalTyped /\ StoreOK /\ NodesOK /\ ProjectionOK
      /\ NodeOK(n) /\ Knows(pc[c], seen[c], todo[c], fresh[c])
      /\ seen[c] \in Snapshot /\ todo[c] \in SUBSET Nodes
    BY Parts
<1>1. /\ pc[c] = "invocation" /\ n = seen[c].next /\ inv[n] \in {"ready", "retry-wait"}
      /\ inv' = [inv EXCEPT ![n] = "running"] /\ att' = [att EXCEPT ![n] = att[n] + 1]
      /\ Commit(c, {InvKey(n)}, "claimed") /\ KeepRun /\ NodeReady(seen[c])
      /\ UNCHANGED <<snap, eff, begins, comp, resolution, graph, seen, todo>>
    BY DEF ClaimInvocation, AtInvocation
<1>2. n = snap.next
    BY <1>0, <1>1, OpenIsCurrent DEF InvOpen
<1>3. /\ RunStep /\ run' = run /\ termination' = termination /\ cleanup' = cleanup
    BY <1>1, RunStays
<1>4. NodeTyped' /\ NodesOK' /\ Forward
    <2>1. PICK a \in 0..MaxAttempts : a = att[n] + 1 /\ a >= att[n] /\ a > att[n]
        BY <1>0, <1>1, Numbers DEF NodeOK
    <2>2. eff[n] = "none" /\ inv[n] \in {"absent", "ready", "running", "retry-wait"}
        BY <1>0, <1>1 DEF NodeOK
    <2>3. QED
        BY <1>0, <1>1, <1>2, <1>3, <2>1, <2>2, NodeMoved
<1>5. EffectSteps /\ RestTyped' /\ ProjectionOK'
    <2>1. \A m \in Nodes : att[m] \in Nat /\ (att[m] > 1 => att'[m] > 1)
        BY <1>0, <1>1, Numbers DEF NodeTyped
    <2>2. ProjectionOK'
        BY <1>0, <1>1, <1>3, <2>1 DEF ProjectionOK
    <2>3. QED
        BY <1>0, <1>1, <1>3, <2>2, EffectsKept DEF RestTyped
<1>6. StoreTyped' /\ StoreOK' /\ Onward
    BY <1>0, <1>3, <1>4, <1>5, StoreKeeps
<1>7. Names({InvKey(n)})
    BY <1>0, <1>1, <1>3 DEF Names, NodeTyped
<1>8. PassOK(c)'
    <2>1. PICK s, list, keys : s = seen[c] /\ list = todo[c] /\ keys = fresh[c]
        OBVIOUS
    <2>2. pc'[c] = "claimed" /\ seen'[c] = s /\ todo'[c] = list /\ fresh'[c] = keys
        BY <1>0, <1>1, <2>1 DEF Commit, LocalTyped
    <2>3. inv'[n] = "running" /\ Over' = Over
        BY <1>0, <1>1, <1>3 DEF NodeTyped, Over
    <2>4. Knows("invocation", s, list, keys)
        BY <1>0, <1>1, <2>1
    <2>5. Knows("claimed", s, list, keys)'
        BY <1>1, <1>3, <2>1, <2>3, <2>4
        DEF Knows, NodeReady, RunningPCs, StoppingPCs, ClosingPCs, LastPCs
    <2>6. QED
        BY <2>2, <2>5 DEF PassOK
<1>9. QED
    <2>1. seen' = [seen EXCEPT ![c] = seen[c]] /\ todo' = [todo EXCEPT ![c] = todo[c]] /\ "claimed" \in PCs
        BY <1>0, <1>1 DEF LocalTyped, PCs
    <2>2. QED
        BY <1>0, <1>1, <1>6, <1>7, <1>8, <2>1, CommitKeeps
\* The outcome of the current node is recorded.
LEMMA RecordKeeps ==
    ASSUME Inv, NEW c \in Controllers, NEW n \in Nodes, n = seen[c].next, pc[c] # "idle",
           inv[n] \in {"ready", "running"},
           NEW keys, CommitAndReturn(c, keys), SnapKey \in keys, InvKey(n) \in keys,
           NEW to \in {"succeeded", "failed", "skipped"}, inv' = [inv EXCEPT ![n] = to],
           snap' = Recorded(seen[c], to) \/ (~NodeReady(seen[c]) /\ to = "skipped" /\ snap' = RecordedSkip(seen[c])),
           RunStep, RunKept \/ (run' = "stopping" /\ RunKey \in keys), RestTyped',
           UNCHANGED <<att, eff, begins, comp>>
    PROVE  Inv' /\ Onward
<1>0. /\ StoreTyped /\ NodeTyped /\ EffTyped /\ StoreOK /\ NodesOK /\ ProjectionOK
      /\ Knows(pc[c], seen[c], todo[c], fresh[c])
    BY Parts
<1>1. seen[c] = snap /\ n = snap.next /\ run # "accepted"
    BY <1>0 DEF Knows, CommitAndReturn
<1>2. snap.proj.kind # "waiting" /\ snap.proj.kind \in {"none", "waiting", "retry"}
    BY <1>0, <1>1, Numbers DEF NodesOK, WaitOK, Projection
<1>3. /\ snap' \in Snapshot /\ snap'.next = n + 1 /\ snap'.outcome = [snap.outcome EXCEPT ![n] = to]
      /\ snap'.proj.kind = "none"
    <2>1. snap \in Snapshot /\ snap.next \in Nodes /\ N \in Nat /\ to \in Outcomes
        BY <1>0, <1>1, Numbers DEF Outcomes
    <2>2. CASE snap' = Recorded(seen[c], to)
        <3>1. \A o \in Outcomes :
                  /\ Recorded(snap, o) \in Snapshot
                  /\ Recorded(snap, o).next = snap.next + 1
                  /\ Recorded(snap, o).proj.kind = "none"
                  /\ Recorded(snap, o).outcome = [snap.outcome EXCEPT ![snap.next] = o]
            BY <2>1, SnapshotFacts, Zenon
        <3>2. QED
            BY <1>1, <2>1, <2>2, <3>1
    <2>3. CASE ~NodeReady(seen[c]) /\ to = "skipped" /\ snap' = RecordedSkip(seen[c])
        <3>1. snap.proj.kind = "none"
            BY <1>0, <1>1, <1>2, <2>3 DEF NodesOK, RetryOK
        <3>2. QED
            BY <1>1, <2>1, <2>3, <3>1, SnapshotFacts
    <2>4. QED
        BY <2>2, <2>3
<1>4. run' # "accepted"
    BY <1>1 DEF RunKept
<1>5. NodeTyped' /\ NodesOK' /\ Forward
    <2>1. inv[n] \notin InvTerminal
        BY DEF InvTerminal
    <2>2. QED
        BY <1>0, <1>1, <1>3, <1>4, <2>1, NodeRecorded
<1>6. ProjectionOK'
    <2>1. run' = run \/ run' = "stopping"
        BY DEF RunKept
    <2>2. ASSUME run = "waiting"
          PROVE  \E m \in Nodes : att'[m] > 1
        <3>1. CASE snap.proj.kind = "none"
            BY <1>0, <2>2, <3>1 DEF ProjectionOK
        <3>2. CASE snap.proj.kind = "retry"
            <4>1. att[n] > snap.proj.ordinal /\ snap.proj.ordinal >= 1
                BY <1>0, <1>1, <3>2 DEF NodesOK, RetryOK
            <4>2. att[n] \in Nat /\ snap.proj.ordinal \in Nat
                BY <1>0, Numbers DEF Projection
            <4>3. att'[n] > 1
                BY <4>1, <4>2
            <4>4. QED
                BY <4>3
        <3>3. QED
            BY <1>2, <3>1, <3>2
    <2>3. QED
        BY <1>3, <2>1, <2>2 DEF ProjectionOK
<1>7. EffectSteps
    BY <1>0, EffectsKept
<1>8. StoreTyped' /\ StoreOK' /\ Onward
    <2>1. run' \in RunTerminal => run \in RunTerminal
        BY DEF RunKept, RunTerminal
    <2>2. QED
        BY <1>0, <1>5, <1>6, <1>7, <2>1, StoreKeeps
<1>9. Names(keys)
    BY <1>0 DEF Names, NodeTyped, RunKept
<1>10. QED
    BY <1>8, <1>9, ReturnKeeps

\* A node is skipped, succeeds or fails.
LEMMA OutcomeKeeps ==
    ASSUME Inv, NEW c \in Controllers, NEW n \in Nodes, SkipNode(c, n) \/ CompleteNode(c, n) \/ FailNode(c, n)
    PROVE  Inv' /\ Onward
<1>0. /\ RunTyped /\ EndOK /\ RestTyped /\ Knows(pc[c], seen[c], todo[c], fresh[c])
    BY Parts
<1>1. CASE SkipNode(c, n)
    <2>1. /\ n = seen[c].next /\ pc[c] # "idle" /\ ~NodeReady(seen[c]) /\ inv[n] = "ready" /\ inv' = [inv EXCEPT ![n] = "skipped"]
          /\ snap' = RecordedSkip(seen[c]) /\ CommitAndReturn(c, {InvKey(n), SnapKey})
          /\ UNCHANGED <<att, eff, begins, comp>> /\ UNCHANGED <<resolution, graph>> /\ KeepRun
        BY <1>1 DEF SkipNode, AtInvocation
    <2>2. RunStep /\ RunKept /\ RestTyped'
        BY <1>0, <2>1 DEF KeepRun, RunStep, RunKept, RestTyped
    <2>3. PICK keys : keys = {InvKey(n), SnapKey}
        OBVIOUS
    <2>4. /\ CommitAndReturn(c, keys) /\ SnapKey \in keys /\ InvKey(n) \in keys
          /\ inv[n] \in {"ready", "running"}
        BY <2>1, <2>3
    <2>5. QED
        BY <2>1, <2>2, <2>3, <2>4, RecordKeeps
<1>2. ASSUME AtClaim(c, n), InvKey(n) \in fresh[c]
      PROVE  n = seen[c].next /\ pc[c] = "claimed" /\ inv[n] = "running"
    BY <1>0, <1>2 DEF AtClaim, Knows
<1>3. CASE CompleteNode(c, n)
    <2>1. /\ AtClaim(c, n) /\ inv' = [inv EXCEPT ![n] = "succeeded"]
          /\ snap' = Recorded(seen[c], "succeeded") /\ CommitAndReturn(c, {InvKey(n), SnapKey})
          /\ UNCHANGED <<att, eff, begins, comp>> /\ UNCHANGED <<resolution, graph>> /\ KeepRun
        BY <1>3 DEF CompleteNode
    <2>2. RunStep /\ RunKept /\ RestTyped'
        BY <1>0, <2>1 DEF KeepRun, RunStep, RunKept, RestTyped
    <2>3. InvKey(n) \in fresh[c]
        BY <2>1 DEF CommitAndReturn
    <2>4. PICK keys : keys = {InvKey(n), SnapKey}
        OBVIOUS
    <2>5. /\ CommitAndReturn(c, keys) /\ SnapKey \in keys /\ InvKey(n) \in keys
          /\ n = seen[c].next /\ pc[c] # "idle" /\ inv[n] \in {"ready", "running"}
        BY <1>2, <2>1, <2>3, <2>4
    <2>6. QED
        BY <2>1, <2>2, <2>4, <2>5, RecordKeeps
<1>4. CASE FailNode(c, n)
    <2>1. /\ AtClaim(c, n) \/ AtInvocation(c, n, "running")
          /\ snap' = Recorded(seen[c], "failed")
          /\ UNCHANGED <<att, eff, begins, comp>> /\ UNCHANGED <<resolution, graph>>
        BY <1>4 DEF FailNode
    <2>2. inv' = [inv EXCEPT ![n] = "failed"]
        BY <1>4 DEF FailNode
    <2>3. ASSUME InvKey(n) \in fresh[c]
          PROVE  n = seen[c].next /\ pc[c] \in {"claimed", "invocation"} /\ inv[n] = "running"
        BY <1>2, <2>1, <2>3 DEF AtInvocation
    <2>4. CASE KeepRun /\ CommitAndReturn(c, {InvKey(n), SnapKey})
        <3>1. RunStep /\ RunKept /\ RestTyped'
            BY <1>0, <2>1, <2>4 DEF KeepRun, RunStep, RunKept, RestTyped
        <3>2. InvKey(n) \in fresh[c]
            BY <2>4 DEF CommitAndReturn
        <3>3. PICK keys : keys = {InvKey(n), SnapKey}
            OBVIOUS
        <3>4. /\ CommitAndReturn(c, keys) /\ SnapKey \in keys /\ InvKey(n) \in keys
              /\ n = seen[c].next /\ pc[c] # "idle" /\ inv[n] \in {"ready", "running"}
            BY <2>3, <2>4, <3>2, <3>3
        <3>5. QED
            BY <2>1, <2>2, <3>1, <3>3, <3>4, RecordKeeps
    <2>5. CASE EnterStopping("failed") /\ CommitAndReturn(c, {RunKey, InvKey(n), SnapKey})
        <3>1. InvKey(n) \in fresh[c] /\ RunKey \in fresh[c]
            BY <2>5 DEF CommitAndReturn
        <3>2. run = "running"
            BY <1>0, <2>3, <3>1 DEF Knows, RunningPCs
        <3>3. termination = "none"
            BY <1>0, <3>2, KindsEnd DEF EndOK, RunTyped, RunTerminal
        <3>4. RunStep /\ run' = "stopping" /\ RestTyped'
            BY <1>0, <2>1, <2>5, <3>2, <3>3 DEF EnterStopping, RunStep, RunStopped, RestTyped, IntentStates, RunTerminal
        <3>5. PICK keys : keys = {RunKey, InvKey(n), SnapKey}
            OBVIOUS
        <3>6. /\ CommitAndReturn(c, keys) /\ RunKey \in keys /\ SnapKey \in keys /\ InvKey(n) \in keys
              /\ n = seen[c].next /\ pc[c] # "idle" /\ inv[n] \in {"ready", "running"}
            BY <2>3, <2>5, <3>1, <3>5
        <3>7. QED
            BY <2>1, <2>2, <3>4, <3>5, <3>6, RecordKeeps
    <2>6. QED
        BY <1>4, <2>4, <2>5 DEF FailNode
<1>5. QED
    BY <1>1, <1>3, <1>4
\* What a claimed attempt that parks stands on.
LEMMA ParkFacts ==
    ASSUME Inv, NEW c \in Controllers, NEW n \in Nodes, AtClaim(c, n),
           {RunKey, InvKey(n), SnapKey} \subseteq fresh[c], Move("waiting")
    PROVE  /\ seen[c] = snap /\ n = snap.next /\ inv[n] = "running" /\ run = "running"
           /\ ~Over /\ RunStep /\ run' = "waiting" /\ termination' = termination /\ cleanup' = cleanup
           /\ termination = "none" /\ NodeReady(snap)
<1>0. /\ StoreTyped /\ RunTyped /\ EndOK /\ Knows(pc[c], seen[c], todo[c], fresh[c])
    BY Parts
<1>1. pc[c] = "claimed" /\ n = seen[c].next
    BY DEF AtClaim
<1>2. seen[c] = snap /\ inv[n] = "running" /\ run = "running" /\ NodeReady(snap)
    BY <1>0, <1>1 DEF Knows, RunningPCs
<1>3. termination = "none"
    BY <1>0, <1>2, KindsEnd DEF EndOK, RunTyped, RunTerminal
<1>4. ~(snap.next > N)
    BY <1>0, <1>1, <1>2, Numbers
<1>5. ~Over
    BY <1>3, <1>4 DEF Over
<1>6. QED
    BY <1>1, <1>2, <1>3, <1>5 DEF Move, RunStep, RunMoved

\* The attempt failed transiently and waits for a retry.
LEMMA RetryKeeps ==
    ASSUME Inv, NEW c \in Controllers, NEW n \in Nodes, ScheduleRetry(c, n)
    PROVE  Inv' /\ Onward
<1>0. /\ StoreTyped /\ NodeTyped /\ EffTyped /\ RestTyped /\ StoreOK /\ NodesOK /\ ProjectionOK /\ NodeOK(n)
    BY Parts
<1>1. /\ AtClaim(c, n) /\ att[n] < MaxAttempts /\ inv' = [inv EXCEPT ![n] = "retry-wait"]
      /\ snap' = Projected(seen[c], "retry", att[n]) /\ Move("waiting")
      /\ CommitAndReturn(c, {RunKey, InvKey(n), SnapKey})
      /\ UNCHANGED <<att, eff>> /\ UNCHANGED <<eff, begins, comp>> /\ UNCHANGED <<resolution, graph>>
    BY DEF ScheduleRetry
<1>2. /\ seen[c] = snap /\ n = snap.next /\ inv[n] = "running" /\ run = "running"
      /\ ~Over /\ RunStep /\ run' = "waiting" /\ termination' = termination /\ cleanup' = cleanup
      /\ termination = "none" /\ NodeReady(snap)
    BY <1>1, ParkFacts DEF CommitAndReturn
<1>3. NodeTyped' /\ NodesOK' /\ Forward
    BY <1>0, <1>1, <1>2, NodeParked
<1>4. ProjectionOK'
    <2>1. snap'.proj.kind = "retry"
        BY <1>1, <1>2 DEF Projected
    <2>2. QED
        BY <1>2, <2>1 DEF ProjectionOK, RunTerminal
<1>5. EffectSteps /\ RestTyped'
    BY <1>0, <1>1, <1>2, EffectsKept DEF RestTyped
<1>6. StoreTyped' /\ StoreOK' /\ Onward
    BY <1>0, <1>2, <1>3, <1>4, <1>5, StoreKeeps DEF RunTerminal
<1>7. Names({RunKey, InvKey(n), SnapKey})
    BY <1>0, <1>1 DEF Names, NodeTyped
<1>8. QED
    BY <1>1, <1>6, <1>7, ReturnKeeps

\* The node proposed an Effect and waits for it.
LEMMA WaitKeeps ==
    ASSUME Inv, NEW c \in Controllers, NEW n \in Nodes, WaitForEffect(c, n)
    PROVE  Inv' /\ Onward
<1>0. /\ StoreTyped /\ RunTyped /\ NodeTyped /\ EffTyped /\ RestTyped /\ StoreOK /\ NodesOK /\ ProjectionOK
      /\ EndOK /\ \A m \in Nodes : NodeOK(m) /\ EffectOK(m)
    BY Parts
<1>1. /\ AtClaim(c, n) /\ eff[n] = "none" /\ inv' = [inv EXCEPT ![n] = "waiting"]
      /\ snap' = Projected(seen[c], "waiting", att[n]) /\ Move("waiting")
      /\ eff' = [eff EXCEPT ![n] = "prepared"]
      /\ CommitAndReturn(c, {RunKey, InvKey(n), SnapKey})
      /\ UNCHANGED <<att, begins, comp, resolution, graph>>
    BY DEF WaitForEffect
<1>2. /\ seen[c] = snap /\ n = snap.next /\ inv[n] = "running" /\ run = "running"
      /\ ~Over /\ RunStep /\ run' = "waiting" /\ termination' = termination /\ cleanup' = cleanup
      /\ termination = "none" /\ NodeReady(snap)
    BY <1>1, ParkFacts DEF CommitAndReturn
<1>3. NodeTyped' /\ NodesOK' /\ Forward
    BY <1>0, <1>1, <1>2, NodeParked
<1>4. ProjectionOK'
    <2>1. snap'.proj.kind = "waiting"
        BY <1>1, <1>2 DEF Projected
    <2>2. QED
        BY <1>2, <2>1 DEF ProjectionOK, RunTerminal
<1>5. /\ RunTyped' /\ EndOK'
      /\ termination # "none" => termination' = termination
      /\ run = "stopping" => run' \in {"stopping", termination}
      /\ run \in RunTerminal => run' = run
      /\ run # "accepted" => run' # "accepted"
    BY <1>0, <1>2, RunStepFacts
<1>6. /\ EffTyped' /\ RestTyped'
      /\ eff'[n] = "prepared" /\ \A m \in Nodes \ {n} : eff'[m] = eff[m]
    BY <1>0, <1>1, <1>2 DEF EffTyped, RestTyped, EffStates
<1>7. ASSUME NEW m \in Nodes
      PROVE  EffectOK(m)'
    <2>1. comp[m] = "unscheduled"
        BY <1>0, <1>2 DEF EffectOK
    <2>2. CASE m = n
        BY <1>1, <1>6, <2>1, <2>2 DEF EffectOK
    <2>3. CASE m # n
        BY <1>0, <1>1, <1>6, <2>1, <2>3 DEF EffectOK
    <2>4. QED
        BY <2>2, <2>3
<1>8. StoreTyped' /\ StoreOK' /\ Onward
    <2>1. StoreTyped'
        BY <1>3, <1>5, <1>6 DEF StoreTyped
    <2>2. ClosedOK'
        BY <1>2 DEF ClosedOK, RunTerminal
    <2>3. StoreOK'
        BY <1>3, <1>4, <1>5, <1>7, <2>2 DEF StoreOK, NodesOK
    <2>4. Onward
        BY <1>2, <1>3, <1>5, <1>6 DEF Onward
    <2>5. QED
        BY <2>1, <2>3, <2>4
<1>9. Names({RunKey, InvKey(n), SnapKey})
    BY <1>0, <1>1, <1>6 DEF Names, NodeTyped
<1>10. QED
    BY <1>1, <1>8, <1>9, ReturnKeeps

\* A pass ends the Run: it stops it, or publishes the terminal Run.
LEMMA EndKeeps ==
    ASSUME Inv, NEW c \in Controllers, BeginFailure(c) \/ PublishTerminal(c)
    PROVE  Inv' /\ Onward
<1>0. /\ StoreTyped /\ RunTyped /\ NodeTyped /\ EffTyped /\ RestTyped /\ StoreOK /\ NodesOK /\ ProjectionOK
      /\ EndOK /\ Knows(pc[c], seen[c], todo[c], fresh[c])
    BY Parts
<1>1. /\ snap' = seen[c] /\ CommitAndReturn(c, {RunKey, SnapKey})
      /\ UNCHANGED <<inv, att>> /\ UNCHANGED <<eff, begins, comp>> /\ resolution' = resolution
    BY DEF BeginFailure, PublishTerminal
<1>2. snap' = snap /\ RunKey \in fresh[c]
    BY <1>0, <1>1 DEF Knows, CommitAndReturn
<1>3. EffectSteps
    BY <1>0, <1>1, EffectsKept
<1>4. Names({RunKey, SnapKey})
    BY <1>1, <1>2 DEF Names
<1>5. ASSUME run' # "accepted"
      PROVE  NodeTyped' /\ NodesOK' /\ Forward
    BY <1>0, <1>1, <1>2, <1>5, NodesKept
<1>6. CASE BeginFailure(c)
    <2>1. run = "running" /\ EnterStopping("failed") /\ graph' = graph
        BY <1>0, <1>2, <1>6 DEF BeginFailure, Knows, RunningPCs
    <2>2. termination = "none"
        BY <1>0, <2>1, KindsEnd DEF EndOK, RunTyped, RunTerminal
    <2>3. RunStep /\ run' = "stopping" /\ RestTyped'
        BY <1>0, <1>1, <2>1, <2>2 DEF EnterStopping, RunStep, RunStopped, RunTerminal, RestTyped, IntentStates
    <2>4. ProjectionOK'
        BY <1>0, <1>2, <2>1, <2>3 DEF ProjectionOK, RunTerminal
    <2>5. StoreTyped' /\ StoreOK' /\ Onward
        BY <1>0, <1>3, <1>5, <2>3, <2>4, StoreKeeps DEF RunTerminal
    <2>6. QED
        BY <1>1, <1>4, <2>5, ReturnKeeps
<1>7. CASE PublishTerminal(c)
    <2>1. /\ pc[c] = "publish" /\ graph' = TRUE /\ cleanup' = cleanup /\ termination' = termination
          /\ run' = IF termination = "none" THEN "succeeded" ELSE termination
        BY <1>7 DEF PublishTerminal, Move
    <2>2. /\ run \in {"running", "stopping"} /\ Over /\ seen[c].proj.kind = "none"
          /\ \A n \in Nodes : Settled(n)
        BY <1>0, <1>2, <2>1 DEF Knows, RunningPCs, StoppingPCs, ClosingPCs, LastPCs
    <2>3. RunStep /\ RestTyped'
        BY <1>0, <1>1, <2>1, <2>2 DEF RunStep, RunMoved, RestTyped
    <2>4. run' \in RunTerminal
        BY <1>0, <2>1, KindsEnd DEF RunTyped, RunTerminal
    <2>5. ProjectionOK'
        BY <1>1, <2>2, <2>4 DEF ProjectionOK, RunTerminal
    <2>6. StoreTyped' /\ StoreOK' /\ Onward
        BY <1>0, <1>3, <1>5, <2>2, <2>3, <2>4, <2>5, StoreKeeps DEF RunTerminal
    <2>7. QED
        BY <1>1, <1>4, <2>6, ReturnKeeps
<1>8. QED
    BY <1>6, <1>7
\* An open Invocation of the list is canceled.
LEMMA CancelInvocationKeeps ==
    ASSUME Inv, NEW c \in Controllers, NEW n \in Nodes, CancelInvocation(c, n)
    PROVE  Inv' /\ Onward
<1>0. /\ StoreTyped /\ RunTyped /\ NodeTyped /\ EffTyped /\ RestTyped /\ LocalTyped /\ StoreOK /\ NodesOK
      /\ ProjectionOK /\ EndOK /\ NodeOK(n)
      /\ Knows(pc[c], seen[c], todo[c], fresh[c]) /\ seen[c] \in Snapshot /\ todo[c] \in SUBSET Nodes
    BY Parts
<1>a. PICK waits \in BOOLEAN : waits = (seen[c].proj.kind = "waiting" /\ seen[c].next = n)
    BY Zenon
<1>b. PICK keys : keys = IF waits = TRUE THEN {InvKey(n), SnapKey} ELSE {InvKey(n)}
    OBVIOUS
<1>c. PICK s : s = IF waits = TRUE THEN Unprojected(seen[c]) ELSE seen[c]
    OBVIOUS
<1>1. /\ pc[c] = "cancel" /\ n \in todo[c] /\ inv' = [inv EXCEPT ![n] = "canceled"]
      /\ snap' = (IF waits = TRUE THEN Unprojected(seen[c]) ELSE snap)
      /\ seen' = [seen EXCEPT ![c] = s] /\ todo' = [todo EXCEPT ![c] = todo[c] \ {n}]
      /\ Commit(c, keys, "cancel") /\ KeepRun
      /\ UNCHANGED <<eff, begins, comp>> /\ UNCHANGED <<att, resolution, graph>>
    BY <1>a, <1>b, <1>c DEF CancelInvocation
<1>2. InvKey(n) \in fresh[c] /\ keys \subseteq fresh[c]
    BY <1>1, <1>b DEF Commit
<1>3. /\ inv[n] \in InvOpen /\ termination # "none" /\ run # "accepted" /\ seen[c].next <= snap.next
      /\ (inv[n] = "waiting") <=> (waits = TRUE)
    BY <1>0, <1>1, <1>2, <1>a DEF Knows, StoppingPCs
<1>4. n = snap.next
    BY <1>0, <1>3, OpenIsCurrent
<1>5. waits = TRUE => seen[c] = snap /\ snap' = Unprojected(snap) /\ s = snap'
    BY <1>0, <1>1, <1>2, <1>b, <1>c DEF Knows
<1>6. waits # TRUE => snap' = snap /\ s = seen[c]
    BY <1>1, <1>c
<1>7. RunStep /\ run' = run /\ termination' = termination /\ cleanup' = cleanup
    BY <1>1, RunStays
<1>8. NodeTyped' /\ NodesOK' /\ Forward
    <2>1. CASE waits = TRUE
        BY <1>0, <1>1, <1>3, <1>4, <1>5, <1>7, <2>1, NodeUnprojected
    <2>2. CASE waits # TRUE
        <3>1. PICK a \in 0..MaxAttempts : a = att[n]
            BY <1>0 DEF NodeTyped
        <3>2. att' = [att EXCEPT ![n] = a]
            BY <1>0, <1>1, <3>1 DEF NodeTyped
        <3>3. QED
            <4>1. a >= att[n]
                BY <1>0, <3>1, Numbers
            <4>2. inv[n] # "waiting"
                BY <1>3, <2>2
            <4>3. inv[n] \in {"absent", "ready", "running", "retry-wait"}
                BY <1>3, <4>2 DEF InvOpen
            <4>4. QED
                BY <1>0, <1>1, <1>3, <1>4, <1>6, <1>7, <2>2, <3>1, <3>2, <4>1, <4>3, NodeMoved
    <2>3. QED
        BY <2>1, <2>2
<1>9. /\ snap'.next = snap.next /\ s \in Snapshot /\ s.next = seen[c].next
      /\ snap'.proj.kind \in {"none", snap.proj.kind}
      /\ waits = TRUE => s.proj.kind = "none"
    <2>1. CASE waits = TRUE
        <3>1. snap \in Snapshot /\ N \in Nat
            BY <1>0, Numbers
        <3>2. /\ Unprojected(snap) \in Snapshot /\ Unprojected(snap).next = snap.next
              /\ Unprojected(snap).proj.kind = "none"
            BY <3>1, SnapshotFacts, Zenon
        <3>3. QED
            BY <1>5, <2>1, <3>2
    <2>2. CASE waits # TRUE
        BY <1>0, <1>6, <2>2
    <2>3. QED
        BY <2>1, <2>2
<1>10. ProjectionOK'
    <2>1. run # "waiting"
        BY <1>0, <1>3, KindsEnd DEF EndOK, RunTyped, RunTerminal
    <2>2. QED
        BY <1>0, <1>1, <1>7, <1>9, <2>1 DEF ProjectionOK
<1>11. EffectSteps /\ RestTyped'
    BY <1>0, <1>1, <1>7, EffectsKept DEF RestTyped
<1>12. StoreTyped' /\ StoreOK' /\ Onward
    BY <1>0, <1>7, <1>8, <1>10, <1>11, StoreKeeps
<1>13. Names(keys)
    <2>1. InvKey(n) \in keys /\ (snap' # snap => SnapKey \in keys)
        BY <1>6, <1>b
    <2>2. QED
        BY <1>0, <1>1, <1>7, <2>1 DEF Names, NodeTyped
<1>14. PassOK(c)'
    <2>1. PICK list, old, s0 : list = todo[c] /\ old = fresh[c] /\ s0 = seen[c]
        OBVIOUS
    <2>2. pc'[c] = "cancel" /\ seen'[c] = s /\ todo'[c] = list \ {n} /\ fresh'[c] = old
        BY <1>0, <1>1, <2>1 DEF Commit, LocalTyped
    <2>3. Knows("cancel", s0, list, old)
        BY <1>0, <1>1, <2>1
    <2>4. ASSUME NEW m \in Nodes, m # n
          PROVE  /\ inv'[m] = inv[m]
                 /\ (s.proj.kind = "waiting" /\ s.next = m) <=> (s0.proj.kind = "waiting" /\ s0.next = m)
        BY <1>0, <1>1, <1>6, <1>9, <1>a, <2>1, <2>4 DEF NodeTyped
    <2>5. SnapKey \in old => s = snap'
        BY <1>5, <1>6, <2>1, <2>3 DEF Knows
    <2>6. \A m \in Nodes : InvKey(m) \in old /\ m \in list \ {n} =>
              /\ inv'[m] \in InvOpen
              /\ inv'[m] = "waiting" <=> s.proj.kind = "waiting" /\ s.next = m
        BY <2>3, <2>4 DEF Knows
    <2>7. s.next <= snap'.next
        BY <1>3, <1>9
    <2>a. \A m \in Nodes : inv'[m] = "retry-wait" => m \in list \ {n}
        BY <1>0, <1>1, <2>3, <2>4 DEF Knows, NodeTyped
    <2>8. Knows("cancel", s, list \ {n}, old)'
        BY <1>1, <1>7, <2>3, <2>5, <2>6, <2>7, <2>a DEF Knows, RunningPCs, StoppingPCs, ClosingPCs, LastPCs
    <2>9. QED
        BY <2>2, <2>8 DEF PassOK
<1>15. QED
    <2>1. PICK list \in SUBSET Nodes : list = todo[c] \ {n}
        BY <1>0
    <2>2. todo' = [todo EXCEPT ![c] = list] /\ "cancel" \in PCs
        BY <1>1, <2>1 DEF PCs
    <2>3. QED
        BY <1>1, <1>9, <1>12, <1>13, <1>14, <2>2, CommitKeeps
\* Only Effects move.
LEMMA EffectsMove ==
    ASSUME Inv, KeepRun, UNCHANGED <<snap, inv, att>>, EffectSteps, RestTyped'
    PROVE  StoreTyped' /\ StoreOK' /\ Onward
<1>0. StoreTyped /\ EffTyped /\ StoreOK /\ NodesOK /\ ProjectionOK
    BY TypeParts DEF Inv, StoreTyped, StoreOK, NodesOK
<1>1. RunStep /\ run' = run /\ termination' = termination
    BY RunStays
<1>2. \A n \in Nodes : eff[n] = "none" => eff'[n] = "none"
    BY <1>0 DEF EffectSteps, EffectStep
<1>3. NodeTyped' /\ NodesOK' /\ Forward
    BY <1>0, <1>1, <1>2, NodesKept
<1>4. ProjectionOK'
    BY <1>0, <1>1 DEF ProjectionOK
<1>5. QED
    BY <1>0, <1>1, <1>3, <1>4, StoreKeeps

\* A prepared Effect of the list is canceled.
LEMMA CancelEffectKeeps ==
    ASSUME Inv, NEW c \in Controllers, NEW n \in Nodes, CancelEffect(c, n)
    PROVE  Inv' /\ Onward
<1>0. /\ EffTyped /\ RestTyped /\ LocalTyped
      /\ Knows(pc[c], seen[c], todo[c], fresh[c]) /\ seen[c] \in Snapshot /\ todo[c] \in SUBSET Nodes
    BY Parts
<1>1. /\ pc[c] = "effects" /\ n \in todo[c] /\ eff' = [eff EXCEPT ![n] = "canceled"]
      /\ todo' = [todo EXCEPT ![c] = todo[c] \ {n}] /\ Commit(c, {EffKey(n)}, "effects") /\ KeepRun
      /\ UNCHANGED <<snap, inv, att>> /\ UNCHANGED <<begins, comp, resolution, graph, seen>>
    BY DEF CancelEffect
<1>2. eff[n] = "prepared"
    BY <1>0, <1>1 DEF Knows, Commit
<1>3. eff'[n] = "canceled" /\ \A m \in Nodes \ {n} : eff'[m] = eff[m]
    BY <1>0, <1>1 DEF EffTyped
<1>4. EffectSteps
    <2>1. \A m \in Nodes : EffectStep(m)
        BY <1>1, <1>2, <1>3 DEF EffectStep
    <2>2. QED
        BY <1>0, <1>1, <2>1 DEF EffectSteps, EffTyped
<1>5. RestTyped' /\ run' = run /\ termination' = termination
    BY <1>0, <1>1 DEF RestTyped, KeepRun
<1>6. StoreTyped' /\ StoreOK' /\ Onward
    BY <1>1, <1>4, <1>5, EffectsMove
<1>7. Names({EffKey(n)})
    BY <1>1, <1>3, <1>5 DEF Names
<1>8. PassOK(c)'
    <2>1. PICK list, old, s : list = todo[c] /\ old = fresh[c] /\ s = seen[c]
        OBVIOUS
    <2>2. pc'[c] = "effects" /\ seen'[c] = s /\ todo'[c] = list \ {n} /\ fresh'[c] = old
        BY <1>0, <1>1, <2>1 DEF Commit, LocalTyped
    <2>3. Knows("effects", s, list, old)
        BY <1>0, <1>1, <2>1
    <2>4. \A m \in Nodes : EffKey(m) \in old =>
              eff'[m] # "none" /\ (m \in list \ {n} => eff'[m] = "prepared")
        BY <1>3, <2>3 DEF Knows
    <2>5. Knows("effects", s, list \ {n}, old)'
        BY <1>1, <1>5, <2>3, <2>4 DEF Knows, RunningPCs, StoppingPCs, ClosingPCs, LastPCs
    <2>6. QED
        BY <2>2, <2>5 DEF PassOK
<1>9. QED
    <2>1. PICK list \in SUBSET Nodes : list = todo[c] \ {n}
        BY <1>0
    <2>2. /\ todo' = [todo EXCEPT ![c] = list] /\ seen' = [seen EXCEPT ![c] = seen[c]]
          /\ "effects" \in PCs
        BY <1>0, <1>1, <2>1 DEF PCs, LocalTyped
    <2>3. QED
        BY <1>0, <1>1, <1>6, <1>7, <1>8, <2>2, CommitKeeps

\* The chosen compensation is scheduled.
LEMMA ScheduleKeeps ==
    ASSUME Inv, NEW c \in Controllers, NEW n \in Nodes, ScheduleCompensation(c, n)
    PROVE  Inv' /\ Onward
<1>0. /\ EffTyped /\ RestTyped /\ Knows(pc[c], seen[c], todo[c], fresh[c])
    BY Parts
<1>1. /\ pc[c] = "schedule" /\ n \in todo[c] /\ comp' = [comp EXCEPT ![n] = "pending"]
      /\ CommitAndReturn(c, {EffKey(n)}) /\ KeepRun
      /\ UNCHANGED <<snap, inv, att>> /\ UNCHANGED <<eff, begins, resolution, graph>>
    BY DEF ScheduleCompensation
<1>2. eff[n] = "applied" /\ comp[n] = "unscheduled" /\ Over
    BY <1>0, <1>1 DEF Knows, CommitAndReturn, LastPCs, ClosingPCs
<1>3. comp'[n] = "pending" /\ \A m \in Nodes \ {n} : comp'[m] = comp[m]
    BY <1>0, <1>1 DEF EffTyped
<1>4. EffectSteps
    <2>1. \A m \in Nodes : EffectStep(m)
        BY <1>1, <1>2, <1>3 DEF EffectStep
    <2>2. QED
        BY <1>0, <1>1, <2>1 DEF EffectSteps, EffTyped
<1>5. RestTyped' /\ run' = run
    BY <1>0, <1>1 DEF RestTyped, KeepRun
<1>6. StoreTyped' /\ StoreOK' /\ Onward
    BY <1>1, <1>4, <1>5, EffectsMove
<1>7. Names({EffKey(n)})
    BY <1>1, <1>3, <1>5 DEF Names
<1>8. QED
    BY <1>1, <1>6, <1>7, ReturnKeeps

-----------------------------------------------------------------------------
(* The commands of operators and handlers.                                 *)

\* The parts of the invariant that do not need a controller.
LEMMA StoreParts ==
    ASSUME Inv
    PROVE  /\ StoreTyped /\ RunTyped /\ NodeTyped /\ EffTyped /\ RestTyped /\ LocalTyped
           /\ StoreOK /\ NodesOK /\ ProjectionOK /\ EndOK
           /\ \A n \in Nodes : NodeOK(n) /\ EffectOK(n)
BY TypeParts DEF Inv, StoreTyped, StoreOK, NodesOK

\* Providers end Effects and compensations, operators reconcile, hosts dispatch.
LEMMA ProviderKeeps ==
    ASSUME Inv, NEW n \in Nodes,
           \/ BeginEffect(n) \/ (\E o \in EffectOutcomes : ObserveEffect(n, o))
           \/ (\E o \in CompOutcomes : Compensate(n, o)) \/ ReconcileCompensation(n)
    PROVE  Inv' /\ Onward
<1>0. EffTyped /\ RestTyped
    BY StoreParts
<1>1. KeepRun /\ UNCHANGED <<snap, inv, att>> /\ CommitNow({EffKey(n)}) /\ graph' = graph
    BY DEF BeginEffect, ObserveEffect, Compensate, ReconcileCompensation
<1>2. /\ eff' = [m \in Nodes |-> eff'[m]] /\ begins' = [m \in Nodes |-> begins'[m]]
      /\ comp' = [m \in Nodes |-> comp'[m]]
      /\ \A m \in Nodes \ {n} : eff'[m] = eff[m] /\ begins'[m] = begins[m] /\ comp'[m] = comp[m]
      /\ resolution' \in [Nodes -> IntentStates]
      /\ EffectStep(n)
    <2>1. CASE BeginEffect(n)
        BY <1>0, <2>1 DEF BeginEffect, EffTyped, RestTyped, EffectStep
    <2>2. ASSUME NEW o \in EffectOutcomes, ObserveEffect(n, o)
          PROVE  <1>2!:
        BY <1>0, <2>2 DEF ObserveEffect, EffTyped, RestTyped, EffectStep, IntentStates
    <2>3. ASSUME NEW o \in CompOutcomes, Compensate(n, o)
          PROVE  <1>2!:
        BY <1>0, <2>3 DEF Compensate, EffTyped, RestTyped, EffectStep
    <2>4. CASE ReconcileCompensation(n)
        BY <1>0, <2>4 DEF ReconcileCompensation, EffTyped, RestTyped, EffectStep
    <2>5. QED
        BY <2>1, <2>2, <2>3, <2>4
<1>3. EffectSteps
    BY <1>2 DEF EffectSteps, EffectStep
<1>4. RestTyped' /\ run' = run
    BY <1>0, <1>1, <1>2 DEF RestTyped, KeepRun
<1>5. StoreTyped' /\ StoreOK' /\ Onward
    BY <1>1, <1>3, <1>4, EffectsMove
<1>6. Names({EffKey(n)})
    BY <1>1, <1>2, <1>4 DEF Names
<1>7. QED
    BY <1>1, <1>5, <1>6, CommitNowKeeps
\* The Run is started, or stopped by an operator.
LEMMA CommandKeeps ==
    ASSUME Inv, StartRun \/ \E kind \in StopKinds : RequestTermination(kind)
    PROVE  Inv' /\ Onward
<1>0. /\ StoreTyped /\ EffTyped /\ RestTyped /\ StoreOK /\ NodesOK /\ ProjectionOK
    BY StoreParts
<1>1. /\ UNCHANGED <<snap, inv, att>> /\ UNCHANGED <<eff, begins, comp>> /\ UNCHANGED <<resolution, graph>>
      /\ CommitNow({RunKey})
    BY DEF StartRun, RequestTermination
<1>2. EffectSteps
    BY <1>0, <1>1, EffectsKept
<1>3. Names({RunKey})
    BY <1>1 DEF Names
<1>4. RunStep /\ RestTyped' /\ ProjectionOK' /\ run' \in {"running", "stopping"}
    <2>1. CASE StartRun
        <3>1. run = "accepted" /\ run' = "running" /\ termination' = termination /\ cleanup' = cleanup
            BY <2>1 DEF StartRun, Move
        <3>2. QED
            BY <1>0, <1>1, <3>1 DEF RunStep, RunMoved, RestTyped, ProjectionOK, RunTerminal
    <2>2. ASSUME NEW kind \in StopKinds, RequestTermination(kind)
          PROVE  RunStep /\ RestTyped' /\ ProjectionOK' /\ run' \in {"running", "stopping"}
        <3>1. /\ run \notin RunTerminal /\ termination = "none" /\ run' = "stopping" /\ termination' = kind
              /\ cleanup' = "pending"
            BY <2>2 DEF RequestTermination, EnterStopping
        <3>2. QED
            BY <1>0, <1>1, <3>1 DEF RunStep, RunStopped, RestTyped, IntentStates, ProjectionOK, RunTerminal
    <2>3. QED
        BY <2>1, <2>2
<1>5. NodeTyped' /\ NodesOK' /\ Forward
    BY <1>0, <1>1, <1>4, NodesKept
<1>6. StoreTyped' /\ StoreOK' /\ Onward
    BY <1>0, <1>2, <1>4, <1>5, StoreKeeps DEF RunTerminal
<1>7. QED
    BY <1>1, <1>3, <1>6, CommitNowKeeps

\* A retry is due.
LEMMA ResumeKeeps ==
    ASSUME Inv, ResumeRetryWait
    PROVE  Inv' /\ Onward
<1>0. /\ StoreTyped /\ EffTyped /\ RestTyped /\ StoreOK /\ NodesOK /\ ProjectionOK
    BY StoreParts
<1>1. /\ run = "waiting" /\ run' = "running" /\ termination' = termination /\ cleanup' = cleanup
      /\ snap.proj.kind = "retry" /\ snap' = Unprojected(snap) /\ CommitNow({RunKey, SnapKey})
      /\ UNCHANGED <<eff, begins, comp>> /\ UNCHANGED <<inv, att, resolution, graph>>
    BY DEF ResumeRetryWait, Move
<1>2. NodeTyped' /\ NodesOK' /\ Forward
    BY <1>0, <1>1, NodeUnprojected
<1>3. ProjectionOK'
    <2>1. snap'.proj.kind = "none"
        BY <1>1 DEF Unprojected, NoProjection
    <2>2. QED
        BY <1>1, <2>1 DEF ProjectionOK
<1>4. RunStep /\ RestTyped' /\ EffectSteps
    BY <1>0, <1>1, EffectsKept DEF RunStep, RunMoved, RestTyped
<1>5. StoreTyped' /\ StoreOK' /\ Onward
    BY <1>0, <1>1, <1>2, <1>3, <1>4, StoreKeeps DEF RunTerminal
<1>6. Names({RunKey, SnapKey})
    BY <1>1 DEF Names
<1>7. QED
    BY <1>1, <1>5, <1>6, CommitNowKeeps

\* The terminal Effect ends the wait of its Invocation.
LEMMA ResolveKeeps ==
    ASSUME Inv, NEW n \in Nodes, NEW to \in {"succeeded", "failed"}, ResolveEffectWait(n, to)
    PROVE  Inv' /\ Onward
<1>0. /\ StoreTyped /\ RunTyped /\ NodeTyped /\ EffTyped /\ RestTyped /\ StoreOK /\ NodesOK /\ ProjectionOK /\ EndOK
    BY StoreParts
<1>1. /\ run = "waiting" /\ snap.next = n /\ snap.proj.kind = "waiting" /\ inv' = [inv EXCEPT ![n] = to] /\ snap' = Recorded(snap, to)
      /\ Move("running") \/ EnterStopping("failed")
      /\ CommitNow({RunKey, InvKey(n), SnapKey})
      /\ UNCHANGED <<eff, begins, comp>> /\ UNCHANGED <<att, resolution, graph>>
    BY DEF ResolveEffectWait
<1>2. termination = "none"
    BY <1>0, <1>1, KindsEnd DEF EndOK, RunTyped, RunTerminal
<1>3. RunStep /\ RestTyped' /\ run' \in {"running", "stopping"}
    <2>1. CASE Move("running")
        BY <1>0, <1>1, <2>1 DEF Move, RunStep, RunMoved, RestTyped
    <2>2. CASE EnterStopping("failed")
        BY <1>0, <1>1, <1>2, <2>2 DEF EnterStopping, RunStep, RunStopped, RestTyped, IntentStates, RunTerminal
    <2>3. QED
        BY <1>1, <2>1, <2>2
<1>4. /\ snap' \in Snapshot /\ snap'.next = n + 1 /\ snap'.outcome = [snap.outcome EXCEPT ![n] = to]
      /\ snap'.proj.kind = "none"
    <2>1. snap \in Snapshot /\ snap.next \in Nodes /\ N \in Nat /\ to \in Outcomes
        BY <1>0, <1>1, Numbers DEF Outcomes
    <2>2. \A o \in Outcomes :
              /\ Recorded(snap, o) \in Snapshot
              /\ Recorded(snap, o).next = snap.next + 1
              /\ Recorded(snap, o).proj.kind = "none"
              /\ Recorded(snap, o).outcome = [snap.outcome EXCEPT ![snap.next] = o]
        BY <2>1, SnapshotFacts, Zenon
    <2>3. QED
        BY <1>1, <2>1, <2>2
<1>5. NodeTyped' /\ NodesOK' /\ Forward
    <2>1. PICK u \in {"succeeded", "failed", "skipped"} : u = to
        OBVIOUS
    <2>2. inv[n] \notin InvTerminal
        BY <1>0, <1>1 DEF NodesOK, WaitOK, InvTerminal
    <2>3. QED
        BY <1>0, <1>1, <1>3, <1>4, <2>1, <2>2, NodeRecorded
<1>6. ProjectionOK' /\ EffectSteps
    BY <1>0, <1>1, <1>3, <1>4, EffectsKept DEF ProjectionOK
<1>7. StoreTyped' /\ StoreOK' /\ Onward
    BY <1>0, <1>3, <1>5, <1>6, StoreKeeps DEF RunTerminal
<1>8. Names({RunKey, InvKey(n), SnapKey})
    BY <1>0, <1>1 DEF Names, NodeTyped
<1>9. QED
    BY <1>1, <1>7, <1>8, CommitNowKeeps

\* Intents are acknowledged.
LEMMA AckKeeps ==
    ASSUME Inv, AckCleanup \/ \E n \in Nodes : AckResolution(n)
    PROVE  Inv' /\ Onward
<1>0. EffTyped /\ RestTyped /\ LocalTyped
    BY StoreParts
<1>1. /\ KeepRun \/ (run' = run /\ termination' = termination /\ cleanup' = "completed")
      /\ UNCHANGED <<snap, inv, att>> /\ UNCHANGED <<eff, begins, comp>> /\ UNCHANGED local /\ graph' = graph
    BY DEF AckCleanup, AckResolution
<1>2. run' = run /\ termination' = termination
    BY <1>1 DEF KeepRun
<1>3. RestTyped'
    <2>1. cleanup' \in IntentStates
        BY <1>0, <1>1 DEF RestTyped, KeepRun, IntentStates
    <2>2. resolution' \in [Nodes -> IntentStates]
        BY <1>0 DEF RestTyped, AckCleanup, AckResolution, IntentStates
    <2>3. QED
        BY <1>0, <1>1, <2>1, <2>2 DEF RestTyped
<1>4. StoreTyped' /\ StoreOK' /\ Onward
    <2>1. StoreTyped /\ StoreOK /\ NodesOK /\ ProjectionOK
        BY StoreParts
    <2>2. RunStep /\ EffectSteps
        BY <1>0, <1>1, <1>2, EffectsKept DEF RunStep, RunKept
    <2>3. NodeTyped' /\ NodesOK' /\ Forward
        BY <1>1, <1>2, <2>1, NodesKept
    <2>4. ProjectionOK'
        BY <1>1, <1>2, <2>1 DEF ProjectionOK
    <2>5. QED
        BY <1>2, <1>3, <2>1, <2>2, <2>3, <2>4, StoreKeeps
<1>5. Names({}) /\ \A d \in Controllers : Kept(d, {})
    BY <1>1, <1>2 DEF Names, Kept, local
<1>6. LocalTyped'
    BY <1>0, <1>1 DEF LocalTyped, local
<1>7. QED
    BY <1>4, <1>5, <1>6, StepOfNone

-----------------------------------------------------------------------------
(* The theorems.                                                           *)

\* Nothing has happened at first.
LEMMA InitInv == Init => Inv
<1> SUFFICES ASSUME Init PROVE Inv
    OBVIOUS
<1>0. N \in Nat /\ N >= 1 /\ MaxAttempts \in Nat /\ MaxAttempts >= 1 /\ MaxBegins \in Nat
    BY PlanAssumption
<1>1. Blank \in Snapshot /\ Blank.next = 1 /\ Blank.proj.kind = "none" /\ \A n \in Nodes : Blank.outcome[n] = "none"
    BY <1>0, BlankFacts DEF Blank
<1>2. StoreTyped
    <2>1. RunTyped
        BY DEF Init, RunTyped, RunStatuses
    <2>2. NodeTyped
        BY <1>0, <1>1 DEF Init, NodeTyped
    <2>3. EffTyped
        BY <1>0 DEF Init, EffTyped, EffStates
    <2>4. RestTyped
        BY DEF Init, RestTyped, IntentStates
    <2>5. QED
        BY <2>1, <2>2, <2>3, <2>4 DEF StoreTyped
<1>3. LocalTyped
    BY <1>1 DEF Init, LocalTyped, PCs
<1>4. TypeOK
    BY <1>2, <1>3, TypeParts
<1>5. snap = Blank /\ snap.next = 1 /\ snap.proj.kind = "none" /\ run = "accepted" /\ termination = "none"
    BY <1>1 DEF Init
<1>6. StoreOK
    <2>1. PositionOK
        BY <1>0, <1>1, <1>5 DEF Init, PositionOK, OutcomePrefix, PositionAgrees, Nodes
    <2>2. WaitOK /\ RetryOK /\ EndOK /\ ProjectionOK /\ ClosedOK
        BY <1>5 DEF WaitOK, RetryOK, EndOK, ProjectionOK, ClosedOK, RunTerminal
    <2>3. \A n \in Nodes : NodeOK(n) /\ EffectOK(n)
        BY <1>0 DEF Init, NodeOK, EffectOK
    <2>4. QED
        BY <2>1, <2>2, <2>3 DEF StoreOK
<1>7. ASSUME NEW c \in Controllers
      PROVE  PassOK(c)
    <2>1. pc[c] = "idle" /\ seen[c] = Blank /\ todo[c] = {} /\ fresh[c] = {}
        BY DEF Init
    <2>2. QED
        BY <1>1, <1>5, <2>1 DEF PassOK, Knows, RunningPCs, StoppingPCs, ClosingPCs, LastPCs
<1>8. QED
    BY <1>4, <1>6, <1>7 DEF Inv

\* Every step keeps the invariant and takes nothing back.
LEMMA NextInv == Inv /\ [Next]_vars => Inv' /\ Onward
<1> SUFFICES ASSUME Inv, [Next]_vars PROVE Inv' /\ Onward
    OBVIOUS
<1>1. ASSUME NEW c \in Controllers, DriveStep(c)
      PROVE  Inv' /\ Onward
    <2>1. ASSUME NEW n \in Nodes,
                 \/ ActivateInvocation(c, n) \/ SkipNode(c, n) \/ ClaimInvocation(c, n)
                 \/ ExpireForRetry(c, n) \/ CompleteNode(c, n) \/ WaitForEffect(c, n)
                 \/ ScheduleRetry(c, n) \/ FailNode(c, n) \/ CancelInvocation(c, n)
                 \/ CancelEffect(c, n) \/ ScheduleCompensation(c, n)
          PROVE  Inv' /\ Onward
        BY <2>1, ReadyKeeps, ClaimKeeps, OutcomeKeeps, RetryKeeps, WaitKeeps, CancelInvocationKeeps,
            CancelEffectKeeps, ScheduleKeeps
    <2>2. QED
        BY <1>1, <2>1, DriveReadsKeep, EndReadsKeep, ChoiceKeeps, EndKeeps DEF DriveStep
<1>2. ASSUME NEW n \in Nodes, HandlerStep(n) \/ BeginEffect(n)
      PROVE  Inv' /\ Onward
    BY <1>2, ProviderKeeps, ResolveKeeps, AckKeeps DEF HandlerStep
<1>3. CASE UNCHANGED vars
    <2>1. UNCHANGED store /\ UNCHANGED local
        BY <1>3 DEF vars
    <2>2. StoreTyped' /\ StoreOK' /\ Onward /\ Names({}) /\ LocalTyped
        BY <2>1, StoreKept, StoreParts
    <2>3. LocalTyped' /\ \A d \in Controllers : Kept(d, {})
        BY <2>1, <2>2 DEF local, LocalTyped, Kept
    <2>4. QED
        BY <2>2, <2>3, StepOfNone
<1>4. ASSUME NEW c \in Controllers, Abandon(c)
      PROVE  Inv' /\ Onward
    BY <1>4, ChoiceKeeps
<1>5. QED
    BY <1>1, <1>2, <1>3, <1>4, CommandKeeps, ResumeKeeps, AckKeeps DEF Next

\* The inductive invariant: the position, the node ledgers, the projection, the
\* Effects and every controller's pass stay consistent.
THEOREM InvHolds == Spec => []Inv
<1>1. Init => Inv
    BY InitInv
<1>2. Inv /\ [Next]_vars => Inv'
    BY NextInv
<1>3. QED
    BY <1>1, <1>2, PTL DEF Spec

\* The Snapshot and the Invocation ledgers tell the same story, whichever
\* controller was stale.
THEOREM PositionsAgree == Spec => []PositionAgrees
<1>1. Inv => PositionAgrees
    BY DEF Inv, StoreOK, PositionOK
<1>2. QED
    BY <1>1, InvHolds, PTL

\* An Invocation that handed over its Effect never executes again.
THEOREM EffectHandedOverOnce == Spec => []EffectNotReexecuted
<1>1. Inv => EffectNotReexecuted
    BY DEF Inv, StoreOK, NodeOK, EffectNotReexecuted
<1>2. QED
    BY <1>1, InvHolds, PTL

\* Only what was applied is compensated, and only when no node can execute.
THEOREM CleanupComesLast == Spec => []CleanupAfterWork
<1>1. Inv => CleanupAfterWork
    <2> SUFFICES ASSUME Inv, NEW n \in Nodes, comp[n] # "unscheduled"
                 PROVE  /\ eff[n] = "applied"
                        /\ run \notin {"accepted", "waiting"}
                        /\ run = "running" => snap.next > N
        BY DEF CleanupAfterWork
    <2>1. eff[n] = "applied" /\ Over /\ EndOK /\ RunTyped
        BY StoreParts DEF EffectOK
    <2>2. termination # "none" => run \in RunTerminal \cup {"stopping"}
        BY <2>1, KindsEnd DEF EndOK, RunTyped
    <2>3. QED
        BY <2>1, <2>2 DEF Over, RunTerminal
<1>2. QED
    BY <1>1, InvHolds, PTL

\* A terminal Run owns no Effect under way and no applied one without the
\* compensation evidence its policy asks for, whatever its second dispatches do.
THEOREM TerminalRunOwnsNothing == Spec => []TerminalOwnsNothing
<1>1. Inv => TerminalOwnsNothing
    <2> SUFFICES ASSUME Inv, run \in RunTerminal, NEW n \in Nodes, ~(begins[n] > 1)
                 PROVE  /\ eff[n] \in {"none", "applied", "failed", "canceled"}
                        /\ eff[n] = "applied" /\ Policy[n] = "required" =>
                              comp[n] \in {"succeeded", "reconciled"}
                        /\ eff[n] = "applied" /\ Policy[n] = "best-effort" =>
                              comp[n] \in {"succeeded", "failed"}
        BY DEF TerminalOwnsNothing
    <2>1. Released(n) /\ EffectOK(n)
        BY StoreParts DEF Inv, StoreOK, ClosedOK, Settled
    <2>2. QED
        BY <2>1 DEF Released, Compensatable, EffectOK
<1>2. QED
    BY <1>1, InvHolds, PTL

\* The Snapshot stays readable, retries that a stop or a stale claim put out of
\* step excepted, and its outcomes are a prefix of the order even then.
THEOREM SnapshotStaysReadable == Spec => []SnapshotReadable
<1>1. Inv => SnapshotReadable
    <2> SUFFICES ASSUME Inv, ~RetryOutOfStep PROVE OutcomePrefix /\ Readable
        BY StoreParts DEF SnapshotReadable, NodesOK, PositionOK
    <2>1. ProjectionOK /\ NodesOK
        BY StoreParts
    <2>2. ProjectionFitsRun
        BY <2>1 DEF ProjectionOK, ProjectionFitsRun, RetryOutOfStep
    <2>3. ProjectionFitsInvocation
        BY <2>1 DEF NodesOK, WaitOK, RetryOK, RetryOutOfStep, ProjectionFitsInvocation
    <2>4. OutcomePrefix
        BY <2>1 DEF NodesOK, PositionOK
    <2>5. QED
        BY <2>2, <2>3, <2>4 DEF Readable
<1>2. QED
    BY <1>1, InvHolds, PTL

\* A frozen termination is never replaced, a stopping Run only ends for it, a
\* terminal Run does not move, no late result revives an ended Invocation, and no
\* Effect is proposed after the stop.
THEOREM StopAlwaysWins == Spec => StopIsFinal
<1>1. Inv /\ [Next]_vars =>
          [/\ termination # "none" => termination' = termination
           /\ run = "stopping" => run' \in {"stopping", termination}
           /\ run \in RunTerminal => run' = run
           /\ \A n \in Nodes : inv[n] \in InvTerminal => inv'[n] = inv[n]
           /\ termination # "none" =>
                 \A n \in Nodes : eff[n] = "none" => eff'[n] = "none"]_vars
    BY NextInv DEF Onward, Forward
<1>2. QED
    BY <1>1, InvHolds, PTL DEF Spec, StopIsFinal
=============================================================================
