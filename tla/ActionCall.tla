----------------------------- MODULE ActionCall -----------------------------
(***************************************************************************)
(* A node that calls another Action: controller/action_calls.go and        *)
(* lineage.go, with what drive.go, failure.go, termination.go and          *)
(* ownership.go do to the calling Run.                                     *)
(*                                                                         *)
(* The parent Run consists of the call node; what it does elsewhere is     *)
(* module RunControl.  The child Run has the stable identity derived from  *)
(* the parent's Invocation, so there is at most one aggregate for it; its  *)
(* own execution, again RunControl, is reduced to its status.  Controllers *)
(* read the parent's Run, Snapshot and Invocation one by one and commit    *)
(* with compare-and-swap as in RunControl: `fresh[c]' holds the aggregates *)
(* unchanged since c read them, and Abandon is a lost compare-and-swap, an *)
(* error return or a crash.  Leases and retry delays may run out at any    *)
(* moment.                                                                 *)
(***************************************************************************)
EXTENDS Naturals

CONSTANTS
    Controllers,   \* goroutines and processes that drive Runs and run intent handlers
    MaxAttempts,   \* NodeRetryPolicy.MaxAttempts of the call node
    StopKinds      \* the terminations an operator may request

ASSUME CallAssumption ==
    /\ MaxAttempts \in Nat \ {0}
    /\ StopKinds \subseteq {"stopped", "canceled"}

VARIABLES
    handled,      \* does the plan route the failure of the call node?
    run,          \* the parent's Run.Status
    kind,         \* its Termination.Kind, "none" while it is nil
    inv,          \* status of the call node's Invocation
    att,          \* its ExecutionAttemptCount
    call,         \* RunSnapshot.ActionCall # nil
    outcome,      \* RunSnapshot.NodeOutcomes of the call node
    child,        \* the child's Run.Status, "none" before it is admitted
    childKind,    \* its Termination.Kind
    late,         \* history: was the child admitted after its call had ended?
    resolution,   \* the child-resolution intent
    cleanup,      \* the parent's cleanup intent
    pc,           \* per controller: where its pass is
    fresh         \* per controller: parent aggregates unchanged since it read them

parent == <<run, kind, cleanup>>
node == <<inv, att>>
projection == <<call, outcome>>
childRun == <<child, childKind, late>>
store == <<handled, parent, node, projection, childRun, resolution>>
vars == <<store, pc, fresh>>

Terminal == {"succeeded", "failed", "stopped", "canceled"}
RunStatuses == {"running", "waiting", "stopping"} \cup Terminal
ChildStatuses == {"none", "accepted", "running", "stopping"} \cup Terminal
ChildLive == {"accepted", "running", "stopping"}
InvOpen == {"ready", "running", "waiting", "retry-wait"}
InvEnded == {"succeeded", "failed", "canceled"}
Intents == {"none", "pending", "completed"}
Kinds == {"none", "failed"} \cup StopKinds
Keys == {"run", "snapshot", "invocation"}
PCs == {"idle", "running", "stopping", "node", "invocation", "claimed", "lineage",
        "admit", "admitted", "refused", "done", "cancel", "reload", "settle",
        "closure", "children", "publish", "join", "wait", "ledger", "resolve", "ack"}

-----------------------------------------------------------------------------
(* The store, as in RunControl.                                            *)

Goto(c, at) == pc' = [pc EXCEPT ![c] = at]

Read(c, keys, at) ==
    /\ Goto(c, at)
    /\ fresh' = [fresh EXCEPT ![c] = @ \cup keys]
    /\ UNCHANGED store

\* c commits `keys', which it names, and goes on at `at'.
Commit(c, keys, at) ==
    /\ keys \subseteq fresh[c]
    /\ Goto(c, at)
    /\ fresh' = [d \in Controllers |->
                    IF d = c THEN (IF at = "idle" THEN {} ELSE fresh[c]) ELSE fresh[d] \ keys]

\* A command whose every read is named by its commit.
CommitNow(keys) ==
    /\ fresh' = [d \in Controllers |-> fresh[d] \ keys]
    /\ UNCHANGED pc

\* GetSnapshot: the projection fits the Run and the Invocation it projects.
Readable ==
    /\ run = "waiting" => call
    /\ run \in {"running"} \cup Terminal => ~call
    /\ call => inv = "waiting"

\* TransitionRun to stopping freezes the termination and emits the cleanup intent.
EnterStopping(k) == run' = "stopping" /\ kind' = k /\ cleanup' = "pending"

Init ==
    /\ handled \in BOOLEAN
    /\ run = "running" /\ kind = "none" /\ cleanup = "none"
    /\ inv = "absent" /\ att = 0
    /\ call = FALSE /\ outcome = "none"
    /\ child = "none" /\ childKind = "none" /\ late = FALSE
    /\ resolution = "none"
    /\ pc = [c \in Controllers |-> "idle"]
    /\ fresh = [c \in Controllers |-> {}]

-----------------------------------------------------------------------------
(* Drive of the parent.                                                    *)

LoadRun(c) ==
    /\ pc[c] = "idle"
    /\ run \in {"running", "stopping"}
    /\ Read(c, {"run"}, run)

LoadSnapshot(c) ==
    /\ Readable
    /\ \/ pc[c] = "running" /\ Read(c, {"snapshot"}, IF outcome = "none" THEN "node" ELSE "done")
       \/ pc[c] = "stopping" /\ Read(c, {"snapshot"}, "cancel")

LoadInvocation(c) ==
    /\ pc[c] = "node"
    /\ Read(c, {"invocation"}, "invocation")

ActivateInvocation(c) ==
    /\ pc[c] = "invocation"
    /\ inv = "absent"
    /\ inv' = "ready"
    /\ Commit(c, {"invocation"}, "idle")
    /\ UNCHANGED <<handled, parent, att, projection, childRun, resolution>>

ClaimInvocation(c) ==
    /\ pc[c] = "invocation"
    /\ inv \in {"ready", "retry-wait"}
    /\ inv' = "running"
    /\ att' = att + 1
    /\ Commit(c, {"invocation"}, "claimed")
    /\ UNCHANGED <<handled, parent, projection, childRun, resolution>>

\* A lost lease: a call may be made again, its child keeps its identity.
ExpireForRetry(c) ==
    /\ pc[c] = "invocation"
    /\ inv = "running"
    /\ att < MaxAttempts
    /\ inv' = "retry-wait"
    /\ Commit(c, {"invocation"}, "idle")
    /\ UNCHANGED <<handled, parent, att, projection, childRun, resolution>>

\* commitTerminalNodeFailure: a routed failure names the Invocation and the
\* Snapshot, another one the Run too.
CommitNodeFailure(c) ==
    /\ inv' = "failed"
    /\ outcome' = "failed"
    /\ call' = FALSE
    /\ IF handled
       THEN Commit(c, {"invocation", "snapshot"}, "idle") /\ UNCHANGED parent
       ELSE Commit(c, Keys, "idle") /\ EnterStopping("failed")
    /\ UNCHANGED <<handled, att, childRun, resolution>>

\* The last attempt lost its lease.
ExpireForGood(c) ==
    /\ pc[c] = "invocation"
    /\ inv = "running"
    /\ att >= MaxAttempts
    /\ CommitNodeFailure(c)

-----------------------------------------------------------------------------
(* executeClaimedActionCall.                                               *)

\* The catalog, the pins, the schemas or the maps refuse the call, or
\* invokeChild did: failClaimed.
FailCall(c) ==
    /\ pc[c] \in {"claimed", "refused"}
    /\ CommitNodeFailure(c)

\* validateInvokeLineage reads the parent and, after it, the Invocation.
CheckParent(c) ==
    /\ pc[c] = "claimed"
    /\ Goto(c, IF run \in Terminal THEN "refused" ELSE "lineage")
    /\ UNCHANGED <<store, fresh>>

CheckInvocation(c) ==
    /\ pc[c] = "lineage"
    /\ Goto(c, IF inv \in {"running", "waiting"} THEN "admit" ELSE "refused")
    /\ UNCHANGED <<store, fresh>>

\* MUTANT of AdmitChild: the admission is not replayed.
AdmitChildAfresh(c) ==
    /\ pc[c] = "admit"
    /\ child' = "accepted" /\ childKind' = "none"
    /\ late' = (late \/ run # "running" \/ inv # "running")
    /\ Goto(c, "admitted")
    /\ UNCHANGED <<handled, parent, node, projection, resolution, fresh>>

\* invoke's commit expects revision 0 of the child and names nothing of the
\* parent.  The command is replayed if an earlier attempt got this far.
AdmitChild(c) ==
    /\ pc[c] = "admit"
    /\ IF child = "none"
       THEN /\ child' = "accepted"
            /\ late' = (run # "running" \/ inv # "running")
       ELSE UNCHANGED <<child, late>>
    /\ Goto(c, "admitted")
    /\ UNCHANGED <<handled, parent, node, projection, childKind, resolution, fresh>>

\* MUTANT of ParkCall: the resolution intent is not part of the commit.
ParkCallSilently(c) ==
    /\ pc[c] = "admitted"
    /\ run' = "waiting"
    /\ inv' = "waiting"
    /\ call' = TRUE
    /\ Commit(c, Keys, "idle")
    /\ UNCHANGED <<handled, kind, cleanup, att, outcome, childRun, resolution>>

\* commitWaiting: Run, Invocation, Snapshot and child-resolution intent in one.
ParkCall(c) ==
    /\ pc[c] = "admitted"
    /\ run' = "waiting"
    /\ inv' = "waiting"
    /\ call' = TRUE
    /\ resolution' = "pending"
    /\ Commit(c, Keys, "idle")
    /\ UNCHANGED <<handled, kind, cleanup, att, outcome, childRun>>

-----------------------------------------------------------------------------
(* finalizeStoppingRun and succeedRun.                                     *)

ChildClosed == child \notin ChildLive

\* MUTANT of StopChild: a running child is left to itself.
StopAcceptedChild(c) ==
    /\ pc[c] = "cancel"
    /\ child = "accepted"
    /\ child' = "stopping"
    /\ childKind' = kind
    /\ UNCHANGED <<handled, parent, node, projection, late, resolution, pc, fresh>>

\* terminateOpenChildren asks a live child to stop, for the parent's reason.
StopChild(c) ==
    /\ pc[c] = "cancel"
    /\ child \in {"accepted", "running"}
    /\ child' = "stopping"
    /\ childKind' = kind
    /\ UNCHANGED <<handled, parent, node, projection, late, resolution, pc, fresh>>

\* cancelOpenInvocations, once no child is open.  It clears no ActionCall.
CancelInvocation(c) ==
    /\ pc[c] = "cancel"
    /\ ChildClosed
    /\ Readable
    /\ IF inv \in InvOpen
       THEN /\ inv' = "canceled"
            /\ fresh' = [d \in Controllers |-> fresh[d] \ {"invocation"}]
       ELSE UNCHANGED <<inv, fresh>>
    /\ Goto(c, "reload")
    /\ UNCHANGED <<handled, parent, att, projection, childRun, resolution>>

ReloadSnapshot(c) ==
    /\ pc[c] = "reload"
    /\ Readable
    /\ Read(c, {"snapshot"}, "settle")

\* terminationIntentsSettled
CheckIntents(c) ==
    /\ pc[c] = "settle"
    /\ cleanup = "completed"
    /\ call => resolution = "completed"
    /\ Goto(c, "closure")
    /\ UNCHANGED <<store, fresh>>

\* deriveOwnershipClosure lists the Invocations, then the child Runs.
ListInvocations(c) ==
    /\ pc[c] \in {"closure", "done"}
    /\ inv \notin InvOpen
    /\ Goto(c, "children")
    /\ UNCHANGED <<store, fresh>>

\* MUTANT of ListChildren: open children are not counted.
ListNoChildren(c) ==
    /\ pc[c] = "children"
    /\ Goto(c, "publish")
    /\ UNCHANGED <<store, fresh>>

ListChildren(c) ==
    /\ pc[c] = "children"
    /\ ChildClosed
    /\ Goto(c, "publish")
    /\ UNCHANGED <<store, fresh>>

\* The Run, its Snapshot and its ownership graph become terminal together.
PublishTerminal(c) ==
    /\ pc[c] = "publish"
    /\ run' = IF run = "stopping" THEN kind ELSE "succeeded"
    /\ Commit(c, {"run", "snapshot"}, "idle")
    /\ UNCHANGED <<handled, kind, cleanup, node, projection, childRun, resolution>>

Abandon(c) ==
    /\ pc[c] # "idle"
    /\ Goto(c, "idle")
    /\ fresh' = [fresh EXCEPT ![c] = {}]
    /\ UNCHANGED store

-----------------------------------------------------------------------------
(* ChildResolutionHandler and ResolveActionCall.                           *)

\* A live child is driven and the intent comes back later.
LoadChild(c) ==
    /\ pc[c] = "idle"
    /\ resolution = "pending"
    /\ child \in Terminal
    /\ Goto(c, "join")
    /\ UNCHANGED <<store, fresh>>

\* MUTANT of LoadParent: the parent is expected to be running.
LoadParentRunning(c) ==
    /\ pc[c] = "join"
    /\ \/ run \in Terminal \cup {"stopping"} /\ Goto(c, "ack") /\ UNCHANGED <<store, fresh>>
       \/ run = "running" /\ Read(c, {"run"}, "wait")

\* Nothing is left to join in a parent that is terminal or stopping; one that
\* is running is an error, and the intent comes back.
LoadParent(c) ==
    /\ pc[c] = "join"
    /\ \/ run \in Terminal \cup {"stopping"} /\ Goto(c, "ack") /\ UNCHANGED <<store, fresh>>
       \/ run = "waiting" /\ Read(c, {"run"}, "wait")

LoadWait(c) ==
    /\ pc[c] = "wait"
    /\ Readable
    /\ call
    /\ Read(c, {"snapshot"}, "ledger")

LoadCallInvocation(c) ==
    /\ pc[c] = "ledger"
    /\ inv = "waiting"
    /\ Read(c, {"invocation"}, "resolve")

\* MUTANT of Join: a child that was stopped counts as a success.
JoinStopped(c, to) ==
    /\ pc[c] = "resolve"
    /\ to = "succeeded" => child \in {"succeeded", "stopped"}
    /\ inv' = to
    /\ outcome' = to
    /\ call' = FALSE
    /\ IF to = "failed" /\ ~handled
       THEN EnterStopping("failed")
       ELSE run' = "running" /\ UNCHANGED <<kind, cleanup>>
    /\ Commit(c, Keys, "ack")
    /\ UNCHANGED <<handled, att, childRun, resolution>>

\* The terminal child is joined into the waiting Invocation.  A child that did
\* not succeed fails the node; so does a result the result map cannot take.
Join(c, to) ==
    /\ pc[c] = "resolve"
    /\ to = "succeeded" => child = "succeeded"
    /\ inv' = to
    /\ outcome' = to
    /\ call' = FALSE
    /\ IF to = "failed" /\ ~handled
       THEN EnterStopping("failed")
       ELSE run' = "running" /\ UNCHANGED <<kind, cleanup>>
    /\ Commit(c, Keys, "ack")
    /\ UNCHANGED <<handled, att, childRun, resolution>>

\* The worker completes the intent.
AckResolution(c) ==
    /\ pc[c] = "ack"
    /\ resolution' = "completed"
    /\ Goto(c, "idle")
    /\ fresh' = [fresh EXCEPT ![c] = {}]
    /\ UNCHANGED <<handled, parent, node, projection, childRun>>

-----------------------------------------------------------------------------
(* Operators, the parent's cleanup intent, and the child's own life.       *)

RequestTermination(k) ==
    /\ run \in {"running", "waiting"}
    /\ EnterStopping(k)
    /\ CommitNow({"run"})
    /\ UNCHANGED <<handled, node, projection, childRun, resolution>>

AckCleanup ==
    /\ cleanup = "pending"
    /\ cleanup' = "completed"
    /\ UNCHANGED <<handled, run, kind, node, projection, childRun, resolution, pc, fresh>>

ChildMoves(to, k) ==
    /\ child' = to /\ childKind' = k
    /\ UNCHANGED <<handled, parent, node, projection, late, resolution, pc, fresh>>

StartChild == child = "accepted" /\ ChildMoves("running", "none")
SucceedChild == child = "running" /\ ChildMoves("succeeded", "none")
FailChild == child = "running" /\ ChildMoves("stopping", "failed")
RequestChildTermination(k) ==
    child \in {"accepted", "running"} /\ ChildMoves("stopping", k)
CloseChild == child = "stopping" /\ ChildMoves(childKind, childKind)

-----------------------------------------------------------------------------

DriveStep(c) ==
    \/ LoadRun(c) \/ LoadSnapshot(c) \/ LoadInvocation(c) \/ ActivateInvocation(c)
    \/ ClaimInvocation(c) \/ ExpireForRetry(c) \/ ExpireForGood(c)
    \/ FailCall(c) \/ CheckParent(c) \/ CheckInvocation(c) \/ AdmitChild(c) \/ ParkCall(c)
    \/ StopChild(c) \/ CancelInvocation(c) \/ ReloadSnapshot(c) \/ CheckIntents(c)
    \/ ListInvocations(c) \/ ListChildren(c) \/ PublishTerminal(c)

HandlerStep(c) ==
    \/ LoadChild(c) \/ LoadParent(c) \/ LoadWait(c) \/ LoadCallInvocation(c)
    \/ \E to \in {"succeeded", "failed"} : Join(c, to)
    \/ AckResolution(c)

Next ==
    \/ \E c \in Controllers : DriveStep(c) \/ HandlerStep(c) \/ Abandon(c)
    \/ \E k \in StopKinds : RequestTermination(k) \/ RequestChildTermination(k)
    \/ AckCleanup \/ StartChild \/ SucceedChild \/ FailChild \/ CloseChild

Spec == Init /\ [][Next]_vars

\* From some moment on a pass that can go on does.  Schedulers keep driving the
\* parent and the intent handlers run.  Nothing is assumed of the child: a
\* running one may wait for the outside world, and a stopping one need not close.
NoMoreCrashes ==
    <>[][\A c \in Controllers : Abandon(c) => ~ENABLED (DriveStep(c) \/ HandlerStep(c))]_vars

FairSpec ==
    /\ Spec
    /\ NoMoreCrashes
    /\ \A c \in Controllers :
          WF_vars(DriveStep(c)) /\ WF_vars(HandlerStep(c)) /\ WF_vars(Abandon(c))
    /\ WF_vars(AckCleanup)

-----------------------------------------------------------------------------
(* Properties.                                                             *)

\* Every field holds a value of its Go type; attempts stay within the policy.
TypeOK ==
    /\ handled \in BOOLEAN
    /\ run \in RunStatuses /\ kind \in Kinds /\ cleanup \in Intents
    /\ inv \in {"absent"} \cup InvOpen \cup InvEnded /\ att \in 0..MaxAttempts
    /\ call \in BOOLEAN /\ outcome \in {"none", "succeeded", "failed"}
    /\ child \in ChildStatuses /\ childKind \in Kinds /\ late \in BOOLEAN
    /\ resolution \in Intents
    /\ pc \in [Controllers -> PCs]
    /\ fresh \in [Controllers -> SUBSET Keys]

\* A parked parent can always be woken: its child exists and the intent that
\* will join it is still open, whatever crashed between admission, parking and
\* resolution.
ParkedIsWoken ==
    run = "waiting" =>
        call /\ inv = "waiting" /\ child # "none" /\ resolution = "pending"

\* The parent records what its child did: a success only of a child that
\* succeeded, and after parking nothing before the child is terminal.
JoinFaithful ==
    /\ outcome = "succeeded" => child = "succeeded"
    /\ outcome # "none" => inv = outcome
    /\ outcome # "none" /\ resolution # "none" => child \in Terminal

\* A child admitted while its call was active never outlives the parent, even
\* if the call was given up after the child had been admitted.
ActiveChildClosed == run \in Terminal /\ child \in ChildLive => late

\* The call is made once: attempts after a crash find the same child, which
\* starts once and whose end is final.
ChildRunsOnce ==
    [][/\ child # "none" => child' # "none"
       /\ child \notin {"none", "accepted"} => child' # "accepted"
       /\ child \in Terminal => child' = child]_vars

\* A parent whose child has ended leaves the wait.
EndedChildIsJoined == run = "waiting" /\ child \in Terminal ~> run # "waiting"

\* What keeps a parent in `stopping': a child that has been asked to stop and has
\* not, or a Snapshot nobody can read, because the call is projected and its
\* Invocation canceled (StoppingIsReadable).
HeldOpen == child = "stopping" \/ ~Readable

\* A parent that stops for ever is held by one of the two: it reaches a child
\* that waits for the outside world, and neither the call's intent nor a pass of
\* another controller can keep it from ending once the child has.
StoppingTerminates == <>[](run = "stopping") => <>[]HeldOpen

\* A stopping Run may still project the call: the join remains durable until
\* the termination intents are settled, and GetSnapshot accepts it.
StoppingIsReadable == run = "stopping" => Readable
=============================================================================
