# A TLA+ model of xgc2-orchestration-core

`xgc2-orchestration-core` is a durable workflow kernel in Go. A *Run* executes
the nodes of a compiled workflow one after the other; each node activation is an
*Invocation* with *Attempts*; a node may propose an external *Effect*, which
workers deliver to a provider and, when the Run fails or is stopped, compensate.
Everything is an aggregate in one store that offers single-aggregate reads and a
multi-aggregate compare-and-swap, together with durable intents (an outbox) that
workers lease. Several controller processes may drive the same Run.

This directory holds modules that model that control logic, TLC configurations
for small instances, and TLAPS proofs that hold for every instance.

## Inventory

| component | state | operations | what is hard | what makes it correct |
|---|---|---|---|---|
| Invocation reducers (`kernel/execution/invocation.go`) | status, attempts, active pointers per phase, wait, retry time, failure, revisions | claim, transition, resolve wait, heartbeat, expire, cancel, compensation claim and transition | late workers, lease expiry, two phases in one ledger | the ledger stays valid; closed evidence is final; no stray attempt |
| Run reducer and drive (`kernel/execution/run.go`, `controller/drive.go`, `failure.go`, `termination.go`, `retry.go`, `routing.go`, `waits.go`) | Run status, frozen termination, Snapshot (position, outcomes, one wait projection) | drive, complete, wait, retry, fail, stop, cancel | controllers that read aggregates one by one and commit with only some of them fenced | the Snapshot stays readable; stop wins; a stopping Run stays open only for a reason |
| Saga cleanup and closure (`controller/compensation.go`, `controller/ownership.go`, `kernel/ownership/closure.go`) | compensation states, ownership graph | schedule compensation, derive closure, publish the terminal Run | Effects that conclude while the closure is being derived | a terminal Run owns nothing |
| Effects (`kernel/effect/effect.go`, `controller/effects.go`, `controller/intent_handlers.go`) | Effect record, command ledgers, receipts | prepare, begin, observe, cancel, compensate, reconcile | crashes around provider calls, adopted leases, made-up receipts, deadlines | takes effect once; evidence is immutable; its work is not lost |
| Intents and worker (`durable/worker`, `durable/filestore`) | pending, leased, completed, dead | claim, complete, fail | expired leases are adopted while the old worker lives | only the holder settles |
| File store (`durable/filestore`) | journal of snapshots, lock, in-memory state, poison | open, commit, append, compact, close | crash or power loss at every step, failed I/O | acknowledged commands survive; it always opens again; one history |
| Ingress (`controller/controller.go` Invoke, `admission.go`, `termination.go` exact Stop) | active owner with generations, admission receipts, frozen termination | invoke, stop, acquire, release | racing Runs, repeated commands, a key that changes hands between two reads | one live Run per key; answers given to callers stay true |
| External waits (`controller/external_waits.go`) | resolution receipts, consumptions, wait generations | resolve | duplicates, late resolutions, a Run that waits again | an occurrence is consumed once, by the command its receipt names |
| Child Action calls (`controller/action_calls.go`, `lineage.go`) | ActionCall projection, child Run, child-resolution intent | admit child, park, join, stop children | the child ends early, the parent loses its lease or stops | one child per call, joined once, with its real end |
| RuntimeBinding (`kernel/runtime`) | state, observation, generation, token, lease | prepare, observe, heartbeat, take over, release | owners that do not know they lost the lease | released only when stopped |
| Process provider (`provider/processlocal`, `processadapter`) | managed groups, replay ledger, high-water mark, all in memory | start, stop, inspect, compensate | lost answers, restarts, groups without a leader | one process per binding; old owners are powerless |
| Workflow compilation and routing (`kernel/workflow/compile.go`, `controller/routing.go`) | plan; node outcomes | compile, skip, record | compiler and router decide by different rules | a stable order; what may be referred to exists |
| Coordinator (`controller/coordinator.go`) | none | runs drives and workers in turn | early returns | progress |
| Expressions, canonical JSON, catalog, SDK | none | pure functions | boundaries | reference definitions |

The components interact through the store: Drive emits Effects and intents,
workers lease intents and call the Effect reducers, a concluded Effect emits a
wait-resolution intent that moves the Invocation, the Snapshot and the Run in
one commit, a call parks its Run on a child Run and a child-resolution intent
joins the two, callers start, stop and signal Runs by commands that may be
repeated, and a stopping Run is driven until everything it owns has ended.

## Modules

`Invocation`, `RunControl`, `EffectDelivery`, `Journal`, `Ingress`,
`ActionCall`, `RuntimeBinding`, `ProcessProvider` and `WorkflowPlan` model code.
`DurableLog` and `SingleActive` are abstract specifications that `Journal` and
`Ingress` implement; `ManagedProcess` composes `RuntimeBinding` and
`ProcessProvider`; each `MC*` module supplies constants for TLC. The theorems
about a module `M` are in `MProofs`, which extends it: there is one for each of
`Invocation`, `RunControl`, `EffectDelivery`, `Journal`, `Ingress`,
`ActionCall`, `ManagedProcess` (which includes its two components) and
`WorkflowPlan`.

### Invocation

One Invocation ledger, the workers with their fences (`held`), a wait resolver
with the fence it read (`waiter`) and a clock. One action per reducer;
TransitionInvocation is split into `Park`, `Unpark`, `Finish` and
`ScheduleRetry`, the aligned pairs of targets it admits. Reducers take their time
from the caller: `Sampled` is any time between the last update and the clock.
The code validates the whole ledger after most reducers and fails otherwise. Of
that closing validation the actions have only one check as a guard, `CauseGiven`:
an attempt that ends failed or abandoned carries a Failure. It does fire, for a
compensation that is to be canceled with an abandoned attempt (see Findings).
`LedgerValid` says that no other check of it ever does. The `cause` of an attempt
is whether it has a Failure. Bounds: `MaxTime`, `MaxAttempts`, `MaxAttemptRevision`.

### RunControl

One Run and the controllers that drive it. A controller's pass is a sequence of
steps that each read one aggregate or make one commit. `fresh[c]` is the set of
aggregates whose stored revision is still the one `c` read; a commit that names
`keys` needs `keys \subseteq fresh[c]` and takes them from everybody else. This
is exactly the store's compare-and-swap, with revisions abstracted away. What a
commit does not name may be stale; that is where the interesting behaviour is.
Errors, lost compare-and-swaps and crashes are `Abandon`. Commands all of whose
reads are fenced by their commit (operator stop, receipts, wait resolution) are
single steps. Providers are external: an Effect ends with any outcome in
`EffectOutcomes`, a compensation with any in `CompOutcomes`. Node execution is a
choice between completing, proposing an Effect, and failing. `Compensated` are
the nodes whose Invocation has a compensation policy of its own; `Closed` counts
them as the code does. A transiently failed Effect may be dispatched again, which
looks at neither Run nor Snapshot. Child calls are in
`ActionCall`, external waits in `Ingress`; several Effects per node are not
included. Bounds: `MaxAttempts`, `MaxBegins`, two nodes, two controllers.

### EffectDelivery

One Effect with all its commands and the workers that handle its intents.
Reading the Effect, calling the provider and storing each receipt are separate
steps, with crashes in between; an intent leased by `h` has the value `h` and
may be adopted at any moment (lease times are abstracted to nondeterminism). A
receipt carries its status and the time at which a handler made it up, because
that time decides whether a repeated receipt is a replay or a conflict. `taken`
is the part of the store's command ledger that matters here: the key of a
provider receipt. Assumptions on the outside: a provider executes a command at
most once and reports the same receipts every time, clocks agree, and a host
passes late receipts on only for an asynchronous provider. An Effect and its
ledger are read in one step (the receipt commit fences both). A handler that
returns or crashes forgets what it read. Reducers nobody
calls (RequestReconciliation, retry-wait and canceled compensations) are left
out. Bounds: `MaxBegins`, `MaxTime`, `Deadline`.

### Journal and DurableLog

`Journal` is the file store: a frame holds the complete state, which is
abstracted to the history of the commands applied; one aggregate stands for all
(its revision is the length of the history). `data` is what the system reads
from an inode, `safe` the contents a power loss may leave, `links` the inodes
the data name may have then. Every fsync, write, truncate and rename is a step
that can fail, crash or be cut by a power loss. A byte budget that forces a
compaction may be reached at any time. Assumptions: unsynced bytes reach the
disk as a prefix of what was written, and a successful fsync holds (no silent
loss after a failed one). Path, symlink and authority checks are failing I/O;
the 256 MiB frame limit is an error without a state change. ClaimIntents,
CompleteIntent, FailIntent and RecordInbox take the same append path as Commit.

`DurableLog` is what the store promises: one history that only grows, one
command per key, each applied to the revision its author read, acknowledged
commands included. `KeepsPromise` is the refinement, with `log <- shown`, the
state last visible to a client. A command whose Commit failed may appear later,
when the store is opened again: that is an `Apply` without an answer.

### Ingress and SingleActive

The commands that come from outside for one active-owner key. A process takes
one command through the code's reads, one aggregate each (`pc` names the next
one, `mem` holds what was read and is still used), to at most one commit;
`Leave` is a crash as well as a return. Requests come from small sets and may be
issued again by anybody at any time; `answer` is what the caller was told. The
parts: Invoke (`LookupAdmission`, `PrepareAcquire`, `Publish` with its two
refusals, then `RelookupAdmission`, `ProbeRun`, `InspectOwner` and the next turn
of the loop), the exact Stop (`FenceStop`, `FenceOwner`, `DecideStop`,
`CommitStop`) and the resolution of an external wait (`Authorize` ...
`CommitSignal`, `RereadReceipt`, `RereadConsumption`). Drive is reduced to what
moves a Run's status, revision and wait: `Activate`, `Park`, `Fail`,
`CancelWait`, `Close`, each one commit. The store looks a command up before it
compares revisions, and so do the commits here. A command's digest is its
`body`. `SingleActive` is what the fence promises: one slot, taken and given
back, a new generation each time, a Run admitted once. Bounds: `MaxWaits`,
`AcquireAttempts` (the code has 4), the request sets.

### ActionCall

A parent Run that consists of one calling node, and its child. The controllers
work with `fresh` as in RunControl. `CheckParent` and `CheckInvocation` are the
two reads of validateInvokeLineage; `AdmitChild` is a commit that names nothing
of the parent; `ParkCall` and `Join` name Run, Invocation and Snapshot. The
child-resolution handler is the chain `LoadChild`, `LoadParent`, `LoadWait`,
`LoadCallInvocation`, `Join`, `AckResolution`, and can be redelivered at every
point. The child's own execution is reduced to its status, and nothing is assumed
of it: a stopping child may stay open for ever, as RunControl's may. `late` is a
history variable: was the child admitted after its call had ended? `handled`,
chosen at the start, says whether the plan routes the node's failure. Bound:
`MaxAttempts`.

### RuntimeBinding, ProcessProvider and ManagedProcess

`RuntimeBinding` has one action per reducer of kernel/runtime over one binding,
with the lease against a clock. `ProcessProvider` has the provider's operations,
each one step because they run under one mutex; `proc` is what the operating
system knows, `group`, `mark` and `ledger` are the provider's memory, which a
restart clears. An identity (PID, PGID, start ticks) names one group for ever;
a group may outlive its leader, and the provider looks at the leader only.
`ManagedProcess` extends both and adds controllers. These are the host's: no
code in the repository calls the reducers outside tests. They are modelled from
the port and the reducers' commands: a controller reports as running or stopped
only what the provider told it, or that the process is starting or stopping,
keeps the fence it got, and does not learn that it lost the lease. Any answer may be lost, processes end by themselves, Saga
cleanup stops them behind the controllers' backs. Bounds: `MaxTime`,
`MaxGeneration`, `MaxCommands`, `MaxRestarts`, two identities.

### WorkflowPlan

A definition (edges and entrypoints), compiled or rejected, then run through the
router with every outcome of every node. The compiler part (`TopologicalOrder`,
`Reachable`, `Dominates`, `VisiblePredecessors`, `ResultVisibleNodes`) and the
router part (`EdgeMatches`, `Ready`, `Skipped`, `FailureHandled`) share nothing
but the graph, as in the code. Instead of bindings the model keeps what a
binding may refer to. Routes and source ports are gates: an edge may name one,
and an outcome opens some of the gates its node has, so the routes of a node may
exclude each other. `topologicalOrder` ranges over a map, but sorts the queue
before it takes the next node; the order in which nodes enter the queue is
therefore not observable and the model takes the least ready node.

## Runs

| run | states | what it shows |
|---|---|---|
| invocation | 109k | two workers, two attempts: TypeOK, LedgerValid, OpenIsActive, WaitAgrees, ClosedIsFinal; and LostWorkerCloses |
| run_control | 2.9M | two controllers, two owned Effects in a row that may be dispatched twice, retries, lost leases, a stop: PositionAgrees, EffectNotReexecuted, CleanupAfterWork, TerminalOwnsNothing, SnapshotReadable, StopIsFinal |
| run_stopping | 333k | the same with a failure-handler edge, an owned Effect and a compensatable node, and fairness: StoppingTerminates |
| effect_delivery | 3.0M | two workers, two dispatches and a compensation, failing calls, late receipts, deadlines, crashes, store faults: StateFoldsLedger, TakesEffectOnce, WorkRemains, EvidenceImmutable |
| journal | 1.5M | AlwaysRecoverable, AcknowledgedSurvives, MemoryIsDisk, KeepsPromise |
| ingress | 745k | two processes, two Runs, one key, two waits: OneActiveRun, WaitConsumedOnce, AnswersHold, StopWins, and KeepsSlot, the refinement of SingleActive |
| action_call | 116k | two controllers, two attempts, stops of parent and child: ParkedIsWoken, JoinFaithful, ActiveChildClosed, ChildRunsOnce, EndedChildIsJoined, StoppingTerminates |
| managed_process | 1.4M | two controllers, two generations, two processes, one restart: ReleasedIsStopped, OneProcessPerBinding, OldOwnerPowerless |
| workflow_plan | 1.9M | four nodes, up to four edges of the listed kinds with two exclusive routes, every definition and every run of each: LeastOrder, NeverBlocked, InputsProduced, ResultProduced |
| effect_unsure | | violation of UncertainNotRetried |
| action_call_stop | | violation of StoppingIsReadable |
| run_late | | violation of StoppedIsQuiet |

Where the code breaks what one would like to say, the property names the
exception and no bound hides it; each exception is a finding below.
TerminalOwnsNothing excepts an Effect that was dispatched a second time,
SnapshotReadable a retry that fell out of step with its Run (`RetryOutOfStep`),
ActiveChildClosed a child admitted after its call had ended (`late`), WorkRemains
a dispatch the provider has accepted and reports on later. No property says that
an Effect or a compensation concludes, or that a stopping Run ends: in the code
they need not. WorkRemains says that somebody can still work on it, and the two
StoppingTerminates that a Run which stays in stopping does so for a reason that
lasts (`HeldOpen`): a provider that does not answer, an uncertain Effect, a
required compensation that failed, a node with a compensation nobody schedules, a
retry out of step, a child that stays open, a Snapshot that cannot be read.
OneProcessPerBinding and
OldOwnerPowerless speak of a provider that was not restarted; ReleasedIsStopped
does not need that, but is about the process the binding names. InputsProduced
is about success edges and nodes that control edges from the entrypoint reach,
ResultProduced about definitions without failure edges.

Bounds. Two of each actor are enough for every race in the code, which are all
between one process that read and one that commits in between; a third adds no
new pair. Two nodes give an earlier and a later one, a handler edge and an order
of compensation. Two dispatches give a repeated one; two attempts a retry. In
`effect_delivery` the provider's ends are a success and a transient failure, the
one a dispatch ends with and the one that is dispatched again; a plain failure
and a refusal are handled as the former and are left out for size, as are
handler-made refusals other than the deadline's. An Invocation run with three
clock values and attempt revisions up to three has a claim, a park and a resume,
a renewed and an expired lease, and a second attempt. A frame budget of two with
three distinct commands reaches the budget, a compaction and an append after it;
the code's value is four and only its comparison with the frame count matters.
Two waits of one Run give a late signal for the first during the second; two
turns of the acquire loop give a lost race and a retry. Two generations give an
old and a new owner; one restart is a provider that forgot everything. Four nodes
hold a diamond, a chain with shortcuts and two entrypoints that share a node,
with one pair against the order of names for cycles.

Deadlock is not checked where the system may stop: a terminal Run, a concluded
Effect, an Invocation at its bounds, a released binding, a rejected definition.
The journal run checks it.

Fairness. `Invocation!FairSpec`: time passes and a controller keeps expiring
leases (Drive does so on every pass). `RunControl!FairSpec`: passes and the
handlers of wait-resolution and cleanup intents make progress, which is what the
coordinator does in every cycle, and from some moment on a pass is not cut by a
crash. Nothing is assumed of providers, of receipts or of anybody who reconciles.
`ActionCall!FairSpec`: the parent is driven and intents are handled, and from some
moment on a pass that can go on does; nothing is assumed of the child. None of
these assumes that a particular compare-and-swap is won.

## Findings

Each is a run whose property is one sentence of the repository; the
counterexample is the trace of the run.

- `effect_unsure`: an uncertain compensation is recorded at a sequence that is
  always refused, and the compensation is called again.
- `action_call_stop`: a stop cancels the Invocation of a parked call and leaves
  the ActionCall projection behind; the Snapshot is then reported corrupt for
  ever and the Run cannot be closed.
- `run_late`: a controller that read the Run while it was running activates the
  next node after the Run was stopped and closed; the terminal Run owns a ready
  Invocation (`controller/drive.go:109` names the Invocation only), which another
  such controller may claim and execute (`:150`). It can not hand over an Effect
  any more (StopIsFinal).

The same models show further traces that are not kept as runs.

Invocation:

- a compensation can not be canceled with an abandoned attempt: the transition
  checks admit it only without a Failure (`kernel/execution/invocation.go:1109`),
  the closing validation refuses an abandoned attempt without one (`:974`).

Run control:

- stopping a Run in retry-wait leaves its RetryWait projection behind, with the
  same consequence as in `action_call_stop` (`controller/termination.go:219`); a
  slow controller claims an Invocation in retry-wait by an old Run
  (`controller/drive.go:150`), and may complete it while the Run still waits for
  the retry. These are the cases of `RetryOutOfStep`;
- an executed node whose Invocation has a compensation of its own never closes:
  closure asks for a terminal compensation (`kernel/ownership/closure.go:60`), and
  nothing but tests calls ScheduleInvocationCompensation. So a Run with such a
  node stays in stopping for ever;
- the order of cleanup is decided from the Effects applied at that moment
  (`controller/compensation.go:47`): a later one that is still applying does not
  hold back an earlier one; and two controllers with different lists can each
  schedule a compensation (`:91`), although its comment says at most one is
  pending at a time;
- a wait-resolution intent of an Effect that concludes late may still be pending
  when the Run is published (`controller/failure.go:320`);
- a transiently failed Effect can be dispatched again after its Run was closed
  (`kernel/effect/effect.go:220`): the exception of `TerminalOwnsNothing`.

Effects:

- a crash between two made-up receipts blocks the Effect
  (`controller/intent_handlers.go:160`): the intent is claimed again and again
  (WorkRemains), but each time the acceptance is made up at a new time and refused;
- receipts of a second dispatch collide with those of the first
  (`controller/intent_handlers.go:113`), with the same consequence;
- an executed command can be recorded as rejected when its deadline passes before
  it is handled again (`controller/intent_handlers.go:87`).

Ingress and calls:

- of two concurrent copies of one signal the second may be told that the wait is
  consumed instead of getting the replay (`controller/external_waits.go:164`, if
  the first commits between the two reads);
- a different Stop of a Run whose end is decided is answered as a replay
  (`controller/termination.go:97`), where `docs/adr/exact-run-termination.md:41`
  has a revision conflict;
- a child can be admitted after its parent has closed (`controller/lineage.go:33`
  reads, the admission names neither Run nor Invocation), against
  `docs/adr/exact-run-termination.md:49`: this is what `late` excludes;
- when the last lease of a call is lost after its child was admitted and the plan
  handles the failure, the parent goes on and nobody is left to drive the child.

Processes and plans:

- a restarted provider has no high-water mark and accepts an old generation
  (`docs/adr/runtime-process-control.md:21` has it rejected before mutation), and
  does not know the group it started before;
- Stop reports success once the leader has exited, whatever the group does;
- a binding released by its recorded identity says nothing about a newer process
  that was started and never observed;
- an active binding cannot record that its process stopped or failed
  (`kernel/runtime/validation.go`): only running or lost;
- an output reached through a data edge with condition failure or always is
  visible to the compiler and need not exist, nor need one whose target is
  reached by data edges only, with several entrypoints
  (`kernel/workflow/compile.go:399`);
- a failure counts as handled although its handler is then skipped by the
  AND-join (`controller/routing.go:90`).

## Proofs

Every safety invariant, every action property and both refinements that a
passing run checks are also theorems, for all sets of actors and all bounds. The
assumptions on the constants are the named ASSUMEs of the modules; they say that
bounds are naturals, that sets of ids are what they should be, and that the value
that means "nobody" is not the name of somebody (`JournalAssumption`:
`None \notin Commands \cup Procs`). Each module's `InvHolds`
(`InvocationInvariant`) is the inductive invariant; the properties follow from
it. TLC finds each of them true on the instance of the run as well
(`WorkflowPlan`: with `MaxEdges = 3`).

### Invocation

`InvocationProofs` proves, for all sets of workers and all bounds
(`BoundsAssumption` only says that they are naturals):

- `InvocationInvariant`: `Spec => []Inv`, with `Inv` the conjunction of TypeOK,
  LedgerValid, NoEarlyCompensation (no compensation attempt exists before
  compensation is scheduled; a skipped compensation relies on it), OpenIsActive
  and WaitAgrees. The parts need each other: a reducer that closes the active
  attempt leaves no other open one only because of OpenIsActive; LedgerValid
  after a park needs WaitAgrees; a fence identifies the active attempt only while
  the active pointer names an open attempt.
- `TypeCorrect`, `LedgerAlwaysValid`, `NoStrayAttempt`, `WaitsAgree`: its parts.
  LedgerValid includes that every failed or abandoned attempt has its Failure.
- `ClosedStaysClosed`: the action property ClosedIsFinal.

There is one lemma per reducer; the reducers share four lemmas about what
moving, closing, keeping and appending an attempt does to the ledger.

### ManagedProcess

`ManagedProcessProofs` proves, for all sets of controllers and identities and
all bounds (`BindingAssumption`, `ProviderAssumption` and `SameNames`, which
identifies the names the two components use for the same thing):

- `InvHolds`: `Spec => []Inv`, with `Inv` the conjunction of TypeOK and four
  parts. NamedWasStarted: an identity a controller, the binding or a receipt
  names belongs to a process that was started, so it cannot be started again
  later. StoppedIsDown: news and records of a stop are about a process that is
  not up; with NamedWasStarted this stays so. OnlyTheGroup: until the provider
  is restarted, an owned process that is up is the managed group. MarkFollowsNews:
  until then, whoever has news of the provider, or recorded it, raised the
  provider's mark to its generation.
- `ReleasedStaysStopped`, `NeverTwoProcesses`: the invariants ReleasedIsStopped
  and OneProcessPerBinding. `TypesHold`: the types.
- `OldOwnersArePowerless`: the action property OldOwnerPowerless. By
  MarkFollowsNews the mark is above every earlier generation once the successor
  is established, so acceptFence refuses the old owner's commands.

There is one lemma per action; the calls to the provider share `CallKeeps`, which
needs only that the provider brings no process back (`Aging`) and that what it
tells is true (`ToldTheTruth`).

### Journal

`JournalProofs`, for any commands, processes and frame budget. The invariant
speaks of everything a power loss *may* leave, not of what the disk holds now.
DiskOK: every content that may be found under the data name decodes to `shown`
or to `shown` and the one command whose commit is under way (`Possible`); the
name itself is in doubt only between a rename and the fsync of the directory,
and then it leads to one whole frame. LockOK: the process that has the store
holds the sidecar lock. HandOK, LoadedOK and WritingOK say what the process
knows at each step of Open, append and compaction.

- `NeverCorrupt`, `NothingLost`, `OpenIsExact`: AlwaysRecoverable,
  AcknowledgedSurvives, MemoryIsDisk.
- `ImplementsDurableLog`: the refinement KeepsPromise. Besides reads and replays
  the only steps that are not stutters are the last fsync of an append or a
  compaction and an Open that finds a command whose Commit had failed.

### Ingress

`IngressProofs`, for any processes, Runs, commands, requests and bounds.
OwnerOK ties the owner's revision to its generation (odd while active, even when
released): this is what makes the fence of a late acquirer or releaser fail.
RunOK and WaitOK are the durable facts about a Run and its occurrences; for a
process, RequestOK, FenceOK (what follows if the revision it read is still
current when it commits) and AnswerOK (what it told its caller is true).
`Forward` collects what no commit takes back; one lemma shows that every answer
given survives it.

- `KeyHeldByLiveRun`, `EachWaitConsumedOnce`, `AnswersStayTrue`: OneActiveRun,
  WaitConsumedOnce, AnswersHold.
- `StopIsFinal`: the action property StopWins.
- `ImplementsSingleActive`: the refinement KeepsSlot.

### ActionCall

`ActionCallProofs`, for any controllers, retry policy and kinds of termination.
StoreOK is about the aggregates; PassOK says what a controller knows at its step
(`Knows`): some facts because nobody takes them back (`Onward`), others only
while its read is current (`fresh`), which is when its commit can succeed.

- `ParkedCanBeWoken`, `RecordsTheChild`, `NoChildOutlives`: ParkedIsWoken,
  JoinFaithful, ActiveChildClosed.
- `CallMadeOnce`: the action property ChildRunsOnce.

### RunControl

`RunControlProofs`, for any controllers, number of nodes, policies and bounds,
with the same two kinds of knowledge. The fact that makes cleanup sound is
`Over`: a termination is frozen or the last node was recorded. It lasts for ever,
and under it no node proposes an Effect any more: a stale controller may still
activate or claim a node (see Findings), but the commit that hands over an Effect
names the Run.

- `PositionsAgree`, `EffectHandedOverOnce`, `CleanupComesLast`: PositionAgrees,
  EffectNotReexecuted, CleanupAfterWork.
- `StopAlwaysWins`: the action property StopIsFinal.
- `TerminalRunOwnsNothing`: TerminalOwnsNothing.
- `SnapshotStaysReadable`: SnapshotReadable.

All constants are arbitrary, the numbers of attempts and dispatches included. The
exceptions of the last two come with parts of the invariant: Settled says what
stays true of the Effects of a node once they were released for the closure,
RetryOK how a retry and its projection may disagree, ProjectionOK what a Run may
project in each status; `Forward` collects what no step takes back of the nodes.

### EffectDelivery

`EffectDeliveryProofs`, for any workers, policy, bounds, outcomes and faults.
RecordOK: every stored receipt that decides something says what the provider
did, and only an applied Effect is compensated. IntentOK: a dispatch that was
not begun has neither intent nor outcome. HandlerOK: what a worker that read the
Effect, called the provider or holds receipts may rely on; `Later` says that this
only grows, so that a worker whose lease was adopted still stores the truth.

- `StateIsTheFold` (with TypeOK), `EffectTakenOnce`: StateFoldsLedger,
  TakesEffectOnce.
- `EvidenceStays`: the action property EvidenceImmutable.
- `WorkIsNeverLost`: WorkRemains. On top of the invariant it needs that a ledger
  of two receipts is an acceptance and an end (LedgerOrdered), and what a worker
  leaves behind when it has nothing more to store (WorkOK): it works on the
  dispatch of its intent or a later one, so the intent it completes is either not
  the latest one's, or that one has a receipt.

### WorkflowPlan

`WorkflowPlanProofs`, for every finite set of nodes (`PlanAssumption`) and every
set of edges. `topologicalOrder`, `reachable` and the cut of an entrypoint are
recursive functions. What they compute is proved without an induction theorem
for predicates: a property becomes the set of the steps at which it holds, and
the least step outside of it does not exist (`LeastNumber`, `EveryStep`);
`Recursion` shows that the functions exist. The main lemmas:

- `OrderIsTopological`, `OrderExtends`, `OrderIsLeast`: each turn appends the
  least node whose predecessors are listed; at the first place where a linear
  extension differs, its node was ready, so it is the greater one.
- `SearchCompare`: one search finds what another one finds, on a set that is
  closed under where its nodes are found from. Dominance is a statement about two
  searches, and all uses of it are instances of this lemma (`DominatorReached`,
  `DominatorIn`).
- `CutIsOrder`: the cut of a topological order is what the entrypoint reaches,
  once each, dependencies first.

The invariant adds to these that every succeeded node has in front of it the
outcomes that opened its edges (OutcomesOK). Results:

- `OrderIsCanonical`: LeastOrder.
- `DependenciesFirst`: NeverBlocked.
- `InputsExist`: InputsProduced. `ResultExists`: ResultProduced.

### Only model-checked

Liveness under fairness, which is out of the prover's reach: LostWorkerCloses,
RunControl's and ActionCall's StoppingTerminates and EndedChildIsJoined. The three
properties of the violation runs are false.

## Not modelled

Expressions, canonical JSON, schemas, bindings and the resolution of values, the
catalog and the node protocol are sequential functions on data, without state,
interleaving or failure of their own; the models use their results as abstract
values or as a choice. The coordinator keeps no state and calls what is modelled
in some order. Lease times and batch limits of intents are nondeterminism.
RuntimeBindings and resources take no part in the controller's ownership closure
(it lists neither), so `ManagedProcess` stands beside the Run models. RunControl,
ActionCall and Ingress each model the part of a Run the others reduce; they are
not composed in one module, whose state space would be out of reach.

Observed while reading and outside the present models: a best-effort
compensation failure reported to a succeeding Run (`controller/failure.go`), an
uncertain Effect that no reducer leaves, and GetCommandLedger, which is ambiguous
when two Effects use the same command id.

## Plan

`IntentQueue`: leases with times, batch limits and candidate order; shown to
implement the abstraction EffectDelivery uses.
