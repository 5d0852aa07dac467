----------------------------- MODULE Invocation -----------------------------
(***************************************************************************)
(* One Invocation ledger of kernel/execution/invocation.go: the Invocation *)
(* aggregate together with the Attempts made at it, and every reducer that *)
(* moves it.                                                               *)
(*                                                                         *)
(* A reducer is a pure function of the ledger that was read; the caller    *)
(* commits its result only if the stored revision is still the one it      *)
(* read.  A successful command is therefore one atomic step, taken on the  *)
(* current ledger, by an actor whose knowledge may be OLD: a worker keeps  *)
(* the fence of its claim in memory (`held'), a wait resolver keeps the    *)
(* wait it read (`waiter'), and every command carries a time that was      *)
(* sampled before the commit (any time from updatedAt to the clock).       *)
(*                                                                         *)
(* Every reducer but HeartbeatAttempt and ScheduleInvocationCompensation   *)
(* ends by validating the ledger it built.  One part of that validation    *)
(* decides what is committed and is a guard here (CauseGiven): an attempt  *)
(* that ends failed or abandoned must carry a Failure, which the checks of *)
(* a cancellation do not ask for.  The rest is not a guard: LedgerValid    *)
(* below is an invariant without it.                                       *)
(***************************************************************************)
EXTENDS Naturals, Sequences

CONSTANTS
    Workers,             \* the workers (controller processes) that claim attempts
    MaxTime,             \* bound: the clock and every lease or retry time stop here
    MaxAttempts,         \* bound: attempts of one phase
    MaxAttemptRevision   \* bound: park/unpark and heartbeat steps of one attempt

ASSUME BoundsAssumption ==
    MaxTime \in Nat /\ MaxAttempts \in Nat /\ MaxAttemptRevision \in Nat

VARIABLES
    status,     \* Invocation.Status
    comp,       \* Invocation.CompensationStatus
    active,     \* per phase: ordinal of the active Attempt, 0 for none
    count,      \* per phase: ExecutionAttemptCount, CompensationAttemptCount
    attempts,   \* per phase: the Attempts, in ledger order
    due,        \* per phase: NextAttemptAt, CompensationNextAt; 0 for none
    failure,    \* the phases whose PrimaryFailure, CompensationFailure is present
    wait,       \* WaitGeneration, 0 when there is no current wait
    revision,   \* Invocation.Revision
    updatedAt,  \* Invocation.UpdatedAt
    held,       \* per worker: the fence it keeps in memory
    waiter,     \* the wait a resolver has read and not yet acted upon
    clock       \* the time every process reads

ledger == <<status, comp, active, count, attempts, due, failure, wait, revision, updatedAt>>
vars == <<ledger, held, waiter, clock>>

-----------------------------------------------------------------------------
(* Statuses and records.                                                   *)

Phases == {"execution", "compensation"}

ActiveStatuses == {"running", "waiting"}
TerminalStatuses == {"succeeded", "failed", "skipped", "canceled"}
Statuses == {"ready", "retry-wait"} \cup ActiveStatuses \cup TerminalStatuses

CompStatuses == {"not-required", "unscheduled", "ready", "running",
                 "retry-wait", "succeeded", "failed", "canceled"}

ClosedAttempts == {"succeeded", "failed", "canceled", "abandoned"}
AttemptStatuses == {"running", "waiting"} \cup ClosedAttempts

Attempt == [status : AttemptStatuses, token : Workers, lease : Nat,
            revision : Nat \ {0}, updatedAt : Nat,
            cause : BOOLEAN]   \* is Attempt.Failure present?

\* What a worker remembers of its claim; its lease token is its own name.
Fence == [phase : Phases, ordinal : Nat, revision : Nat, attemptRevision : Nat]
NoFence == [phase |-> "execution", ordinal |-> 0, revision |-> 0, attemptRevision |-> 0]

\* What a resolver read of the wait it is about to resolve.
WaitFence == [ordinal : Nat, revision : Nat, attemptRevision : Nat, wait : Nat]
NoWait == [ordinal |-> 0, revision |-> 0, attemptRevision |-> 0, wait |-> 0]

Terminal == status \in TerminalStatuses

\* A command's time: sampled no later than the commit, and not before updatedAt.
Sampled == {t \in 0..MaxTime : updatedAt <= t /\ t <= clock}

-----------------------------------------------------------------------------
(* What reducers do to an Attempt and to the aggregate.                    *)

\* An Attempt moved to a status; closing it zeroes its lease.
Moved(a, to, at, cause) ==
    [status |-> to, token |-> a.token, revision |-> a.revision + 1, updatedAt |-> at,
     lease |-> IF to \in ClosedAttempts THEN 0 ELSE a.lease, cause |-> cause]

\* An Attempt under a longer lease.
Extended(a, lease, at) ==
    [status |-> a.status, token |-> a.token, revision |-> a.revision + 1, updatedAt |-> at,
     lease |-> lease, cause |-> a.cause]

MoveAttempt(p, i, to, at, cause) ==
    attempts' = [attempts EXCEPT ![p][i] = Moved(attempts[p][i], to, at, cause)]

\* The part of the closing validation that a well-formed command can fail.
CauseGiven(to, cause) == to \in {"failed", "abandoned"} => cause

Touch(at) ==
    /\ revision' = revision + 1
    /\ updatedAt' = at

\* MUTANT of NewAttempt: the revision is left at its zero value.
NewAttemptUnnumbered(w, at, lease) ==
    [status |-> "running", token |-> w, lease |-> lease, revision |-> 0, updatedAt |-> at,
     cause |-> FALSE]

SetFailure(p, present) ==
    failure' = IF present THEN failure \cup {p} ELSE failure \ {p}

\* The new Attempt of a claim, running under its worker's lease.
NewAttempt(w, at, lease) ==
    [status |-> "running", token |-> w, lease |-> lease, revision |-> 1, updatedAt |-> at,
     cause |-> FALSE]

AppendAttempt(p, w, at, lease) ==
    /\ lease > at
    /\ count[p] < MaxAttempts
    /\ attempts' = [attempts EXCEPT ![p] = Append(@, NewAttempt(w, at, lease))]
    /\ count' = [count EXCEPT ![p] = @ + 1]
    /\ active' = [active EXCEPT ![p] = count[p] + 1]
    /\ due' = [due EXCEPT ![p] = 0]
    /\ SetFailure(p, FALSE)
    /\ Touch(at)
    /\ held' = [held EXCEPT ![w] = [phase |-> p, ordinal |-> count[p] + 1,
                                    revision |-> revision + 1, attemptRevision |-> 1]]

\* validateAttemptFenceForPhase: may worker w act, at time `at', on phase p?
FenceHolds(w, p, at) ==
    LET f == held[w] IN
    /\ f.phase = p
    /\ f.revision = revision
    /\ at \in Sampled
    /\ f.ordinal \in DOMAIN attempts[p]
    /\ attempts[p][f.ordinal].revision = f.attemptRevision
    /\ attempts[p][f.ordinal].token = w
    /\ at < attempts[p][f.ordinal].lease
    /\ active[p] = f.ordinal

\* After its own command the worker keeps the fence of the ledger it committed.
Refreshed(w) ==
    held' = [held EXCEPT ![w] = [phase |-> held[w].phase, ordinal |-> held[w].ordinal,
                                 revision |-> held[w].revision + 1,
                                 attemptRevision |-> held[w].attemptRevision + 1]]

Release(w) == held' = [held EXCEPT ![w] = NoFence]

-----------------------------------------------------------------------------
(* ActivateInvocation: the ledger as the node activation commits it.       *)

Init ==
    /\ status = "ready"
    /\ comp \in {"not-required", "unscheduled"}
    /\ active = [p \in Phases |-> 0]
    /\ count = [p \in Phases |-> 0]
    /\ attempts = [p \in Phases |-> << >>]
    /\ due = [p \in Phases |-> 0]
    /\ failure = {}
    /\ wait = 0
    /\ revision = 1
    /\ updatedAt = 0
    /\ held = [w \in Workers |-> NoFence]
    /\ waiter = NoWait
    /\ clock = 0

\* MUTANT of ClaimInvocation: the status check is dropped for a running one.
ClaimInvocationRunning(w, at, lease) ==
    /\ at \in Sampled
    /\ \/ status \in {"ready", "running"}
       \/ status = "retry-wait" /\ due["execution"] # 0 /\ at >= due["execution"]
    /\ AppendAttempt("execution", w, at, lease)
    /\ status' = "running"
    /\ UNCHANGED <<comp, wait, waiter, clock>>

ClaimInvocation(w, at, lease) ==
    /\ at \in Sampled
    /\ \/ status = "ready"
       \/ status = "retry-wait" /\ due["execution"] # 0 /\ at >= due["execution"]
    /\ AppendAttempt("execution", w, at, lease)
    /\ status' = "running"
    /\ UNCHANGED <<comp, wait, waiter, clock>>

\* The common end of a fenced execution transition: the wait is dropped.
LeaveWait(at) ==
    /\ wait' = 0
    /\ Touch(at)
    /\ UNCHANGED <<comp, count, waiter, clock>>

\* MUTANT of Park: only the invocation moves, the attempt stays running.
ParkInvocationOnly(w, at, cause) ==
    /\ FenceHolds(w, "execution", at)
    /\ status = "running"
    /\ attempts["execution"][held[w].ordinal].revision < MaxAttemptRevision
    /\ MoveAttempt("execution", held[w].ordinal, "running", at, cause)
    /\ status' = "waiting"
    /\ wait' = held[w].ordinal
    /\ Touch(at)
    /\ Refreshed(w)
    /\ UNCHANGED <<comp, active, count, due, failure, waiter, clock>>

\* TransitionInvocation to waiting: the worker parks its attempt on a wait
\* whose generation is the attempt's ordinal.
Park(w, at, cause) ==
    /\ FenceHolds(w, "execution", at)
    /\ status = "running"
    /\ attempts["execution"][held[w].ordinal].revision < MaxAttemptRevision
    /\ MoveAttempt("execution", held[w].ordinal, "waiting", at, cause)
    /\ status' = "waiting"
    /\ wait' = held[w].ordinal
    /\ Touch(at)
    /\ Refreshed(w)
    /\ due' = [due EXCEPT !["execution"] = 0]
    /\ UNCHANGED <<comp, active, count, failure, waiter, clock>>

\* TransitionInvocation back to running, by the lease holder.
Unpark(w, at, cause) ==
    /\ FenceHolds(w, "execution", at)
    /\ status = "waiting"
    /\ attempts["execution"][held[w].ordinal].revision < MaxAttemptRevision
    /\ MoveAttempt("execution", held[w].ordinal, "running", at, cause)
    /\ status' = "running"
    /\ LeaveWait(at)
    /\ Refreshed(w)
    /\ due' = [due EXCEPT !["execution"] = 0]
    /\ UNCHANGED <<active, failure>>

\* validateAlignedTransition: which Attempt status goes with which outcome.
Aligned ==
    {<<"succeeded", "succeeded">>, <<"failed", "failed">>, <<"failed", "abandoned">>,
     <<"canceled", "canceled">>, <<"canceled", "abandoned">>}

\* TransitionInvocation to a terminal status.  The command's Failure becomes
\* the attempt's: absent on success, required of a failure, free on a cancel.
Finish(w, at, to, attemptTo, cause) ==
    /\ FenceHolds(w, "execution", at)
    /\ status \in ActiveStatuses
    /\ <<to, attemptTo>> \in Aligned
    /\ to # "canceled" => cause = (to = "failed")
    /\ CauseGiven(attemptTo, cause)
    /\ MoveAttempt("execution", held[w].ordinal, attemptTo, at, cause)
    /\ status' = to
    /\ active' = [active EXCEPT !["execution"] = 0]
    /\ due' = [due EXCEPT !["execution"] = 0]
    /\ SetFailure("execution", to = "failed" \/ "execution" \in failure)
    /\ LeaveWait(at)
    /\ Release(w)

\* TransitionInvocation to retry-wait: the attempt failed, another is due later.
ScheduleRetry(w, at, retryAt) ==
    /\ FenceHolds(w, "execution", at)
    /\ status \in ActiveStatuses
    /\ retryAt > at
    /\ MoveAttempt("execution", held[w].ordinal, "failed", at, TRUE)
    /\ status' = "retry-wait"
    /\ active' = [active EXCEPT !["execution"] = 0]
    /\ due' = [due EXCEPT !["execution"] = retryAt]
    /\ SetFailure("execution", TRUE)
    /\ LeaveWait(at)
    /\ Release(w)

\* A resolver reads the ledger of a waiting invocation before it computes.
ReadWait ==
    /\ status = "waiting"
    /\ waiter' = [ordinal |-> active["execution"], revision |-> revision,
                  attemptRevision |-> attempts["execution"][active["execution"]].revision,
                  wait |-> wait]
    /\ UNCHANGED <<ledger, held, clock>>

\* ResolveInvocationWait: no lease, but the exact wait that was read.
ResolveInvocationWait(at, to) ==
    /\ waiter.revision = revision
    /\ status = "waiting"
    /\ waiter.wait = wait /\ waiter.wait # 0
    /\ at \in Sampled
    /\ waiter.ordinal \in DOMAIN attempts["execution"]
    /\ active["execution"] = waiter.ordinal
    /\ attempts["execution"][waiter.ordinal].status = "waiting"
    /\ attempts["execution"][waiter.ordinal].revision = waiter.attemptRevision
    /\ to \in {"succeeded", "failed", "canceled"}
    /\ MoveAttempt("execution", waiter.ordinal, to, at, to = "failed")
    /\ status' = to
    /\ active' = [active EXCEPT !["execution"] = 0]
    /\ SetFailure("execution", to = "failed")
    /\ wait' = 0
    /\ Touch(at)
    /\ waiter' = NoWait
    /\ UNCHANGED <<comp, count, due, held, clock>>

\* MUTANT of HeartbeatAttempt: the new lease is not compared with the old one.
HeartbeatAnyLease(w, p, at, lease) ==
    /\ FenceHolds(w, p, at)
    /\ attempts[p][held[w].ordinal].revision < MaxAttemptRevision
    /\ attempts' = [attempts EXCEPT ![p][held[w].ordinal] =
                        Extended(attempts[p][held[w].ordinal], lease, at)]
    /\ Touch(at)
    /\ Refreshed(w)
    /\ UNCHANGED <<status, comp, active, count, due, failure, wait, waiter, clock>>

HeartbeatAttempt(w, p, at, lease) ==
    /\ FenceHolds(w, p, at)
    /\ attempts[p][held[w].ordinal].status \in {"running", "waiting"}
    /\ attempts[p][held[w].ordinal].revision < MaxAttemptRevision
    /\ lease > attempts[p][held[w].ordinal].lease
    /\ attempts' = [attempts EXCEPT ![p][held[w].ordinal] =
                        Extended(attempts[p][held[w].ordinal], lease, at)]
    /\ Touch(at)
    /\ Refreshed(w)
    /\ UNCHANGED <<status, comp, active, count, due, failure, wait, waiter, clock>>

\* MUTANT of ExpireInvocationAttempt: a running invocation is not expirable.
ExpireWaitingOnly(at, retry) ==
    LET i == active["execution"] IN
    /\ status = "waiting"
    /\ at \in Sampled
    /\ at >= attempts["execution"][i].lease
    /\ MoveAttempt("execution", i, "abandoned", at, TRUE)
    /\ status' = IF retry THEN "ready" ELSE "failed"
    /\ active' = [active EXCEPT !["execution"] = 0]
    /\ SetFailure("execution", ~retry \/ "execution" \in failure)
    /\ LeaveWait(at)
    /\ UNCHANGED <<due, held>>

\* ExpireInvocationAttempt: closes an attempt whose lease has run out.
ExpireInvocationAttempt(at, retry) ==
    LET i == active["execution"] IN
    /\ status \in ActiveStatuses
    /\ at \in Sampled
    /\ i \in DOMAIN attempts["execution"]
    /\ attempts["execution"][i].status \notin ClosedAttempts
    /\ at >= attempts["execution"][i].lease
    /\ MoveAttempt("execution", i, "abandoned", at, TRUE)
    /\ status' = IF retry THEN "ready" ELSE "failed"
    /\ active' = [active EXCEPT !["execution"] = 0]
    /\ SetFailure("execution", ~retry \/ "execution" \in failure)
    /\ LeaveWait(at)
    /\ UNCHANGED <<due, held>>

\* ResolveUnleasedInvocation: closes a state that has no active attempt.
ResolveUnleasedInvocation(at, to) ==
    /\ at \in Sampled
    /\ \/ status = "ready" /\ to \in {"skipped", "canceled"}
       \/ status = "retry-wait" /\ to \in {"failed", "canceled"}
    /\ status' = to
    /\ active' = [active EXCEPT !["execution"] = 0]
    /\ due' = [due EXCEPT !["execution"] = 0]
    /\ SetFailure("execution", to = "failed")
    /\ comp' = IF to = "skipped" /\ comp = "unscheduled" THEN "not-required" ELSE comp
    /\ Touch(at)
    /\ UNCHANGED <<count, attempts, wait, held, waiter, clock>>

\* MUTANT of CancelInvocation: a terminal invocation may be canceled again.
CancelTerminal(at) ==
    /\ at \in Sampled
    /\ active["execution"] = 0
    /\ status' = "canceled"
    /\ SetFailure("execution", FALSE)
    /\ Touch(at)
    /\ UNCHANGED <<active, due, attempts, comp, wait, count, held, waiter, clock>>

\* CancelInvocation: the Run's termination closes whatever is still open.
CancelInvocation(at) ==
    LET i == active["execution"] IN
    /\ ~Terminal
    /\ at \in Sampled
    /\ \/ i = 0 /\ UNCHANGED attempts
       \/ /\ i \in DOMAIN attempts["execution"]
          /\ attempts["execution"][i].status \notin ClosedAttempts
          /\ MoveAttempt("execution", i, "canceled", at, attempts["execution"][i].cause)
    /\ status' = "canceled"
    /\ active' = [active EXCEPT !["execution"] = 0]
    /\ due' = [due EXCEPT !["execution"] = 0]
    /\ SetFailure("execution", FALSE)
    /\ comp' = IF comp = "unscheduled" THEN "canceled" ELSE comp
    /\ wait' = 0
    /\ Touch(at)
    /\ UNCHANGED <<count, held, waiter, clock>>

ScheduleInvocationCompensation(at) ==
    /\ Terminal /\ status # "skipped" /\ comp = "unscheduled"
    /\ at \in Sampled
    /\ comp' = "ready"
    /\ Touch(at)
    /\ UNCHANGED <<status, active, count, attempts, due, failure, wait, held, waiter, clock>>

ClaimCompensation(w, at, lease) ==
    /\ at \in Sampled
    /\ \/ comp = "ready"
       \/ comp = "retry-wait" /\ due["compensation"] # 0 /\ at >= due["compensation"]
    /\ AppendAttempt("compensation", w, at, lease)
    /\ comp' = "running"
    /\ UNCHANGED <<status, wait, waiter, clock>>

\* TransitionInvocationCompensation: every outcome closes the attempt.  Its
\* checks admit an abandoned attempt for a canceled compensation, and only
\* without a Failure; the closing validation then refuses that ledger.
TransitionInvocationCompensation(w, at, to, attemptTo, retryAt) ==
    /\ FenceHolds(w, "compensation", at)
    /\ comp = "running"
    /\ \/ <<to, attemptTo>> \in Aligned /\ retryAt = 0
       \/ to = "retry-wait" /\ attemptTo = "failed" /\ retryAt > at
    /\ CauseGiven(attemptTo, to \in {"failed", "retry-wait"})
    /\ MoveAttempt("compensation", held[w].ordinal, attemptTo, at, to \in {"failed", "retry-wait"})
    /\ comp' = to
    /\ active' = [active EXCEPT !["compensation"] = 0]
    /\ SetFailure("compensation", to \in {"failed", "retry-wait"})
    /\ due' = [due EXCEPT !["compensation"] = retryAt]
    /\ Touch(at)
    /\ Release(w)
    /\ UNCHANGED <<status, count, wait, waiter, clock>>

-----------------------------------------------------------------------------
(* The environment: time passes, a worker process dies with its fence.     *)

Tick ==
    /\ clock < MaxTime
    /\ clock' = clock + 1
    /\ UNCHANGED <<ledger, held, waiter>>

Crash(w) ==
    /\ held[w] # NoFence
    /\ Release(w)
    /\ UNCHANGED <<ledger, waiter, clock>>

Times == 0..MaxTime

WorkerStep(w) ==
    \E at \in Times :
        \/ \E lease \in Times :
              \/ ClaimInvocation(w, at, lease)
              \/ ClaimCompensation(w, at, lease)
              \/ \E p \in Phases : HeartbeatAttempt(w, p, at, lease)
              \/ ScheduleRetry(w, at, lease)
        \/ \E cause \in BOOLEAN : Park(w, at, cause) \/ Unpark(w, at, cause)
        \/ \E to \in {"succeeded", "failed", "canceled", "retry-wait"},
              attemptTo \in ClosedAttempts :
              \/ \E cause \in BOOLEAN : Finish(w, at, to, attemptTo, cause)
              \/ \E retryAt \in Times :
                    TransitionInvocationCompensation(w, at, to, attemptTo, retryAt)

ControllerStep ==
    \/ ReadWait
    \/ \E at \in Times :
          \/ \E to \in TerminalStatuses :
                \/ ResolveInvocationWait(at, to)
                \/ ResolveUnleasedInvocation(at, to)
          \/ \E retry \in BOOLEAN : ExpireInvocationAttempt(at, retry)
          \/ CancelInvocation(at)
          \/ ScheduleInvocationCompensation(at)

Next ==
    \/ \E w \in Workers : WorkerStep(w) \/ Crash(w)
    \/ ControllerStep
    \/ Tick

Spec == Init /\ [][Next]_vars

\* Time passes, and a drive of the Run keeps finding expired running attempts
\* (Controller.Drive expires a running attempt, never a waiting one).
ExpireRunning ==
    /\ status = "running"
    /\ \E at \in Times, retry \in BOOLEAN : ExpireInvocationAttempt(at, retry)

FairSpec == Spec /\ WF_vars(Tick) /\ WF_vars(ExpireRunning)

-----------------------------------------------------------------------------
(* Properties.                                                             *)

\* Every field holds a value of its Go type.
TypeOK ==
    /\ status \in Statuses
    /\ comp \in CompStatuses
    /\ active \in [Phases -> Nat]
    /\ count \in [Phases -> Nat]
    /\ attempts \in [Phases -> Seq(Attempt)]
    /\ due \in [Phases -> Nat]
    /\ failure \in SUBSET Phases
    /\ wait \in Nat
    /\ revision \in Nat \ {0}
    /\ updatedAt \in Nat
    /\ held \in [Workers -> Fence]
    /\ waiter \in WaitFence
    /\ clock \in Nat

\* ValidateInvocationLedger on the primary lifecycle: the active pointer, the
\* wait, the retry time and the failure are there exactly when the status says.
PrimaryValid ==
    /\ (status \in ActiveStatuses) <=> (active["execution"] # 0)
    /\ status = "retry-wait" => due["execution"] # 0
    /\ status = "waiting" => wait # 0
    /\ "execution" \in failure <=> status \in {"failed", "retry-wait"}

\* validateInvocationCompensation: compensation starts only after the primary
\* outcome is terminal, and carries exactly the state its status needs.
CompensationValid ==
    /\ comp \notin {"not-required", "unscheduled"} => Terminal
    /\ comp = "not-required" => count["compensation"] = 0
    /\ (comp = "running") <=> (active["compensation"] # 0)
    /\ (comp = "retry-wait") <=> (due["compensation"] # 0)
    /\ "compensation" \in failure <=> comp \in {"failed", "retry-wait"}

\* validateAttempt: a closed attempt has no lease, an open one has a lease
\* that outlasts its last update; a failed or abandoned one has its Failure.
AttemptValid(a) ==
    /\ IF a.status \in ClosedAttempts THEN a.lease = 0 ELSE a.lease > a.updatedAt
    /\ a.status \in {"failed", "abandoned"} => a.cause

\* The attempt list: counts agree with it, the active pointers name open
\* attempts of their phase, every attempt is valid.
AttemptsValid ==
    \A p \in Phases :
        /\ count[p] = Len(attempts[p])
        /\ active[p] # 0 => /\ active[p] \in DOMAIN attempts[p]
                            /\ attempts[p][active[p]].status \notin ClosedAttempts
        /\ \A i \in DOMAIN attempts[p] : AttemptValid(attempts[p][i])

\* No sequence of reducers, under any interleaving of workers, resolvers and
\* terminations, commits a ledger that ValidateInvocationLedger rejects: the
\* aggregate never becomes unreadable (the two reducers without a closing
\* validation included).  Apart from CauseGiven, the reducers that have one
\* do not need it: what their own checks admit, it accepts.
LedgerValid == PrimaryValid /\ CompensationValid /\ AttemptsValid

\* The validator never checks it: an open attempt is always the active one of
\* its phase, so no attempt is left running that nobody can close or fence, and
\* at most one attempt of the whole ledger is open.
OpenIsActive ==
    \A p \in Phases : \A i \in DOMAIN attempts[p] :
        attempts[p][i].status \notin ClosedAttempts => active[p] = i

\* A park is visible on both sides: the attempt waits iff the invocation does,
\* so the lease-free resolver finds the attempt it needs.
WaitAgrees ==
    active["execution"] # 0 =>
        attempts["execution"][active["execution"]].status = status

ClosedKept ==
    \A p \in Phases : \A i \in DOMAIN attempts[p] :
        attempts[p][i].status \in ClosedAttempts => attempts'[p][i] = attempts[p][i]

OutcomeKept == Terminal => status' = status

\* What a worker or a resolver that crashed, stalled or lost a race left in the
\* ledger is final: a closed attempt never changes again and a terminal
\* invocation never takes another primary outcome, whatever arrives late.
ClosedIsFinal == [][ClosedKept /\ OutcomeKept]_vars

\* Is some live process still entitled to report on the running attempt?
Reported == \E w \in Workers : /\ held[w].phase = "execution"
                               /\ held[w].ordinal = active["execution"]
                               /\ held[w].revision = revision

\* A running attempt whose worker died is eventually closed: the invocation
\* does not stay running for ever.
LostWorkerCloses == (status = "running" /\ ~Reported) ~> (status # "running")

=============================================================================
