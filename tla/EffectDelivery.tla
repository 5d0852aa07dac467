--------------------------- MODULE EffectDelivery ---------------------------
(***************************************************************************)
(* One external Effect from preparation to compensation:                   *)
(* kernel/effect/effect.go, controller/effects.go, the outbox and cleanup  *)
(* handlers of controller/intent_handlers.go and the worker that leases    *)
(* their intents.                                                          *)
(*                                                                         *)
(* Every command the Effect ever issues is a number: 1, 2, ... are its     *)
(* dispatches (BeginEffect again after a transient failure is a new        *)
(* command), Undo is its compensation.  A command has a receipt ledger, a  *)
(* durable intent and, at the provider, an outcome.  The provider is       *)
(* external: it executes a command at most once (the envelope carries an   *)
(* idempotency key) and always reports the same receipts for it.           *)
(*                                                                         *)
(* Handlers lease intents, crash, and come back late: an intent leased by  *)
(* h is the value h, an expired lease is adopted by Claim, and only the    *)
(* holder can settle the intent.  Reading the Effect is one step, calling  *)
(* the provider another, storing each receipt one more.                    *)
(***************************************************************************)
EXTENDS Naturals, Sequences, FiniteSets

CONSTANTS
    Handlers,    \* worker processes
    Policy,      \* the Effect's compensation policy
    MaxBegins,   \* bound: dispatches of the Effect
    MaxTime,     \* bound: the clock
    Deadline,    \* when a command expires
    Outcomes,    \* how the provider may end a command
    Answers,     \* what a call of the provider may return
    Rejects,     \* may credentials or the adapter be missing?
    Recovers,    \* is the compensator a CompensationRecoverer?
    StoreFaults  \* may a store operation fail?

Undo == 0
Dispatches == 1..MaxBegins
Commands == 0..MaxBegins

ASSUME DeliveryAssumption ==
    /\ Policy \in {"none", "required", "best-effort"}
    /\ MaxBegins \in Nat \ {0}
    /\ MaxTime \in Nat \ {0}
    /\ Deadline \in Nat
    /\ Outcomes \subseteq {"succeeded", "failed", "transient", "rejected"}
    /\ Answers \subseteq {"ledger", "accepted", "error"}
    /\ Rejects \in BOOLEAN /\ Recovers \in BOOLEAN /\ StoreFaults \in BOOLEAN
    /\ Handlers \cap {"none", "pending", "completed", "dead"} = {}

VARIABLES
    state,    \* EffectRecord.State
    command,  \* EffectRecord.CommandID: the latest dispatch, 0 before the first
    comp,     \* EffectRecord.CompensationState
    ledger,   \* per command: CommandLedger.Receipts
    taken,    \* per sequence: the dispatch whose receipt used that command key
    intent,   \* per command: its outbox or cleanup intent
    outcome,  \* the provider's memory: per command, how it ended
    now,
    pc,       \* per handler: where it is
    job,      \* per handler: the intent it leased
    cmd,      \* per handler: the command it read from the Effect
    seq,      \* per handler: sequence of the next receipt it stores
    got       \* per handler: the receipts it still has to store

record == <<state, command, comp, ledger, taken>>
local == <<pc, job, cmd, seq, got>>
vars == <<record, intent, outcome, now, local>>

Terminal == {"applied", "failed", "uncertain", "canceled"}
CompTerminal == {"not-required", "succeeded", "reconciled", "failed", "canceled"}

\* A receipt of class `transient' is a failed one that may be retried.  `at' is
\* the time a handler made the receipt up, 0 for the provider's own.
Statuses == {"accepted", "rejected", "succeeded", "failed", "transient", "uncertain"}
Receipt == [status : Statuses, at : 0..MaxTime]
Made(status, at) == [status |-> status, at |-> at]

Settled(receipts) ==
    receipts # <<>> /\ receipts[Len(receipts)].status # "accepted"

\* What a provider reports of a command it executed.
Reported(end) ==
    IF end = "rejected" THEN <<Made("rejected", 0)>>
    ELSE <<Made("accepted", 0), Made(end, 0)>>

-----------------------------------------------------------------------------
(* The reducers.                                                           *)

Init ==
    /\ state = "prepared"
    /\ command = 0
    /\ comp = IF Policy = "none" THEN "not-required" ELSE "unscheduled"
    /\ ledger = [k \in Commands |-> <<>>]
    /\ taken = [s \in 1..2 |-> 0]
    /\ intent = [k \in Commands |-> "none"]
    /\ outcome = [k \in Commands |-> "unknown"]
    /\ now = 1
    /\ pc = [h \in Handlers |-> "idle"]
    /\ job = [h \in Handlers |-> 0]
    /\ cmd = [h \in Handlers |-> 0]
    /\ seq = [h \in Handlers |-> 0]
    /\ got = [h \in Handlers |-> <<>>]

\* MUTANT of MayBegin: any failed Effect is dispatched again, and an uncertain one.
MayBeginAgain == state \in {"prepared", "failed", "uncertain"}

MayBegin ==
    \/ state = "prepared"
    \/ state = "failed" /\ ledger[command][Len(ledger[command])].status = "transient"

\* BeginEffect: the command is durable before anybody can call the provider.
BeginEffect ==
    /\ MayBegin
    /\ command < MaxBegins
    /\ now < Deadline
    /\ state' = "applying"
    /\ command' = command + 1
    /\ intent' = [intent EXCEPT ![command + 1] = "pending"]
    /\ UNCHANGED <<comp, ledger, taken, outcome, now, local>>

\* cancelPreparedEffects, for a Run that stops before the dispatch.
CancelPrepared ==
    /\ state = "prepared"
    /\ state' = "canceled"
    /\ comp' = IF Policy = "none" THEN comp ELSE "canceled"
    /\ UNCHANGED <<command, ledger, taken, intent, outcome, now, local>>

\* TransitionCompensation to pending, when the Run is torn down.
ScheduleCompensation ==
    /\ state = "applied"
    /\ comp = "unscheduled"
    /\ comp' = "pending"
    /\ intent' = [intent EXCEPT ![Undo] = "pending"]
    /\ UNCHANGED <<state, command, ledger, taken, outcome, now, local>>

\* ReconcileCompensation: evidence from a separate authority.
ReconcileCompensation ==
    /\ state = "applied" /\ Policy = "required"
    /\ comp = "failed"
    /\ comp' = "reconciled"
    /\ UNCHANGED <<state, command, ledger, taken, intent, outcome, now, local>>

\* MUTANT of Observed: an uncertain dispatch is taken for a success.
ObservedOptimist ==
    [accepted |-> "applying", succeeded |-> "applied", rejected |-> "failed",
     failed |-> "failed", transient |-> "failed", uncertain |-> "applied"]

\* What a receipt makes of the Effect, and of its compensation.
Observed ==
    [accepted |-> "applying", succeeded |-> "applied", rejected |-> "failed",
     failed |-> "failed", transient |-> "failed", uncertain |-> "uncertain"]

ObservedUndo ==
    [accepted |-> "running", succeeded |-> "succeeded", rejected |-> "failed",
     failed |-> "failed", transient |-> "failed", uncertain |-> "failed"]

\* validateNextReceipt and validateReceipt: receipts are contiguous, nothing
\* follows a terminal one, accepted and rejected are first, the others second.
NextReceipt(receipts, n, receipt) ==
    /\ n = Len(receipts) + 1
    /\ ~Settled(receipts)
    /\ n = IF receipt.status \in {"accepted", "rejected"} THEN 1 ELSE 2

\* MUTANT of Observable: a receipt may follow a terminal one.
ObservableLate(k, n, receipt) ==
    /\ n = Len(ledger[k]) + 1
    /\ n = IF receipt.status \in {"accepted", "rejected"} THEN 1 ELSE 2

\* Observe and ObserveCompensation: does the receipt target the open command?
Observable(k, n, receipt) ==
    /\ NextReceipt(ledger[k], n, receipt)
    /\ IF k = Undo THEN state = "applied" /\ comp = "running"
                   ELSE state = "applying" /\ k = command

Observe(k, n, receipt) ==
    /\ Observable(k, n, receipt)
    /\ ledger' = [ledger EXCEPT ![k] = Append(@, receipt)]
    /\ IF k = Undo THEN comp' = ObservedUndo[receipt.status] /\ UNCHANGED state
                   ELSE state' = Observed[receipt.status] /\ UNCHANGED comp

-----------------------------------------------------------------------------
(* Handling a leased intent.                                               *)

Leased(k) == intent[k] \in Handlers

\* The worker settles the intent it holds; a lease that was adopted is fenced.
Settle(h, status) ==
    intent' = IF intent[job[h]] = h THEN [intent EXCEPT ![job[h]] = status] ELSE intent

Return(h) ==
    /\ pc' = [pc EXCEPT ![h] = "idle"]
    /\ job' = [job EXCEPT ![h] = 0]
    /\ cmd' = [cmd EXCEPT ![h] = 0]
    /\ seq' = [seq EXCEPT ![h] = 0]
    /\ got' = [got EXCEPT ![h] = <<>>]

\* The handler goes on at `at' with receipts to store from sequence n on.
GoOn(h, at, n, receipts) ==
    /\ pc' = [pc EXCEPT ![h] = at]
    /\ seq' = [seq EXCEPT ![h] = n]
    /\ got' = [got EXCEPT ![h] = receipts]
    /\ UNCHANGED <<job, cmd>>

\* ClaimIntents: a pending intent, or one whose lease has run out.
MayClaim(k) == intent[k] = "pending" \/ Leased(k)

Claim(h, k, at, target) ==
    /\ pc[h] = "idle"
    /\ MayClaim(k)
    /\ intent' = [intent EXCEPT ![k] = h]
    /\ pc' = [pc EXCEPT ![h] = at]
    /\ job' = [job EXCEPT ![h] = k]
    /\ cmd' = [cmd EXCEPT ![h] = target]
    /\ UNCHANGED <<seq, got>>

\* EffectOutboxHandler: whatever command the Effect has now is the target.
ClaimOutbox(h, k) ==
    /\ Claim(h, k, IF state \in Terminal THEN "store" ELSE "read", command)
    /\ UNCHANGED <<record, outcome, now>>

\* EffectCleanupHandler.
ClaimCleanup(h) ==
    /\ Claim(h, Undo,
             IF comp \in CompTerminal THEN "store" ELSE IF comp = "pending" THEN "plan" ELSE "read",
             Undo)
    /\ UNCHANGED <<record, outcome, now>>

\* BeginEffectCompensation, or its replay; a compensation that somebody else
\* ended meanwhile makes the intent dead.
BeginCompensation(h) ==
    /\ pc[h] = "plan"
    /\ IF comp \in CompTerminal
       THEN Settle(h, "dead") /\ Return(h) /\ UNCHANGED comp
       ELSE /\ comp' = "running"
            /\ pc' = [pc EXCEPT ![h] = "read"]
            /\ UNCHANGED <<intent, job, cmd, seq, got>>
    /\ UNCHANGED <<state, command, ledger, taken, outcome, now>>

\* An accepted compensation is recovered, never checked or dispatched anew.
Accepted(k) == k = Undo /\ ledger[Undo] # <<>>

\* No adapter, no credentials, or an expired command: the handler makes up the
\* refusal itself.
Reject(h) ==
    LET k == cmd[h]
        n == IF k = Undo THEN Len(ledger[Undo]) + 1 ELSE 1
    IN
    /\ pc[h] = "read"
    /\ Rejects \/ (now >= Deadline /\ ~Accepted(k))
    /\ GoOn(h, "store", n, <<Made(IF n = 1 THEN "rejected" ELSE "failed", now)>>)
    /\ UNCHANGED <<record, intent, outcome, now>>

\* The provider executes the command, unless it did before.
Execute(k, end) ==
    /\ outcome[k] = end \/ (outcome[k] = "unknown" /\ end \in Outcomes)
    /\ outcome' = [outcome EXCEPT ![k] = end]

MayCall(h) == pc[h] = "read" /\ (now < Deadline \/ Accepted(cmd[h]))

\* What is recorded when the outcome is not known: for a dispatch, observeUncertain
\* makes up the acceptance too; for a compensation, fail appends one receipt.
Unknown(h) ==
    IF cmd[h] = Undo
    THEN GoOn(h, "unsure", Len(ledger[Undo]) + 1, <<Made("uncertain", now)>>)
    ELSE GoOn(h, "unsure", 1, <<Made("accepted", now), Made("uncertain", now)>>)

\* The provider is called, or asked again, and answers with its receipts.
CallProvider(h, end) ==
    /\ MayCall(h)
    /\ Accepted(cmd[h]) => Recovers
    /\ Execute(cmd[h], end)
    /\ \/ "ledger" \in Answers /\ GoOn(h, "store", 1, Reported(end))
       \/ "accepted" \in Answers /\ end # "rejected"
             /\ IF cmd[h] = Undo THEN Unknown(h)
                                 ELSE GoOn(h, "store", 1, <<Made("accepted", 0)>>)
       \/ "error" \in Answers /\ Unknown(h)
    /\ UNCHANGED <<record, intent, now>>

\* The call fails before it reaches the provider, or cannot be made.
LoseCall(h) ==
    /\ MayCall(h)
    /\ "error" \in Answers \/ (Accepted(cmd[h]) /\ ~Recovers)
    /\ Unknown(h)
    /\ UNCHANGED <<record, intent, outcome, now>>

Storing(h) == pc[h] \in {"store", "unsure"} /\ got[h] # <<>>

\* ObserveEffect finds this very receipt in the ledger.
Replayed(h) == seq[h] <= Len(ledger[cmd[h]]) /\ ledger[cmd[h]][seq[h]] = Head(got[h])

\* The key of a provider receipt's command names the Effect and the sequence only.
KeyFree(h) ==
    Head(got[h]).at = 0 /\ cmd[h] # Undo => taken[seq[h]] \in {0, cmd[h]}

TakeKey(h) ==
    taken' = IF Head(got[h]).at = 0 /\ cmd[h] # Undo
             THEN [taken EXCEPT ![seq[h]] = cmd[h]] ELSE taken

Stored(h) == GoOn(h, pc[h], seq[h] + 1, Tail(got[h]))

StoreReceipt(h) ==
    /\ Storing(h)
    /\ \/ Replayed(h) /\ UNCHANGED record
       \/ /\ ~Replayed(h)
          /\ KeyFree(h)
          /\ Observe(cmd[h], seq[h], Head(got[h]))
          /\ TakeKey(h)
          /\ UNCHANGED command
    /\ Stored(h)
    /\ UNCHANGED <<intent, outcome, now>>

Refused(h) ==
    Storing(h) /\ ~Replayed(h) /\ ~(KeyFree(h) /\ Observable(cmd[h], seq[h], Head(got[h])))

\* MUTANT of Retry: the worker drops an intent it could not handle.
RetryNever(h) ==
    /\ Refused(h) \/ (StoreFaults /\ pc[h] # "idle")
    /\ Settle(h, "dead")
    /\ Return(h)
    /\ UNCHANGED <<record, outcome, now>>

\* retryIntent: a receipt is refused, or the store failed.
Retry(h) ==
    /\ Refused(h) \/ (StoreFaults /\ pc[h] # "idle")
    /\ Settle(h, "pending")
    /\ Return(h)
    /\ UNCHANGED <<record, outcome, now>>

Complete(h) ==
    /\ pc[h] \in {"store", "unsure"}
    /\ got[h] = <<>>
    /\ Settle(h, "completed")
    /\ Return(h)
    /\ UNCHANGED <<record, outcome, now>>

Crash(h) ==
    /\ pc[h] # "idle"
    /\ Return(h)
    /\ UNCHANGED <<record, intent, outcome, now>>

\* The host of an asynchronous provider passes on what it reported later.
DeliverReceipt(k, n) ==
    /\ "accepted" \in Answers
    /\ outcome[k] # "unknown"
    /\ n <= Len(Reported(outcome[k]))
    /\ Observe(k, n, Reported(outcome[k])[n])
    /\ UNCHANGED <<command, taken, intent, outcome, now, local>>

Tick ==
    /\ now < MaxTime
    /\ now' = now + 1
    /\ UNCHANGED <<record, intent, outcome, local>>

-----------------------------------------------------------------------------

HandlerStep(h) ==
    \/ \E k \in Dispatches : ClaimOutbox(h, k)
    \/ ClaimCleanup(h) \/ BeginCompensation(h) \/ Reject(h)
    \/ \E end \in Outcomes : CallProvider(h, end)
    \/ LoseCall(h) \/ StoreReceipt(h) \/ Complete(h)

Delivery == \E k \in Commands, n \in 1..2 : DeliverReceipt(k, n)

Next ==
    \/ BeginEffect \/ CancelPrepared \/ ScheduleCompensation \/ ReconcileCompensation
    \/ \E h \in Handlers : HandlerStep(h) \/ Retry(h) \/ Crash(h)
    \/ Delivery \/ Tick

Spec == Init /\ [][Next]_vars

-----------------------------------------------------------------------------
(* Properties.                                                             *)

\* Every field holds a value of its type; a ledger holds at most two receipts.
TypeOK ==
    /\ state \in {"prepared", "applying"} \cup Terminal
    /\ command \in Commands
    /\ comp \in {"unscheduled", "pending", "running"} \cup CompTerminal
    /\ ledger \in [Commands -> Seq(Receipt)]
    /\ \A k \in Commands : Len(ledger[k]) <= 2
    /\ taken \in [1..2 -> Commands]
    /\ intent \in [Commands -> {"none", "pending", "completed", "dead"} \cup Handlers]
    /\ outcome \in [Commands -> {"unknown"} \cup Outcomes]
    /\ now \in 1..MaxTime
    /\ pc \in [Handlers -> {"idle", "read", "plan", "store", "unsure"}]
    /\ job \in [Handlers -> Commands]
    /\ cmd \in [Handlers -> Commands]
    /\ seq \in [Handlers -> 0..3]
    /\ got \in [Handlers -> Seq(Receipt)]

\* The Effect is what its ledgers say: its state is the fold of the latest
\* dispatch's receipts, its compensation state the fold of the compensation's,
\* and a dispatch was only repeated after a transient failure.
StateFoldsLedger ==
    /\ command > 0 =>
          LET receipts == ledger[command] IN
          state = IF receipts = <<>> THEN "applying" ELSE Observed[receipts[Len(receipts)].status]
    /\ command = 0 => state \in {"prepared", "canceled"}
    /\ ledger[Undo] # <<>> =>
          comp \in {ObservedUndo[ledger[Undo][Len(ledger[Undo])].status], "reconciled"}
    /\ \A k \in Dispatches :
          /\ k < command => ledger[k] # <<>> /\ ledger[k][Len(ledger[k])].status = "transient"
          /\ k > command => ledger[k] = <<>>

\* A mutation is never invented, never repeated: the provider executes nothing
\* that was not begun, a canceled Effect was never dispatched, applied and
\* compensated mean that the provider did it, and however often the Effect is
\* dispatched, by however many workers, it takes effect once.
TakesEffectOnce ==
    /\ \A k \in Dispatches : outcome[k] # "unknown" => k <= command
    /\ outcome[Undo] # "unknown" => state = "applied" /\ comp \notin {"unscheduled", "pending"}
    /\ state = "applied" => outcome[command] = "succeeded"
    /\ comp = "succeeded" => outcome[Undo] = "succeeded"
    /\ Cardinality({k \in Dispatches : outcome[k] = "succeeded"}) <= 1

\* Evidence is immutable: a stored receipt stays, nothing is appended behind a
\* terminal one, and an applied, uncertain or canceled Effect never changes.
EvidenceImmutable ==
    [][/\ \A k \in Commands :
             /\ SubSeq(ledger'[k], 1, Len(ledger[k])) = ledger[k]
             /\ Settled(ledger[k]) => ledger'[k] = ledger[k]
       /\ state \in {"applied", "uncertain", "canceled"} => state' = state]_vars

\* No outcome is lost: as long as an Effect is being applied, or a scheduled
\* compensation has not ended, there is an intent for it that a worker holds or
\* will claim again, wherever earlier workers crashed, lost their lease or were
\* refused a receipt.  The one exception is a dispatch the provider has accepted
\* and reports on later.
WorkRemains ==
    /\ state = "applying" =>
          \/ MayClaim(command)
          \/ Len(ledger[command]) = 1 /\ ledger[command][1].status = "accepted"
    /\ comp \in {"pending", "running"} => MayClaim(Undo)

\* A worker that does not know whether its command took effect never gives the
\* intent back for another dispatch.
UncertainNotRetried ==
    [][\A h \in Handlers :
          pc[h] = "unsure" /\ intent[job[h]] = h => intent'[job[h]] # "pending"]_vars

=============================================================================
