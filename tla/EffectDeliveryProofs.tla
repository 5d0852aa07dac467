------------------------ MODULE EffectDeliveryProofs ------------------------
(***************************************************************************)
(* Proofs about EffectDelivery, for any workers, policy, bounds, outcomes  *)
(* and faults: the Effect's state is the fold of its ledgers, it takes     *)
(* effect once however often it is dispatched, evidence is immutable, and  *)
(* the intent for what is under way is never lost.                         *)
(***************************************************************************)
EXTENDS EffectDelivery, SequenceTheorems, FiniteSetTheorems, TLAPS

\* The compensation was scheduled.
Scheduled == comp \notin {"unscheduled", "not-required", "canceled"}

\* A receipt that decides something says what the provider did.
Truthful(k, receipt) ==
    receipt.status \in {"succeeded", "transient"} => outcome[k] = receipt.status

AllTruthful(k, receipts) == \A i \in 1..Len(receipts) : Truthful(k, receipts[i])

\* What is stored agrees with the provider; only an applied Effect is compensated.
RecordOK ==
    /\ \A k \in Commands : AllTruthful(k, ledger[k])
    /\ Scheduled => state = "applied"
    /\ state = "applied" => outcome[command] = "succeeded"
    /\ comp = "succeeded" => outcome[Undo] = "succeeded"
    /\ outcome[Undo] # "unknown" => state = "applied" /\ Scheduled /\ comp # "pending"

\* A dispatch that was not begun has no intent, and no outcome.
IntentOK ==
    /\ \A k \in Dispatches : k > command => intent[k] = "none" /\ outcome[k] = "unknown"
    /\ intent[Undo] # "none" => Scheduled

\* What a handler knows: the command it works on was begun, and it stores only
\* receipts the provider gave or that decide nothing.
HandlerOK(h) ==
    /\ pc[h] \in {"idle", "read", "plan"} => got[h] = <<>>
    /\ pc[h] # "idle" => cmd[h] <= command
    /\ pc[h] = "plan" => Scheduled
    /\ pc[h] = "read" /\ cmd[h] = Undo => Scheduled /\ comp # "pending"
    /\ AllTruthful(cmd[h], got[h])

Inv ==
    /\ TypeOK /\ StateFoldsLedger /\ RecordOK /\ IntentOK
    /\ \A h \in Handlers : HandlerOK(h)

-----------------------------------------------------------------------------
(* Sequences of receipts.                                                  *)

\* What an append leaves and adds.
LEMMA AppendFacts ==
    ASSUME NEW s \in Seq(Receipt), NEW e \in Receipt
    PROVE  /\ Append(s, e) \in Seq(Receipt)
           /\ Len(Append(s, e)) = Len(s) + 1
           /\ Append(s, e)[Len(s) + 1] = e
           /\ \A i \in 1..Len(s) : Append(s, e)[i] = s[i]
           /\ Append(s, e) # <<>>
  BY AppendProperties, SMT

\* A sequence with a receipt in it is not empty, and the other way round.
LEMMA EmptyFacts ==
    ASSUME NEW s \in Seq(Receipt)
    PROVE  /\ Len(s) \in Nat
           /\ s = <<>> <=> Len(s) = 0
           /\ s # <<>> => s[Len(s)] \in Receipt
  BY EmptySeq, LenProperties, SMT

\* The receipts before the appended one are the old ledger.
LEMMA PrefixFacts ==
    ASSUME NEW s \in Seq(Receipt), NEW e \in Receipt
    PROVE  /\ SubSeq(s, 1, Len(s)) = s
           /\ SubSeq(Append(s, e), 1, Len(s)) = s
<1>1. SubSeq(s, 1, Len(s)) = s
  BY SMT
<1>2. SubSeq(Append(s, e), 1, Len(s)) = s
  BY AppendFacts, SMT
<1> QED  BY <1>1, <1>2

\* The first receipt, and those behind it.
LEMMA HeadFacts ==
    ASSUME NEW s \in Seq(Receipt), s # <<>>
    PROVE  /\ Head(s) \in Receipt /\ Head(s) = s[1]
           /\ 1 \in 1..Len(s)
           /\ Tail(s) \in Seq(Receipt)
           /\ Len(Tail(s)) = Len(s) - 1
           /\ \A i \in 1..Len(Tail(s)) : Tail(s)[i] = s[i + 1]
  BY EmptyFacts, HeadTailProperties, SMT

\* A receipt that was made up, or given by the provider, is one.
LEMMA MadeFacts ==
    ASSUME NEW status \in Statuses, NEW at \in 0..MaxTime
    PROVE  /\ Made(status, at) \in Receipt
           /\ Made(status, at).status = status
           /\ <<Made(status, at)>> \in Seq(Receipt)
           /\ Len(<<Made(status, at)>>) = 1
           /\ <<Made(status, at)>>[1] = Made(status, at)
  BY SMT DEF Made, Receipt

\* Two receipts in a row.
LEMMA PairFacts ==
    ASSUME NEW a \in Receipt, NEW b \in Receipt
    PROVE  /\ <<a, b>> \in Seq(Receipt)
           /\ Len(<<a, b>>) = 2
           /\ <<a, b>>[1] = a /\ <<a, b>>[2] = b
  BY SMT
-----------------------------------------------------------------------------
(* The parts of a step.                                                    *)

RecordTyped ==
    /\ state \in {"prepared", "applying"} \cup Terminal
    /\ command \in Commands
    /\ comp \in {"unscheduled", "pending", "running"} \cup CompTerminal
    /\ ledger \in [Commands -> Seq(Receipt)]
    /\ \A k \in Commands : Len(ledger[k]) <= 2
    /\ taken \in [1..2 -> Commands]

SharedTyped ==
    /\ intent \in [Commands -> {"none", "pending", "completed", "dead"} \cup Handlers]
    /\ outcome \in [Commands -> {"unknown"} \cup Outcomes]
    /\ now \in 1..MaxTime

LocalTyped ==
    /\ pc \in [Handlers -> {"idle", "read", "plan", "store", "unsure"}]
    /\ job \in [Handlers -> Commands]
    /\ cmd \in [Handlers -> Commands]
    /\ seq \in [Handlers -> 0..3]
    /\ got \in [Handlers -> Seq(Receipt)]

\* The three together are the type invariant.
LEMMA TypeParts ==
    /\ TypeOK <=> (RecordTyped /\ SharedTyped /\ LocalTyped)
    /\ TypeOK' <=> (RecordTyped' /\ SharedTyped' /\ LocalTyped')
  BY Zenon DEF TypeOK, RecordTyped, SharedTyped, LocalTyped

\* The commands are the compensation and the dispatches.
LEMMA CommandFacts ==
    /\ MaxBegins \in Nat /\ MaxBegins >= 1 /\ MaxTime \in Nat
    /\ Undo \in Commands /\ Undo = 0
    /\ \A k \in Commands : k \in Nat /\ k <= MaxBegins
    /\ \A k \in Commands : k # Undo <=> k \in Dispatches
    /\ \A k \in Dispatches : k \in Nat /\ k \in Commands /\ k >= 1
  BY DeliveryAssumption DEF Undo, Commands, Dispatches

\* What a handler relies on only ever grows: the commands that were begun, the
\* provider's memory, and the compensation's way.
Later ==
    /\ command <= command'
    /\ Scheduled => Scheduled'
    /\ Scheduled /\ comp # "pending" => comp' # "pending"
    /\ \A k \in Commands : outcome[k] # "unknown" => outcome'[k] = outcome[k]

\* Handler h does not move.
Rests(h) ==
    /\ pc'[h] = pc[h] /\ job'[h] = job[h] /\ cmd'[h] = cmd[h]
    /\ seq'[h] = seq[h] /\ got'[h] = got[h]

\* A truthful receipt stays truthful, since the provider does not change its mind.
LEMMA TruthStays ==
    ASSUME NEW k \in Commands, NEW receipt, Later, Truthful(k, receipt)
    PROVE  receipt.status \in {"succeeded", "transient"} => outcome'[k] = receipt.status
<1> SUFFICES ASSUME receipt.status \in {"succeeded", "transient"}
             PROVE  outcome'[k] = receipt.status
  OBVIOUS
<1>1. outcome[k] = receipt.status
  BY Zenon DEF Truthful
<1>2. outcome[k] # "unknown"
  BY <1>1
<1> QED  BY <1>1, <1>2, Zenon DEF Later

\* All of a list stays truthful.
LEMMA TruthsStay ==
    ASSUME NEW k \in Commands, NEW receipts, Later, AllTruthful(k, receipts)
    PROVE  \A i \in 1..Len(receipts) :
              receipts[i].status \in {"succeeded", "transient"} => outcome'[k] = receipts[i].status
<1> TAKE i \in 1..Len(receipts)
<1>1. Truthful(k, receipts[i])
  BY Zenon DEF AllTruthful
<1> QED  BY <1>1, TruthStays, Zenon

\* What a resting handler knows stays true.
LEMMA HandlerKept ==
    ASSUME TypeOK, TypeOK', NEW h \in Handlers, Rests(h), Later, HandlerOK(h)
    PROVE  HandlerOK(h)'
<1>1. /\ pc'[h] = pc[h] /\ cmd'[h] = cmd[h] /\ got'[h] = got[h]
  BY Zenon DEF Rests
<1>2. cmd[h] \in Commands /\ command \in Commands /\ command' \in Commands
  BY Zenon DEF TypeOK
<1>3. (pc[h] \in {"idle", "read", "plan"} => got[h] = <<>>)'
  BY <1>1, Zenon DEF HandlerOK
<1>4. (pc[h] # "idle" => cmd[h] <= command)'
  <2>1. pc[h] # "idle" => cmd[h] <= command
    BY Zenon DEF HandlerOK
  <2>2. command <= command'
    BY Zenon DEF Later
  <2>3. cmd[h] \in Nat /\ command \in Nat /\ command' \in Nat
    BY <1>2, CommandFacts, Zenon
  <2>4. pc'[h] # "idle" => cmd[h] <= command'
    BY <1>1, <2>1, <2>2, <2>3
  <2> QED  BY <1>1, <2>4, Zenon
<1>5. (pc[h] = "plan" => Scheduled)'
  BY <1>1, Zenon DEF HandlerOK, Later
<1>6. (pc[h] = "read" /\ cmd[h] = Undo => Scheduled /\ comp # "pending")'
  <2> SUFFICES ASSUME pc'[h] = "read", cmd'[h] = Undo
               PROVE  Scheduled' /\ comp' # "pending"
    BY Zenon DEF Undo
  <2> QED  BY <1>1, Zenon DEF HandlerOK, Later
<1>7. AllTruthful(cmd[h], got[h])'
  <2>1. AllTruthful(cmd[h], got[h])
    BY Zenon DEF HandlerOK
  <2>2. PICK k, receipts : k = cmd[h] /\ receipts = got[h]
    BY Zenon
  <2>3. k \in Commands /\ AllTruthful(k, receipts)
    BY <1>2, <2>1, <2>2, Zenon
  <2>4. AllTruthful(k, receipts)'
    BY <2>3, TruthsStay, Zenon DEF AllTruthful, Truthful
  <2>5. k = cmd'[h] /\ receipts = got'[h]
    BY <1>1, <2>2
  <2> QED  BY <2>4, <2>5, Zenon DEF AllTruthful, Truthful
<1> QED  BY <1>3, <1>4, <1>5, <1>6, <1>7, Zenon DEF HandlerOK
OthersRest(h) == \A g \in Handlers \ {h} : Rests(g)

\* A step of one handler keeps the invariant if it keeps the record and what this
\* handler knows.
LEMMA HandlerKeeps ==
    ASSUME Inv, TypeOK', StateFoldsLedger', RecordOK', IntentOK', Later,
           NEW h \in Handlers, OthersRest(h), HandlerOK(h)'
    PROVE  Inv'
<1>1. \A g \in Handlers : HandlerOK(g)'
  <2> TAKE g \in Handlers
  <2>1. CASE g = h
    BY <2>1, Zenon
  <2>2. CASE g # h
    <3>1. Rests(g) /\ HandlerOK(g) /\ TypeOK
      BY <2>2, Zenon DEF OthersRest, Inv
    <3> QED  BY <3>1, HandlerKept, Zenon
  <2> QED  BY <2>1, <2>2
<1> QED  BY <1>1, Zenon DEF Inv

\* And a step of nobody keeps it if it keeps the record.
LEMMA NobodyKeeps ==
    ASSUME Inv, TypeOK', StateFoldsLedger', RecordOK', IntentOK', Later, UNCHANGED local
    PROVE  Inv'
<1>1. \A g \in Handlers : HandlerOK(g)'
  <2> TAKE g \in Handlers
  <2>1. Rests(g) /\ HandlerOK(g) /\ TypeOK
    BY Zenon DEF Rests, Inv, local
  <2> QED  BY <2>1, HandlerKept, Zenon
<1> QED  BY <1>1, Zenon DEF Inv

\* Nothing of the record changes, and the provider's memory at most grows, by
\* something that was begun.
LEMMA RecordKept ==
    ASSUME Inv, UNCHANGED <<state, command, comp, ledger>>, Later,
           outcome'[Undo] # outcome[Undo] => state = "applied" /\ Scheduled /\ comp # "pending"
    PROVE  StateFoldsLedger' /\ RecordOK'
<1>1. TypeOK /\ RecordOK /\ StateFoldsLedger
  BY Zenon DEF Inv
<1>2. command \in Commands /\ Undo \in Commands
  BY <1>1, CommandFacts, Zenon DEF TypeOK
<1>3. StateFoldsLedger'
  BY <1>1, Zenon DEF StateFoldsLedger
<1>4. (\A k \in Commands : AllTruthful(k, ledger[k]))'
  <2> SUFFICES ASSUME NEW k \in Commands PROVE AllTruthful(k, ledger[k])'
    BY Zenon
  <2>1. AllTruthful(k, ledger[k])
    BY <1>1, Zenon DEF RecordOK
  <2>2. PICK receipts : receipts = ledger[k] /\ receipts = ledger'[k]
    OBVIOUS
  <2>3. AllTruthful(k, receipts)
    BY <2>1, <2>2, Zenon
  <2>4. AllTruthful(k, receipts)'
    BY <2>3, TruthsStay, Zenon DEF AllTruthful, Truthful
  <2> QED  BY <2>2, <2>4, Zenon DEF AllTruthful, Truthful
<1>5. (Scheduled => state = "applied")'
  BY <1>1, Zenon DEF RecordOK, Scheduled
<1>6. (state = "applied" => outcome[command] = "succeeded")'
  <2> SUFFICES ASSUME state = "applied" PROVE outcome'[command] = "succeeded"
    BY Zenon
  <2>1. outcome[command] = "succeeded" /\ outcome[command] # "unknown"
    BY <1>1 DEF RecordOK
  <2> QED  BY <1>2, <2>1, Zenon DEF Later
<1>7. (comp = "succeeded" => outcome[Undo] = "succeeded")'
  <2> SUFFICES ASSUME comp = "succeeded" PROVE outcome'[Undo] = "succeeded"
    BY Zenon DEF Undo
  <2>1. outcome[Undo] = "succeeded" /\ outcome[Undo] # "unknown"
    BY <1>1 DEF RecordOK
  <2> QED  BY <1>2, <2>1, Zenon DEF Later
<1>8. (outcome[Undo] # "unknown" => state = "applied" /\ Scheduled /\ comp # "pending")'
  <2> SUFFICES ASSUME outcome'[Undo] # "unknown"
               PROVE  state = "applied" /\ Scheduled /\ comp # "pending"
    BY Zenon DEF Scheduled, Undo
  <2> QED  BY <1>1, Zenon DEF RecordOK
<1> QED  BY <1>3, <1>4, <1>5, <1>6, <1>7, <1>8, Zenon DEF RecordOK

\* Reading, storing nothing, and going home change no record.
LEMMA NothingKept ==
    ASSUME Inv, UNCHANGED <<state, command, comp, ledger, outcome>>
    PROVE  StateFoldsLedger' /\ RecordOK' /\ Later
<1>1. command \in Nat
  BY CommandFacts, Zenon DEF Inv, TypeOK
<1>2. command <= command'
  BY <1>1
<1>3. Later
  BY <1>2, Zenon DEF Later, Scheduled
<1> QED  BY <1>3, RecordKept, Zenon

\* A handler that goes home.
LEMMA ReturnFacts ==
    ASSUME LocalTyped, NEW h \in Handlers, Return(h)
    PROVE  /\ LocalTyped' /\ OthersRest(h)
           /\ pc'[h] = "idle" /\ got'[h] = <<>>
<1>1. LocalTyped'
  <2>1. 0 \in Commands /\ 0 \in 0..3 /\ <<>> \in Seq(Receipt)
    BY CommandFacts
  <2> QED  BY <2>1 DEF LocalTyped, Return
<1>2. OthersRest(h)
  BY DEF LocalTyped, Return, OthersRest, Rests
<1> QED  BY <1>1, <1>2 DEF LocalTyped, Return

\* It knows nothing any more.
LEMMA IdleOK ==
    ASSUME NEW h \in Handlers, pc'[h] = "idle", got'[h] = <<>>
    PROVE  HandlerOK(h)'
<1>1. AllTruthful(cmd[h], got[h])'
  <2> SUFFICES ASSUME NEW i \in 1..Len(got'[h]) PROVE Truthful(cmd[h], got[h][i])'
    BY Zenon DEF AllTruthful
  <2> QED  OBVIOUS
<1> QED  BY <1>1, Zenon DEF HandlerOK

\* A handler that goes on.
LEMMA GoOnFacts ==
    ASSUME LocalTyped, NEW h \in Handlers, NEW at \in {"store", "unsure"}, NEW n \in 0..3,
           NEW receipts \in Seq(Receipt), GoOn(h, at, n, receipts)
    PROVE  /\ LocalTyped' /\ OthersRest(h)
           /\ pc'[h] = at /\ got'[h] = receipts /\ cmd'[h] = cmd[h]
<1>1. LocalTyped'
  BY DEF LocalTyped, GoOn
<1>2. OthersRest(h)
  BY DEF LocalTyped, GoOn, OthersRest, Rests
<1> QED  BY <1>1, <1>2 DEF LocalTyped, GoOn

\* Settling an intent creates none.
LEMMA SettleFacts ==
    ASSUME SharedTyped, LocalTyped, NEW h \in Handlers,
           NEW status \in {"pending", "completed", "dead"}, Settle(h, status)
    PROVE  /\ intent' \in [Commands -> {"none", "pending", "completed", "dead"} \cup Handlers]
           /\ \A k \in Commands : intent[k] = "none" => intent'[k] = "none"
<1>1. job[h] \in Commands
  BY Zenon DEF LocalTyped
<1>2. h # "none"
  BY DeliveryAssumption
<1> QED  BY <1>1, <1>2 DEF Settle, SharedTyped

\* Intents that are not created, and commands that are not begun, leave IntentOK.
LEMMA IntentKept ==
    ASSUME Inv, Later, command' = command,
           \A k \in Commands : intent[k] = "none" => intent'[k] = "none",
           \A k \in Dispatches : k > command => outcome'[k] = outcome[k]
    PROVE  IntentOK'
<1>1. IntentOK
  BY Zenon DEF Inv
<1>2. \A k \in Dispatches : k \in Commands
  BY CommandFacts, Zenon
<1>3. (\A k \in Dispatches : k > command => intent[k] = "none" /\ outcome[k] = "unknown")'
  BY <1>1, <1>2, Zenon DEF IntentOK
<1>4. (intent[Undo] # "none" => Scheduled)'
  <2>1. intent'[Undo] # "none" => intent[Undo] # "none"
    BY CommandFacts, Zenon
  <2>2. intent'[Undo] # "none" => Scheduled'
    BY <1>1, <2>1, Zenon DEF IntentOK, Later
  <2> QED  BY <2>2, Zenon DEF Undo
<1> QED  BY <1>3, <1>4, Zenon DEF IntentOK
-----------------------------------------------------------------------------
(* The reducers keep the invariant.                                        *)

\* What the fold says of the states it never yields.
LEMMA FoldFacts ==
    ASSUME Inv
    PROVE  /\ command > 0 => state \notin {"prepared", "canceled"}
           /\ command > 0 /\ state # "applying" => ledger[command] # <<>>
           /\ ~Scheduled => ledger[Undo] = <<>>
           /\ comp \in {"pending", "unscheduled"} => ledger[Undo] = <<>>
           /\ comp = "running" /\ ledger[Undo] # <<>> =>
                 ledger[Undo][Len(ledger[Undo])].status = "accepted"
<1>1. StateFoldsLedger /\ TypeOK
  BY Zenon DEF Inv
<1>2. command \in Commands /\ Undo \in Commands
  BY <1>1, CommandFacts, Zenon DEF TypeOK
<1>3. \A k \in Commands : ledger[k] # <<>> => ledger[k][Len(ledger[k])].status \in Statuses
  <2> TAKE k \in Commands
  <2>1. ledger[k] \in Seq(Receipt)
    BY <1>1, Zenon DEF TypeOK
  <2>2. PICK s \in Seq(Receipt) : s = ledger[k]
    BY <2>1
  <2>3. s # <<>> => s[Len(s)] \in Receipt
    BY EmptyFacts, Zenon
  <2>4. s # <<>> => s[Len(s)].status \in Statuses
    BY <2>3 DEF Receipt
  <2> QED  BY <2>2, <2>4, Zenon
<1>4. \A s \in Statuses : Observed[s] \in {"applying", "applied", "failed", "uncertain"}
  BY DEF Statuses, Observed
<1>5. \A s \in Statuses : /\ ObservedUndo[s] \in {"running", "succeeded", "failed"}
                          /\ ObservedUndo[s] = "running" => s = "accepted"
  BY DEF Statuses, ObservedUndo
<1>6. PICK s : s = ledger[command]
  OBVIOUS
<1>7. PICK u : u = ledger[Undo]
  OBVIOUS
<1>8. s # <<>> => s[Len(s)].status \in Statuses
  BY <1>2, <1>3, <1>6, Zenon
<1>9. u # <<>> => u[Len(u)].status \in Statuses
  BY <1>2, <1>3, <1>7, Zenon
<1>10. command > 0 => state = IF s = <<>> THEN "applying" ELSE Observed[s[Len(s)].status]
  BY <1>1, <1>6, Zenon DEF StateFoldsLedger
<1>11. u # <<>> => comp \in {ObservedUndo[u[Len(u)].status], "reconciled"}
  BY <1>1, <1>7, Zenon DEF StateFoldsLedger
<1>12. command > 0 => state \notin {"prepared", "canceled"}
  BY <1>4, <1>8, <1>10
<1>13. command > 0 /\ state # "applying" => s # <<>>
  BY <1>10
<1>14. ~Scheduled => u = <<>>
  BY <1>5, <1>9, <1>11 DEF Scheduled
<1>15. comp \in {"pending", "unscheduled"} => u = <<>>
  BY <1>5, <1>9, <1>11
<1>16. comp = "running" /\ u # <<>> => u[Len(u)].status = "accepted"
  BY <1>5, <1>9, <1>11
<1> QED  BY <1>6, <1>7, <1>12, <1>13, <1>14, <1>15, <1>16, Zenon

\* BeginEffect: the new command has no receipt, the one before it ended transiently.
LEMMA BeginEffectKeeps ==
    ASSUME Inv, BeginEffect
    PROVE  Inv'
<1>1. TypeOK /\ StateFoldsLedger /\ RecordOK /\ IntentOK
  BY Zenon DEF Inv
<1>2. command \in Nat /\ command < MaxBegins /\ MaxBegins \in Nat /\ command + 1 \in Commands
  BY <1>1, CommandFacts DEF BeginEffect, TypeOK, Commands
<1>3. /\ state' = "applying" /\ command' = command + 1
      /\ intent' = [intent EXCEPT ![command + 1] = "pending"]
      /\ comp' = comp /\ ledger' = ledger /\ taken' = taken /\ outcome' = outcome
      /\ now' = now
  BY Zenon DEF BeginEffect
<1>4. UNCHANGED local
  BY Zenon DEF BeginEffect
<1>5. TypeOK'
  <2>1. LocalTyped'
    BY <1>1, <1>4, TypeParts, Zenon DEF local, LocalTyped
  <2>2. SharedTyped'
    BY <1>1, <1>2, <1>3 DEF TypeOK, SharedTyped
  <2>3. RecordTyped'
    BY <1>1, <1>2, <1>3, Zenon DEF TypeOK, RecordTyped
  <2> QED  BY <2>1, <2>2, <2>3, TypeParts, Zenon
<1>6. state \in {"prepared", "failed"} /\ state # "applied"
  BY DEF BeginEffect, MayBegin
<1>7. ~Scheduled
  BY <1>1, <1>6, Zenon DEF RecordOK
<1>8. outcome[Undo] = "unknown"
  BY <1>1, <1>6, Zenon DEF RecordOK
<1>9. ~Scheduled'
  BY <1>3, <1>7, Zenon DEF Scheduled
<1>10. Later
  <2>1. command <= command'
    BY <1>2, <1>3
  <2> QED  BY <1>3, <1>7, <2>1, Zenon DEF Later
<1>11. command > 0 =>
          /\ ledger[command] # <<>>
          /\ ledger[command][Len(ledger[command])].status = "transient"
  <2> HAVE command > 0
  <2>1. state # "prepared" /\ state # "applying"
    BY <1>6, FoldFacts
  <2> QED  BY <2>1, FoldFacts, Zenon DEF BeginEffect, MayBegin
<1>12. StateFoldsLedger'
  <2>1. ledger[command + 1] = <<>>
    <3>1. command + 1 \in Dispatches /\ command + 1 > command
      BY <1>2 DEF Dispatches
    <3> QED  BY <1>1, <3>1, Zenon DEF StateFoldsLedger
  <2>2. (command > 0 =>
          LET receipts == ledger[command] IN
          state = IF receipts = <<>> THEN "applying" ELSE Observed[receipts[Len(receipts)].status])'
    BY <1>3, <2>1
  <2>3. (command = 0 => state \in {"prepared", "canceled"})'
    BY <1>2, <1>3
  <2>4. (ledger[Undo] # <<>> =>
          comp \in {ObservedUndo[ledger[Undo][Len(ledger[Undo])].status], "reconciled"})'
    BY <1>1, <1>3, Zenon DEF StateFoldsLedger, Undo, ObservedUndo
  <2>5. ASSUME NEW k \in Dispatches
        PROVE  /\ k < command' => ledger[k] # <<>> /\ ledger[k][Len(ledger[k])].status = "transient"
               /\ k > command' => ledger[k] = <<>>
    <3>1. k \in Nat /\ k >= 1
      BY CommandFacts, Zenon
    <3>2. k < command => ledger[k] # <<>> /\ ledger[k][Len(ledger[k])].status = "transient"
      BY <1>1, Zenon DEF StateFoldsLedger
    <3>3. k > command => ledger[k] = <<>>
      BY <1>1, Zenon DEF StateFoldsLedger
    <3>4. k < command + 1 => k < command \/ (k = command /\ command > 0)
      BY <1>2, <3>1
    <3>5. k > command + 1 => k > command
      BY <1>2, <3>1
    <3> QED  BY <1>3, <1>11, <3>2, <3>3, <3>4, <3>5, Zenon
  <2> QED  BY <1>3, <2>2, <2>3, <2>4, <2>5, Zenon DEF StateFoldsLedger
<1>13. RecordOK'
  <2>1. (\A k \in Commands : AllTruthful(k, ledger[k]))'
    BY <1>1, <1>3, Zenon DEF RecordOK, AllTruthful, Truthful
  <2>2. (comp = "succeeded" => outcome[Undo] = "succeeded")'
    BY <1>1, <1>3, Zenon DEF RecordOK, Undo
  <2>3. (outcome[Undo])' = "unknown"
    BY <1>3, <1>8, Zenon DEF Undo
  <2> QED  BY <1>3, <1>9, <2>1, <2>2, <2>3 DEF RecordOK
<1>14. IntentOK'
  <2>1. \A k \in Dispatches : k > command + 1 => intent'[k] = "none" /\ outcome[k] = "unknown"
    <3> TAKE k \in Dispatches
    <3>1. k \in Nat /\ k \in Commands
      BY CommandFacts, Zenon
    <3>2. k > command + 1 => k > command /\ k # command + 1
      BY <1>2, <3>1
    <3>3. k # command + 1 => intent'[k] = intent[k]
      BY <1>1, <1>3, <3>1 DEF TypeOK
    <3> QED  BY <1>1, <3>2, <3>3, Zenon DEF IntentOK
  <2>2. intent'[Undo] = intent[Undo]
    BY <1>1, <1>2, <1>3, CommandFacts DEF TypeOK
  <2>3. intent[Undo] = "none"
    BY <1>1, <1>7, Zenon DEF IntentOK
  <2>4. (intent[Undo])' = "none"
    BY <2>2, <2>3, Zenon DEF Undo
  <2> QED  BY <1>3, <2>1, <2>4, Zenon DEF IntentOK
<1> QED  BY <1>4, <1>5, <1>10, <1>12, <1>13, <1>14, NobodyKeeps, Zenon
\* The compensation of an applied Effect moves on without a receipt.
LEMMA CompMoved ==
    ASSUME Inv, UNCHANGED <<state, command, ledger, outcome>>, state = "applied",
           comp' \in {"pending", "running", "reconciled"},
           ledger[Undo] # <<>> => comp' \in {comp, "reconciled"},
           comp' = "pending" => comp = "unscheduled"
    PROVE  Later /\ StateFoldsLedger' /\ RecordOK' /\ Scheduled'
<1>1. TypeOK /\ StateFoldsLedger /\ RecordOK
  BY Zenon DEF Inv
<1>2. Scheduled'
  BY DEF Scheduled
<1>3. Later
  <2>1. command \in Nat
    BY <1>1, CommandFacts, Zenon DEF TypeOK
  <2>2. command <= command'
    BY <2>1
  <2>3. Scheduled /\ comp # "pending" => comp' # "pending"
    BY DEF Scheduled
  <2> QED  BY <1>2, <2>2, <2>3, Zenon DEF Later
<1>4. StateFoldsLedger'
  <2>1. PICK u, fold : u = ledger[Undo] /\ fold = ObservedUndo[u[Len(u)].status]
    OBVIOUS
  <2>2. u # <<>> => comp \in {fold, "reconciled"}
    BY <1>1, <2>1, Zenon DEF StateFoldsLedger
  <2>3. u # <<>> => comp' \in {fold, "reconciled"}
    BY <2>1, <2>2
  <2>4. (ledger[Undo] # <<>> =>
          comp \in {ObservedUndo[ledger[Undo][Len(ledger[Undo])].status], "reconciled"})'
    BY <2>1, <2>3, Zenon DEF Undo, ObservedUndo
  <2> QED  BY <1>1, <2>4, Zenon DEF StateFoldsLedger
<1>5. RecordOK'
  <2>1. (\A k \in Commands : AllTruthful(k, ledger[k]))'
    BY <1>1, Zenon DEF RecordOK, AllTruthful, Truthful
  <2>2. (state = "applied" => outcome[command] = "succeeded")'
    BY <1>1, Zenon DEF RecordOK
  <2>3. comp' # "succeeded"
    OBVIOUS
  <2>4. outcome[Undo] # "unknown" => comp' # "pending"
    BY <1>1 DEF RecordOK, Scheduled
  <2>5. (outcome[Undo] # "unknown" => comp # "pending")'
    BY <2>4, Zenon DEF Undo
  <2> QED  BY <1>2, <2>1, <2>2, <2>3, <2>5, Zenon DEF RecordOK
<1> QED  BY <1>2, <1>3, <1>4, <1>5

\* cancelPreparedEffects: nothing was dispatched.
LEMMA CancelPreparedKeeps ==
    ASSUME Inv, CancelPrepared
    PROVE  Inv'
<1>1. TypeOK /\ StateFoldsLedger /\ RecordOK /\ IntentOK
  BY Zenon DEF Inv
<1>2. /\ state = "prepared" /\ state' = "canceled" /\ UNCHANGED local
      /\ comp' \in {comp, "canceled"}
      /\ UNCHANGED <<command, ledger, taken, intent, outcome, now>>
  BY DEF CancelPrepared, local
<1>3. command \in Nat
  BY <1>1, CommandFacts, Zenon DEF TypeOK
<1>4. ~(command > 0) /\ command = 0
  BY <1>2, <1>3, FoldFacts
<1>5. ~Scheduled /\ outcome[Undo] = "unknown"
  BY <1>1, <1>2 DEF RecordOK
<1>6. ~Scheduled'
  BY <1>2, <1>5 DEF Scheduled
<1>7. ledger[Undo] = <<>>
  BY <1>5, FoldFacts, Zenon
<1>8. Later
  <2>1. command <= command'
    BY <1>2, <1>3
  <2> QED  BY <1>2, <1>5, <2>1, Zenon DEF Later
<1>9. TypeOK'
  <2>1. LocalTyped'
    BY <1>1, <1>2, TypeParts, Zenon DEF local, LocalTyped
  <2>2. SharedTyped'
    BY <1>1, <1>2, Zenon DEF TypeOK, SharedTyped
  <2>3. state' \in Terminal /\ comp' \in {comp} \cup CompTerminal
    BY <1>2 DEF Terminal, CompTerminal
  <2>4. RecordTyped'
    BY <1>1, <1>2, <2>3, Zenon DEF TypeOK, RecordTyped
  <2> QED  BY <2>1, <2>2, <2>4, TypeParts, Zenon
<1>10. StateFoldsLedger'
  <2>1. (ledger[Undo])' = <<>>
    BY <1>2, <1>7, Zenon DEF Undo
  <2>2. ~(command' > 0) /\ state' \in {"prepared", "canceled"}
    BY <1>2, <1>4
  <2>3. (\A k \in Dispatches :
          /\ k < command => ledger[k] # <<>> /\ ledger[k][Len(ledger[k])].status = "transient"
          /\ k > command => ledger[k] = <<>>)'
    BY <1>1, <1>2, Zenon DEF StateFoldsLedger
  <2> QED  BY <2>1, <2>2, <2>3, Zenon DEF StateFoldsLedger
<1>11. RecordOK'
  <2>1. (\A k \in Commands : AllTruthful(k, ledger[k]))'
    BY <1>1, <1>2, Zenon DEF RecordOK, AllTruthful, Truthful
  <2>2. (outcome[Undo])' = "unknown"
    BY <1>2, <1>5, Zenon DEF Undo
  <2>3. comp' # "succeeded"
    BY <1>6 DEF Scheduled
  <2>4. state' # "applied"
    BY <1>2
  <2> QED  BY <1>6, <2>1, <2>2, <2>3, <2>4, Zenon DEF RecordOK
<1>12. IntentOK'
  BY <1>2, <1>8, IntentKept, Zenon
<1> QED  BY <1>2, <1>8, <1>9, <1>10, <1>11, <1>12, NobodyKeeps, Zenon

\* TransitionCompensation to pending.
LEMMA ScheduleCompensationKeeps ==
    ASSUME Inv, ScheduleCompensation
    PROVE  Inv'
<1>1. TypeOK /\ IntentOK
  BY Zenon DEF Inv
<1>2. /\ state = "applied" /\ comp = "unscheduled" /\ comp' = "pending"
      /\ intent' = [intent EXCEPT ![Undo] = "pending"]
      /\ UNCHANGED <<state, command, ledger, taken, outcome, now>>
  BY Zenon DEF ScheduleCompensation
<1>3. UNCHANGED local
  BY Zenon DEF ScheduleCompensation
<1>4. ledger[Undo] = <<>>
  BY <1>2, FoldFacts
<1>5. Later /\ StateFoldsLedger' /\ RecordOK' /\ Scheduled'
  BY <1>2, <1>4, CompMoved
<1>6. TypeOK'
  <2>1. LocalTyped'
    BY <1>1, <1>3, TypeParts, Zenon DEF local, LocalTyped
  <2>2. SharedTyped'
    BY <1>1, <1>2 DEF TypeOK, SharedTyped
  <2>3. RecordTyped'
    BY <1>1, <1>2, Zenon DEF TypeOK, RecordTyped
  <2> QED  BY <2>1, <2>2, <2>3, TypeParts, Zenon
<1>7. IntentOK'
  <2>1. \A k \in Dispatches : intent'[k] = intent[k]
    BY <1>1, <1>2, CommandFacts DEF TypeOK
  <2> QED  BY <1>1, <1>2, <1>5, <2>1, Zenon DEF IntentOK
<1> QED  BY <1>3, <1>5, <1>6, <1>7, NobodyKeeps, Zenon

\* ReconcileCompensation.
LEMMA ReconcileCompensationKeeps ==
    ASSUME Inv, ReconcileCompensation
    PROVE  Inv'
<1>1. TypeOK /\ IntentOK
  BY Zenon DEF Inv
<1>2. /\ state = "applied" /\ comp' = "reconciled"
      /\ UNCHANGED <<state, command, ledger, taken, intent, outcome, now>>
  BY Zenon DEF ReconcileCompensation
<1>3. UNCHANGED local
  BY Zenon DEF ReconcileCompensation
<1>4. Later /\ StateFoldsLedger' /\ RecordOK' /\ Scheduled'
  BY <1>2, CompMoved
<1>5. TypeOK'
  <2>1. LocalTyped'
    BY <1>1, <1>3, TypeParts, Zenon DEF local, LocalTyped
  <2>2. SharedTyped'
    BY <1>1, <1>2, Zenon DEF TypeOK, SharedTyped
  <2>3. comp' \in CompTerminal
    BY <1>2 DEF CompTerminal
  <2>4. RecordTyped'
    BY <1>1, <1>2, <2>3, Zenon DEF TypeOK, RecordTyped
  <2> QED  BY <2>1, <2>2, <2>4, TypeParts, Zenon
<1>6. IntentOK'
  BY <1>2, <1>4, IntentKept, Zenon
<1> QED  BY <1>3, <1>4, <1>5, <1>6, NobodyKeeps, Zenon
\* Observe and ObserveCompensation: a truthful receipt for the open command is
\* appended, and the state follows it.
LEMMA ObserveKeeps ==
    ASSUME Inv, NEW k \in Commands, NEW n \in Nat, NEW receipt \in Receipt,
           Truthful(k, receipt), Observe(k, n, receipt), UNCHANGED <<command, outcome>>,
           taken' \in [1..2 -> Commands]
    PROVE  /\ RecordTyped' /\ Later /\ StateFoldsLedger' /\ RecordOK'
           /\ n \in 1..2
<1>1. TypeOK /\ StateFoldsLedger /\ RecordOK
  BY Zenon DEF Inv
<1>2. PICK s \in Seq(Receipt) : s = ledger[k]
  BY <1>1 DEF TypeOK
<1>3. PICK t \in Seq(Receipt) : t = Append(s, receipt)
  BY AppendFacts
<1>4. /\ Len(t) = Len(s) + 1 /\ t[Len(t)] = receipt /\ t # <<>> /\ Len(s) \in Nat
      /\ \A i \in 1..Len(s) : t[i] = s[i]
  BY <1>3, AppendFacts, EmptyFacts
<1>5. NextReceipt(s, n, receipt)
  BY <1>2, Zenon DEF Observe, Observable
<1>6. n = Len(s) + 1 /\ n \in 1..2
  BY <1>4, <1>5 DEF NextReceipt
<1>7. /\ ledger' = [ledger EXCEPT ![k] = t] /\ ledger'[k] = t
      /\ \A j \in Commands : j # k => ledger'[j] = ledger[j]
      /\ ledger' \in [Commands -> Seq(Receipt)]
  BY <1>1, <1>2, <1>3 DEF TypeOK, Observe
<1>8. \A j \in Commands : Len(ledger'[j]) <= 2
  <2> TAKE j \in Commands
  <2>1. CASE j = k
    BY <2>1, <1>4, <1>6, <1>7
  <2>2. CASE j # k
    BY <2>2, <1>1, <1>7, Zenon DEF TypeOK
  <2> QED  BY <2>1, <2>2
<1>9. receipt.status \in Statuses
  BY DEF Receipt
<1>10. command \in Commands /\ command \in Nat /\ Undo \in Commands /\ Undo = 0 /\ k \in Nat
  BY <1>1, CommandFacts, Zenon DEF TypeOK
<1>11. (\A j \in Commands : AllTruthful(j, ledger[j]))'
  <2> SUFFICES ASSUME NEW j \in Commands, NEW i \in 1..Len(ledger'[j])
               PROVE  ledger'[j][i].status \in {"succeeded", "transient"} =>
                         outcome[j] = ledger'[j][i].status
    BY Zenon DEF AllTruthful, Truthful
  <2>1. CASE j # k
    <3>1. AllTruthful(j, ledger[j]) /\ ledger'[j] = ledger[j]
      BY <1>1, <1>7, <2>1, Zenon DEF RecordOK
    <3> QED  BY <3>1, Zenon DEF AllTruthful, Truthful
  <2>2. CASE j = k
    <3>1. AllTruthful(k, s) /\ ledger'[j] = t
      BY <1>1, <1>2, <1>7, <2>2, Zenon DEF RecordOK
    <3>2. i \in 1..Len(t) /\ (i \in 1..Len(s) \/ i = Len(t))
      BY <1>4, <3>1
    <3>3. CASE i = Len(t)
      BY <1>4, <2>2, <3>1, <3>3, Zenon DEF Truthful
    <3>4. CASE i \in 1..Len(s)
      BY <1>4, <2>2, <3>1, <3>4, Zenon DEF AllTruthful, Truthful
    <3> QED  BY <3>2, <3>3, <3>4, Zenon
  <2> QED  BY <2>1, <2>2
<1>12. (\A j \in Dispatches :
          /\ j < command => ledger[j] # <<>> /\ ledger[j][Len(ledger[j])].status = "transient"
          /\ j > command => ledger[j] = <<>>)'
  <2> SUFFICES ASSUME NEW j \in Dispatches
               PROVE  /\ j < command =>
                            ledger'[j] # <<>> /\ ledger'[j][Len(ledger'[j])].status = "transient"
                      /\ j > command => ledger'[j] = <<>>
    BY Zenon
  <2>1. j \in Commands /\ j \in Nat /\ j >= 1
    BY CommandFacts, Zenon
  <2>2. j < command \/ j > command => j # k
    <3>1. k = Undo \/ k = command
      BY Zenon DEF Observe, Observable
    <3> QED  BY <1>10, <2>1, <3>1
  <2> QED  BY <1>1, <1>7, <2>1, <2>2, Zenon DEF StateFoldsLedger
<1>13. CASE k = Undo
  <2>1. /\ state = "applied" /\ comp = "running" /\ state' = state
        /\ comp' = ObservedUndo[receipt.status]
    BY <1>13, Zenon DEF Observe, Observable
  <2>2. /\ comp' \in {"running", "succeeded", "failed"}
        /\ comp' = "succeeded" => receipt.status = "succeeded"
    BY <1>9, <2>1 DEF ObservedUndo, Statuses
  <2>3. Scheduled /\ Scheduled' /\ comp # "pending" /\ comp' # "pending"
    BY <2>1, <2>2 DEF Scheduled
  <2>4. Later
    <3>1. command <= command'
      BY <1>10
    <3> QED  BY <2>3, <3>1, Zenon DEF Later
  <2>5. command > 0
    <3>1. command # 0
      BY <1>1, <2>1 DEF StateFoldsLedger
    <3> QED  BY <1>10, <3>1
  <2>6. ledger'[command] = ledger[command]
    BY <1>7, <1>10, <1>13, <2>5
  <2>7. StateFoldsLedger'
    <3>1. (command > 0 =>
            LET receipts == ledger[command] IN
            state = IF receipts = <<>> THEN "applying" ELSE Observed[receipts[Len(receipts)].status])'
      BY <1>1, <2>1, <2>6, Zenon DEF StateFoldsLedger, Observed
    <3>2. (command = 0 => state \in {"prepared", "canceled"})'
      BY <1>10, <2>5
    <3>3. (ledger[Undo])' = t
      BY <1>7, <1>13, Zenon DEF Undo
    <3>4. comp' = ObservedUndo[t[Len(t)].status]
      BY <1>4, <2>1, Zenon
    <3>5. (ledger[Undo] # <<>> =>
            comp \in {ObservedUndo[ledger[Undo][Len(ledger[Undo])].status], "reconciled"})'
      BY <3>3, <3>4, Zenon DEF ObservedUndo
    <3> QED  BY <1>12, <3>1, <3>2, <3>5, Zenon DEF StateFoldsLedger
  <2>8. RecordOK'
    <3>1. (comp = "succeeded" => outcome[Undo] = "succeeded")'
      <4>1. comp' = "succeeded" => outcome[Undo] = "succeeded"
        BY <1>13, <2>2, Zenon DEF Truthful
      <4> QED  BY <4>1, Zenon DEF Undo
    <3>2. (state = "applied" => outcome[command] = "succeeded")'
      BY <1>1, <2>1, Zenon DEF RecordOK
    <3> QED  BY <1>11, <2>1, <2>3, <3>1, <3>2, Zenon DEF RecordOK
  <2>9. RecordTyped'
    <3>1. comp' \in {"unscheduled", "pending", "running"} \cup CompTerminal
      BY <2>2 DEF CompTerminal
    <3> QED  BY <1>1, <1>7, <1>8, <2>1, <3>1, Zenon DEF TypeOK, RecordTyped
  <2> QED  BY <1>6, <2>4, <2>7, <2>8, <2>9
<1>14. CASE k # Undo
  <2>1. /\ state = "applying" /\ k = command /\ comp' = comp
        /\ state' = Observed[receipt.status]
    BY <1>14, Zenon DEF Observe, Observable
  <2>2. /\ state' \in {"applying", "applied", "failed", "uncertain"}
        /\ state' = "applied" => receipt.status = "succeeded"
    BY <1>9, <2>1 DEF Observed, Statuses
  <2>3. ~Scheduled /\ outcome[Undo] = "unknown"
    BY <1>1, <2>1 DEF RecordOK
  <2>4. ~Scheduled' /\ (outcome[Undo])' = "unknown"
    BY <2>1, <2>3, Zenon DEF Scheduled, Undo
  <2>5. Later
    <3>1. command <= command'
      BY <1>10
    <3> QED  BY <2>3, <3>1, Zenon DEF Later
  <2>6. StateFoldsLedger'
    <3>1. (command > 0 =>
            LET receipts == ledger[command] IN
            state = IF receipts = <<>> THEN "applying" ELSE Observed[receipts[Len(receipts)].status])'
      <4>1. ledger'[command] = t /\ state' = Observed[t[Len(t)].status]
        BY <1>4, <1>7, <2>1, Zenon
      <4> QED  BY <1>4, <4>1, Zenon DEF Observed
    <3>2. command # 0
      BY <1>10, <1>14, <2>1
    <3>3. (ledger[Undo])' = <<>>
      <4>1. ledger'[Undo] = ledger[Undo] /\ ledger[Undo] = <<>>
        BY <1>7, <1>10, <1>14, <2>3, FoldFacts, Zenon
      <4> QED  BY <4>1, Zenon DEF Undo
    <3> QED  BY <1>12, <3>1, <3>2, <3>3, Zenon DEF StateFoldsLedger
  <2>7. RecordOK'
    <3>1. comp' # "succeeded"
      BY <2>4 DEF Scheduled
    <3>2. state' = "applied" => outcome[command] = "succeeded"
      BY <2>1, <2>2, Zenon DEF Truthful
    <3> QED  BY <1>11, <2>4, <3>1, <3>2, Zenon DEF RecordOK
  <2>8. RecordTyped'
    <3>1. state' \in {"prepared", "applying"} \cup Terminal
      BY <2>2 DEF Terminal
    <3> QED  BY <1>1, <1>7, <1>8, <2>1, <3>1, Zenon DEF TypeOK, RecordTyped
  <2> QED  BY <1>6, <2>5, <2>6, <2>7, <2>8
<1> QED  BY <1>13, <1>14
-----------------------------------------------------------------------------
(* The handlers keep the invariant.                                        *)

\* An intent that may be claimed was created.
LEMMA MayClaimFacts ==
    ASSUME NEW k \in Commands, MayClaim(k)
    PROVE  intent[k] # "none"
  BY DeliveryAssumption DEF MayClaim, Leased

\* A handler that reads the record when it claims knows what it read.
LEMMA ClaimKeeps ==
    ASSUME Inv, NEW h \in Handlers, NEW k \in Commands, NEW at \in {"store", "read", "plan"},
           NEW target \in Commands, Claim(h, k, at, target), UNCHANGED <<record, outcome, now>>,
           target <= command,
           at = "plan" => Scheduled,
           at = "read" /\ target = Undo => Scheduled /\ comp # "pending"
    PROVE  Inv'
<1>1. TypeOK /\ HandlerOK(h)
  BY Zenon DEF Inv
<1>2. UNCHANGED <<state, command, comp, ledger, outcome>> /\ UNCHANGED taken /\ UNCHANGED now
  BY Zenon DEF record
<1>3. StateFoldsLedger' /\ RecordOK' /\ Later
  BY <1>2, NothingKept, Zenon
<1>4. /\ pc[h] = "idle" /\ MayClaim(k)
      /\ intent' = [intent EXCEPT ![k] = h]
      /\ pc' = [pc EXCEPT ![h] = at] /\ job' = [job EXCEPT ![h] = k]
      /\ cmd' = [cmd EXCEPT ![h] = target] /\ seq' = seq /\ got' = got
  BY Zenon DEF Claim
<1>5. TypeOK'
  <2>1. LocalTyped'
    BY <1>1, <1>4 DEF TypeOK, LocalTyped
  <2>2. SharedTyped'
    BY <1>1, <1>2, <1>4 DEF TypeOK, SharedTyped
  <2>3. RecordTyped'
    BY <1>1, <1>2, Zenon DEF TypeOK, RecordTyped
  <2> QED  BY <2>1, <2>2, <2>3, TypeParts, Zenon
<1>6. OthersRest(h)
  BY <1>1, <1>4 DEF TypeOK, OthersRest, Rests
<1>7. \A j \in Commands : intent[j] = "none" => intent'[j] = "none"
  <2>1. intent[k] # "none"
    BY <1>4, MayClaimFacts, Zenon
  <2> QED  BY <1>1, <1>4, <2>1 DEF TypeOK
<1>8. IntentOK'
  BY <1>2, <1>3, <1>7, IntentKept, Zenon
<1>9. pc'[h] = at /\ cmd'[h] = target /\ got'[h] = got[h] /\ got[h] = <<>>
  <2>1. got[h] = <<>>
    BY <1>1, <1>4, Zenon DEF HandlerOK
  <2> QED  BY <1>1, <1>4, <2>1 DEF TypeOK
<1>10. HandlerOK(h)'
  <2>1. AllTruthful(cmd[h], got[h])'
    <3> SUFFICES ASSUME NEW i \in 1..Len(got'[h]) PROVE Truthful(cmd[h], got[h][i])'
      BY Zenon DEF AllTruthful
    <3> QED  BY <1>9
  <2>2. (pc[h] = "plan" => Scheduled)'
    BY <1>3, <1>9, Zenon DEF Later
  <2>3. (pc[h] = "read" /\ cmd[h] = Undo => Scheduled /\ comp # "pending")'
    <3> SUFFICES ASSUME pc'[h] = "read", cmd'[h] = Undo
                 PROVE  Scheduled' /\ comp' # "pending"
      BY Zenon DEF Undo
    <3> QED  BY <1>3, <1>9, Zenon DEF Later
  <2>4. (cmd[h] <= command)'
    BY <1>2, <1>9, Zenon
  <2> QED  BY <1>9, <2>1, <2>2, <2>3, <2>4, Zenon DEF HandlerOK
<1> QED  BY <1>3, <1>5, <1>6, <1>8, <1>10, HandlerKeeps, Zenon

\* EffectOutboxHandler: an outbox intent means that something was dispatched.
LEMMA ClaimOutboxKeeps ==
    ASSUME Inv, NEW h \in Handlers, NEW k \in Dispatches, ClaimOutbox(h, k)
    PROVE  Inv'
<1>1. command \in Commands /\ command \in Nat /\ k \in Commands /\ k \in Nat /\ k >= 1 /\ Undo = 0
  BY CommandFacts, Zenon DEF Inv, TypeOK
<1>2. PICK at \in {"store", "read"} : at = IF state \in Terminal THEN "store" ELSE "read"
  OBVIOUS
<1>3. Claim(h, k, at, command) /\ UNCHANGED <<record, outcome, now>>
  BY <1>2, Zenon DEF ClaimOutbox
<1>4. intent[k] # "none"
  BY <1>1, <1>3, MayClaimFacts, Zenon DEF Claim
<1>5. ~(k > command)
  BY <1>4, Zenon DEF Inv, IntentOK
<1>6. command # Undo /\ command <= command
  BY <1>1, <1>5
<1>7. at # "plan"
  BY <1>2
<1>8. at \in {"store", "read", "plan"}
  OBVIOUS
<1> QED  BY <1>1, <1>3, <1>6, <1>7, <1>8, ClaimKeeps, Zenon

\* EffectCleanupHandler: a cleanup intent means that the compensation is scheduled.
LEMMA ClaimCleanupKeeps ==
    ASSUME Inv, NEW h \in Handlers, ClaimCleanup(h)
    PROVE  Inv'
<1>1. command \in Commands /\ command \in Nat /\ Undo \in Commands /\ Undo = 0
  BY CommandFacts, Zenon DEF Inv, TypeOK
<1>2. PICK at \in {"store", "read", "plan"} :
         at = IF comp \in CompTerminal THEN "store" ELSE IF comp = "pending" THEN "plan" ELSE "read"
  OBVIOUS
<1>3. Claim(h, Undo, at, Undo) /\ UNCHANGED <<record, outcome, now>>
  BY <1>2, Zenon DEF ClaimCleanup
<1>4. intent[Undo] # "none"
  BY <1>1, <1>3, MayClaimFacts, Zenon DEF Claim
<1>5. Scheduled
  BY <1>4, Zenon DEF Inv, IntentOK
<1>6. at = "read" => comp # "pending"
  BY <1>2 DEF CompTerminal
<1>7. Undo <= command
  BY <1>1
<1> QED  BY <1>1, <1>3, <1>5, <1>6, <1>7, ClaimKeeps, Zenon

\* A handler that settles its intent and goes home.
LEMMA SettleKeeps ==
    ASSUME Inv, NEW h \in Handlers, Return(h),
           \/ UNCHANGED intent
           \/ \E status \in {"pending", "completed", "dead"} : Settle(h, status),
           UNCHANGED <<record, outcome, now>>
    PROVE  Inv'
<1>1. TypeOK /\ SharedTyped /\ LocalTyped
  BY TypeParts, Zenon DEF Inv
<1>2. UNCHANGED <<state, command, comp, ledger, outcome>> /\ UNCHANGED taken /\ UNCHANGED now
  BY Zenon DEF record
<1>3. StateFoldsLedger' /\ RecordOK' /\ Later
  BY <1>2, NothingKept, Zenon
<1>4. LocalTyped' /\ OthersRest(h) /\ pc'[h] = "idle" /\ got'[h] = <<>>
  BY <1>1, ReturnFacts, Zenon
<1>5. /\ intent' \in [Commands -> {"none", "pending", "completed", "dead"} \cup Handlers]
      /\ \A k \in Commands : intent[k] = "none" => intent'[k] = "none"
  <2>1. CASE UNCHANGED intent
    BY <1>1, <2>1, Zenon DEF SharedTyped
  <2>2. CASE \E status \in {"pending", "completed", "dead"} : Settle(h, status)
    BY <1>1, <2>2, SettleFacts, Zenon
  <2> QED  BY <2>1, <2>2
<1>6. TypeOK'
  <2>1. SharedTyped'
    BY <1>1, <1>2, <1>5, Zenon DEF SharedTyped
  <2>2. RecordTyped'
    BY <1>1, <1>2, Zenon DEF TypeOK, RecordTyped
  <2> QED  BY <1>4, <2>1, <2>2, TypeParts, Zenon
<1>7. IntentOK'
  BY <1>2, <1>3, <1>5, IntentKept, Zenon
<1>8. HandlerOK(h)'
  BY <1>4, IdleOK, Zenon
<1> QED  BY <1>3, <1>4, <1>6, <1>7, <1>8, HandlerKeeps, Zenon

\* BeginEffectCompensation.
LEMMA BeginCompensationKeeps ==
    ASSUME Inv, NEW h \in Handlers, BeginCompensation(h)
    PROVE  Inv'
<1>1. TypeOK /\ RecordOK /\ HandlerOK(h) /\ IntentOK
  BY Zenon DEF Inv
<1>2. UNCHANGED <<state, command, ledger, taken, outcome, now>> /\ pc[h] = "plan"
  BY Zenon DEF BeginCompensation
<1>3. Scheduled /\ state = "applied" /\ got[h] = <<>>
  BY <1>1, <1>2, Zenon DEF HandlerOK, RecordOK
<1>4. CASE comp \in CompTerminal
  <2>1. Settle(h, "dead") /\ Return(h) /\ UNCHANGED comp
    BY <1>4, Zenon DEF BeginCompensation
  <2>2. UNCHANGED <<record, outcome, now>>
    BY <1>2, <2>1, Zenon DEF record
  <2> QED  BY <2>1, <2>2, SettleKeeps, Zenon
<1>5. CASE comp \notin CompTerminal
  <2>1. comp' = "running" /\ pc' = [pc EXCEPT ![h] = "read"] /\ UNCHANGED <<intent, job, cmd, seq, got>>
    BY <1>5, Zenon DEF BeginCompensation
  <2>2. comp \in {"pending", "running"}
    BY <1>1, <1>3, <1>5 DEF TypeOK, Scheduled
  <2>3. ledger[Undo] # <<>> => comp' = comp
    BY <2>1, <2>2, FoldFacts
  <2>4. Later /\ StateFoldsLedger' /\ RecordOK' /\ Scheduled'
    BY <1>2, <1>3, <2>1, <2>3, CompMoved
  <2>5. TypeOK'
    <3>1. LocalTyped'
      BY <1>1, <2>1 DEF TypeOK, LocalTyped
    <3>2. SharedTyped'
      BY <1>1, <1>2, <2>1, Zenon DEF TypeOK, SharedTyped
    <3>3. RecordTyped'
      BY <1>1, <1>2, <2>1, Zenon DEF TypeOK, RecordTyped
    <3> QED  BY <3>1, <3>2, <3>3, TypeParts, Zenon
  <2>6. OthersRest(h) /\ pc'[h] = "read"
    BY <1>1, <2>1 DEF TypeOK, OthersRest, Rests
  <2>7. IntentOK'
    BY <1>2, <2>1, <2>4, IntentKept, Zenon
  <2>8. HandlerOK(h)'
    <3>1. AllTruthful(cmd[h], got[h])'
      <4> SUFFICES ASSUME NEW i \in 1..Len(got'[h]) PROVE Truthful(cmd[h], got[h][i])'
        BY Zenon DEF AllTruthful
      <4> QED  BY <1>3, <2>1
    <3>2. (cmd[h] <= command)'
      BY <1>1, <1>2, <2>1 DEF HandlerOK
    <3>3. comp' # "pending"
      BY <2>1
    <3> QED  BY <1>3, <2>1, <2>4, <2>6, <3>1, <3>2, <3>3, Zenon DEF HandlerOK
  <2> QED  BY <2>4, <2>5, <2>6, <2>7, <2>8, HandlerKeeps, Zenon
<1> QED  BY <1>4, <1>5
\* A handler that goes on with receipts that are truthful, after a step that kept
\* the record.
LEMMA GoOnKeeps ==
    ASSUME Inv, RecordTyped', SharedTyped', StateFoldsLedger', RecordOK', IntentOK', Later,
           NEW h \in Handlers, pc[h] # "idle",
           NEW at \in {"store", "unsure"}, NEW n \in 0..3, NEW receipts \in Seq(Receipt),
           GoOn(h, at, n, receipts),
           NEW k \in Commands, k = cmd[h], AllTruthful(k, receipts)'
    PROVE  Inv'
<1>1. TypeOK /\ TypeOK' /\ LocalTyped /\ HandlerOK(h) /\ OthersRest(h)
  BY TypeParts, GoOnFacts, Zenon DEF Inv
<1>2. pc'[h] = at /\ got'[h] = receipts /\ cmd'[h] = k
  BY <1>1, GoOnFacts, Zenon
<1>3. command \in Nat /\ command' \in Nat /\ k \in Nat
  BY <1>1, CommandFacts, Zenon DEF TypeOK
<1>4. k <= command /\ command <= command'
  BY <1>1, Zenon DEF HandlerOK, Later
<1>5. k <= command'
  BY <1>3, <1>4
<1>6. (cmd[h] <= command)'
  BY <1>2, <1>5, Zenon
<1>7. AllTruthful(cmd[h], got[h])'
  BY <1>2, Zenon DEF AllTruthful, Truthful
<1>8. at \notin {"idle", "read", "plan"}
  OBVIOUS
<1>9. HandlerOK(h)'
  BY <1>2, <1>6, <1>7, <1>8, Zenon DEF HandlerOK
<1> QED  BY <1>1, <1>9, HandlerKeeps, Zenon

\* The handler read or called, the record stays as it was.
LEMMA ReadKeeps ==
    ASSUME Inv, UNCHANGED <<record, intent, now>>,
           outcome' \in [Commands -> {"unknown"} \cup Outcomes],
           NEW h \in Handlers, pc[h] = "read",
           \A j \in Commands : j # cmd[h] \/ outcome[j] # "unknown" => outcome'[j] = outcome[j],
           NEW at \in {"store", "unsure"}, NEW n \in 0..3, NEW receipts \in Seq(Receipt),
           GoOn(h, at, n, receipts),
           NEW k \in Commands, k = cmd[h], AllTruthful(k, receipts)'
    PROVE  Inv'
<1>1. TypeOK /\ HandlerOK(h) /\ RecordOK
  BY Zenon DEF Inv
<1>2. UNCHANGED <<state, command, comp, ledger>> /\ UNCHANGED taken /\ intent' = intent /\ now' = now
  BY Zenon DEF record
<1>3. command \in Nat /\ k \in Nat /\ Undo \in Commands
  BY <1>1, CommandFacts, Zenon DEF TypeOK
<1>4. Later
  <2>1. command <= command'
    BY <1>2, <1>3
  <2> QED  BY <1>2, <2>1, Zenon DEF Later, Scheduled
<1>5. pc[h] # "idle"
  OBVIOUS
<1>6. outcome'[Undo] # outcome[Undo] => state = "applied" /\ Scheduled /\ comp # "pending"
  <2> HAVE outcome'[Undo] # outcome[Undo]
  <2>1. cmd[h] = Undo
    BY <1>3, Zenon
  <2>2. Scheduled /\ comp # "pending"
    BY <1>1, <2>1, Zenon DEF HandlerOK
  <2> QED  BY <1>1, <2>2, Zenon DEF RecordOK
<1>7. StateFoldsLedger' /\ RecordOK'
  BY <1>2, <1>4, <1>6, RecordKept, Zenon
<1>8. IntentOK'
  <2>1. \A j \in Dispatches : j > command => outcome'[j] = outcome[j]
    <3> TAKE j \in Dispatches
    <3>1. j \in Commands /\ j \in Nat
      BY CommandFacts, Zenon
    <3>2. k <= command
      BY <1>1, <1>5, Zenon DEF HandlerOK
    <3>3. j > command => j # k
      BY <1>3, <3>1, <3>2
    <3> QED  BY <3>1, <3>3, Zenon
  <2> QED  BY <1>2, <1>4, <2>1, IntentKept, Zenon
<1>9. RecordTyped' /\ SharedTyped'
  BY <1>1, <1>2, Zenon DEF TypeOK, RecordTyped, SharedTyped
<1> QED  BY <1>4, <1>5, <1>7, <1>8, <1>9, GoOnKeeps, Zenon

\* The number of a receipt behind those of the compensation.
LEMMA NextUndo ==
    ASSUME TypeOK
    PROVE  Len(ledger[Undo]) + 1 \in 0..3
<1>1. ledger[Undo] \in Seq(Receipt) /\ Len(ledger[Undo]) <= 2
  BY CommandFacts, Zenon DEF TypeOK
<1> QED  BY <1>1, EmptyFacts

\* A refusal the handler makes up decides nothing.
LEMMA RejectKeeps ==
    ASSUME Inv, NEW h \in Handlers, Reject(h)
    PROVE  Inv'
<1>1. TypeOK
  BY Zenon DEF Inv
<1>2. PICK n, status, at, receipts :
         /\ n = IF cmd[h] = Undo THEN Len(ledger[Undo]) + 1 ELSE 1
         /\ status = IF n = 1 THEN "rejected" ELSE "failed"
         /\ at = now
         /\ receipts = <<Made(status, at)>>
  BY Zenon
<1>3. GoOn(h, "store", n, receipts) /\ pc[h] = "read" /\ UNCHANGED <<record, intent, outcome, now>>
  BY <1>2, Zenon DEF Reject
<1>4. n \in 0..3 /\ status \in {"rejected", "failed"} /\ at \in 0..MaxTime
  BY <1>1, <1>2, NextUndo, CommandFacts DEF TypeOK
<1>5. status \in Statuses
  BY <1>4 DEF Statuses
<1>6. receipts \in Seq(Receipt) /\ Len(receipts) = 1 /\ receipts[1].status = status
  BY <1>2, <1>4, <1>5, MadeFacts
<1>7. PICK k \in Commands : k = cmd[h]
  BY <1>1 DEF TypeOK
<1>8. AllTruthful(k, receipts)'
  <2> SUFFICES ASSUME NEW i \in 1..Len(receipts)
               PROVE  receipts[i].status \notin {"succeeded", "transient"}
    BY Zenon DEF AllTruthful, Truthful
  <2>1. i = 1
    BY <1>6
  <2> QED  BY <1>4, <1>6, <2>1
<1>9. outcome' \in [Commands -> {"unknown"} \cup Outcomes]
  BY <1>1, <1>3, Zenon DEF TypeOK
<1>10. "store" \in {"store", "unsure"}
  OBVIOUS
<1> QED  BY <1>3, <1>4, <1>6, <1>7, <1>8, <1>9, <1>10, ReadKeeps, Zenon

\* What is recorded when the outcome is not known decides nothing.
LEMMA UnknownKeeps ==
    ASSUME Inv, UNCHANGED <<record, intent, now>>,
           outcome' \in [Commands -> {"unknown"} \cup Outcomes],
           NEW h \in Handlers, pc[h] = "read",
           \A j \in Commands : j # cmd[h] \/ outcome[j] # "unknown" => outcome'[j] = outcome[j],
           Unknown(h)
    PROVE  Inv'
<1>1. TypeOK
  BY Zenon DEF Inv
<1>2. PICK at \in 0..MaxTime : at = now
  BY <1>1, CommandFacts DEF TypeOK
<1>3. PICK k \in Commands : k = cmd[h]
  BY <1>1 DEF TypeOK
<1>4. PICK a \in Receipt, b \in Receipt :
         /\ a = Made("accepted", at) /\ b = Made("uncertain", at)
         /\ a.status = "accepted" /\ b.status = "uncertain"
  BY MadeFacts DEF Statuses
<1>5. PICK n, receipts :
         /\ n = IF cmd[h] = Undo THEN Len(ledger[Undo]) + 1 ELSE 1
         /\ receipts = IF cmd[h] = Undo THEN <<b>> ELSE <<a, b>>
  BY Zenon
<1>6. GoOn(h, "unsure", n, receipts)
  BY <1>2, <1>4, <1>5, Zenon DEF Unknown
<1>7. n \in 0..3
  BY <1>1, <1>5, NextUndo
<1>8. /\ receipts \in Seq(Receipt)
      /\ \A i \in 1..Len(receipts) : receipts[i] \in {a, b}
  BY <1>5, PairFacts
<1>9. AllTruthful(k, receipts)'
  <2> SUFFICES ASSUME NEW i \in 1..Len(receipts)
               PROVE  receipts[i].status \notin {"succeeded", "transient"}
    BY Zenon DEF AllTruthful, Truthful
  <2> QED  BY <1>4, <1>8
<1>10. "unsure" \in {"store", "unsure"}
  OBVIOUS
<1> QED  BY <1>3, <1>6, <1>7, <1>8, <1>9, <1>10, ReadKeeps, Zenon

\* The provider reports what it did.
LEMMA ReportedFacts ==
    ASSUME NEW end \in Outcomes
    PROVE  /\ Reported(end) \in Seq(Receipt)
           /\ \A i \in 1..Len(Reported(end)) : Reported(end)[i].status \in {"accepted", end}
<1>1. end \in Statuses /\ "accepted" \in Statuses /\ "rejected" \in Statuses
  BY DeliveryAssumption DEF Statuses
<1>2. 0 \in 0..MaxTime
  BY CommandFacts
<1>3. PICK a \in Receipt, b \in Receipt :
         /\ a = Made("accepted", 0) /\ b = Made(end, 0)
         /\ a.status = "accepted" /\ b.status = end
  BY <1>1, <1>2, MadeFacts
<1>4. Reported(end) = IF end = "rejected" THEN <<b>> ELSE <<a, b>>
  BY <1>3, Zenon DEF Reported
<1>5. PICK receipts : receipts = Reported(end)
  OBVIOUS
<1>6. /\ receipts \in Seq(Receipt)
      /\ \A i \in 1..Len(receipts) : receipts[i] \in {a, b}
  BY <1>4, <1>5, PairFacts
<1>7. \A i \in 1..Len(receipts) : receipts[i].status \in {"accepted", end}
  BY <1>3, <1>6
<1> QED  BY <1>5, <1>6, <1>7, Zenon
\* The provider executes a command at most once.
LEMMA ExecuteFacts ==
    ASSUME TypeOK, NEW k \in Commands, NEW end \in Outcomes, Execute(k, end)
    PROVE  /\ outcome' \in [Commands -> {"unknown"} \cup Outcomes]
           /\ outcome'[k] = end
           /\ \A j \in Commands : j # k \/ outcome[j] # "unknown" => outcome'[j] = outcome[j]
  BY DEF TypeOK, Execute

\* The provider is called and answers, or its answer is lost.
LEMMA CallProviderKeeps ==
    ASSUME Inv, NEW h \in Handlers, NEW end \in Outcomes, CallProvider(h, end)
    PROVE  Inv'
<1>1. TypeOK
  BY Zenon DEF Inv
<1>2. PICK k \in Commands : k = cmd[h]
  BY <1>1 DEF TypeOK
<1>3. pc[h] = "read" /\ UNCHANGED <<record, intent, now>> /\ Execute(k, end)
  BY <1>2, Zenon DEF CallProvider, MayCall
<1>4. /\ outcome' \in [Commands -> {"unknown"} \cup Outcomes]
      /\ outcome'[k] = end
      /\ \A j \in Commands : j # cmd[h] \/ outcome[j] # "unknown" => outcome'[j] = outcome[j]
  BY <1>1, <1>2, <1>3, ExecuteFacts, Zenon
<1>5. "store" \in {"store", "unsure"} /\ 1 \in 0..3
  OBVIOUS
<1>6. CASE GoOn(h, "store", 1, Reported(end))
  <2>1. PICK receipts : receipts = Reported(end)
    OBVIOUS
  <2>2. /\ receipts \in Seq(Receipt) /\ GoOn(h, "store", 1, receipts)
        /\ \A i \in 1..Len(receipts) : receipts[i].status \in {"accepted", end}
    BY <1>6, <2>1, ReportedFacts, Zenon
  <2>3. AllTruthful(k, receipts)'
    <3> SUFFICES ASSUME NEW i \in 1..Len(receipts),
                        receipts[i].status \in {"succeeded", "transient"}
                 PROVE  outcome'[k] = receipts[i].status
      BY Zenon DEF AllTruthful, Truthful
    <3> QED  BY <1>4, <2>2
  <2> QED  BY <1>2, <1>3, <1>4, <1>5, <2>2, <2>3, ReadKeeps, Zenon
<1>7. CASE GoOn(h, "store", 1, <<Made("accepted", 0)>>)
  <2>1. PICK receipts : receipts = <<Made("accepted", 0)>>
    OBVIOUS
  <2>2. "accepted" \in Statuses /\ 0 \in 0..MaxTime
    BY CommandFacts DEF Statuses
  <2>3. receipts \in Seq(Receipt) /\ Len(receipts) = 1 /\ receipts[1].status = "accepted"
    BY <2>1, <2>2, MadeFacts
  <2>4. AllTruthful(k, receipts)'
    <3> SUFFICES ASSUME NEW i \in 1..Len(receipts)
                 PROVE  receipts[i].status \notin {"succeeded", "transient"}
      BY Zenon DEF AllTruthful, Truthful
    <3> QED  BY <2>3
  <2>5. GoOn(h, "store", 1, receipts)
    BY <1>7, <2>1, Zenon
  <2> QED  BY <1>2, <1>3, <1>4, <1>5, <2>3, <2>4, <2>5, ReadKeeps, Zenon
<1>8. CASE Unknown(h)
  BY <1>3, <1>4, <1>8, UnknownKeeps, Zenon
<1> QED  BY <1>6, <1>7, <1>8, Zenon DEF CallProvider

\* The call does not reach the provider.
LEMMA LoseCallKeeps ==
    ASSUME Inv, NEW h \in Handlers, LoseCall(h)
    PROVE  Inv'
<1>1. /\ pc[h] = "read" /\ Unknown(h)
      /\ UNCHANGED <<record, intent, now>> /\ outcome' = outcome
  BY Zenon DEF LoseCall, MayCall
<1>2. outcome' \in [Commands -> {"unknown"} \cup Outcomes]
  BY <1>1, Zenon DEF Inv, TypeOK
<1> QED  BY <1>1, <1>2, UnknownKeeps, Zenon

\* Storing a receipt, which is found in the ledger or appended to it.
LEMMA StoreReceiptKeeps ==
    ASSUME Inv, NEW h \in Handlers, StoreReceipt(h)
    PROVE  Inv'
<1>1. TypeOK /\ HandlerOK(h)
  BY Zenon DEF Inv
<1>2. /\ pc[h] \in {"store", "unsure"} /\ got[h] # <<>>
      /\ intent' = intent /\ outcome' = outcome /\ now' = now
      /\ GoOn(h, pc[h], seq[h] + 1, Tail(got[h]))
  BY Zenon DEF StoreReceipt, Storing, Stored
<1>3. PICK k \in Commands, s \in 0..3, receipts \in Seq(Receipt), at \in {"store", "unsure"} :
         k = cmd[h] /\ s = seq[h] /\ receipts = got[h] /\ at = pc[h]
  BY <1>1, <1>2 DEF TypeOK
<1>4. PICK receipt \in Receipt, rest \in Seq(Receipt) : receipt = Head(receipts) /\ rest = Tail(receipts)
  BY <1>2, <1>3, HeadFacts
<1>5. /\ receipt = receipts[1] /\ 1 \in 1..Len(receipts) /\ Len(rest) = Len(receipts) - 1
      /\ \A i \in 1..Len(rest) : rest[i] = receipts[i + 1]
  BY <1>2, <1>3, <1>4, HeadFacts
<1>6. Len(receipts) \in Nat /\ Len(rest) \in Nat
  BY EmptyFacts
<1>7. AllTruthful(k, receipts)
  BY <1>1, <1>3, Zenon DEF HandlerOK
<1>8. Truthful(k, receipt)
  BY <1>5, <1>7, Zenon DEF AllTruthful
<1>9. AllTruthful(k, rest)
  <2> SUFFICES ASSUME NEW i \in 1..Len(rest) PROVE Truthful(k, rest[i])
    BY Zenon DEF AllTruthful
  <2>1. i + 1 \in 1..Len(receipts) /\ rest[i] = receipts[i + 1]
    BY <1>5, <1>6
  <2> QED  BY <1>7, <2>1, Zenon DEF AllTruthful
<1>10. AllTruthful(k, rest)'
  BY <1>2, <1>9, Zenon DEF AllTruthful, Truthful
<1>11. SharedTyped'
  BY <1>1, <1>2, Zenon DEF TypeOK, SharedTyped
<1>12. pc[h] # "idle" /\ s \in Nat
  BY <1>2
<1>13. GoOn(h, at, s + 1, rest)
  BY <1>2, <1>3, <1>4, Zenon
<1>14. RecordTyped' /\ StateFoldsLedger' /\ RecordOK' /\ Later /\ command' = command /\ s + 1 \in 0..3
  <2>1. CASE Replayed(h) /\ UNCHANGED record
    <3>1. UNCHANGED <<state, command, comp, ledger, outcome>> /\ taken' = taken
      BY <1>2, <2>1, Zenon DEF record
    <3>2. StateFoldsLedger' /\ RecordOK' /\ Later
      BY <3>1, NothingKept, Zenon
    <3>3. RecordTyped'
      BY <1>1, <3>1, Zenon DEF TypeOK, RecordTyped
    <3>4. PICK l \in Seq(Receipt) : l = ledger[k]
      BY <1>1 DEF TypeOK
    <3>5. s <= Len(l) /\ Len(l) <= 2 /\ Len(l) \in Nat
      BY <1>1, <1>3, <2>1, <3>4, EmptyFacts, Zenon DEF Replayed, TypeOK
    <3>6. s + 1 \in 0..3
      BY <1>12, <3>5
    <3> QED  BY <3>1, <3>2, <3>3, <3>6
  <2>2. CASE /\ Observe(cmd[h], seq[h], Head(got[h])) /\ TakeKey(h) /\ UNCHANGED command
    <3>1. Observe(k, s, receipt) /\ UNCHANGED <<command, outcome>>
      BY <1>2, <1>3, <1>4, <2>2, Zenon
    <3>2. s \in 1..2
      <4>1. PICK l \in Seq(Receipt) : l = ledger[k]
        BY <1>1 DEF TypeOK
      <4>2. NextReceipt(l, s, receipt)
        BY <3>1, <4>1, Zenon DEF Observe, Observable
      <4> QED  BY <4>1, <4>2, EmptyFacts DEF NextReceipt
    <3>3. taken' \in [1..2 -> Commands]
      <4>1. taken' = [taken EXCEPT ![s] = k] \/ taken' = taken
        BY <1>3, <2>2, Zenon DEF TakeKey
      <4>2. taken \in [1..2 -> Commands]
        BY <1>1, Zenon DEF TypeOK
      <4> QED  BY <3>2, <4>1, <4>2
    <3>4. RecordTyped' /\ Later /\ StateFoldsLedger' /\ RecordOK'
      BY <1>8, <1>12, <3>1, <3>3, ObserveKeeps, Zenon
    <3>5. s + 1 \in 0..3
      BY <3>2
    <3> QED  BY <3>1, <3>4, <3>5
  <2> QED  BY <2>1, <2>2, Zenon DEF StoreReceipt
<1>15. IntentOK'
  BY <1>2, <1>14, IntentKept, Zenon
<1> QED  BY <1>3, <1>10, <1>11, <1>12, <1>13, <1>14, <1>15, GoOnKeeps, Zenon

\* The host passes on a receipt the provider gave.
LEMMA DeliverReceiptKeeps ==
    ASSUME Inv, NEW k \in Commands, NEW n \in 1..2, DeliverReceipt(k, n)
    PROVE  Inv'
<1>1. TypeOK
  BY Zenon DEF Inv
<1>2. PICK end \in Outcomes : end = outcome[k]
  BY <1>1 DEF TypeOK, DeliverReceipt
<1>3. PICK receipts : receipts = Reported(end)
  OBVIOUS
<1>4. /\ receipts \in Seq(Receipt)
      /\ \A i \in 1..Len(receipts) : receipts[i].status \in {"accepted", end}
  BY <1>3, ReportedFacts, Zenon
<1>5. n <= Len(receipts) /\ Observe(k, n, receipts[n])
  BY <1>2, <1>3, Zenon DEF DeliverReceipt
<1>6. n \in 1..Len(receipts) /\ n \in Nat
  BY <1>4, <1>5, EmptyFacts
<1>7. PICK receipt \in Receipt : receipt = receipts[n]
  BY <1>4, <1>6
<1>8. Truthful(k, receipt)
  BY <1>2, <1>4, <1>6, <1>7 DEF Truthful
<1>9. UNCHANGED <<command, taken, intent, outcome, now>> /\ UNCHANGED local
  BY Zenon DEF DeliverReceipt
<1>10. UNCHANGED <<command, outcome>> /\ taken' \in [1..2 -> Commands] /\ Observe(k, n, receipt)
  BY <1>1, <1>5, <1>7, <1>9, Zenon DEF TypeOK
<1>11. RecordTyped' /\ Later /\ StateFoldsLedger' /\ RecordOK'
  BY <1>6, <1>8, <1>10, ObserveKeeps, Zenon
<1>12. TypeOK'
  <2>1. LocalTyped' /\ SharedTyped'
    BY <1>1, <1>9, Zenon DEF TypeOK, LocalTyped, SharedTyped, local
  <2> QED  BY <1>11, <2>1, TypeParts, Zenon
<1>13. IntentOK'
  BY <1>9, <1>11, IntentKept, Zenon
<1> QED  BY <1>9, <1>11, <1>12, <1>13, NobodyKeeps, Zenon

\* Time passes.
LEMMA TickKeeps ==
    ASSUME Inv, Tick
    PROVE  Inv'
<1>1. TypeOK
  BY Zenon DEF Inv
<1>2. /\ UNCHANGED <<state, command, comp, ledger, outcome>> /\ taken' = taken
      /\ intent' = intent /\ UNCHANGED local
  BY Zenon DEF Tick, record
<1>3. StateFoldsLedger' /\ RecordOK' /\ Later
  BY <1>2, NothingKept, Zenon
<1>4. now' \in 1..MaxTime
  BY <1>1, CommandFacts DEF Tick, TypeOK
<1>5. TypeOK'
  BY <1>1, <1>2, <1>4, Zenon DEF TypeOK, local
<1>6. IntentOK'
  BY <1>2, <1>3, IntentKept, Zenon
<1> QED  BY <1>2, <1>3, <1>5, <1>6, NobodyKeeps, Zenon
-----------------------------------------------------------------------------
(* The theorems.                                                           *)

\* A prepared Effect that nobody dispatched satisfies the invariant.
LEMMA InitOK ==
    ASSUME Init
    PROVE  Inv
<1>1. TypeOK
  <2>1. <<>> \in Seq(Receipt) /\ Len(<<>>) = 0
    OBVIOUS
  <2>2. /\ Undo \in Commands /\ Undo = 0 /\ MaxTime \in Nat \ {0}
    BY CommandFacts, DeliveryAssumption
  <2>3. RecordTyped
    BY <2>1, <2>2 DEF Init, RecordTyped, CompTerminal
  <2>4. SharedTyped
    BY <2>2 DEF Init, SharedTyped
  <2>5. LocalTyped
    BY <2>1, <2>2 DEF Init, LocalTyped
  <2> QED  BY <2>3, <2>4, <2>5, TypeParts, Zenon
<1>2. \A k \in Commands : ledger[k] = <<>> /\ intent[k] = "none" /\ outcome[k] = "unknown"
  BY DEF Init
<1>3. command = 0 /\ state = "prepared" /\ ~Scheduled /\ comp \notin {"succeeded"}
  BY DEF Init, Scheduled
<1>4. Undo \in Commands /\ \A k \in Dispatches : k \in Commands /\ k \in Nat /\ k >= 1
  BY CommandFacts, Zenon
<1>5. StateFoldsLedger
  BY <1>2, <1>3, <1>4 DEF StateFoldsLedger
<1>6. \A k \in Commands : AllTruthful(k, ledger[k])
  BY <1>2 DEF AllTruthful
<1>7. RecordOK
  BY <1>2, <1>3, <1>4, <1>6 DEF RecordOK
<1>8. IntentOK
  BY <1>2, <1>4, Zenon DEF IntentOK
<1>9. \A h \in Handlers : HandlerOK(h)
  <2> TAKE h \in Handlers
  <2>1. pc[h] = "idle" /\ got[h] = <<>>
    BY DEF Init
  <2>2. AllTruthful(cmd[h], got[h])
    BY <2>1 DEF AllTruthful
  <2> QED  BY <2>1, <2>2 DEF HandlerOK
<1> QED  BY <1>1, <1>5, <1>7, <1>8, <1>9, Zenon DEF Inv

\* A step of one handler keeps the invariant.
LEMMA HandlerStepKeeps ==
    ASSUME Inv, NEW h \in Handlers, HandlerStep(h) \/ Retry(h) \/ Crash(h)
    PROVE  Inv'
<1>1. CASE \E k \in Dispatches : ClaimOutbox(h, k)
  BY <1>1, ClaimOutboxKeeps, Zenon
<1>2. CASE ClaimCleanup(h)
  BY <1>2, ClaimCleanupKeeps, Zenon
<1>3. CASE BeginCompensation(h)
  BY <1>3, BeginCompensationKeeps, Zenon
<1>4. CASE Reject(h)
  BY <1>4, RejectKeeps, Zenon
<1>5. CASE \E end \in Outcomes : CallProvider(h, end)
  BY <1>5, CallProviderKeeps, Zenon
<1>6. CASE LoseCall(h)
  BY <1>6, LoseCallKeeps, Zenon
<1>7. CASE StoreReceipt(h)
  BY <1>7, StoreReceiptKeeps, Zenon
<1>8. CASE Complete(h)
  <2>1. Settle(h, "completed") /\ Return(h) /\ UNCHANGED <<record, outcome, now>>
    BY <1>8, Zenon DEF Complete
  <2> QED  BY <2>1, SettleKeeps, Zenon
<1>9. CASE Retry(h)
  <2>1. Settle(h, "pending") /\ Return(h) /\ UNCHANGED <<record, outcome, now>>
    BY <1>9, Zenon DEF Retry
  <2> QED  BY <2>1, SettleKeeps, Zenon
<1>10. CASE Crash(h)
  <2>1. Return(h) /\ UNCHANGED intent /\ UNCHANGED <<record, outcome, now>>
    BY <1>10, Zenon DEF Crash
  <2> QED  BY <2>1, SettleKeeps, Zenon
<1> QED
  BY <1>1, <1>2, <1>3, <1>4, <1>5, <1>6, <1>7, <1>8, <1>9, <1>10, Zenon DEF HandlerStep

\* Every step keeps the invariant.
LEMMA NextKeeps ==
    ASSUME Inv, [Next]_vars
    PROVE  Inv'
<1>1. CASE UNCHANGED vars
  <2>1. /\ UNCHANGED <<state, command, comp, ledger, outcome>> /\ UNCHANGED local
        /\ UNCHANGED <<taken, intent, now>>
    BY <1>1, Zenon DEF vars, record
  <2>2. StateFoldsLedger' /\ RecordOK' /\ Later
    BY <2>1, NothingKept, Zenon
  <2>3. TypeOK'
    BY <2>1, Zenon DEF Inv, TypeOK, local
  <2>4. IntentOK'
    BY <2>1, <2>2, IntentKept, Zenon
  <2> QED  BY <2>1, <2>2, <2>3, <2>4, NobodyKeeps, Zenon
<1>2. CASE BeginEffect
  BY <1>2, BeginEffectKeeps
<1>3. CASE CancelPrepared
  BY <1>3, CancelPreparedKeeps
<1>4. CASE ScheduleCompensation
  BY <1>4, ScheduleCompensationKeeps
<1>5. CASE ReconcileCompensation
  BY <1>5, ReconcileCompensationKeeps
<1>6. CASE \E h \in Handlers : HandlerStep(h) \/ Retry(h) \/ Crash(h)
  BY <1>6, HandlerStepKeeps, Zenon
<1>7. CASE Delivery
  BY <1>7, DeliverReceiptKeeps, Zenon DEF Delivery
<1>8. CASE Tick
  BY <1>8, TickKeeps
<1> QED
  BY <1>1, <1>2, <1>3, <1>4, <1>5, <1>6, <1>7, <1>8, Zenon DEF Next

\* The inductive invariant holds in every state of every behaviour.
THEOREM InvHolds == Spec => []Inv
<1>1. Init => Inv
  BY InitOK
<1>2. Inv /\ [Next]_vars => Inv'
  BY NextKeeps
<1> QED  BY <1>1, <1>2, PTL DEF Spec

\* Observe and ObserveCompensation: the Effect's state, and its compensation's, is
\* the fold of the receipts at every moment, and only a transient failure is
\* dispatched again.
THEOREM StateIsTheFold == Spec => [](TypeOK /\ StateFoldsLedger)
<1>1. Inv => TypeOK /\ StateFoldsLedger
  BY Zenon DEF Inv
<1> QED  BY <1>1, InvHolds, PTL

\* The provider did what the record says and did it once: every earlier dispatch
\* ended transiently, whichever worker crashed, was fenced off or came late.
LEMMA OnlyTheLatest ==
    ASSUME Inv
    PROVE  TakesEffectOnce
<1>1. TypeOK /\ StateFoldsLedger /\ RecordOK /\ IntentOK
  BY Zenon DEF Inv
<1>2. command \in Nat
  BY <1>1, CommandFacts, Zenon DEF TypeOK
<1>3. \A k \in Dispatches : outcome[k] # "unknown" => k <= command
  <2> TAKE k \in Dispatches
  <2>1. k \in Nat
    BY CommandFacts, Zenon
  <2>2. outcome[k] # "unknown" => ~(k > command)
    BY <1>1, Zenon DEF IntentOK
  <2> QED  BY <1>2, <2>1, <2>2
<1>4. \A k \in Dispatches : k < command => outcome[k] = "transient"
  <2> SUFFICES ASSUME NEW k \in Dispatches, k < command PROVE outcome[k] = "transient"
    BY Zenon
  <2>1. k \in Commands
    BY CommandFacts, Zenon
  <2>2. PICK s \in Seq(Receipt) : s = ledger[k]
    BY <1>1, <2>1 DEF TypeOK
  <2>3. s # <<>> /\ s[Len(s)].status = "transient" /\ AllTruthful(k, s)
    BY <1>1, <2>1, <2>2, Zenon DEF StateFoldsLedger, RecordOK
  <2>4. Len(s) \in 1..Len(s)
    BY <2>3, EmptyFacts
  <2>5. Truthful(k, s[Len(s)])
    BY <2>3, <2>4, Zenon DEF AllTruthful
  <2> QED  BY <2>3, <2>5 DEF Truthful
<1>5. {k \in Dispatches : outcome[k] = "succeeded"} \subseteq {command}
  <2> SUFFICES ASSUME NEW k \in Dispatches, outcome[k] = "succeeded" PROVE k = command
    BY Zenon
  <2>1. k \in Nat /\ k <= command /\ ~(k < command)
    BY <1>3, <1>4, CommandFacts
  <2> QED  BY <1>2, <2>1
<1>6. Cardinality({k \in Dispatches : outcome[k] = "succeeded"}) <= 1
  <2>1. IsFiniteSet({command}) /\ Cardinality({command}) = 1
    BY FS_Singleton, Zenon
  <2>2. Cardinality({k \in Dispatches : outcome[k] = "succeeded"}) <= Cardinality({command})
    BY <1>5, <2>1, FS_Subset, Zenon
  <2> QED  BY <2>1, <2>2, Zenon
<1>7. outcome[Undo] # "unknown" => state = "applied" /\ comp \notin {"unscheduled", "pending"}
  BY <1>1 DEF RecordOK, Scheduled
<1> QED  BY <1>1, <1>3, <1>6, <1>7, Zenon DEF TakesEffectOnce, RecordOK

\* An Effect takes effect once, however often it is dispatched and by however many
\* workers; applied and compensated mean that the provider did it.
THEOREM EffectTakenOnce == Spec => []TakesEffectOnce
<1>1. Inv => TakesEffectOnce
  BY OnlyTheLatest
<1> QED  BY <1>1, InvHolds, PTL

\* What one step may do to the evidence.
EvidenceKept ==
    /\ \A k \in Commands :
          /\ SubSeq(ledger'[k], 1, Len(ledger[k])) = ledger[k]
          /\ Settled(ledger[k]) => ledger'[k] = ledger[k]
    /\ state \in {"applied", "uncertain", "canceled"} => state' = state

\* A step without a receipt leaves the ledgers alone.
LEMMA LedgerRests ==
    ASSUME TypeOK, ledger' = ledger,
           state \in {"applied", "uncertain", "canceled"} => state' = state
    PROVE  EvidenceKept
<1>1. \A k \in Commands : SubSeq(ledger[k], 1, Len(ledger[k])) = ledger[k]
  <2> TAKE k \in Commands
  <2>1. PICK s \in Seq(Receipt) : s = ledger[k]
    BY DEF TypeOK
  <2>2. SubSeq(s, 1, Len(s)) = s
    BY SMT
  <2> QED  BY <2>1, <2>2, Zenon
<1> QED  BY <1>1, Zenon DEF EvidenceKept

\* A receipt goes to the end of a ledger that is not settled.
LEMMA LedgerGrows ==
    ASSUME TypeOK, NEW k \in Commands, NEW n, NEW receipt \in Receipt, Observe(k, n, receipt)
    PROVE  EvidenceKept
<1>1. PICK s \in Seq(Receipt) : s = ledger[k]
  BY DEF TypeOK
<1>2. ~Settled(s)
  BY <1>1, Zenon DEF Observe, Observable, NextReceipt
<1>3. ledger'[k] = Append(s, receipt) /\ \A j \in Commands : j # k => ledger'[j] = ledger[j]
  BY <1>1 DEF TypeOK, Observe
<1>4. \A j \in Commands : /\ SubSeq(ledger'[j], 1, Len(ledger[j])) = ledger[j]
                          /\ Settled(ledger[j]) => ledger'[j] = ledger[j]
  <2> TAKE j \in Commands
  <2>1. CASE j = k
    <3>1. SubSeq(Append(s, receipt), 1, Len(s)) = s
      BY PrefixFacts, Zenon
    <3> QED  BY <1>1, <1>2, <1>3, <2>1, <3>1, Zenon
  <2>2. CASE j # k
    <3>1. PICK t \in Seq(Receipt) : t = ledger[j]
      BY DEF TypeOK
    <3>2. SubSeq(t, 1, Len(t)) = t
      BY SMT
    <3> QED  BY <1>3, <2>2, <3>1, <3>2, Zenon
  <2> QED  BY <2>1, <2>2
<1>5. state \in {"applied", "uncertain", "canceled"} => state' = state
  <2>1. state' = state \/ state = "applying"
    BY Zenon DEF Observe, Observable
  <2> QED  BY <2>1
<1> QED  BY <1>4, <1>5, Zenon DEF EvidenceKept

\* Every step of the system leaves the evidence.
LEMMA NextKeepsEvidence ==
    ASSUME TypeOK, [Next]_vars
    PROVE  EvidenceKept
<1>1. CASE UNCHANGED vars
  BY <1>1, LedgerRests, Zenon DEF vars, record
<1>2. CASE BeginEffect
  <2>1. ledger' = ledger /\ state \in {"prepared", "failed"}
    BY <1>2 DEF BeginEffect, MayBegin
  <2>2. state \notin {"applied", "uncertain", "canceled"}
    BY <2>1
  <2> QED  BY <2>1, <2>2, LedgerRests, Zenon
<1>3. CASE CancelPrepared
  <2>1. ledger' = ledger /\ state = "prepared"
    BY <1>3, Zenon DEF CancelPrepared
  <2>2. state \notin {"applied", "uncertain", "canceled"}
    BY <2>1
  <2> QED  BY <2>1, <2>2, LedgerRests, Zenon
<1>4. CASE ScheduleCompensation \/ ReconcileCompensation \/ Tick
  <2>1. ledger' = ledger /\ state' = state
    BY <1>4, Zenon DEF ScheduleCompensation, ReconcileCompensation, Tick, record
  <2> QED  BY <2>1, LedgerRests, Zenon
<1>5. ASSUME NEW h \in Handlers, HandlerStep(h) \/ Retry(h) \/ Crash(h)
      PROVE  EvidenceKept
  <2>1. CASE StoreReceipt(h)
    <3>1. CASE UNCHANGED record
      BY <3>1, LedgerRests, Zenon DEF record
    <3>2. CASE Observe(cmd[h], seq[h], Head(got[h]))
      <4>1. cmd[h] \in Commands /\ got[h] \in Seq(Receipt) /\ got[h] # <<>>
        BY <2>1, Zenon DEF StoreReceipt, Storing, TypeOK
      <4>2. Head(got[h]) \in Receipt
        BY <4>1, HeadFacts, Zenon
      <4> QED  BY <3>2, <4>1, <4>2, LedgerGrows, Zenon
    <3> QED  BY <2>1, <3>1, <3>2, Zenon DEF StoreReceipt
  <2>2. CASE BeginCompensation(h)
    BY <2>2, LedgerRests, Zenon DEF BeginCompensation
  <2>3. CASE ~StoreReceipt(h) /\ ~BeginCompensation(h)
    <3>1. UNCHANGED record
      BY <1>5, <2>3, Zenon DEF HandlerStep, ClaimOutbox, ClaimCleanup, Reject,
         CallProvider, LoseCall, Complete, Retry, Crash
    <3> QED  BY <3>1, LedgerRests, Zenon DEF record
  <2> QED  BY <2>1, <2>2, <2>3, Zenon
<1>6. CASE Delivery
  <2>1. PICK k \in Commands, n \in 1..2 : DeliverReceipt(k, n)
    BY <1>6, Zenon DEF Delivery
  <2>2. PICK end \in Outcomes : end = outcome[k]
    BY <2>1 DEF TypeOK, DeliverReceipt
  <2>3. PICK receipts \in Seq(Receipt) : receipts = Reported(end)
    BY ReportedFacts, Zenon
  <2>4. n <= Len(receipts) /\ Observe(k, n, receipts[n])
    BY <2>1, <2>2, <2>3, Zenon DEF DeliverReceipt
  <2>5. receipts[n] \in Receipt
    BY <2>4, EmptyFacts
  <2> QED  BY <2>4, <2>5, LedgerGrows, Zenon
<1> QED  BY <1>1, <1>2, <1>3, <1>4, <1>5, <1>6, Zenon DEF Next

\* A stored receipt stays, nothing follows a terminal one, and an applied,
\* uncertain or canceled Effect never changes.
THEOREM EvidenceStays == Spec => EvidenceImmutable
<1>1. Inv /\ [Next]_vars => [EvidenceKept]_vars
  BY NextKeepsEvidence, Zenon DEF Inv
<1>2. Inv /\ [Next]_vars =>
        [/\ \A k \in Commands :
               /\ SubSeq(ledger'[k], 1, Len(ledger[k])) = ledger[k]
               /\ Settled(ledger[k]) => ledger'[k] = ledger[k]
         /\ state \in {"applied", "uncertain", "canceled"} => state' = state]_vars
  BY <1>1, Zenon DEF EvidenceKept
<1> QED  BY <1>2, InvHolds, PTL DEF Spec, EvidenceImmutable

-----------------------------------------------------------------------------
(* Work remains.                                                           *)

\* An acceptance comes first and decides nothing; nothing follows a decision.
LedgerOrdered ==
    \A k \in Commands : Len(ledger[k]) = 2 =>
        ledger[k][1].status = "accepted" /\ ledger[k][2].status # "accepted"

\* What a handler is about to store for the compensation ends with a decision.
Decides(receipts) == receipts[Len(receipts)].status # "accepted"

\* A handler works on the dispatch it claimed or on a later one, or on the
\* compensation; with nothing left to store, the dispatch has a receipt and the
\* compensation has ended.
WorkOK(h) ==
    /\ pc[h] # "idle" => job[h] <= cmd[h]
    /\ pc[h] # "idle" => (job[h] = Undo <=> cmd[h] = Undo)
    /\ pc[h] = "plan" => cmd[h] = Undo
    /\ got[h] # <<>> => seq[h] >= 1
    /\ pc[h] \in {"store", "unsure"} =>
          /\ got[h] = <<>> /\ cmd[h] # Undo => ledger[cmd[h]] # <<>>
          /\ got[h] = <<>> /\ cmd[h] = Undo => comp \in CompTerminal
          /\ got[h] # <<>> /\ cmd[h] = Undo => Decides(got[h])

WorkInv == LedgerOrdered /\ WorkRemains /\ \A h \in Handlers : WorkOK(h)

\* What handlers rely on here lasts: receipts, and the end of the compensation.
Lasting ==
    /\ \A k \in Commands : ledger[k] # <<>> => ledger'[k] # <<>>
    /\ comp \in CompTerminal => comp' \in CompTerminal


\* A receipt is stored for an Effect that is being applied, or a compensation that
\* runs: it leaves an acceptance, with the intent that was there, or an end.
LEMMA ObserveWork ==
    ASSUME Inv, Inv', WorkInv, UNCHANGED <<command, intent>>,
           NEW k \in Commands, NEW n, NEW receipt \in Receipt, Observe(k, n, receipt)
    PROVE  /\ LedgerOrdered' /\ Lasting /\ WorkRemains'
           /\ ledger'[k] # <<>>
           /\ k = Undo => comp' = ObservedUndo[receipt.status]
<1>1. TypeOK /\ TypeOK' /\ LedgerOrdered /\ WorkRemains
  BY Zenon DEF Inv, WorkInv
<1>2. PICK s \in Seq(Receipt) : s = ledger[k]
  BY <1>1 DEF TypeOK
<1>3. PICK t \in Seq(Receipt) : t = Append(s, receipt)
  BY AppendFacts
<1>4. /\ Len(t) = Len(s) + 1 /\ t[Len(s) + 1] = receipt /\ t # <<>>
      /\ \A i \in 1..Len(s) : t[i] = s[i]
  BY <1>3, AppendFacts, Zenon
<1>5. NextReceipt(s, n, receipt) /\ Len(s) \in Nat /\ (s = <<>> <=> Len(s) = 0)
  BY <1>2, EmptyFacts, Zenon DEF Observe, Observable
<1>6. /\ ledger'[k] = t
      /\ \A j \in Commands : j # k => ledger'[j] = ledger[j]
  BY <1>1, <1>2, <1>3 DEF TypeOK, Observe
<1>7. /\ k = Undo => comp = "running" /\ comp' = ObservedUndo[receipt.status] /\ state' = state
      /\ k # Undo => comp' = comp /\ k = command /\ state = "applying"
  BY Zenon DEF Observe, Observable
<1>8. LedgerOrdered'
  <2> SUFFICES ASSUME NEW j \in Commands, Len(ledger'[j]) = 2
               PROVE  ledger'[j][1].status = "accepted" /\ ledger'[j][2].status # "accepted"
    BY Zenon DEF LedgerOrdered
  <2>1. CASE j # k
    BY <1>1, <1>6, <2>1, Zenon DEF LedgerOrdered
  <2>2. CASE j = k
    <3>1. PICK l \in Nat : l = Len(s) /\ 2 = l + 1
      BY <1>4, <1>5, <1>6, <2>2, Zenon
    <3>2. Len(s) = 1 /\ Len(s) # 0
      BY <3>1, SMT
    <3>3. Len(s) = 1 /\ s # <<>>
      BY <1>5, <3>2, Zenon
    <3>4. s[1].status = "accepted" /\ receipt.status # "accepted"
      BY <1>5, <3>3 DEF NextReceipt, Settled
    <3>5. t[1] = s[1] /\ t[2] = receipt
      BY <1>4, <3>3
    <3> QED  BY <1>6, <2>2, <3>4, <3>5
  <2> QED  BY <2>1, <2>2
<1>9. Lasting
  <2>1. \A j \in Commands : ledger[j] # <<>> => ledger'[j] # <<>>
    BY <1>4, <1>6, Zenon
  <2>2. comp \in CompTerminal => comp' \in CompTerminal
    <3>1. "running" \notin CompTerminal
      BY DEF CompTerminal
    <3> QED  BY <1>7, <3>1, Zenon
  <2> QED  BY <2>1, <2>2, Zenon DEF Lasting
<1>10. (state = "applying" =>
          \/ MayClaim(command)
          \/ Len(ledger[command]) = 1 /\ ledger[command][1].status = "accepted")'
  <2> SUFFICES ASSUME state' = "applying"
               PROVE  \/ MayClaim(command)
                      \/ Len(ledger'[command]) = 1 /\ ledger'[command][1].status = "accepted"
    BY Zenon DEF MayClaim, Leased
  <2>1. CASE k = Undo
    <3>1. Scheduled /\ RecordOK
      BY <1>7, <2>1 DEF Inv, Scheduled
    <3>2. state = "applied" /\ state' = state
      BY <1>7, <2>1, <3>1, Zenon DEF RecordOK
    <3> QED  BY <3>2
  <2>2. CASE k # Undo
    <3>1. state = "applying" /\ k = command
      BY <1>7, <2>2, Zenon
    <3>2. CASE s = <<>>
      <4>1. ~(Len(s) = 1)
        BY <1>5, <3>2
      <4> QED  BY <1>1, <1>2, <3>1, <4>1, Zenon DEF WorkRemains
    <3>3. CASE s # <<>>
      <4>1. state' = Observed[receipt.status]
        BY <2>2, Zenon DEF Observe
      <4>2. Len(s) # 0
        BY <1>5, <3>3, Zenon
      <4>3. receipt.status \notin {"accepted", "rejected"} /\ receipt.status \in Statuses
        BY <1>5, <4>2 DEF NextReceipt, Receipt
      <4>4. state' # "applying"
        BY <4>1, <4>3 DEF Observed, Statuses
      <4> QED  BY <4>4
    <3> QED  BY <3>2, <3>3
  <2> QED  BY <2>1, <2>2
<1>11. (comp \in {"pending", "running"} => MayClaim(Undo))'
  <2> SUFFICES ASSUME comp' \in {"pending", "running"} PROVE MayClaim(Undo)
    BY Zenon DEF MayClaim, Leased, Undo
  <2>1. comp \in {"pending", "running"}
    BY <1>7
  <2> QED  BY <1>1, <2>1, Zenon DEF WorkRemains
<1>12. WorkRemains'
  BY <1>10, <1>11, Zenon DEF WorkRemains
<1> QED  BY <1>4, <1>6, <1>7, <1>8, <1>9, <1>12, Zenon

\* A step that stores nothing may settle the intent of what has ended, or of a
\* dispatch whose outcome is reported later.
LEMMA QuietWork ==
    ASSUME Inv, WorkInv, UNCHANGED <<state, command, comp, ledger>>,
           \A k \in Commands : MayClaim(k) =>
              \/ MayClaim(k)'
              \/ k = Undo /\ comp \notin {"pending", "running"}
              \/ /\ k # Undo
                 /\ k = command /\ state = "applying" =>
                       Len(ledger[k]) = 1 /\ ledger[k][1].status = "accepted"
    PROVE  LedgerOrdered' /\ Lasting /\ WorkRemains'
<1>1. WorkRemains /\ command \in Commands /\ Undo \in Commands
  BY CommandFacts, Zenon DEF WorkInv, Inv, TypeOK
<1>2. LedgerOrdered'
  BY Zenon DEF WorkInv, LedgerOrdered
<1>3. Lasting
  BY Zenon DEF Lasting
<1>4. (state = "applying" =>
          \/ MayClaim(command)
          \/ Len(ledger[command]) = 1 /\ ledger[command][1].status = "accepted")'
  <2> SUFFICES ASSUME state = "applying"
               PROVE  \/ MayClaim(command)'
                      \/ Len(ledger[command]) = 1 /\ ledger[command][1].status = "accepted"
    BY Zenon
  <2>1. command # Undo
    BY CommandFacts DEF Inv, StateFoldsLedger
  <2> QED  BY <1>1, <2>1, Zenon DEF WorkRemains
<1>5. (comp \in {"pending", "running"} => MayClaim(Undo))'
  <2> SUFFICES ASSUME comp \in {"pending", "running"} PROVE MayClaim(Undo)'
    BY Zenon DEF Undo
  <2> QED  BY <1>1, Zenon DEF WorkRemains
<1> QED  BY <1>2, <1>3, <1>4, <1>5, Zenon DEF WorkRemains

\* What a resting handler has left behind stays.
LEMMA WorkKept ==
    ASSUME TypeOK, Lasting, NEW h \in Handlers, Rests(h), WorkOK(h)
    PROVE  WorkOK(h)'
<1>1. /\ pc'[h] = pc[h] /\ job'[h] = job[h] /\ cmd'[h] = cmd[h]
      /\ seq'[h] = seq[h] /\ got'[h] = got[h]
  BY Zenon DEF Rests
<1>2. cmd[h] \in Commands
  BY Zenon DEF TypeOK
<1>3. (pc[h] # "idle" => job[h] <= cmd[h])'
  BY <1>1, Zenon DEF WorkOK
<1>4. (pc[h] # "idle" => (job[h] = Undo <=> cmd[h] = Undo))'
  BY <1>1, Zenon DEF WorkOK, Undo
<1>5. (pc[h] = "plan" => cmd[h] = Undo)' /\ (got[h] # <<>> => seq[h] >= 1)'
  BY <1>1, Zenon DEF WorkOK, Undo
<1>6. (pc[h] \in {"store", "unsure"} =>
          /\ got[h] = <<>> /\ cmd[h] # Undo => ledger[cmd[h]] # <<>>
          /\ got[h] = <<>> /\ cmd[h] = Undo => comp \in CompTerminal
          /\ got[h] # <<>> /\ cmd[h] = Undo => Decides(got[h]))'
  <2> SUFFICES ASSUME pc'[h] \in {"store", "unsure"}
               PROVE  /\ got'[h] = <<>> /\ cmd'[h] # Undo => ledger'[cmd'[h]] # <<>>
                      /\ got'[h] = <<>> /\ cmd'[h] = Undo => comp' \in CompTerminal
                      /\ got'[h] # <<>> /\ cmd'[h] = Undo => Decides(got'[h])
    BY Zenon DEF Undo, Decides, CompTerminal
  <2>1. pc[h] \in {"store", "unsure"}
    BY <1>1
  <2>2. /\ got[h] = <<>> /\ cmd[h] # Undo => ledger[cmd[h]] # <<>>
        /\ got[h] = <<>> /\ cmd[h] = Undo => comp \in CompTerminal
        /\ got[h] # <<>> /\ cmd[h] = Undo => Decides(got[h])
    BY <2>1, Zenon DEF WorkOK
  <2> QED  BY <1>1, <1>2, <2>2, Zenon DEF Lasting
<1> QED  BY <1>3, <1>4, <1>5, <1>6, Zenon DEF WorkOK

\* One handler moves and leaves work behind as it should.
LEMMA HandlerWorks ==
    ASSUME TypeOK, WorkInv, LedgerOrdered', WorkRemains', Lasting,
           NEW h \in Handlers, OthersRest(h), WorkOK(h)'
    PROVE  WorkInv'
<1>1. \A g \in Handlers : WorkOK(g)'
  <2> TAKE g \in Handlers
  <2>1. CASE g = h
    BY <2>1, Zenon
  <2>2. CASE g # h
    <3>1. Rests(g) /\ WorkOK(g)
      BY <2>2, Zenon DEF OthersRest, WorkInv
    <3> QED  BY <3>1, WorkKept, Zenon
  <2> QED  BY <2>1, <2>2
<1> QED  BY <1>1, Zenon DEF WorkInv

\* Nobody moves.
LEMMA NobodyWorks ==
    ASSUME TypeOK, WorkInv, LedgerOrdered', WorkRemains', Lasting, UNCHANGED local
    PROVE  WorkInv'
<1>1. \A g \in Handlers : WorkOK(g)'
  <2> TAKE g \in Handlers
  <2>1. Rests(g) /\ WorkOK(g)
    BY Zenon DEF Rests, WorkInv, local
  <2> QED  BY <2>1, WorkKept, Zenon
<1> QED  BY <1>1, Zenon DEF WorkInv

-----------------------------------------------------------------------------
(* Each step leaves work behind.                                           *)

\* A handler that goes home has left nothing open.
LEMMA IdleWorks ==
    ASSUME NEW h \in Handlers, pc'[h] = "idle", got'[h] = <<>>
    PROVE  WorkOK(h)'
  BY Zenon DEF WorkOK

\* A handler that read the Effect goes on with receipts that end in a decision, or
\* for a dispatch with at least one.
LEMMA ReadWorks ==
    ASSUME Inv, WorkInv, UNCHANGED <<record, intent>>,
           NEW h \in Handlers, pc[h] # "idle",
           NEW at \in {"store", "unsure"}, NEW n \in 1..3, NEW receipts \in Seq(Receipt),
           receipts # <<>>, cmd[h] = Undo => Decides(receipts),
           GoOn(h, at, n, receipts)
    PROVE  WorkInv'
<1>1. TypeOK /\ LocalTyped /\ WorkOK(h)
  BY TypeParts, Zenon DEF Inv, WorkInv
<1>2. n \in 0..3
  OBVIOUS
<1>3. OthersRest(h) /\ pc'[h] = at /\ got'[h] = receipts /\ cmd'[h] = cmd[h]
  BY <1>1, <1>2, GoOnFacts, Zenon
<1>4. job'[h] = job[h] /\ seq'[h] = n
  BY <1>1 DEF LocalTyped, GoOn
<1>5. UNCHANGED <<state, command, comp, ledger>>
  BY Zenon DEF record
<1>6. LedgerOrdered' /\ Lasting /\ WorkRemains'
  <2>1. \A k \in Commands : MayClaim(k) => MayClaim(k)'
    BY Zenon DEF MayClaim, Leased
  <2> QED  BY <1>5, <2>1, QuietWork, Zenon
<1>7. WorkOK(h)'
  <2>1. job[h] <= cmd[h] /\ (job[h] = Undo <=> cmd[h] = Undo)
    BY <1>1, Zenon DEF WorkOK
  <2>2. at # "plan" /\ n >= 1
    OBVIOUS
  <2>3. (pc[h] # "idle" => job[h] <= cmd[h])' /\ (pc[h] = "plan" => cmd[h] = Undo)'
    BY <1>3, <1>4, <2>1, <2>2, Zenon DEF Undo
  <2>4. (pc[h] # "idle" => (job[h] = Undo <=> cmd[h] = Undo))'
    BY <1>3, <1>4, <2>1, Zenon DEF Undo
  <2>5. (got[h] # <<>> => seq[h] >= 1)'
    BY <1>4, <2>2, Zenon
  <2>6. got'[h] # <<>> /\ (cmd'[h] = Undo => Decides(got'[h]))
    BY <1>3, Zenon
  <2>7. (pc[h] \in {"store", "unsure"} =>
          /\ got[h] = <<>> /\ cmd[h] # Undo => ledger[cmd[h]] # <<>>
          /\ got[h] = <<>> /\ cmd[h] = Undo => comp \in CompTerminal
          /\ got[h] # <<>> /\ cmd[h] = Undo => Decides(got[h]))'
    BY <2>6, Zenon DEF Undo, Decides
  <2> QED  BY <2>3, <2>4, <2>5, <2>7, Zenon DEF WorkOK
<1> QED  BY <1>1, <1>3, <1>6, <1>7, HandlerWorks, Zenon

\* A made-up refusal is a decision.
LEMMA RejectWorks ==
    ASSUME Inv, WorkInv, NEW h \in Handlers, Reject(h)
    PROVE  WorkInv'
<1>1. TypeOK
  BY Zenon DEF Inv
<1>2. PICK n, status, at, receipts :
         /\ n = IF cmd[h] = Undo THEN Len(ledger[Undo]) + 1 ELSE 1
         /\ status = IF n = 1 THEN "rejected" ELSE "failed"
         /\ at = now
         /\ receipts = <<Made(status, at)>>
  BY Zenon
<1>3. GoOn(h, "store", n, receipts) /\ pc[h] = "read" /\ UNCHANGED <<record, intent>>
  BY <1>2, Zenon DEF Reject
<1>4. n \in 1..3 /\ status \in {"rejected", "failed"} /\ at \in 0..MaxTime
  <2>1. Len(ledger[Undo]) \in Nat
    BY <1>1, CommandFacts, EmptyFacts DEF TypeOK
  <2> QED  BY <1>1, <1>2, <2>1, NextUndo, CommandFacts DEF TypeOK
<1>5. status \in Statuses
  BY <1>4 DEF Statuses
<1>6. receipts \in Seq(Receipt) /\ Len(receipts) = 1 /\ receipts[1].status = status
  BY <1>2, <1>4, <1>5, MadeFacts
<1>7. receipts # <<>> /\ Decides(receipts)
  <2>1. Len(receipts) # 0 /\ status # "accepted"
    BY <1>4, <1>6
  <2>2. receipts # <<>>
    BY <1>6, <2>1, EmptyFacts, Zenon
  <2> QED  BY <1>6, <2>1, <2>2, Zenon DEF Decides
<1>8. "store" \in {"store", "unsure"} /\ pc[h] # "idle"
  BY <1>3
<1> QED  BY <1>3, <1>4, <1>6, <1>7, <1>8, ReadWorks, Zenon

\* So is an uncertain outcome.
LEMMA UnknownWorks ==
    ASSUME Inv, WorkInv, UNCHANGED <<record, intent>>,
           NEW h \in Handlers, pc[h] = "read", Unknown(h)
    PROVE  WorkInv'
<1>1. TypeOK
  BY Zenon DEF Inv
<1>2. PICK at \in 0..MaxTime : at = now
  BY <1>1, CommandFacts DEF TypeOK
<1>3. PICK a \in Receipt, b \in Receipt :
         /\ a = Made("accepted", at) /\ b = Made("uncertain", at)
         /\ a.status = "accepted" /\ b.status = "uncertain"
  BY MadeFacts DEF Statuses
<1>4. PICK n, receipts :
         /\ n = IF cmd[h] = Undo THEN Len(ledger[Undo]) + 1 ELSE 1
         /\ receipts = IF cmd[h] = Undo THEN <<b>> ELSE <<a, b>>
  BY Zenon
<1>5. GoOn(h, "unsure", n, receipts)
  BY <1>2, <1>3, <1>4, Zenon DEF Unknown
<1>6. n \in 1..3
  <2>1. Len(ledger[Undo]) \in Nat
    BY <1>1, CommandFacts, EmptyFacts DEF TypeOK
  <2> QED  BY <1>1, <1>4, <2>1, NextUndo
<1>7. receipts \in Seq(Receipt) /\ receipts # <<>> /\ receipts[Len(receipts)] = b
  BY <1>4, PairFacts
<1>8. Decides(receipts)
  BY <1>3, <1>7 DEF Decides
<1>9. "unsure" \in {"store", "unsure"} /\ pc[h] # "idle"
  OBVIOUS
<1> QED  BY <1>5, <1>6, <1>7, <1>8, <1>9, ReadWorks, Zenon

\* The provider reports an end, or accepts a dispatch.
LEMMA CallProviderWorks ==
    ASSUME Inv, WorkInv, NEW h \in Handlers, NEW end \in Outcomes, CallProvider(h, end)
    PROVE  WorkInv'
<1>1. pc[h] = "read" /\ UNCHANGED <<record, intent>>
  BY Zenon DEF CallProvider, MayCall
<1>2. "store" \in {"store", "unsure"} /\ 1 \in 1..3 /\ pc[h] # "idle"
  BY <1>1
<1>3. CASE GoOn(h, "store", 1, Reported(end))
  <2>1. end \in Statuses /\ "accepted" \in Statuses /\ 0 \in 0..MaxTime /\ end # "accepted"
    BY DeliveryAssumption, CommandFacts DEF Statuses
  <2>2. PICK a \in Receipt, b \in Receipt :
           /\ a = Made("accepted", 0) /\ b = Made(end, 0) /\ b.status = end
    BY <2>1, MadeFacts
  <2>3. PICK receipts : receipts = Reported(end)
    OBVIOUS
  <2>4. receipts = IF end = "rejected" THEN <<b>> ELSE <<a, b>>
    BY <2>2, <2>3, Zenon DEF Reported
  <2>5. receipts \in Seq(Receipt) /\ receipts # <<>> /\ receipts[Len(receipts)] = b
    BY <2>4, PairFacts
  <2>6. Decides(receipts)
    BY <2>1, <2>2, <2>5 DEF Decides
  <2>7. GoOn(h, "store", 1, receipts)
    BY <1>3, <2>3, Zenon
  <2> QED  BY <1>1, <1>2, <2>5, <2>6, <2>7, ReadWorks, Zenon
<1>4. CASE cmd[h] # Undo /\ GoOn(h, "store", 1, <<Made("accepted", 0)>>)
  <2>1. "accepted" \in Statuses /\ 0 \in 0..MaxTime
    BY CommandFacts DEF Statuses
  <2>2. PICK receipts \in Seq(Receipt) : receipts = <<Made("accepted", 0)>> /\ Len(receipts) = 1
    BY <2>1, MadeFacts
  <2>3. receipts # <<>>
    BY <2>2, EmptyFacts
  <2>4. GoOn(h, "store", 1, receipts)
    BY <1>4, <2>2, Zenon
  <2> QED  BY <1>1, <1>2, <1>4, <2>3, <2>4, ReadWorks, Zenon
<1>5. CASE Unknown(h)
  BY <1>1, <1>5, UnknownWorks, Zenon
<1> QED  BY <1>3, <1>4, <1>5, Zenon DEF CallProvider

\* A claimed intent can be claimed again, and the others still can.
LEMMA ClaimWorks ==
    ASSUME Inv, WorkInv, NEW h \in Handlers, NEW k \in Commands, NEW at \in {"store", "read", "plan"},
           NEW target \in Commands, Claim(h, k, at, target), UNCHANGED <<record, outcome, now>>,
           k <= target, k = Undo <=> target = Undo,
           at = "plan" => target = Undo,
           at = "store" /\ target # Undo => ledger[target] # <<>>,
           at = "store" /\ target = Undo => comp \in CompTerminal
    PROVE  WorkInv'
<1>1. TypeOK /\ HandlerOK(h)
  BY Zenon DEF Inv
<1>2. UNCHANGED <<state, command, comp, ledger>>
  BY Zenon DEF record
<1>3. /\ pc[h] = "idle"
      /\ intent' = [intent EXCEPT ![k] = h]
      /\ pc' = [pc EXCEPT ![h] = at] /\ job' = [job EXCEPT ![h] = k]
      /\ cmd' = [cmd EXCEPT ![h] = target] /\ seq' = seq /\ got' = got
  BY Zenon DEF Claim
<1>4. OthersRest(h)
  BY <1>1, <1>3 DEF TypeOK, OthersRest, Rests
<1>5. pc'[h] = at /\ job'[h] = k /\ cmd'[h] = target
  BY <1>1, <1>3 DEF TypeOK
<1>6. got'[h] = <<>>
  BY <1>1, <1>3, Zenon DEF HandlerOK
<1>7. \A j \in Commands : MayClaim(j) => MayClaim(j)'
  BY <1>1, <1>3 DEF TypeOK, MayClaim, Leased
<1>8. LedgerOrdered' /\ Lasting /\ WorkRemains'
  BY <1>2, <1>7, QuietWork, Zenon
<1>9. WorkOK(h)'
  <2>1. (pc[h] # "idle" => job[h] <= cmd[h])' /\ (pc[h] = "plan" => cmd[h] = Undo)'
    BY <1>5, Zenon DEF Undo
  <2>2. (pc[h] # "idle" => (job[h] = Undo <=> cmd[h] = Undo))'
    BY <1>5, Zenon DEF Undo
  <2>3. at \in {"store", "unsure"} => at = "store"
    OBVIOUS
  <2>4. (pc[h] \in {"store", "unsure"} =>
          /\ got[h] = <<>> /\ cmd[h] # Undo => ledger[cmd[h]] # <<>>
          /\ got[h] = <<>> /\ cmd[h] = Undo => comp \in CompTerminal
          /\ got[h] # <<>> /\ cmd[h] = Undo => Decides(got[h]))'
    <3> SUFFICES ASSUME at = "store"
                 PROVE  /\ target # Undo => ledger'[target] # <<>>
                        /\ target = Undo => comp' \in CompTerminal
      BY <1>5, <1>6, <2>3, Zenon DEF Undo, CompTerminal
    <3> QED  BY <1>2, Zenon
  <2> QED  BY <1>6, <2>1, <2>2, <2>4, Zenon DEF WorkOK
<1> QED  BY <1>1, <1>4, <1>8, <1>9, HandlerWorks, Zenon

\* EffectOutboxHandler: a dispatch that has ended has a receipt.
LEMMA ClaimOutboxWorks ==
    ASSUME Inv, WorkInv, NEW h \in Handlers, NEW k \in Dispatches, ClaimOutbox(h, k)
    PROVE  WorkInv'
<1>1. command \in Commands /\ command \in Nat /\ k \in Commands /\ k \in Nat /\ k >= 1 /\ Undo = 0
  BY CommandFacts, Zenon DEF Inv, TypeOK
<1>2. PICK at \in {"store", "read"} : at = IF state \in Terminal THEN "store" ELSE "read"
  OBVIOUS
<1>3. Claim(h, k, at, command) /\ UNCHANGED <<record, outcome, now>>
  BY <1>2, Zenon DEF ClaimOutbox
<1>4. intent[k] # "none"
  BY <1>1, <1>3, MayClaimFacts, Zenon DEF Claim
<1>5. ~(k > command)
  BY <1>4, Zenon DEF Inv, IntentOK
<1>6. command > 0 /\ k <= command /\ command # Undo /\ k # Undo
  BY <1>1, <1>5
<1>7. at # "plan" /\ at \in {"store", "read", "plan"} /\ (at = "store" => state \in Terminal)
  BY <1>2
<1>8. at = "store" => ledger[command] # <<>>
  <2>1. state \in Terminal => state # "applying"
    BY DEF Terminal
  <2> QED  BY <1>6, <1>7, <2>1, FoldFacts, Zenon
<1> QED  BY <1>1, <1>3, <1>6, <1>7, <1>8, ClaimWorks, Zenon

\* EffectCleanupHandler.
LEMMA ClaimCleanupWorks ==
    ASSUME Inv, WorkInv, NEW h \in Handlers, ClaimCleanup(h)
    PROVE  WorkInv'
<1>1. Undo \in Commands /\ Undo <= Undo
  BY CommandFacts
<1>2. PICK at \in {"store", "read", "plan"} :
         at = IF comp \in CompTerminal THEN "store" ELSE IF comp = "pending" THEN "plan" ELSE "read"
  OBVIOUS
<1>3. Claim(h, Undo, at, Undo) /\ UNCHANGED <<record, outcome, now>>
  BY <1>2, Zenon DEF ClaimCleanup
<1>4. at = "store" => comp \in CompTerminal
  BY <1>2
<1> QED  BY <1>1, <1>3, <1>4, ClaimWorks, Zenon

\* Settling an intent only touches that one.
LEMMA SettleWork ==
    ASSUME TypeOK, NEW h \in Handlers, NEW status, Settle(h, status)
    PROVE  /\ \A k \in Commands : k # job[h] => (MayClaim(k) => MayClaim(k)')
           /\ status = "pending" => \A k \in Commands : MayClaim(k) => MayClaim(k)'
<1>1. job[h] \in Commands /\ intent \in [Commands -> {"none", "pending", "completed", "dead"} \cup Handlers]
  BY Zenon DEF TypeOK
<1> QED  BY <1>1 DEF Settle, MayClaim, Leased

\* A handler that goes home gives the intent back, or what it was for has ended or
\* is reported later.
LEMMA SettleWorks ==
    ASSUME Inv, WorkInv, NEW h \in Handlers, Return(h), UNCHANGED record,
           \/ UNCHANGED intent
           \/ Settle(h, "pending")
           \/ /\ \E status : Settle(h, status)
              /\ \/ job[h] = Undo /\ comp \in CompTerminal
                 \/ /\ job[h] # Undo
                    /\ job[h] = command /\ state = "applying" =>
                          Len(ledger[command]) = 1 /\ ledger[command][1].status = "accepted"
    PROVE  WorkInv'
<1>1. TypeOK /\ LocalTyped
  BY TypeParts, Zenon DEF Inv
<1>2. UNCHANGED <<state, command, comp, ledger>>
  BY Zenon DEF record
<1>3. OthersRest(h) /\ pc'[h] = "idle" /\ got'[h] = <<>>
  BY <1>1, ReturnFacts, Zenon
<1>4. comp \in CompTerminal => comp \notin {"pending", "running"}
  BY DEF CompTerminal
<1>5. LedgerOrdered' /\ Lasting /\ WorkRemains'
  <2>1. CASE UNCHANGED intent
    <3>1. \A k \in Commands : MayClaim(k) => MayClaim(k)'
      BY <2>1, Zenon DEF MayClaim, Leased
    <3> QED  BY <1>2, <3>1, QuietWork, Zenon
  <2>2. CASE Settle(h, "pending")
    <3>1. \A k \in Commands : MayClaim(k) => MayClaim(k)'
      BY <1>1, <2>2, SettleWork, Zenon
    <3> QED  BY <1>2, <3>1, QuietWork, Zenon
  <2>3. CASE /\ \E status : Settle(h, status)
             /\ job[h] = Undo /\ comp \in CompTerminal
    <3>1. \A k \in Commands : k # job[h] => (MayClaim(k) => MayClaim(k)')
      BY <1>1, <2>3, SettleWork, Zenon
    <3> QED  BY <1>2, <1>4, <2>3, <3>1, QuietWork, Zenon
  <2>4. CASE /\ \E status : Settle(h, status)
             /\ job[h] # Undo
             /\ job[h] = command /\ state = "applying" =>
                   Len(ledger[command]) = 1 /\ ledger[command][1].status = "accepted"
    <3>1. \A k \in Commands : k # job[h] => (MayClaim(k) => MayClaim(k)')
      BY <1>1, <2>4, SettleWork, Zenon
    <3> QED  BY <1>2, <2>4, <3>1, QuietWork, Zenon
  <2> QED  BY <2>1, <2>2, <2>3, <2>4
<1>6. WorkOK(h)'
  BY <1>3, IdleWorks, Zenon
<1> QED  BY <1>1, <1>3, <1>5, <1>6, HandlerWorks, Zenon

\* The handler stored all it had: a dispatch it was for is not open, but for an
\* acceptance, and the compensation has ended.
LEMMA CompleteWorks ==
    ASSUME Inv, WorkInv, NEW h \in Handlers, Complete(h)
    PROVE  WorkInv'
<1>1. TypeOK /\ HandlerOK(h) /\ WorkOK(h) /\ StateFoldsLedger /\ LedgerOrdered
  BY Zenon DEF Inv, WorkInv
<1>2. /\ Settle(h, "completed") /\ Return(h) /\ UNCHANGED record
      /\ pc[h] \in {"store", "unsure"} /\ got[h] = <<>>
  BY Zenon DEF Complete
<1>3. pc[h] # "idle"
  BY <1>2
<1>4. /\ job[h] <= cmd[h] /\ cmd[h] <= command /\ (job[h] = Undo <=> cmd[h] = Undo)
      /\ cmd[h] # Undo => ledger[cmd[h]] # <<>>
      /\ cmd[h] = Undo => comp \in CompTerminal
  BY <1>1, <1>2, <1>3, Zenon DEF HandlerOK, WorkOK
<1>5. CASE job[h] = Undo
  BY <1>2, <1>4, <1>5, SettleWorks, Zenon
<1>6. CASE job[h] # Undo
  <2>1. job[h] = command /\ state = "applying" =>
           Len(ledger[command]) = 1 /\ ledger[command][1].status = "accepted"
    <3> SUFFICES ASSUME job[h] = command, state = "applying"
                 PROVE  Len(ledger[command]) = 1 /\ ledger[command][1].status = "accepted"
      OBVIOUS
    <3>1. cmd[h] \in Commands /\ command \in Commands /\ cmd[h] \in Nat /\ command \in Nat
      BY <1>1, CommandFacts, Zenon DEF TypeOK
    <3>2. cmd[h] = command
      BY <1>4, <3>1
    <3>3. command > 0
      BY <1>6, <3>1, CommandFacts
    <3>4. PICK s \in Seq(Receipt) : s = ledger[command] /\ Len(s) <= 2
      BY <1>1, <3>1 DEF TypeOK
    <3>5. s # <<>> /\ Len(s) \in 1..2 /\ s[Len(s)].status \in Statuses
      <4>1. s # <<>>
        BY <1>4, <1>6, <3>2, <3>4, Zenon
      <4>2. Len(s) \in Nat /\ Len(s) # 0 /\ s[Len(s)] \in Receipt
        BY <4>1, EmptyFacts, Zenon
      <4>3. PICK l \in Nat : l = Len(s) /\ l # 0 /\ l <= 2
        BY <3>4, <4>2, Zenon
      <4>4. l \in 1..2
        BY <4>3, SMT
      <4>5. s[Len(s)].status \in Statuses
        BY <4>2 DEF Receipt
      <4> QED  BY <4>1, <4>3, <4>4, <4>5, Zenon
    <3>6. Observed[s[Len(s)].status] = "applying"
      BY <1>1, <3>3, <3>4, <3>5, Zenon DEF StateFoldsLedger
    <3>7. s[Len(s)].status = "accepted"
      BY <3>5, <3>6 DEF Observed, Statuses
    <3>8. Len(s) # 2
      BY <1>1, <3>1, <3>4, <3>7 DEF LedgerOrdered
    <3>9. Len(s) = 1
      BY <3>5, <3>8
    <3> QED  BY <3>4, <3>7, <3>9
  <2> QED  BY <1>2, <1>6, <2>1, SettleWorks, Zenon
<1> QED  BY <1>5, <1>6

\* BeginEffectCompensation: the intent of a compensation that goes on stays.
LEMMA BeginCompensationWorks ==
    ASSUME Inv, WorkInv, NEW h \in Handlers, BeginCompensation(h)
    PROVE  WorkInv'
<1>1. TypeOK /\ HandlerOK(h) /\ RecordOK /\ WorkOK(h) /\ WorkRemains /\ LedgerOrdered
  BY Zenon DEF Inv, WorkInv
<1>2. UNCHANGED <<state, command, ledger, taken>> /\ pc[h] = "plan" /\ pc[h] # "idle"
  BY DEF BeginCompensation
<1>3. Scheduled /\ state = "applied" /\ got[h] = <<>>
  BY <1>1, <1>2, Zenon DEF HandlerOK, RecordOK
<1>4. cmd[h] = Undo /\ job[h] = Undo /\ job[h] <= cmd[h]
  BY <1>1, <1>2, Zenon DEF WorkOK
<1>5. CASE comp \in CompTerminal
  <2>1. Settle(h, "dead") /\ Return(h) /\ UNCHANGED comp
    BY <1>5, Zenon DEF BeginCompensation
  <2>2. UNCHANGED record
    BY <1>2, <2>1, Zenon DEF record
  <2> QED  BY <1>4, <1>5, <2>1, <2>2, SettleWorks, Zenon
<1>6. CASE comp \notin CompTerminal
  <2>1. comp' = "running" /\ pc' = [pc EXCEPT ![h] = "read"] /\ UNCHANGED <<intent, job, cmd, seq, got>>
    BY <1>6, Zenon DEF BeginCompensation
  <2>2. comp \in {"pending", "running"}
    BY <1>1, <1>3, <1>6 DEF TypeOK, Scheduled
  <2>3. OthersRest(h) /\ pc'[h] = "read"
    BY <1>1, <2>1 DEF TypeOK, OthersRest, Rests
  <2>4. LedgerOrdered' /\ Lasting
    BY <1>1, <1>2, <1>6, Zenon DEF LedgerOrdered, Lasting
  <2>5. MayClaim(Undo)'
    <3>1. MayClaim(Undo)
      BY <1>1, <2>2, Zenon DEF WorkRemains
    <3> QED  BY <2>1, <3>1, Zenon DEF MayClaim, Leased, Undo
  <2>6. state' # "applying"
    BY <1>2, <1>3
  <2>7. WorkRemains'
    BY <2>5, <2>6, Zenon DEF WorkRemains
  <2>8. WorkOK(h)'
    <3>1. "read" \notin {"store", "unsure", "plan", "idle"}
      OBVIOUS
    <3>2. job'[h] = Undo /\ cmd'[h] = Undo /\ job'[h] <= cmd'[h] /\ got'[h] = <<>>
      BY <1>3, <1>4, <2>1, Zenon
    <3>3. (pc[h] # "idle" => (job[h] = Undo <=> cmd[h] = Undo))'
      BY <3>2, Zenon DEF Undo
    <3> QED  BY <2>3, <3>1, <3>2, <3>3, Zenon DEF WorkOK
  <2> QED  BY <1>1, <2>3, <2>4, <2>7, <2>8, HandlerWorks, Zenon
<1> QED  BY <1>5, <1>6

\* After the last receipt a dispatch has one, and the compensation has ended.
LEMMA StoreReceiptWorks ==
    ASSUME Inv, Inv', WorkInv, NEW h \in Handlers, StoreReceipt(h)
    PROVE  WorkInv'
<1>1. TypeOK /\ WorkOK(h) /\ LedgerOrdered /\ StateFoldsLedger /\ TypeOK' /\ LocalTyped
  BY TypeParts, Zenon DEF Inv, WorkInv
<1>2. /\ pc[h] \in {"store", "unsure"} /\ got[h] # <<>> /\ intent' = intent
      /\ GoOn(h, pc[h], seq[h] + 1, Tail(got[h]))
  BY Zenon DEF StoreReceipt, Storing, Stored
<1>3. PICK k \in Commands, n \in 0..3, receipts \in Seq(Receipt), at \in {"store", "unsure"} :
         k = cmd[h] /\ n = seq[h] /\ receipts = got[h] /\ at = pc[h]
  BY <1>1, <1>2 DEF TypeOK
<1>4. PICK receipt \in Receipt, rest \in Seq(Receipt) : receipt = Head(receipts) /\ rest = Tail(receipts)
  BY <1>2, <1>3, HeadFacts
<1>5. /\ receipt = receipts[1] /\ Len(rest) = Len(receipts) - 1
      /\ \A i \in 1..Len(rest) : rest[i] = receipts[i + 1]
  BY <1>2, <1>3, <1>4, HeadFacts
<1>6. /\ Len(receipts) \in Nat /\ Len(rest) \in Nat
      /\ (rest = <<>> <=> Len(rest) = 0) /\ (receipts = <<>> <=> Len(receipts) = 0)
  BY EmptyFacts, Zenon
<1>7. at # "idle" /\ at # "plan" /\ n \in Nat
  OBVIOUS
<1>8. /\ job[h] <= k /\ (job[h] = Undo <=> k = Undo) /\ n >= 1
      /\ k = Undo => Decides(receipts)
  BY <1>1, <1>2, <1>3, <1>7, Zenon DEF WorkOK
<1>9. GoOn(h, at, n + 1, rest)
  BY <1>2, <1>3, <1>4, Zenon
<1>10. /\ OthersRest(h) /\ pc'[h] = at /\ got'[h] = rest /\ cmd'[h] = k
       /\ job'[h] = job[h] /\ seq'[h] = n + 1
  BY <1>1, <1>3, <1>9 DEF LocalTyped, GoOn, OthersRest, Rests
<1>11. receipt.status \in Statuses
  BY DEF Receipt
<1>12. \A status \in Statuses : status # "accepted" => ObservedUndo[status] \in CompTerminal
  BY DEF Statuses, ObservedUndo, CompTerminal
<1>13. PICK a \in Nat, b \in Nat : a = Len(receipts) /\ b = Len(rest) /\ b = a - 1
  BY <1>5, <1>6, Zenon
<1>14. (b = 0 => a = 1) /\ (b # 0 => b \in 1..b) /\ b + 1 = a
  BY <1>13, SMT
<1>15. rest = <<>> /\ k = Undo => receipt.status # "accepted"
  <2> SUFFICES ASSUME rest = <<>>, k = Undo PROVE receipt.status # "accepted"
    OBVIOUS
  <2>1. Decides(receipts) /\ Len(receipts) = 1
    BY <1>6, <1>8, <1>13, <1>14, Zenon
  <2> QED  BY <1>5, <2>1, Zenon DEF Decides
<1>16. rest # <<>> /\ k = Undo => Decides(rest)
  <2> SUFFICES ASSUME rest # <<>>, k = Undo PROVE Decides(rest)
    OBVIOUS
  <2>1. rest[Len(rest)] = receipts[Len(receipts)]
    BY <1>5, <1>6, <1>13, <1>14, Zenon
  <2> QED  BY <1>8, <2>1, Zenon DEF Decides
<1>17. PICK l \in Seq(Receipt) : l = ledger[k] /\ Len(l) <= 2 /\ Len(l) \in Nat /\ (l = <<>> <=> Len(l) = 0)
  <2>1. ledger[k] \in Seq(Receipt) /\ Len(ledger[k]) <= 2
    BY <1>1, Zenon DEF TypeOK
  <2> QED  BY <2>1, EmptyFacts, Zenon
<1>18. ASSUME Replayed(h), UNCHANGED record
      PROVE  /\ LedgerOrdered' /\ Lasting /\ WorkRemains'
             /\ ledger'[k] # <<>>
             /\ rest = <<>> /\ k = Undo => comp' \in CompTerminal
  <2>1. UNCHANGED <<state, command, comp, ledger>>
    BY <1>18, Zenon DEF record
  <2>2. \A j \in Commands : MayClaim(j) => MayClaim(j)'
    BY <1>2, Zenon DEF MayClaim, Leased
  <2>3. LedgerOrdered' /\ Lasting /\ WorkRemains'
    BY <2>1, <2>2, QuietWork, Zenon
  <2>4. n <= Len(l) /\ l[n] = receipt
    BY <1>3, <1>4, <1>17, <1>18, Zenon DEF Replayed
  <2>5. PICK m \in Nat : m = Len(l) /\ n <= m /\ m <= 2
    BY <1>17, <2>4, Zenon
  <2>6. m # 0 /\ (n = m \/ m = 2) /\ (m = 1 => n = 1)
    BY <1>7, <1>8, <2>5, SMT
  <2>7. l # <<>>
    BY <1>17, <2>5, <2>6, Zenon
  <2>8. ledger'[k] # <<>>
    BY <1>17, <2>1, <2>7, Zenon
  <2>9. rest = <<>> /\ k = Undo => comp' \in CompTerminal
    <3> SUFFICES ASSUME rest = <<>>, k = Undo PROVE comp \in CompTerminal
      BY <2>1, Zenon
    <3>1. receipt.status # "accepted"
      BY <1>15, Zenon
    <3>2. l[Len(l)].status # "accepted"
      <4>1. CASE n = m
        BY <2>4, <2>5, <3>1, <4>1, Zenon
      <4>2. CASE m = 2
        BY <1>1, <1>17, <2>5, <4>2, Zenon DEF LedgerOrdered
      <4> QED  BY <2>6, <4>1, <4>2
    <3>3. l[Len(l)].status \in Statuses
      <4>1. l[Len(l)] \in Receipt
        BY <2>7, EmptyFacts, Zenon
      <4> QED  BY <4>1 DEF Receipt
    <3>4. comp \in {ObservedUndo[l[Len(l)].status], "reconciled"}
      BY <1>1, <1>17, <2>7, Zenon DEF StateFoldsLedger
    <3>5. ObservedUndo[l[Len(l)].status] \in CompTerminal /\ "reconciled" \in CompTerminal
      <4>1. "reconciled" \in CompTerminal
        BY DEF CompTerminal
      <4> QED  BY <1>12, <3>2, <3>3, <4>1, Zenon
    <3> QED  BY <3>4, <3>5, Zenon
  <2> QED  BY <2>3, <2>8, <2>9, Zenon
<1>19. ASSUME Observe(cmd[h], seq[h], Head(got[h])), UNCHANGED command
      PROVE  /\ LedgerOrdered' /\ Lasting /\ WorkRemains'
             /\ ledger'[k] # <<>>
             /\ rest = <<>> /\ k = Undo => comp' \in CompTerminal
  <2>1. Observe(k, n, receipt) /\ UNCHANGED <<command, intent>>
    BY <1>2, <1>3, <1>4, <1>19, Zenon
  <2>2. /\ LedgerOrdered' /\ Lasting /\ WorkRemains'
        /\ ledger'[k] # <<>>
        /\ k = Undo => comp' = ObservedUndo[receipt.status]
    BY <2>1, ObserveWork, Zenon
  <2>3. rest = <<>> /\ k = Undo => comp' \in CompTerminal
    BY <1>11, <1>12, <1>15, <2>2, Zenon
  <2> QED  BY <2>2, <2>3
<1>20. /\ LedgerOrdered' /\ Lasting /\ WorkRemains'
       /\ ledger'[k] # <<>>
       /\ rest = <<>> /\ k = Undo => comp' \in CompTerminal
  <2>1. CASE Replayed(h) /\ UNCHANGED record
    BY <2>1, <1>18
  <2>2. CASE Observe(cmd[h], seq[h], Head(got[h])) /\ UNCHANGED command
    BY <2>2, <1>19
  <2> QED  BY <2>1, <2>2, Zenon DEF StoreReceipt
<1>21. WorkOK(h)'
  <2>1. n + 1 >= 1
    BY <1>7
  <2>2. (pc[h] # "idle" => job[h] <= cmd[h])' /\ (pc[h] = "plan" => cmd[h] = Undo)'
    BY <1>7, <1>8, <1>10, Zenon DEF Undo
  <2>3. (pc[h] # "idle" => (job[h] = Undo <=> cmd[h] = Undo))'
    BY <1>8, <1>10, Zenon DEF Undo
  <2>4. (got[h] # <<>> => seq[h] >= 1)'
    BY <1>10, <2>1, Zenon
  <2>5. (pc[h] \in {"store", "unsure"} =>
          /\ got[h] = <<>> /\ cmd[h] # Undo => ledger[cmd[h]] # <<>>
          /\ got[h] = <<>> /\ cmd[h] = Undo => comp \in CompTerminal
          /\ got[h] # <<>> /\ cmd[h] = Undo => Decides(got[h]))'
    <3> SUFFICES /\ ledger'[k] # <<>>
                 /\ rest = <<>> /\ k = Undo => comp' \in CompTerminal
                 /\ rest # <<>> /\ k = Undo => Decides(rest)
      BY <1>10, Zenon DEF Undo, Decides, CompTerminal
    <3> QED  BY <1>16, <1>20, Zenon
  <2> QED  BY <2>2, <2>3, <2>4, <2>5, Zenon DEF WorkOK
<1> QED  BY <1>1, <1>10, <1>20, <1>21, HandlerWorks, Zenon

\* BeginEffect creates the intent together with the work.
LEMMA BeginEffectWorks ==
    ASSUME Inv, Inv', WorkInv, BeginEffect
    PROVE  WorkInv'
<1>1. TypeOK /\ TypeOK' /\ RecordOK /\ WorkRemains /\ LedgerOrdered
  BY Zenon DEF Inv, WorkInv
<1>2. /\ command' = command + 1 /\ intent' = [intent EXCEPT ![command + 1] = "pending"]
      /\ UNCHANGED <<comp, ledger>> /\ UNCHANGED local
  BY Zenon DEF BeginEffect
<1>3. command' \in Commands /\ command \in Nat
  BY <1>1, CommandFacts, Zenon DEF TypeOK
<1>4. command' # Undo
  BY <1>2, <1>3, CommandFacts
<1>5. MayClaim(command)'
  BY <1>1, <1>2, <1>3 DEF TypeOK, MayClaim
<1>6. comp' \in {"pending", "running"} => MayClaim(Undo)'
  <2>1. intent'[Undo] = intent[Undo]
    BY <1>1, <1>2, <1>4, CommandFacts DEF TypeOK
  <2>2. comp' \in {"pending", "running"} => MayClaim(Undo)
    BY <1>1, <1>2, Zenon DEF WorkRemains
  <2> QED  BY <2>1, <2>2, Zenon DEF MayClaim, Leased, Undo
<1>7. WorkRemains'
  BY <1>5, <1>6, Zenon DEF WorkRemains, Undo
<1>8. LedgerOrdered' /\ Lasting
  BY <1>1, <1>2, Zenon DEF LedgerOrdered, Lasting
<1> QED  BY <1>1, <1>2, <1>7, <1>8, NobodyWorks, Zenon

\* So does the scheduling of the compensation; the other reducers end something.
LEMMA ReducerWorks ==
    ASSUME Inv, WorkInv, CancelPrepared \/ ScheduleCompensation \/ ReconcileCompensation
    PROVE  WorkInv'
<1>1. TypeOK /\ WorkRemains /\ LedgerOrdered /\ Undo \in Commands
  BY CommandFacts, Zenon DEF Inv, WorkInv
<1>2. UNCHANGED ledger /\ UNCHANGED local /\ state' # "applying"
  BY DEF CancelPrepared, ScheduleCompensation, ReconcileCompensation
<1>3. LedgerOrdered'
  BY <1>1, <1>2, Zenon DEF LedgerOrdered
<1>4. comp \in CompTerminal => comp' \in CompTerminal
  BY DEF CancelPrepared, ScheduleCompensation, ReconcileCompensation, CompTerminal
<1>5. comp' \in {"pending", "running"} => MayClaim(Undo)'
  <2>1. CASE ScheduleCompensation
    BY <1>1, <2>1 DEF ScheduleCompensation, TypeOK, MayClaim
  <2>2. CASE CancelPrepared \/ ReconcileCompensation
    <3>1. (comp' = comp \/ comp' \notin {"pending", "running"}) /\ intent' = intent
      BY <2>2 DEF CancelPrepared, ReconcileCompensation
    <3> QED  BY <1>1, <3>1, Zenon DEF WorkRemains, MayClaim, Leased, Undo
  <2> QED  BY <2>1, <2>2
<1>6. WorkRemains'
  BY <1>2, <1>5, Zenon DEF WorkRemains, Undo
<1>7. Lasting
  BY <1>2, <1>4, Zenon DEF Lasting
<1> QED  BY <1>1, <1>2, <1>3, <1>6, <1>7, NobodyWorks, Zenon

\* A late receipt.
LEMMA DeliveryWorks ==
    ASSUME Inv, Inv', WorkInv, Delivery
    PROVE  WorkInv'
<1>1. TypeOK
  BY Zenon DEF Inv
<1>2. PICK k \in Commands, n \in 1..2 : DeliverReceipt(k, n)
  BY Zenon DEF Delivery
<1>3. PICK end \in Outcomes : end = outcome[k]
  BY <1>1, <1>2 DEF TypeOK, DeliverReceipt
<1>4. PICK receipts \in Seq(Receipt) : receipts = Reported(end)
  BY ReportedFacts, Zenon
<1>5. n <= Len(receipts) /\ Observe(k, n, receipts[n])
  BY <1>2, <1>3, <1>4, Zenon DEF DeliverReceipt
<1>6. receipts[n] \in Receipt
  BY <1>5, EmptyFacts
<1>7. UNCHANGED <<command, intent>> /\ UNCHANGED local
  BY <1>2, Zenon DEF DeliverReceipt
<1>8. LedgerOrdered' /\ Lasting /\ WorkRemains'
  BY <1>5, <1>6, <1>7, ObserveWork, Zenon
<1> QED  BY <1>1, <1>7, <1>8, NobodyWorks, Zenon

\* Every step leaves work behind as it should.
LEMMA NextWorks ==
    ASSUME Inv, Inv', WorkInv, [Next]_vars
    PROVE  WorkInv'
<1>1. CASE UNCHANGED vars \/ Tick
  <2>1. UNCHANGED <<state, command, comp, ledger>> /\ UNCHANGED intent /\ UNCHANGED local
    BY <1>1, Zenon DEF vars, record, Tick
  <2>2. \A k \in Commands : MayClaim(k) => MayClaim(k)'
    BY <2>1, Zenon DEF MayClaim, Leased
  <2>3. LedgerOrdered' /\ Lasting /\ WorkRemains' /\ TypeOK
    BY <2>1, <2>2, QuietWork, Zenon DEF Inv
  <2> QED  BY <2>1, <2>3, NobodyWorks, Zenon
<1>2. CASE BeginEffect
  BY <1>2, BeginEffectWorks
<1>3. CASE CancelPrepared \/ ScheduleCompensation \/ ReconcileCompensation
  BY <1>3, ReducerWorks
<1>4. ASSUME NEW h \in Handlers, HandlerStep(h) \/ Retry(h) \/ Crash(h)
      PROVE  WorkInv'
  <2>1. CASE \E k \in Dispatches : ClaimOutbox(h, k)
    BY <2>1, ClaimOutboxWorks, Zenon
  <2>2. CASE ClaimCleanup(h)
    BY <2>2, ClaimCleanupWorks, Zenon
  <2>3. CASE BeginCompensation(h)
    BY <2>3, BeginCompensationWorks, Zenon
  <2>4. CASE Reject(h)
    BY <2>4, RejectWorks, Zenon
  <2>5. CASE \E end \in Outcomes : CallProvider(h, end)
    BY <2>5, CallProviderWorks, Zenon
  <2>6. CASE LoseCall(h)
    BY <2>6, UnknownWorks, Zenon DEF LoseCall, MayCall
  <2>7. CASE StoreReceipt(h)
    BY <2>7, StoreReceiptWorks, Zenon
  <2>8. CASE Complete(h)
    BY <2>8, CompleteWorks, Zenon
  <2>9. CASE Retry(h)
    <3>1. Settle(h, "pending") /\ Return(h) /\ UNCHANGED record
      BY <2>9, Zenon DEF Retry
    <3> QED  BY <3>1, SettleWorks, Zenon
  <2>10. CASE Crash(h)
    <3>1. UNCHANGED intent /\ Return(h) /\ UNCHANGED record
      BY <2>10, Zenon DEF Crash
    <3> QED  BY <3>1, SettleWorks, Zenon
  <2> QED
    BY <1>4, <2>1, <2>2, <2>3, <2>4, <2>5, <2>6, <2>7, <2>8, <2>9, <2>10, Zenon DEF HandlerStep
<1>5. CASE Delivery
  BY <1>5, DeliveryWorks
<1> QED  BY <1>1, <1>2, <1>3, <1>4, <1>5, Zenon DEF Next

\* Nothing is under way in the beginning.
LEMMA InitWorks ==
    ASSUME Init
    PROVE  WorkInv
<1>1. LedgerOrdered
  BY DEF Init, LedgerOrdered
<1>2. WorkRemains
  BY DEF Init, WorkRemains
<1>3. \A h \in Handlers : WorkOK(h)
  <2> TAKE h \in Handlers
  <2>1. pc[h] = "idle" /\ got[h] = <<>>
    BY DEF Init
  <2> QED  BY <2>1 DEF WorkOK
<1> QED  BY <1>1, <1>2, <1>3, Zenon DEF WorkInv

\* Complete, Retry and the lease: an Effect being applied and a compensation that
\* has not ended always have an intent somebody holds or will claim, but for a
\* dispatch whose acceptance is stored.
THEOREM WorkIsNeverLost == Spec => []WorkRemains
<1>1. Init => WorkInv
  BY InitWorks
<1>2. Inv /\ Inv' /\ WorkInv /\ [Next]_vars => WorkInv'
  BY NextWorks
<1>3. WorkInv => WorkRemains
  BY Zenon DEF WorkInv
<1> QED  BY <1>1, <1>2, <1>3, InvHolds, PTL DEF Spec
=============================================================================
