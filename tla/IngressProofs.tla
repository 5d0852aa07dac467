---------------------------- MODULE IngressProofs ---------------------------
(***************************************************************************)
(* Proofs about Ingress, for any processes, Runs, commands and bounds: one *)
(* active Run per key, external waits consumed once, answers that stay     *)
(* true, final stop decisions, and the refinement of SingleActive.         *)
(***************************************************************************)
EXTENDS Ingress, TLAPS

StartPCs == {"lookup", "acquire", "publish", "relookup", "probe", "inspect"}
StopPCs == {"fence", "fence-owner", "request", "freeze"}
SignalPCs == {"authorize", "authorize-owner", "receipt", "consumption", "load", "consume",
              "reread", "reread-consumption"}

\* The statuses of a Run whose termination is frozen.
Ended == {"stopping", "failed", "stopped"}

\* The owner's generation counts the admissions; its revision counts them and
\* the releases, so that its parity tells an active owner from a released one.
OwnerOK ==
    /\ owner.state = "none" => owner.generation = 0 /\ owner.revision = 0
    /\ owner.state = "active" => owner.revision + 1 = 2 * owner.generation
    /\ owner.state = "released" => owner.revision = 2 * owner.generation
    /\ \A r \in Runs : run[r].status \in Live <=> owner.state = "active" /\ owner.run = r
    /\ \A r \in Runs : run[r].status \in Live => run[r].generation = owner.generation
    /\ \A r \in Runs : run[r].generation <= owner.generation
    /\ \A r \in Runs : run[r].status = "absent" <=> run[r].generation = 0
    /\ \A r, s \in Runs : run[r].generation = run[s].generation /\ run[r].generation # 0 => r = s

\* A Run, its frozen termination, its open wait and its admission agree.
RunOK(r) ==
    /\ run[r].status = "absent" => run[r].waits = 0 /\ run[r].revision = 0
    /\ run[r].status = "waiting" => run[r].open = TRUE
    /\ run[r].status \notin {"waiting", "stopping"} => run[r].open = FALSE
    /\ run[r].open = TRUE => run[r].waits >= 1
    /\ termination[r].by # "none" <=> run[r].status \in Ended
    /\ termination[r].by = "none" => termination[r] = NoTermination
    /\ termination[r].revision <= run[r].revision
    /\ \A c \in StartCommands : admission[r][c] # None => run[r].status # "absent"

\* Receipts and consumptions name each other, and the occurrences a Run that is
\* not being stopped has left behind are the consumed ones.
WaitOK(r) ==
    /\ \A c \in SignalCommands : receipt[r][c] # NoReceipt =>
           receipt[r][c].occurrence \in Occurrences /\ consumption[r][receipt[r][c].occurrence] = c
    /\ \A o \in Occurrences : consumption[r][o] # None => receipt[r][consumption[r][o]].occurrence = o
    /\ run[r].status \notin Ended =>
           \A o \in Occurrences : consumption[r][o] # None <=>
               o <= run[r].waits /\ (run[r].open = TRUE => o < run[r].waits)

DurableOK == OwnerOK /\ \A r \in Runs : RunOK(r) /\ WaitOK(r)

\* No signal will consume the occurrence any more, or one already has.
Passed(r, o) == consumption[r][o] # None \/ run[r].status \in Ended

\* A process carries the kind of request its step belongs to.
RequestOK(p) ==
    /\ pc[p] \in StartPCs => req[p] \in StartRequest
    /\ pc[p] \in StopPCs => req[p] \in StopRequest
    /\ pc[p] \in SignalPCs => req[p] \in SignalRequest
    /\ pc[p] # "done" => answer[p].kind = "none"
    /\ req[p].op = "stop" => req[p].revision <= run[req[p].run].revision

\* What the revision a process read tells it when it commits.
FenceOK(p) ==
    /\ pc[p] = "publish" => mem[p].expected + 2 = 2 * mem[p].generation
    /\ pc[p] = "freeze" => (run[req[p].run].revision = req[p].revision =>
           run[req[p].run].status \in Live \ {"stopping"})
    /\ pc[p] = "consume" =>
           /\ mem[p].revision <= run[req[p].run].revision
           /\ mem[p].revision = run[req[p].run].revision =>
                  run[req[p].run].status = "waiting" /\ run[req[p].run].waits = req[p].occurrence
           /\ mem[p].revision # run[req[p].run].revision => Passed(req[p].run, req[p].occurrence)
    /\ pc[p] = "reread" =>
           receipt[req[p].run][req[p].cmd] # NoReceipt \/ Passed(req[p].run, req[p].occurrence)
    /\ pc[p] = "reread-consumption" => Passed(req[p].run, req[p].occurrence)

\* What keeps an answer true: a Stop that lost its revision is behind the Run, a
\* signal that lost its revision is behind the wait.
Truthful(q, kind, generation) ==
    /\ kind # "corrupt"
    /\ q.op = "start" /\ kind \in {"accepted", "replay"} =>
           /\ admission[q.run][q.cmd] = q.body
           /\ generation = run[q.run].generation
           /\ generation # 0
    /\ q.op = "start" /\ kind = "identity-conflict" =>
           admission[q.run][q.cmd] \notin {None, q.body}
    /\ q.op = "stop" /\ kind = "revision-conflict" =>
           /\ q.revision < run[q.run].revision
           /\ termination[q.run] # [by |-> "stop", cmd |-> q.cmd, revision |-> q.revision]
    /\ q.op = "stop" /\ kind \in {"applied", "replay"} =>
           run[q.run].status \in {"stopping"} \cup Terminal
    /\ q.op = "signal" /\ kind \in {"applied", "replay"} =>
           consumption[q.run][q.occurrence] = q.cmd
    /\ q.op = "signal" /\ kind = "revision-conflict" =>
           consumption[q.run][q.occurrence] # q.cmd /\ Passed(q.run, q.occurrence)

AnswerOK(p) == Truthful(req[p], answer[p].kind, answer[p].generation)

LocalOK(p) == RequestOK(p) /\ FenceOK(p) /\ AnswerOK(p)

Inv == TypeOK /\ DurableOK /\ \A p \in Processes : LocalOK(p)

\* What no commit does to a Run: take back a revision, a generation, a decision
\* to stop, an admission, a consumption or a receipt.
Forward(r) ==
    /\ run[r].revision <= run'[r].revision
    /\ run'[r].revision = run[r].revision =>
           run'[r].status = run[r].status /\ run'[r].waits = run[r].waits /\ termination'[r] = termination[r]
    /\ run[r].generation # 0 => run'[r].generation = run[r].generation
    /\ run[r].status \in {"stopping"} \cup Terminal => run'[r].status \in {"stopping"} \cup Terminal
    /\ run[r].status \in Ended => run'[r].status \in Ended /\ consumption'[r] = consumption[r]
    /\ termination'[r] = termination[r] \/ termination'[r].revision = run[r].revision
    /\ \A c \in StartCommands : admission[r][c] # None => admission'[r][c] = admission[r][c]
    /\ \A o \in Occurrences : consumption[r][o] # None => consumption'[r][o] = consumption[r][o]
    /\ \A c \in SignalCommands : receipt[r][c] # NoReceipt => receipt'[r][c] = receipt[r][c]
    /\ run[r].status = "waiting" /\ run'[r].revision # run[r].revision =>
           consumption'[r][run[r].waits] # None \/ run'[r].status \in Ended

RunType == [status : Statuses, revision : Nat, generation : Nat, waits : 0..MaxWaits, open : BOOLEAN]
TerminationType == [by : {"none", "stop", "signal", "drive"},
                    cmd : StopCommands \cup SignalCommands \cup {None}, revision : Nat]
MemType == [expected : Nat, generation : Nat, attempt : 1..AcquireAttempts, revision : Nat]

-----------------------------------------------------------------------------
(* Types.                                                                  *)

\* A request's operation tells its kind.
LEMMA OpTyped ==
    ASSUME TypeOK, NEW p \in Processes
    PROVE  /\ req[p].op = "start" => req[p] \in StartRequest
           /\ req[p].op = "stop" => req[p] \in StopRequest
           /\ req[p].op = "signal" => req[p] \in SignalRequest
<1>1. req[p] \in {Idle} \cup StartRequest \cup StopRequest \cup SignalRequest
    BY DEF TypeOK
<1>2. Idle.op = "none"
    BY DEF Idle
<1>3. \A q \in StartRequest : q.op = "start"
    BY DEF StartRequest
<1>4. \A q \in StopRequest : q.op = "stop"
    BY DEF StopRequest
<1>5. \A q \in SignalRequest : q.op = "signal"
    BY DEF SignalRequest
<1>6. QED
    BY <1>1, <1>2, <1>3, <1>4, <1>5

\* The fields of the requests.
LEMMA RequestFields ==
    /\ \A q \in StartRequest : /\ q.op = "start" /\ q.run \in Runs /\ q.cmd \in StartCommands
                               /\ q.body \in StartBodies
    /\ \A q \in StopRequest : /\ q.op = "stop" /\ q.run \in Runs /\ q.cmd \in StopCommands
                              /\ q.revision \in Nat
    /\ \A q \in SignalRequest : /\ q.op = "signal" /\ q.run \in Runs /\ q.cmd \in SignalCommands
                                /\ q.occurrence \in Occurrences /\ q.body \in SignalBodies
<1>1. MaxRevision \in Nat
    BY IngressAssumption DEF MaxRevision
<1>2. QED
    BY <1>1 DEF StartRequest, StopRequest, SignalRequest

\* The fields of the stored aggregates and of a process's memory.
LEMMA Fields ==
    ASSUME TypeOK
    PROVE  /\ owner.state \in {"none", "active", "released"} /\ owner.run \in Runs \cup {None}
           /\ owner.generation \in Nat /\ owner.revision \in Nat
           /\ \A r \in Runs : /\ run[r] \in RunType
                              /\ run[r].status \in Statuses /\ run[r].revision \in Nat
                              /\ run[r].generation \in Nat /\ run[r].waits \in 0..MaxWaits
                              /\ run[r].open \in BOOLEAN
                              /\ termination[r].revision \in Nat
           /\ \A p \in Processes : /\ mem[p].expected \in Nat /\ mem[p].generation \in Nat
                                   /\ mem[p].attempt \in 1..AcquireAttempts /\ mem[p].revision \in Nat
                                   /\ answer[p].generation \in Nat
BY DEF TypeOK, RunType

\* A step that leaves the store alone keeps what the store holds.
LEMMA SameDurable ==
    ASSUME Inv, UNCHANGED durable
    PROVE  DurableOK' /\ \A r \in Runs : Forward(r)
<1>1. DurableOK'
    BY DEF Inv, durable, DurableOK, OwnerOK, RunOK, WaitOK
<1>2. \A r \in Runs : Forward(r)
    BY Fields DEF Inv, durable, Forward
<1>3. QED
    BY <1>1, <1>2

-----------------------------------------------------------------------------
(* The processes that do not move.                                         *)

\* An occurrence that has passed stays so.
LEMMA PassedStays ==
    ASSUME NEW r \in Runs, NEW o \in Occurrences, Forward(r), Passed(r, o)
    PROVE  Passed(r, o)' /\ (run[r].status \in Ended => consumption'[r][o] = consumption[r][o])
                         /\ (consumption[r][o] # None => consumption'[r][o] = consumption[r][o])
BY DEF Forward, Passed

\* What was true of a request stays true, whatever commit comes next.
LEMMA TruthStays ==
    ASSUME Inv, TypeOK', NEW p \in Processes, \A r \in Runs : Forward(r),
           NEW kind, NEW generation, Truthful(req[p], kind, generation), req'[p] = req[p]
    PROVE  Truthful(req[p], kind, generation)'
<1> DEFINE q == req[p]
<1>0. TypeOK
    BY DEF Inv
<1>1. CASE q.op = "start"
    <2>1. q.run \in Runs /\ q.cmd \in StartCommands /\ q.body \in StartBodies
        BY <1>0, <1>1, OpTyped, RequestFields
    <2>2. Forward(q.run)
        BY <2>1
    <2>3. None \notin StartBodies
        BY IngressAssumption
    <2>4. QED
        BY <1>1, <2>1, <2>2, <2>3 DEF Truthful, Forward
<1>2. CASE q.op = "stop"
    <2>1. q.run \in Runs /\ q.cmd \in StopCommands /\ q.revision \in Nat
        BY <1>0, <1>2, OpTyped, RequestFields
    <2>2. Forward(q.run)
        BY <2>1
    <2>3. run[q.run].revision \in Nat /\ run'[q.run].revision \in Nat
        BY <1>0, <2>1, Fields, TypeOK' DEF TypeOK
    <2>4. QED
        BY <1>2, <2>1, <2>2, <2>3 DEF Truthful, Forward
<1>3. CASE q.op = "signal"
    <2>1. q.run \in Runs /\ q.cmd \in SignalCommands /\ q.occurrence \in Occurrences
        BY <1>0, <1>3, OpTyped, RequestFields
    <2>2. Forward(q.run)
        BY <2>1
    <2>3. None \notin SignalCommands
        BY IngressAssumption
    <2>4. ASSUME kind \in {"applied", "replay"}
          PROVE  consumption'[q.run][q.occurrence] = q.cmd
        BY <1>3, <2>1, <2>2, <2>3, <2>4 DEF Truthful, Forward
    <2>5. ASSUME kind = "revision-conflict"
          PROVE  consumption'[q.run][q.occurrence] # q.cmd /\ Passed(q.run, q.occurrence)'
        BY <1>3, <2>1, <2>2, <2>5, PassedStays DEF Truthful, Passed
    <2>6. QED
        BY <1>3, <2>1, <2>4, <2>5 DEF Truthful
<1>4. CASE q.op \notin {"start", "stop", "signal"}
    BY <1>4 DEF Truthful
<1>5. QED
    BY <1>1, <1>2, <1>3, <1>4

\* A process that does not move keeps its part of the invariant.
LEMMA OthersKeep ==
    ASSUME Inv, TypeOK', NEW p \in Processes, \A r \in Runs : Forward(r),
           pc'[p] = pc[p], req'[p] = req[p], mem'[p] = mem[p], answer'[p] = answer[p]
    PROVE  LocalOK(p)'
<1> DEFINE q == req[p]
<1>0. TypeOK /\ LocalOK(p)
    BY DEF Inv
<1>1. \A r \in Runs : /\ run[r].revision \in Nat /\ run'[r].revision \in Nat
                      /\ run[r].revision <= run'[r].revision
    BY <1>0, Fields, TypeOK' DEF TypeOK, Forward
<1>2. RequestOK(p)'
    <2>1. ASSUME q.op = "stop"
          PROVE  q.revision <= run'[q.run].revision
        <3>1. q.run \in Runs /\ q.revision \in Nat
            BY <1>0, <2>1, OpTyped, RequestFields
        <3>2. q.revision <= run[q.run].revision
            BY <1>0, <2>1 DEF LocalOK, RequestOK
        <3>3. QED
            BY <1>1, <3>1, <3>2
    <2>2. QED
        BY <1>0, <2>1 DEF LocalOK, RequestOK
<1>3. FenceOK(p)'
    <2>1. pc[p] = "publish" => mem'[p].expected + 2 = 2 * mem'[p].generation
        BY <1>0 DEF LocalOK, FenceOK
    <2>2. ASSUME pc[p] = "freeze", run'[q.run].revision = q.revision
          PROVE  run'[q.run].status \in Live \ {"stopping"}
        <3>1. q.run \in Runs /\ q.revision \in Nat /\ q.op = "stop"
            BY <1>0, <2>2, RequestFields DEF LocalOK, RequestOK, StopPCs
        <3>2. q.revision <= run[q.run].revision
            BY <1>0, <3>1 DEF LocalOK, RequestOK
        <3>3. run[q.run].revision = q.revision
            BY <1>1, <2>2, <3>1, <3>2
        <3>4. run'[q.run].status = run[q.run].status
            BY <2>2, <3>1, <3>3 DEF Forward
        <3>5. QED
            BY <1>0, <2>2, <3>3, <3>4 DEF LocalOK, FenceOK
    <2>3. ASSUME pc[p] \in SignalPCs
          PROVE  q.run \in Runs /\ q.occurrence \in Occurrences /\ q.cmd \in SignalCommands
                 /\ Forward(q.run)
        BY <1>0, <2>3, RequestFields DEF LocalOK, RequestOK
    <2>4. ASSUME pc[p] = "consume"
          PROVE  /\ mem[p].revision <= run'[q.run].revision
                 /\ mem[p].revision = run'[q.run].revision =>
                        run'[q.run].status = "waiting" /\ run'[q.run].waits = q.occurrence
                 /\ mem[p].revision # run'[q.run].revision => Passed(q.run, q.occurrence)'
        <3>1. q.run \in Runs /\ q.occurrence \in Occurrences /\ Forward(q.run)
            BY <2>3, <2>4 DEF SignalPCs
        <3>2. /\ mem[p].revision <= run[q.run].revision
              /\ mem[p].revision = run[q.run].revision =>
                     run[q.run].status = "waiting" /\ run[q.run].waits = q.occurrence
              /\ mem[p].revision # run[q.run].revision => Passed(q.run, q.occurrence)
            BY <1>0, <2>4 DEF LocalOK, FenceOK
        <3>3. mem[p].revision \in Nat
            BY <1>0, Fields
        <3>4. CASE mem[p].revision # run[q.run].revision
            <4>1. Passed(q.run, q.occurrence)'
                BY <3>1, <3>2, <3>4, PassedStays
            <4>2. QED
                BY <1>1, <3>1, <3>2, <3>3, <3>4, <4>1
        <3>5. CASE mem[p].revision = run[q.run].revision
            BY <1>1, <3>1, <3>2, <3>3, <3>5 DEF Forward, Passed
        <3>6. QED
            BY <3>4, <3>5
    <2>5. ASSUME pc[p] = "reread"
          PROVE  receipt'[q.run][q.cmd] # NoReceipt \/ Passed(q.run, q.occurrence)'
        <3>1. q.run \in Runs /\ q.occurrence \in Occurrences /\ q.cmd \in SignalCommands /\ Forward(q.run)
            BY <2>3, <2>5 DEF SignalPCs
        <3>2. CASE receipt[q.run][q.cmd] # NoReceipt
            BY <3>1, <3>2 DEF Forward
        <3>3. CASE Passed(q.run, q.occurrence)
            BY <3>1, <3>3, PassedStays
        <3>4. QED
            BY <1>0, <2>5, <3>2, <3>3 DEF LocalOK, FenceOK
    <2>6. ASSUME pc[p] = "reread-consumption"
          PROVE  Passed(q.run, q.occurrence)'
        <3>1. q.run \in Runs /\ q.occurrence \in Occurrences /\ Forward(q.run)
            BY <2>3, <2>6 DEF SignalPCs
        <3>2. Passed(q.run, q.occurrence)
            BY <1>0, <2>6 DEF LocalOK, FenceOK
        <3>3. QED
            BY <3>1, <3>2, PassedStays
    <2>7. QED
        BY <2>1, <2>2, <2>4, <2>5, <2>6 DEF FenceOK
<1>4. AnswerOK(p)'
    <2>1. Truthful(req[p], answer[p].kind, answer[p].generation)
        BY <1>0 DEF LocalOK, AnswerOK
    <2>2. Truthful(req[p], answer[p].kind, answer[p].generation)'
        BY <1>0, <2>1, TruthStays
    <2>3. QED
        BY <2>2 DEF AnswerOK
<1>5. QED
    BY <1>2, <1>3, <1>4 DEF LocalOK

-----------------------------------------------------------------------------
(* The shapes of a step.                                                   *)

StoreTyped ==
    /\ owner \in [state : {"none", "active", "released"}, run : Runs \cup {None},
                  generation : Nat, revision : Nat]
    /\ run \in [Runs -> RunType]
    /\ termination \in [Runs -> [by : {"none", "stop", "signal", "drive"},
                                 cmd : StopCommands \cup SignalCommands \cup {None},
                                 revision : Nat]]
    /\ admission \in [Runs -> [StartCommands -> StartBodies \cup {None}]]
    /\ receipt \in [Runs -> [SignalCommands -> [occurrence : 0..MaxWaits,
                                                body : SignalBodies \cup {None}]]]
    /\ consumption \in [Runs -> [Occurrences -> SignalCommands \cup {None}]]

Requests == {Idle} \cup StartRequest \cup StopRequest \cup SignalRequest

LocalsTyped ==
    /\ pc \in [Processes -> PCs]
    /\ req \in [Processes -> Requests]
    /\ mem \in [Processes -> MemType]
    /\ answer \in [Processes -> [kind : Answers \cup {"none"}, generation : Nat]]

\* The type invariant of the store and that of the processes.
LEMMA TypeParts == TypeOK <=> StoreTyped /\ LocalsTyped
BY DEF TypeOK, StoreTyped, LocalsTyped, RunType, MemType, Requests

\* What a process has read when it starts is blank.
LEMMA BlankTyped == Blank \in MemType /\ Blank.attempt = 1
BY IngressAssumption DEF Blank, MemType

\* A commit that no process of a command makes.
LEMMA OnlyDrives ==
    ASSUME Inv, StoreTyped', DurableOK', \A r \in Runs : Forward(r), UNCHANGED <<pc, req, mem, answer>>
    PROVE  Inv'
<1>1. LocalsTyped'
    BY TypeParts DEF Inv, LocalsTyped
<1>2. TypeOK'
    BY <1>1, TypeParts, StoreTyped' DEF TypeOK, StoreTyped, LocalsTyped, RunType, MemType, Requests
<1>3. ASSUME NEW p \in Processes
      PROVE  LocalOK(p)'
    BY <1>2, <1>3, OthersKeep
<1>4. QED
    BY <1>2, <1>3 DEF Inv

\* One process acts.
LEMMA StepOfOne ==
    ASSUME Inv, TypeOK', DurableOK', \A r \in Runs : Forward(r),
           NEW p \in Processes, LocalOK(p)',
           \A s \in Processes \ {p} : /\ pc'[s] = pc[s] /\ req'[s] = req[s]
                                      /\ mem'[s] = mem[s] /\ answer'[s] = answer[s]
    PROVE  Inv'
<1>1. ASSUME NEW s \in Processes \ {p}
      PROVE  LocalOK(s)'
    BY <1>1, OthersKeep
<1>2. \A s \in Processes : LocalOK(s)'
    BY <1>1
<1>3. QED
    BY <1>2 DEF Inv

\* A command that ends with a true answer, whatever it committed.
LEMMA ReplyKeeps ==
    ASSUME Inv, StoreTyped', DurableOK', \A r \in Runs : Forward(r),
           NEW p \in Processes, NEW kind \in Answers, NEW generation \in Nat,
           Reply(p, kind, generation), Truthful(req[p], kind, generation)'
    PROVE  Inv'
<1>0. TypeOK /\ LocalOK(p) /\ LocalsTyped
    BY TypeParts DEF Inv
<1>1. /\ pc'[p] = "done" /\ req' = req /\ mem'[p] = Blank
      /\ answer'[p].kind = kind /\ answer'[p].generation = generation
    BY <1>0 DEF Reply, LocalsTyped
<1>2. LocalsTyped'
    <2>1. [kind |-> kind, generation |-> generation] \in [kind : Answers \cup {"none"}, generation : Nat]
        OBVIOUS
    <2>2. "done" \in PCs
        BY DEF PCs
    <2>3. QED
        BY <1>0, <2>1, <2>2, BlankTyped DEF Reply, LocalsTyped
<1>3. TypeOK'
    BY <1>2, StoreTyped' DEF TypeOK, StoreTyped, LocalsTyped, RunType, MemType, Requests
<1>4. \A s \in Processes \ {p} : /\ pc'[s] = pc[s] /\ req'[s] = req[s]
                                 /\ mem'[s] = mem[s] /\ answer'[s] = answer[s]
    BY <1>0 DEF Reply, LocalsTyped
<1>5. RequestOK(p)'
    <2>1. ASSUME req[p].op = "stop"
          PROVE  req[p].revision <= run'[req[p].run].revision
        <3>1. req[p].run \in Runs /\ req[p].revision \in Nat
            BY <1>0, <2>1, OpTyped, RequestFields
        <3>2. req[p].revision <= run[req[p].run].revision
            BY <1>0, <2>1 DEF LocalOK, RequestOK
        <3>3. /\ run[req[p].run].revision \in Nat /\ run'[req[p].run].revision \in Nat
              /\ run[req[p].run].revision <= run'[req[p].run].revision
            BY <1>0, <1>3, <3>1, Fields DEF TypeOK, Forward
        <3>4. QED
            BY <3>1, <3>2, <3>3
    <2>2. QED
        BY <1>1, <2>1 DEF RequestOK, StartPCs, StopPCs, SignalPCs
<1>6. FenceOK(p)'
    BY <1>1 DEF FenceOK
<1>7. AnswerOK(p)'
    BY <1>1 DEF AnswerOK
<1>8. QED
    BY <1>3, <1>4, <1>5, <1>6, <1>7, StepOfOne DEF LocalOK

\* A command that ends with a true answer and leaves the store alone.
LEMMA AnswerKeeps ==
    ASSUME Inv, NEW p \in Processes, NEW kind \in Answers, NEW generation \in Nat,
           Reply(p, kind, generation), UNCHANGED durable, Truthful(req[p], kind, generation)
    PROVE  Inv'
<1>1. DurableOK' /\ \A r \in Runs : Forward(r)
    BY SameDurable
<1>2. StoreTyped'
    BY TypeParts DEF Inv, durable, StoreTyped
<1>3. TypeOK'
    <2>1. LocalsTyped
        BY TypeParts DEF Inv
    <2>2. [kind |-> kind, generation |-> generation] \in [kind : Answers \cup {"none"}, generation : Nat]
        OBVIOUS
    <2>3. LocalsTyped'
        BY <2>1, <2>2, BlankTyped DEF Reply, LocalsTyped, PCs
    <2>4. QED
        BY <1>2, <2>3 DEF TypeOK, StoreTyped, LocalsTyped, RunType, MemType, Requests
<1>4. req'[p] = req[p]
    BY DEF Reply
<1>5. Truthful(req[p], kind, generation)'
    BY <1>1, <1>3, <1>4, TruthStays
<1>6. QED
    BY <1>1, <1>2, <1>5, ReplyKeeps

\* A step that reads and goes on.
LEMMA GotoKeeps ==
    ASSUME Inv, NEW p \in Processes, NEW at \in PCs, Goto(p, at),
           mem' \in [Processes -> MemType], \A s \in Processes \ {p} : mem'[s] = mem[s],
           \/ pc[p] \in StartPCs /\ at \in StartPCs
           \/ pc[p] \in StopPCs /\ at \in StopPCs
           \/ pc[p] \in SignalPCs /\ at \in SignalPCs,
           FenceOK(p)'
    PROVE  Inv'
<1>0. TypeOK /\ LocalOK(p) /\ LocalsTyped /\ StoreTyped
    BY TypeParts DEF Inv
<1>1. DurableOK' /\ \A r \in Runs : Forward(r)
    BY SameDurable DEF Goto
<1>2. TypeOK'
    <2>1. StoreTyped'
        BY <1>0 DEF Goto, durable, StoreTyped
    <2>2. LocalsTyped'
        BY <1>0 DEF Goto, LocalsTyped
    <2>3. QED
        BY <2>1, <2>2 DEF TypeOK, StoreTyped, LocalsTyped, RunType, MemType, Requests
<1>3. /\ pc'[p] = at /\ req'[p] = req[p] /\ answer'[p] = answer[p]
      /\ run' = run /\ termination' = termination /\ admission' = admission
      /\ consumption' = consumption
    BY <1>0 DEF Goto, LocalsTyped, durable
<1>4. RequestOK(p)'
    BY <1>0, <1>3 DEF LocalOK, RequestOK, StartPCs, StopPCs, SignalPCs
<1>5. AnswerOK(p)'
    BY <1>0, <1>3 DEF LocalOK, AnswerOK, Truthful, Passed
<1>6. \A s \in Processes \ {p} : /\ pc'[s] = pc[s] /\ req'[s] = req[s]
                                 /\ mem'[s] = mem[s] /\ answer'[s] = answer[s]
    BY <1>0 DEF Goto, LocalsTyped
<1>7. LocalOK(p)'
    BY <1>4, <1>5 DEF LocalOK
<1>8. QED
    BY <1>1, <1>2, <1>6, <1>7, StepOfOne

-----------------------------------------------------------------------------
(* Commands begin and are abandoned.                                       *)

\* A process takes on a request.
LEMMA BeginKeeps ==
    ASSUME Inv, NEW p \in Processes, NEW q, NEW at, Begin(p, q, at),
           \/ q \in StartRequest /\ at = "lookup"
           \/ q \in StopRequest /\ at = "fence" /\ q.revision <= run[q.run].revision
           \/ q \in SignalRequest /\ at = "authorize"
    PROVE  Inv'
<1>0. TypeOK /\ LocalOK(p) /\ LocalsTyped /\ StoreTyped
    BY TypeParts DEF Inv
<1>1. DurableOK' /\ \A r \in Runs : Forward(r)
    BY SameDurable DEF Begin
<1>2. TypeOK'
    <2>1. StoreTyped'
        BY <1>0 DEF Begin, durable, StoreTyped
    <2>2. at \in PCs /\ q \in Requests
        BY DEF PCs, Requests
    <2>3. LocalsTyped'
        BY <1>0, <2>2 DEF Begin, LocalsTyped
    <2>4. QED
        BY <2>1, <2>3 DEF TypeOK, StoreTyped, LocalsTyped, RunType, MemType, Requests
<1>3. /\ pc'[p] = at /\ req'[p] = q /\ answer'[p] = answer[p] /\ run' = run
      /\ answer[p].kind = "none"
    BY <1>0 DEF Begin, LocalsTyped, durable, LocalOK, RequestOK
<1>4. RequestOK(p)'
    BY <1>3, RequestFields DEF RequestOK, StartPCs, StopPCs, SignalPCs
<1>5. FenceOK(p)'
    BY <1>3 DEF FenceOK
<1>6. AnswerOK(p)'
    BY <1>3 DEF AnswerOK, Truthful
<1>7. \A s \in Processes \ {p} : /\ pc'[s] = pc[s] /\ req'[s] = req[s]
                                 /\ mem'[s] = mem[s] /\ answer'[s] = answer[s]
    BY <1>0 DEF Begin, LocalsTyped
<1>8. LocalOK(p)'
    BY <1>4, <1>5, <1>6 DEF LocalOK
<1>9. QED
    BY <1>1, <1>2, <1>7, <1>8, StepOfOne

\* Every command begins with a request of its kind.
LEMMA BeginsKeep ==
    ASSUME Inv, NEW p \in Processes, BeginStart(p) \/ BeginStop(p) \/ BeginSignal(p)
    PROVE  Inv'
<1>1. CASE BeginStart(p)
    <2>1. PICK q \in Starts : Begin(p, q, "lookup")
        BY <1>1 DEF BeginStart
    <2>2. q \in StartRequest
        BY IngressAssumption DEF StartRequest
    <2>3. QED
        BY <2>1, <2>2, BeginKeeps
<1>2. CASE BeginStop(p)
    <2>1. PICK q \in StopRequest : /\ q.revision \in {run[q.run].revision, termination[q.run].revision}
                                   /\ Begin(p, q, "fence")
        BY <1>2 DEF BeginStop
    <2>2. q.run \in Runs
        BY RequestFields
    <2>3. run[q.run].revision \in Nat /\ termination[q.run].revision <= run[q.run].revision
        BY <2>2, Fields DEF Inv, DurableOK, RunOK
    <2>4. q.revision <= run[q.run].revision
        BY <2>1, <2>3
    <2>5. QED
        BY <2>1, <2>4, BeginKeeps
<1>3. CASE BeginSignal(p)
    <2>1. PICK q \in Signals : Begin(p, q, "authorize")
        BY <1>3 DEF BeginSignal
    <2>2. q \in SignalRequest
        BY IngressAssumption DEF SignalRequest, Occurrences
    <2>3. QED
        BY <2>1, <2>2, BeginKeeps
<1>4. QED
    BY <1>1, <1>2, <1>3

\* The caller has its outcome, or the process crashed.
LEMMA LeaveKeeps ==
    ASSUME Inv, NEW p \in Processes, Leave(p)
    PROVE  Inv'
<1>0. TypeOK /\ LocalsTyped /\ StoreTyped
    BY TypeParts DEF Inv
<1>1. DurableOK' /\ \A r \in Runs : Forward(r)
    BY SameDurable DEF Leave
<1>2. TypeOK'
    <2>1. StoreTyped'
        BY <1>0 DEF Leave, durable, StoreTyped
    <2>2. "idle" \in PCs /\ Idle \in Requests /\ NoAnswer \in [kind : Answers \cup {"none"}, generation : Nat]
        BY DEF PCs, Requests, NoAnswer
    <2>3. LocalsTyped'
        BY <1>0, <2>2, BlankTyped DEF Leave, LocalsTyped
    <2>4. QED
        BY <2>1, <2>3 DEF TypeOK, StoreTyped, LocalsTyped, RunType, MemType, Requests
<1>3. pc'[p] = "idle" /\ req'[p] = Idle /\ answer'[p] = NoAnswer
    BY <1>0 DEF Leave, LocalsTyped
<1>4. LocalOK(p)'
    BY <1>3 DEF LocalOK, RequestOK, FenceOK, AnswerOK, Truthful, Idle, NoAnswer, StartPCs, StopPCs, SignalPCs
<1>5. \A s \in Processes \ {p} : /\ pc'[s] = pc[s] /\ req'[s] = req[s]
                                 /\ mem'[s] = mem[s] /\ answer'[s] = answer[s]
    BY <1>0 DEF Leave, LocalsTyped
<1>6. QED
    BY <1>1, <1>2, <1>4, <1>5, StepOfOne

-----------------------------------------------------------------------------
(* Invoke.                                                                 *)

\* An admission receipt answers truthfully.
LEMMA FromAdmissionKeeps ==
    ASSUME Inv, NEW p \in Processes, NEW at \in StartPCs \ {"publish"}, pc[p] \in StartPCs,
           AnswerFromAdmission(p, at)
    PROVE  Inv'
<1> DEFINE q == req[p]
<1> DEFINE known == admission[q.run][q.cmd]
<1>0. TypeOK /\ DurableOK /\ q \in StartRequest
    BY DEF Inv, LocalOK, RequestOK
<1>1. q.op = "start" /\ q.run \in Runs /\ q.cmd \in StartCommands /\ q.body \in StartBodies
    BY <1>0, RequestFields
<1>2. run[q.run].generation \in Nat /\ (run[q.run].status = "absent" <=> run[q.run].generation = 0)
    BY <1>0, <1>1, Fields DEF DurableOK, OwnerOK
<1>3. known # None => run[q.run].status # "absent"
    BY <1>0, <1>1 DEF DurableOK, RunOK
<1>4. CASE Goto(p, at) /\ UNCHANGED mem
    <2>1. mem' \in [Processes -> MemType] /\ at \in PCs
        BY <1>0, <1>4, TypeParts DEF LocalsTyped, StartPCs, PCs
    <2>2. pc'[p] = at
        BY <1>0, <1>4 DEF Goto, TypeOK
    <2>3. FenceOK(p)'
        BY <2>2 DEF FenceOK, StartPCs
    <2>4. QED
        BY <1>4, <2>1, <2>3, GotoKeeps
<1>5. CASE known = q.body /\ Reply(p, "replay", run[q.run].generation) /\ UNCHANGED durable
    <2>1. known # None
        BY <1>1, <1>5, IngressAssumption
    <2>2. Truthful(q, "replay", run[q.run].generation)
        BY <1>1, <1>2, <1>3, <1>5, <2>1 DEF Truthful
    <2>3. QED
        BY <1>2, <1>5, <2>2, AnswerKeeps DEF Answers
<1>6. CASE known \notin {None, q.body} /\ Return(p, "identity-conflict")
    <2>1. Truthful(q, "identity-conflict", 0)
        BY <1>1, <1>6 DEF Truthful
    <2>2. QED
        BY <1>6, <2>1, AnswerKeeps DEF Answers, Return
<1>7. QED
    BY <1>4, <1>5, <1>6 DEF AnswerFromAdmission

\* The acquisition expects the revision that the generation it takes implies.
LEMMA PrepareKeeps ==
    ASSUME Inv, NEW p \in Processes, PrepareAcquire(p)
    PROVE  Inv'
<1> DEFINE expected == IF owner.state = "released" THEN owner.revision ELSE 0
           generation == IF owner.state = "released" THEN owner.generation + 1 ELSE 1
<1>0. TypeOK /\ DurableOK /\ LocalsTyped
    BY TypeParts DEF Inv
<1>1. expected \in Nat /\ generation \in Nat /\ expected + 2 = 2 * generation
    BY <1>0, Fields DEF DurableOK, OwnerOK
<1>2. pc[p] = "acquire" /\ Goto(p, "publish")
    BY DEF PrepareAcquire
<1>3. mem' = [mem EXCEPT ![p].expected = expected, ![p].generation = generation]
    BY DEF PrepareAcquire
<1> HIDE DEF expected, generation
<1>4. mem' \in [Processes -> MemType]
    <2> DEFINE f1 == [mem[p] EXCEPT !.expected = expected]
               f2 == [f1 EXCEPT !.generation = generation]
    <2>1. mem' = [mem EXCEPT ![p] = f2]
        BY <1>0, <1>3 DEF LocalsTyped
    <2>2. f1 \in MemType
        BY <1>0, <1>1 DEF LocalsTyped, MemType
    <2> HIDE DEF f1
    <2>3. f2 \in MemType
        BY <1>1, <2>2 DEF MemType
    <2> HIDE DEF f2
    <2>4. QED
        BY <1>0, <2>1, <2>3 DEF LocalsTyped
<1>a. \A s \in Processes \ {p} : mem'[s] = mem[s]
    BY <1>0, <1>3 DEF LocalsTyped
<1>5. mem'[p].expected = expected /\ mem'[p].generation = generation
    BY <1>0, <1>1, <1>3 DEF LocalsTyped, MemType
<1>6. pc'[p] = "publish"
    BY <1>0, <1>2 DEF Goto, LocalsTyped
<1>7. FenceOK(p)'
    BY <1>1, <1>5, <1>6 DEF FenceOK
<1>8. QED
    BY <1>2, <1>4, <1>7, <1>a, GotoKeeps DEF StartPCs, PCs

\* The parity of the revision that the admitting commit expects tells that
\* nobody holds the key, and its generation is the next one.
LEMMA PublishIsNext ==
    ASSUME Inv, NEW p \in Processes, pc[p] = "publish", Publish(p)
    PROVE  owner.state # "active" /\ mem[p].generation = owner.generation + 1
<1>1. /\ owner.revision \in Nat /\ owner.generation \in Nat /\ owner.state \in {"none", "active", "released"}
      /\ mem[p].generation \in Nat /\ mem[p].expected \in Nat
    BY Fields DEF Inv
<1>2. mem[p].expected + 2 = 2 * mem[p].generation
    BY DEF Inv, LocalOK, FenceOK
<1>3. owner.revision = mem[p].expected
    BY DEF Publish
<1>4. /\ owner.state = "none" => owner.generation = 0 /\ owner.revision = 0
      /\ owner.state = "active" => owner.revision + 1 = 2 * owner.generation
      /\ owner.state = "released" => owner.revision = 2 * owner.generation
    BY DEF Inv, DurableOK, OwnerOK
<1>5. QED
    BY <1>1, <1>2, <1>3, <1>4

\* The commit that admits a Run keeps the invariant.
LEMMA PublishKeeps ==
    ASSUME Inv, NEW p \in Processes, pc[p] = "publish", Publish(p)
    PROVE  Inv'
<1>0. TypeOK /\ DurableOK /\ StoreTyped /\ req[p] \in StartRequest /\ LocalOK(p)
    BY TypeParts DEF Inv, LocalOK, RequestOK, StartPCs
<1>m. PICK g \in Nat : g = mem[p].generation
    BY <1>0, Fields
<1> DEFINE q == req[p]
           accepted == [status |-> "accepted", revision |-> 1, generation |-> g, waits |-> 0, open |-> FALSE]
<1>1. q.op = "start" /\ q.run \in Runs /\ q.cmd \in StartCommands /\ q.body \in StartBodies
    BY <1>0, RequestFields
<1>2. g \in Nat /\ mem[p].expected \in Nat /\ mem[p].expected + 2 = 2 * g
    BY <1>0, <1>m, Fields DEF LocalOK, FenceOK
<1>3. owner.revision = mem[p].expected /\ run[q.run].status = "absent" /\ admission[q.run][q.cmd] = None
    BY DEF Publish
<1>4. owner.state # "active" /\ g = owner.generation + 1 /\ g # 0
    BY <1>0, <1>2, <1>m, PublishIsNext, Fields
<1>5. /\ owner' = [state |-> "active", run |-> q.run, generation |-> g, revision |-> mem[p].expected + 1]
      /\ run' = [run EXCEPT ![q.run] = accepted]
      /\ admission' = [admission EXCEPT ![q.run][q.cmd] = q.body]
      /\ UNCHANGED <<termination, receipt, consumption>>
    BY <1>m DEF Publish
<1>6. Reply(p, "accepted", g)
    BY <1>m DEF Publish
<1>7. accepted \in RunType
    BY <1>2, IngressAssumption DEF RunType, Statuses
<1>a. /\ accepted.status = "accepted" /\ accepted.revision = 1 /\ accepted.generation = g
      /\ accepted.waits = 0 /\ accepted.open = FALSE
    OBVIOUS
<1> HIDE DEF accepted
<1>8. StoreTyped'
    BY <1>0, <1>1, <1>2, <1>5, <1>7 DEF StoreTyped
<1>9. /\ run'[q.run] = accepted
      /\ \A r \in Runs \ {q.run} : run'[r] = run[r] /\ admission'[r] = admission[r]
      /\ admission'[q.run][q.cmd] = q.body
      /\ \A c \in StartCommands \ {q.cmd} : admission'[q.run][c] = admission[q.run][c]
    BY <1>0, <1>1, <1>5 DEF StoreTyped
<1>b. \A r \in Runs : run[r].status \notin Live /\ run[r].generation < g
    BY <1>0, <1>2, <1>4, Fields DEF DurableOK, OwnerOK
<1>c. OwnerOK'
    <2>1. /\ owner'.state = "active" /\ owner'.run = q.run /\ owner'.generation = g
          /\ owner'.revision + 1 = 2 * owner'.generation
        BY <1>2, <1>5
    <2>2. \A r \in Runs : run'[r].status \in Live <=> r = q.run
        BY <1>1, <1>9, <1>a, <1>b DEF Live
    <2>3. \A r \in Runs : run'[r].generation \in Nat /\ run'[r].generation <= g
        BY <1>0, <1>1, <1>2, <1>9, <1>a, <1>b, Fields
    <2>4. \A r \in Runs : run'[r].status = "absent" <=> run'[r].generation = 0
        BY <1>0, <1>1, <1>4, <1>9, <1>a DEF DurableOK, OwnerOK
    <2>5. \A r \in Runs : run'[r].generation = g <=> r = q.run
        BY <1>0, <1>1, <1>2, <1>9, <1>a, <1>b, Fields
    <2>6. ASSUME NEW r \in Runs, NEW s \in Runs,
                 run'[r].generation = run'[s].generation, run'[r].generation # 0
          PROVE  r = s
        <3>1. CASE r = q.run \/ s = q.run
            BY <1>1, <2>5, <2>6, <3>1
        <3>2. CASE r # q.run /\ s # q.run
            BY <1>0, <1>9, <2>6, <3>2 DEF DurableOK, OwnerOK
        <3>3. QED
            BY <3>1, <3>2
    <2>7. QED
        BY <1>1, <1>9, <1>a, <2>1, <2>2, <2>3, <2>4, <2>6 DEF OwnerOK
<1>d. ASSUME NEW r \in Runs
      PROVE  (RunOK(r) /\ WaitOK(r))' /\ Forward(r)
    <2>0. RunOK(r) /\ WaitOK(r)
        BY <1>0 DEF DurableOK
    <2>1. CASE r # q.run
        <3>1. run'[r] = run[r] /\ admission'[r] = admission[r]
            BY <1>9, <2>1
        <3>2. Forward(r)
            BY <1>0, <1>5, <3>1, Fields DEF Forward
        <3>3. (RunOK(r) /\ WaitOK(r))'
            BY <1>5, <2>0, <3>1 DEF RunOK, WaitOK
        <3>4. QED
            BY <3>2, <3>3
    <2>2. CASE r = q.run
        <3>1. termination[r] = NoTermination /\ run[r].waits = 0 /\ run[r].revision = 0 /\ run[r].open = FALSE
            BY <1>3, <2>0, <2>2 DEF RunOK, Ended
        <3>2. RunOK(r)'
            BY <1>5, <1>9, <1>a, <2>2, <3>1 DEF RunOK, Ended, NoTermination
        <3>4. \A o \in Occurrences : ~(o <= 0)
            BY IngressAssumption DEF Occurrences
        <3>3. \A o \in Occurrences : consumption[r][o] = None
            <4>1. \A o \in Occurrences : consumption[r][o] # None => o <= run[r].waits
                BY <1>3, <2>0, <2>2, SMTT(30) DEF WaitOK, Ended
            <4>2. QED
                BY <3>1, <3>4, <4>1
        <3>5. WaitOK(r)'
            BY <1>5, <1>9, <1>a, <2>0, <2>2, <3>3, <3>4, Zenon DEF WaitOK, Ended
        <3>6. run[r].generation = 0
            BY <1>0, <1>1, <1>3, <2>2 DEF DurableOK, OwnerOK
        <3>7. Forward(r)
            BY <1>3, <1>5, <1>9, <1>a, <2>2, <3>1, <3>6 DEF Forward, Ended, Terminal
        <3>8. QED
            BY <3>2, <3>5, <3>7
    <2>3. QED
        BY <2>1, <2>2
<1>e. DurableOK'
    BY <1>c, <1>d DEF DurableOK
<1>f. Truthful(req[p], "accepted", g)'
    <2>1. req' = req /\ q.op = "start"
        BY <1>1, <1>6 DEF Reply
    <2>2. QED
        BY <1>4, <1>9, <1>a, <2>1 DEF Truthful
<1>g. QED
    BY <1>2, <1>6, <1>8, <1>d, <1>e, <1>f, ReplyKeeps DEF Answers

\* The other outcomes of the commit and the reads after a conflict.
LEMMA StartReadsKeep ==
    ASSUME Inv, NEW p \in Processes,
           \/ pc[p] = "publish" /\ (PublishReplay(p) \/ PublishConflict(p))
           \/ ProbeRun(p)
           \/ InspectOwner(p)
    PROVE  Inv'
<1> DEFINE q == req[p]
<1>0. TypeOK /\ DurableOK /\ LocalsTyped /\ pc[p] \in StartPCs /\ q \in StartRequest
    BY TypeParts DEF Inv, LocalOK, RequestOK, StartPCs, ProbeRun, InspectOwner
<1>1. q.op = "start" /\ q.run \in Runs /\ q.cmd \in StartCommands /\ q.body \in StartBodies
    BY <1>0, RequestFields
<1>2. ASSUME NEW at \in StartPCs \ {"publish"}, Goto(p, at),
             mem' \in [Processes -> MemType], \A s \in Processes \ {p} : mem'[s] = mem[s]
      PROVE  Inv'
    <2>1. pc'[p] = at /\ at \in PCs
        BY <1>0, <1>2 DEF Goto, LocalsTyped, StartPCs, PCs
    <2>2. FenceOK(p)'
        BY <2>1 DEF FenceOK, StartPCs
    <2>3. QED
        BY <1>0, <1>2, <2>1, <2>2, GotoKeeps
<1>3. ASSUME NEW kind \in {"revision-conflict", "owner-conflict"}, Return(p, kind)
      PROVE  Inv'
    <2>1. Truthful(q, kind, 0)
        BY <1>1 DEF Truthful
    <2>2. QED
        BY <1>3, <2>1, AnswerKeeps DEF Answers, Return
<1>4. CASE PublishReplay(p)
    <2>1. admission[q.run][q.cmd] # None /\ admission[q.run][q.cmd] = q.body
        BY <1>1, <1>4, IngressAssumption DEF PublishReplay
    <2>2. run[q.run].generation \in Nat \ {0}
        BY <1>0, <1>1, <2>1, Fields DEF DurableOK, RunOK, OwnerOK
    <2>3. Truthful(q, "replay", run[q.run].generation)
        BY <1>1, <2>1, <2>2 DEF Truthful
    <2>4. QED
        BY <1>4, <2>2, <2>3, AnswerKeeps DEF Answers, PublishReplay
<1>5. CASE PublishConflict(p)
    BY <1>0, <1>2, <1>5 DEF PublishConflict, LocalsTyped, StartPCs
<1>6. CASE ProbeRun(p)
    <2>1. CASE Return(p, "revision-conflict")
        BY <1>3, <2>1
    <2>2. CASE Goto(p, "inspect") /\ UNCHANGED mem
        BY <1>0, <1>2, <2>2 DEF LocalsTyped, StartPCs
    <2>3. QED
        BY <1>6, <2>1, <2>2 DEF ProbeRun
<1>7. CASE InspectOwner(p)
    <2>1. CASE Return(p, "revision-conflict") \/ Return(p, "owner-conflict")
        BY <1>3, <2>1
    <2>2. CASE /\ mem[p].attempt < AcquireAttempts
               /\ mem' = [mem EXCEPT ![p] = [Blank EXCEPT !.attempt = mem[p].attempt + 1]]
               /\ Goto(p, "acquire")
        <3>1. mem[p].attempt + 1 \in 1..AcquireAttempts
            BY <1>0, <2>2, Fields, IngressAssumption
        <3>2. [Blank EXCEPT !.attempt = mem[p].attempt + 1] \in MemType
            BY <3>1, BlankTyped DEF MemType
        <3>3. mem' \in [Processes -> MemType] /\ \A s \in Processes \ {p} : mem'[s] = mem[s]
            BY <1>0, <2>2, <3>2 DEF LocalsTyped
        <3>4. QED
            BY <1>2, <2>2, <3>3 DEF StartPCs
    <2>3. QED
        BY <1>7, <2>1, <2>2 DEF InspectOwner
<1>8. QED
    BY <1>4, <1>5, <1>6, <1>7

\* Every step of Invoke keeps the invariant.
LEMMA StartKeeps ==
    ASSUME Inv, NEW p \in Processes, Start(p)
    PROVE  Inv'
<1>1. CASE LookupAdmission(p) \/ RelookupAdmission(p)
    BY <1>1, FromAdmissionKeeps DEF LookupAdmission, RelookupAdmission, StartPCs
<1>2. CASE CommitStart(p)
    BY <1>2, PublishKeeps, StartReadsKeep DEF CommitStart
<1>3. QED
    BY <1>1, <1>2, BeginsKeep, PrepareKeeps, StartReadsKeep DEF Start

-----------------------------------------------------------------------------
(* Commits that change one Run.                                            *)

\* A commit that changes one Run and its records.
LEMMA OneRunChanges ==
    ASSUME Inv, NEW r \in Runs, OwnerOK', (RunOK(r) /\ WaitOK(r))', Forward(r),
           \A s \in Runs \ {r} :
               /\ run'[s] = run[s] /\ termination'[s] = termination[s] /\ admission'[s] = admission[s]
               /\ receipt'[s] = receipt[s] /\ consumption'[s] = consumption[s]
    PROVE  DurableOK' /\ \A s \in Runs : Forward(s)
<1>1. ASSUME NEW s \in Runs \ {r}
      PROVE  (RunOK(s) /\ WaitOK(s))' /\ Forward(s)
    <2>0. RunOK(s) /\ WaitOK(s)
        BY DEF Inv, DurableOK
    <2>1. run'[s] = run[s] /\ termination'[s] = termination[s] /\ admission'[s] = admission[s]
          /\ receipt'[s] = receipt[s] /\ consumption'[s] = consumption[s]
        BY <1>1
    <2>2. Forward(s)
        BY <2>1, Fields DEF Inv, Forward
    <2>3. QED
        BY <2>0, <2>1, <2>2 DEF RunOK, WaitOK
<1>2. QED
    BY <1>1 DEF DurableOK

\* A live Run that stays live keeps the key.
LEMMA LiveKeepsKey ==
    ASSUME Inv, NEW r \in Runs, UNCHANGED owner, \A s \in Runs \ {r} : run'[s] = run[s],
           run[r].status \in Live, run'[r].status \in Live, run'[r].generation = run[r].generation
    PROVE  OwnerOK'
<1>0. TypeOK /\ OwnerOK
    BY DEF Inv, DurableOK
<1>1. \A s \in Runs : /\ run'[s].generation = run[s].generation
                      /\ run'[s].status \in Live <=> run[s].status \in Live
                      /\ run'[s].status = "absent" <=> run[s].status = "absent"
    BY DEF Live
<1>2. QED
    BY <1>0, <1>1 DEF OwnerOK

\* A Run that stops, whoever decides it.
LEMMA StopRunKeeps ==
    ASSUME Inv, NEW r \in Runs, NEW by \in {"stop", "drive"},
           NEW cmd \in StopCommands \cup {None}, run[r].status \in Live \ {"stopping"},
           StopRun(r, by, cmd), UNCHANGED <<owner, admission, receipt, consumption>>
    PROVE  StoreTyped' /\ DurableOK' /\ (\A s \in Runs : Forward(s)) /\ run'[r].status = "stopping"
<1> DEFINE intent == [by |-> by, cmd |-> cmd, revision |-> run[r].revision]
<1>0. TypeOK /\ StoreTyped /\ RunOK(r) /\ WaitOK(r) /\ run[r].revision \in Nat
    BY TypeParts, Fields DEF Inv, DurableOK
<1>1. /\ run' = [run EXCEPT ![r].status = "stopping", ![r].revision = run[r].revision + 1]
      /\ termination' = [termination EXCEPT ![r] = intent]
    BY DEF StopRun
<1>2. intent \in [by : {"none", "stop", "signal", "drive"}, cmd : StopCommands \cup SignalCommands \cup {None},
                  revision : Nat] /\ intent.by = by /\ intent.revision = run[r].revision
    BY <1>0
<1> HIDE DEF intent
<1>3. run' \in [Runs -> RunType] /\ \A s \in Runs \ {r} : run'[s] = run[s]
    <2>1. "stopping" \in Statuses /\ run[r].revision + 1 \in Nat
        BY <1>0 DEF Statuses
    <2>2. QED
        BY <1>0, <1>1, <2>1 DEF StoreTyped, RunType
<1>4. /\ run'[r].status = "stopping" /\ run'[r].revision = run[r].revision + 1
      /\ run'[r].generation = run[r].generation /\ run'[r].waits = run[r].waits /\ run'[r].open = run[r].open
    BY <1>0, <1>1 DEF StoreTyped, RunType
<1>5. termination'[r] = intent /\ \A s \in Runs \ {r} : termination'[s] = termination[s]
    BY <1>0, <1>1 DEF StoreTyped
<1>6. StoreTyped'
    BY <1>0, <1>1, <1>2, <1>3 DEF StoreTyped
<1>7. OwnerOK'
    BY <1>3, <1>4, LiveKeepsKey DEF Live
<1>8. RunOK(r)'
    BY <1>0, <1>2, <1>4, <1>5 DEF RunOK, Ended, Live
<1>9. WaitOK(r)'
    BY <1>0, <1>4 DEF WaitOK, Ended
<1>a. Forward(r)
    BY <1>0, <1>2, <1>4, <1>5 DEF Forward, Ended, Live, Terminal
<1>b. QED
    BY <1>3, <1>4, <1>5, <1>6, <1>7, <1>8, <1>9, <1>a, OneRunChanges

-----------------------------------------------------------------------------
(* Drive.                                                                  *)

\* What a commit of Drive does to the Run.
LEMMA AdvanceFacts ==
    ASSUME Inv, NEW r \in Runs, NEW status \in Statuses, NEW waits \in 0..MaxWaits, NEW open \in BOOLEAN,
           Advance(r, status, waits, open)
    PROVE  /\ run' \in [Runs -> RunType] /\ \A s \in Runs \ {r} : run'[s] = run[s]
           /\ run'[r].status = status /\ run'[r].revision = run[r].revision + 1
           /\ run'[r].generation = run[r].generation /\ run'[r].waits = waits /\ run'[r].open = open
<1>0. StoreTyped /\ TypeOK /\ run[r].revision \in Nat /\ run[r] \in RunType
    BY TypeParts, Fields DEF Inv
<1> DEFINE f1 == [run[r] EXCEPT !.status = status]
           f2 == [f1 EXCEPT !.revision = run[r].revision + 1]
           f3 == [f2 EXCEPT !.waits = waits]
           f4 == [f3 EXCEPT !.open = open]
<1>1. run' = [run EXCEPT ![r] = f4]
    BY <1>0 DEF Advance, StoreTyped
<1>2. f1 \in RunType /\ f1.status = status /\ f1.generation = run[r].generation
    BY <1>0 DEF RunType
<1> HIDE DEF f1
<1>3. /\ f2 \in RunType /\ f2.status = status /\ f2.generation = run[r].generation
      /\ f2.revision = run[r].revision + 1
    BY <1>0, <1>2 DEF RunType
<1> HIDE DEF f2
<1>4. /\ f3 \in RunType /\ f3.status = status /\ f3.generation = run[r].generation
      /\ f3.revision = run[r].revision + 1 /\ f3.waits = waits
    BY <1>0, <1>3 DEF RunType
<1> HIDE DEF f3
<1>5. /\ f4 \in RunType /\ f4.status = status /\ f4.generation = run[r].generation
      /\ f4.revision = run[r].revision + 1 /\ f4.waits = waits /\ f4.open = open
    BY <1>0, <1>4 DEF RunType
<1> HIDE DEF f4
<1>6. run' \in [Runs -> RunType] /\ run'[r] = f4 /\ \A s \in Runs \ {r} : run'[s] = run[s]
    BY <1>0, <1>1, <1>5 DEF StoreTyped
<1>7. QED
    BY <1>5, <1>6

\* Drive starts a Run, parks it on its next wait, stops it or cancels its wait.
LEMMA MovesKeep ==
    ASSUME Inv, NEW r \in Runs, Activate(r) \/ Park(r) \/ Fail(r) \/ CancelWait(r)
    PROVE  Inv'
<1>0. /\ TypeOK /\ StoreTyped /\ RunOK(r) /\ WaitOK(r) /\ run[r].revision \in Nat
      /\ run[r].waits \in 0..MaxWaits /\ run[r].open \in BOOLEAN /\ run[r] \in RunType
      /\ termination[r].revision \in Nat
    BY TypeParts, Fields DEF Inv, DurableOK
<1>1. MaxWaits \in Nat
    BY IngressAssumption
<1>2. CASE Activate(r)
    <2>1. run[r].status = "accepted" /\ Advance(r, "running", run[r].waits, FALSE) /\ DriveOnly
          /\ UNCHANGED <<owner, termination>>
        BY <1>2 DEF Activate
    <2>2. /\ run' \in [Runs -> RunType] /\ \A s \in Runs \ {r} : run'[s] = run[s]
          /\ run'[r].status = "running" /\ run'[r].revision = run[r].revision + 1
          /\ run'[r].generation = run[r].generation /\ run'[r].waits = run[r].waits /\ run'[r].open = FALSE
        BY <1>0, <2>1, AdvanceFacts DEF Statuses
    <2>3. StoreTyped'
        BY <1>0, <2>1, <2>2 DEF StoreTyped, DriveOnly
    <2>4. OwnerOK'
        BY <2>1, <2>2, LiveKeepsKey DEF Live
    <2>5. RunOK(r)'
        BY <1>0, <2>1, <2>2 DEF RunOK, Ended, DriveOnly
    <2>6. WaitOK(r)'
        BY <1>0, <2>1, <2>2 DEF WaitOK, RunOK, Ended, DriveOnly
    <2>7. Forward(r)
        BY <1>0, <2>1, <2>2 DEF Forward, Ended, Terminal, DriveOnly
    <2>8. DurableOK' /\ \A s \in Runs : Forward(s)
        BY <2>1, <2>2, <2>4, <2>5, <2>6, <2>7, OneRunChanges DEF DriveOnly
    <2>9. QED
        BY <2>1, <2>3, <2>8, OnlyDrives DEF DriveOnly
<1>3. CASE Park(r)
    <2>1. run[r].status = "running" /\ Advance(r, "waiting", run[r].waits + 1, TRUE) /\ DriveOnly
          /\ UNCHANGED <<owner, termination>> /\ run[r].waits < MaxWaits
        BY <1>3 DEF Park
    <2>a. run[r].waits + 1 \in 0..MaxWaits
        BY <1>0, <1>1, <2>1
    <2>2. /\ run' \in [Runs -> RunType] /\ \A s \in Runs \ {r} : run'[s] = run[s]
          /\ run'[r].status = "waiting" /\ run'[r].revision = run[r].revision + 1
          /\ run'[r].generation = run[r].generation /\ run'[r].waits = run[r].waits + 1 /\ run'[r].open = TRUE
        BY <1>0, <2>1, <2>a, AdvanceFacts DEF Statuses
    <2>3. StoreTyped'
        BY <1>0, <2>1, <2>2 DEF StoreTyped, DriveOnly
    <2>4. OwnerOK'
        BY <2>1, <2>2, LiveKeepsKey DEF Live
    <2>5. RunOK(r)'
        BY <1>0, <1>1, <2>1, <2>2 DEF RunOK, Ended, DriveOnly
    <2>6. WaitOK(r)'
        <3>1. \A o \in Occurrences : (o <= run[r].waits) <=> (o <= run[r].waits + 1 /\ o < run[r].waits + 1)
            BY <1>0, <1>1 DEF Occurrences
        <3>2. \A o \in Occurrences : consumption[r][o] # None <=> o <= run[r].waits
            BY <1>0, <2>1 DEF WaitOK, RunOK, Ended
        <3>3. QED
            BY <1>0, <2>1, <2>2, <3>1, <3>2 DEF WaitOK, DriveOnly
    <2>7. Forward(r)
        BY <1>0, <2>1, <2>2 DEF Forward, Ended, Terminal, DriveOnly
    <2>8. DurableOK' /\ \A s \in Runs : Forward(s)
        BY <2>1, <2>2, <2>4, <2>5, <2>6, <2>7, OneRunChanges DEF DriveOnly
    <2>9. QED
        BY <2>1, <2>3, <2>8, OnlyDrives DEF DriveOnly
<1>4. CASE Fail(r)
    <2>1. run[r].status = "running" /\ StopRun(r, "drive", None) /\ DriveOnly /\ UNCHANGED owner
        BY <1>4 DEF Fail
    <2>2. StoreTyped' /\ DurableOK' /\ \A s \in Runs : Forward(s)
        BY <2>1, StopRunKeeps DEF DriveOnly, Live
    <2>3. QED
        BY <2>1, <2>2, OnlyDrives DEF DriveOnly
<1>5. CASE CancelWait(r)
    <2>1. /\ run[r].status = "stopping" /\ run' = [run EXCEPT ![r].open = FALSE] /\ DriveOnly
          /\ UNCHANGED <<owner, termination>>
        BY <1>5 DEF CancelWait
    <2>2. /\ run' \in [Runs -> RunType] /\ \A s \in Runs \ {r} : run'[s] = run[s]
          /\ run'[r].status = "stopping" /\ run'[r].revision = run[r].revision
          /\ run'[r].generation = run[r].generation /\ run'[r].waits = run[r].waits /\ run'[r].open = FALSE
        BY <1>0, <2>1 DEF StoreTyped, RunType
    <2>3. StoreTyped'
        BY <1>0, <2>1, <2>2 DEF StoreTyped, DriveOnly
    <2>4. OwnerOK'
        BY <2>1, <2>2, LiveKeepsKey DEF Live
    <2>5. RunOK(r)'
        BY <1>0, <2>1, <2>2 DEF RunOK, Ended, DriveOnly
    <2>6. WaitOK(r)'
        BY <1>0, <2>1, <2>2 DEF WaitOK, Ended, DriveOnly
    <2>7. Forward(r)
        BY <1>0, <2>1, <2>2 DEF Forward, Ended, Terminal, DriveOnly
    <2>8. DurableOK' /\ \A s \in Runs : Forward(s)
        BY <2>1, <2>2, <2>4, <2>5, <2>6, <2>7, OneRunChanges DEF DriveOnly
    <2>9. QED
        BY <2>1, <2>3, <2>8, OnlyDrives DEF DriveOnly
<1>6. QED
    BY <1>2, <1>3, <1>4, <1>5

\* The terminal commit ends the Run and gives the key back.
LEMMA CloseFacts ==
    ASSUME Inv, NEW r \in Runs, Close(r)
    PROVE  /\ run[r].status \in {"running", "stopping"} /\ run[r].open = FALSE
           /\ run' \in [Runs -> RunType] /\ \A s \in Runs \ {r} : run'[s] = run[s]
           /\ run'[r].status \in Terminal /\ (run'[r].status \in Ended <=> run[r].status = "stopping")
           /\ run'[r].revision = run[r].revision + 1
           /\ run'[r].generation = run[r].generation /\ run'[r].waits = run[r].waits /\ run'[r].open = FALSE
<1>0. RunOK(r) /\ run[r].waits \in 0..MaxWaits /\ run[r].open \in BOOLEAN
    BY Fields DEF Inv, DurableOK
<1>1. CASE run[r].status = "running" /\ Advance(r, "succeeded", run[r].waits, FALSE)
    <2>1. "succeeded" \in Statuses
        BY DEF Statuses, Terminal
    <2>2. run[r].open = FALSE
        BY <1>0, <1>1 DEF RunOK
    <2>3. /\ run' \in [Runs -> RunType] /\ \A s \in Runs \ {r} : run'[s] = run[s]
          /\ run'[r].status = "succeeded" /\ run'[r].revision = run[r].revision + 1
          /\ run'[r].generation = run[r].generation /\ run'[r].waits = run[r].waits /\ run'[r].open = FALSE
        BY <1>0, <1>1, <2>1, AdvanceFacts
    <2>4. QED
        BY <1>1, <2>2, <2>3 DEF Terminal, Ended
<1>2. CASE /\ run[r].status = "stopping" /\ ~run[r].open
           /\ Advance(r, IF termination[r].by = "stop" THEN "stopped" ELSE "failed", run[r].waits, FALSE)
    <2>1. PICK status \in {"stopped", "failed"} : Advance(r, status, run[r].waits, FALSE)
        BY <1>2
    <2>2. status \in Statuses /\ status \in Terminal /\ status \in Ended
        BY <2>1 DEF Statuses, Terminal, Ended
    <2>3. run[r].open = FALSE
        BY <1>0, <1>2
    <2>4. /\ run' \in [Runs -> RunType] /\ \A s \in Runs \ {r} : run'[s] = run[s]
          /\ run'[r].status = status /\ run'[r].revision = run[r].revision + 1
          /\ run'[r].generation = run[r].generation /\ run'[r].waits = run[r].waits /\ run'[r].open = FALSE
        BY <1>0, <2>1, <2>2, AdvanceFacts
    <2>5. QED
        BY <1>2, <2>2, <2>3, <2>4
<1>3. QED
    BY <1>1, <1>2 DEF Close

\* The terminal commit keeps the invariant.
LEMMA CloseKeeps ==
    ASSUME Inv, NEW r \in Runs, Close(r)
    PROVE  Inv'
<1>0. /\ TypeOK /\ StoreTyped /\ OwnerOK /\ RunOK(r) /\ WaitOK(r) /\ run[r].revision \in Nat
      /\ termination[r].revision \in Nat /\ owner.generation \in Nat /\ owner.revision \in Nat
    BY TypeParts, Fields DEF Inv, DurableOK
<1>1. /\ run[r].status \in {"running", "stopping"} /\ run[r].open = FALSE
      /\ run' \in [Runs -> RunType] /\ \A s \in Runs \ {r} : run'[s] = run[s]
      /\ run'[r].status \in Terminal /\ (run'[r].status \in Ended <=> run[r].status = "stopping")
      /\ run'[r].revision = run[r].revision + 1
      /\ run'[r].generation = run[r].generation /\ run'[r].waits = run[r].waits /\ run'[r].open = FALSE
    BY CloseFacts
<1>2. /\ owner.state = "active" /\ owner.run = r /\ UNCHANGED termination /\ DriveOnly
      /\ owner' = [state |-> "released", run |-> r, generation |-> owner.generation,
                   revision |-> owner.revision + 1]
    BY DEF Close, ReleaseOwner, OwnedBy
<1>3. StoreTyped'
    BY <1>0, <1>1, <1>2 DEF StoreTyped, DriveOnly
<1>4. OwnerOK'
    <2>1. /\ owner'.state = "released" /\ owner'.generation = owner.generation
          /\ owner'.revision = 2 * owner'.generation
        BY <1>0, <1>2 DEF OwnerOK
    <2>2. \A s \in Runs : run'[s].status \notin Live
        BY <1>0, <1>1, <1>2 DEF OwnerOK, Live, Terminal
    <2>3. \A s \in Runs : run'[s].generation = run[s].generation
        BY <1>1
    <2>4. \A s \in Runs : run'[s].status = "absent" <=> run[s].status = "absent"
        BY <1>1 DEF Terminal
    <2>5. QED
        BY <1>0, <2>1, <2>2, <2>3, <2>4 DEF OwnerOK
<1>5. RunOK(r)'
    BY <1>0, <1>1, <1>2 DEF RunOK, Ended, Terminal, DriveOnly
<1>6. WaitOK(r)'
    BY <1>0, <1>1, <1>2 DEF WaitOK, Ended, DriveOnly
<1>7. Forward(r)
    BY <1>0, <1>1, <1>2 DEF Forward, Ended, Terminal, DriveOnly
<1>8. DurableOK' /\ \A s \in Runs : Forward(s)
    BY <1>1, <1>2, <1>4, <1>5, <1>6, <1>7, OneRunChanges DEF DriveOnly
<1>9. QED
    BY <1>2, <1>3, <1>8, OnlyDrives DEF DriveOnly

-----------------------------------------------------------------------------
(* Stop.                                                                   *)

\* The reads of a Stop.
LEMMA StopReadsKeep ==
    ASSUME Inv, NEW p \in Processes, FenceStop(p) \/ FenceOwner(p) \/ DecideStop(p)
    PROVE  Inv'
<1> DEFINE q == req[p]
<1>0. TypeOK /\ LocalsTyped /\ pc[p] \in StopPCs /\ q \in StopRequest /\ RequestOK(p)
    BY TypeParts DEF Inv, LocalOK, RequestOK, StopPCs, FenceStop, FenceOwner, DecideStop
<1>1. q.op = "stop" /\ q.run \in Runs /\ q.cmd \in StopCommands /\ q.revision \in Nat
    BY <1>0, RequestFields
<1>2. ASSUME NEW at \in StopPCs, Goto(p, at), UNCHANGED mem,
             at = "freeze" => run[q.run].status \in Live \ {"stopping"}
      PROVE  Inv'
    <2>1. pc'[p] = at /\ at \in PCs /\ run' = run /\ req' = req
        BY <1>0, <1>2 DEF Goto, LocalsTyped, StopPCs, PCs, durable
    <2>2. FenceOK(p)'
        BY <1>2, <2>1 DEF FenceOK, StopPCs
    <2>3. QED
        BY <1>0, <1>2, <2>1, <2>2, GotoKeeps DEF LocalsTyped
<1>3. RunOK(q.run) /\ q.revision <= run[q.run].revision /\ run[q.run].revision \in Nat
    BY <1>0, <1>1, Fields DEF Inv, DurableOK, RequestOK
<1>4. CASE FenceStop(p)
    <2>1. \E at \in {"request", "fence-owner"} : Goto(p, at) /\ UNCHANGED mem
        BY <1>4 DEF FenceStop
    <2>2. QED
        BY <1>2, <2>1 DEF StopPCs
<1>5. ASSUME NEW kind \in {"identity-conflict", "refused", "owner-conflict"}, Return(p, kind)
      PROVE  Inv'
    <2>1. Truthful(q, kind, 0)
        BY <1>1 DEF Truthful
    <2>2. QED
        BY <1>5, <2>1, AnswerKeeps DEF Answers, Return
<1>6. CASE FenceOwner(p)
    BY <1>2, <1>5, <1>6 DEF FenceOwner, StopPCs
<1>7. CASE DecideStop(p)
    <2>1. CASE Return(p, "identity-conflict") \/ Return(p, "refused")
        BY <1>5, <2>1
    <2>2. CASE termination[q.run] # NoTermination /\ Return(p, "replay")
        <3>1. run[q.run].status \in {"stopping"} \cup Terminal
            BY <1>3, <2>2 DEF RunOK, Ended, Terminal
        <3>2. Truthful(q, "replay", 0)
            BY <1>1, <3>1 DEF Truthful
        <3>3. QED
            BY <2>2, <3>2, AnswerKeeps DEF Answers, Return
    <2>3. CASE /\ termination[q.run] = NoTermination /\ run[q.run].revision # q.revision
               /\ Return(p, "revision-conflict")
        <3>1. q.revision < run[q.run].revision
            BY <1>1, <1>3, <2>3
        <3>2. termination[q.run] # [by |-> "stop", cmd |-> q.cmd, revision |-> q.revision]
            BY <2>3 DEF NoTermination
        <3>3. Truthful(q, "revision-conflict", 0)
            BY <1>1, <3>1, <3>2 DEF Truthful
        <3>4. QED
            BY <2>3, <3>3, AnswerKeeps DEF Answers, Return
    <2>4. CASE /\ termination[q.run] = NoTermination /\ run[q.run].status \in Live
               /\ Goto(p, "freeze") /\ UNCHANGED mem
        <3>1. run[q.run].status \in Live \ {"stopping"}
            BY <1>3, <2>4 DEF RunOK, Ended, NoTermination
        <3>2. QED
            BY <1>2, <2>4, <3>1 DEF StopPCs
    <2>5. QED
        BY <1>7, <2>1, <2>2, <2>3, <2>4 DEF DecideStop
<1>8. QED
    BY <1>4, <1>6, <1>7

\* The commit of a Stop.
LEMMA CommitStopKeeps ==
    ASSUME Inv, NEW p \in Processes, CommitStop(p)
    PROVE  Inv'
<1> DEFINE q == req[p]
           frozen == termination[q.run]
           recorded == frozen.by = "stop" /\ frozen.cmd = q.cmd
<1>0. TypeOK /\ pc[p] = "freeze" /\ q \in StopRequest /\ RequestOK(p) /\ FenceOK(p)
    BY DEF Inv, LocalOK, RequestOK, StopPCs, CommitStop
<1>1. q.op = "stop" /\ q.run \in Runs /\ q.cmd \in StopCommands /\ q.revision \in Nat
    BY <1>0, RequestFields
<1>2. RunOK(q.run) /\ q.revision <= run[q.run].revision /\ run[q.run].revision \in Nat
    BY <1>0, <1>1, Fields DEF Inv, DurableOK, RequestOK
<1>3. CASE recorded /\ Return(p, IF frozen.revision = q.revision THEN "replay" ELSE "identity-conflict")
    <2>1. run[q.run].status \in {"stopping"} \cup Terminal
        BY <1>2, <1>3 DEF RunOK, Ended, Terminal
    <2>2. PICK kind \in {"replay", "identity-conflict"} : Return(p, kind)
        BY <1>3
    <2>3. Truthful(q, kind, 0)
        BY <1>1, <2>1, <2>2 DEF Truthful
    <2>4. QED
        BY <2>2, <2>3, AnswerKeeps DEF Answers, Return
<1>4. CASE ~recorded /\ run[q.run].revision # q.revision /\ Return(p, "revision-conflict")
    <2>1. q.revision < run[q.run].revision
        BY <1>1, <1>2, <1>4
    <2>2. termination[q.run] # [by |-> "stop", cmd |-> q.cmd, revision |-> q.revision]
        BY <1>4
    <2>3. Truthful(q, "revision-conflict", 0)
        BY <1>1, <2>1, <2>2 DEF Truthful
    <2>4. QED
        BY <1>4, <2>3, AnswerKeeps DEF Answers, Return
<1>5. CASE /\ run[q.run].revision = q.revision /\ StopRun(q.run, "stop", q.cmd) /\ Reply(p, "applied", 0)
           /\ UNCHANGED <<owner, admission, receipt, consumption>>
    <2>1. run[q.run].status \in Live \ {"stopping"}
        BY <1>0, <1>5 DEF FenceOK
    <2>2. StoreTyped' /\ DurableOK' /\ (\A s \in Runs : Forward(s)) /\ run'[q.run].status = "stopping"
        BY <1>1, <1>5, <2>1, StopRunKeeps
    <2>3. req' = req
        BY <1>5 DEF Reply
    <2>4. Truthful(req[p], "applied", 0)'
        BY <1>1, <2>2, <2>3 DEF Truthful
    <2>5. QED
        BY <1>5, <2>2, <2>4, ReplyKeeps DEF Answers
<1>6. QED
    BY <1>3, <1>4, <1>5 DEF CommitStop

\* Every step of a Stop keeps the invariant.
LEMMA StopKeeps ==
    ASSUME Inv, NEW p \in Processes, Stop(p)
    PROVE  Inv'
BY BeginsKeep, StopReadsKeep, CommitStopKeeps DEF Stop

-----------------------------------------------------------------------------
(* The resolution of an external wait.                                     *)

\* The reads of a resolution, and its commit when it loses or is a repetition.
LEMMA SignalReadsKeep ==
    ASSUME Inv, NEW p \in Processes,
           \/ Authorize(p) \/ AuthorizeOwner(p) \/ FindReceipt(p) \/ FindConsumption(p)
           \/ LoadWait(p) \/ RereadReceipt(p) \/ RereadConsumption(p)
           \/ pc[p] = "consume" /\ (ConsumeReplay(p) \/ ConsumeConflict(p))
    PROVE  Inv'
<1> DEFINE q == req[p]
<1>0. TypeOK /\ LocalsTyped /\ StoreTyped /\ pc[p] \in SignalPCs /\ q \in SignalRequest /\ FenceOK(p)
    BY TypeParts DEF Inv, LocalOK, RequestOK, SignalPCs, Authorize, AuthorizeOwner, FindReceipt,
        FindConsumption, LoadWait, RereadReceipt, RereadConsumption
<1>1. q.op = "signal" /\ q.run \in Runs /\ q.cmd \in SignalCommands /\ q.occurrence \in Occurrences
    BY <1>0, RequestFields
<1>2. WaitOK(q.run) /\ q.cmd # None
    BY <1>1, IngressAssumption DEF Inv, DurableOK
<1>3. ASSUME NEW at \in SignalPCs \ {"consume"}, Goto(p, at), UNCHANGED mem,
             at = "reread" => receipt[q.run][q.cmd] # NoReceipt \/ Passed(q.run, q.occurrence),
             at = "reread-consumption" => Passed(q.run, q.occurrence)
      PROVE  Inv'
    <2>1. /\ pc'[p] = at /\ at \in PCs /\ run' = run /\ req' = req /\ receipt' = receipt
          /\ consumption' = consumption
        BY <1>0, <1>3 DEF Goto, LocalsTyped, SignalPCs, PCs, durable
    <2>2. FenceOK(p)'
        BY <1>3, <2>1 DEF FenceOK, SignalPCs, Passed
    <2>3. QED
        BY <1>0, <1>3, <2>1, <2>2, GotoKeeps DEF LocalsTyped
<1>4. ASSUME NEW kind \in {"identity-conflict", "refused", "owner-conflict", "consumed"}, Return(p, kind)
      PROVE  Inv'
    <2>1. Truthful(q, kind, 0)
        BY <1>1 DEF Truthful
    <2>2. QED
        BY <1>4, <2>1, AnswerKeeps DEF Answers, Return
<1>5. ASSUME Return(p, "replay"), consumption[q.run][q.occurrence] = q.cmd
      PROVE  Inv'
    <2>1. Truthful(q, "replay", 0)
        BY <1>1, <1>5 DEF Truthful
    <2>2. QED
        BY <1>5, <2>1, AnswerKeeps DEF Answers, Return
<1>6. ASSUME NEW at \in {"consumption", "reread-consumption"}, AnswerFromReceipt(p, at),
             at = "reread-consumption" => pc[p] = "reread"
      PROVE  Inv'
    <2> DEFINE known == receipt[q.run][q.cmd]
               same == known.occurrence = q.occurrence /\ known.body = q.body
    <2>1. CASE known = NoReceipt /\ Goto(p, at) /\ UNCHANGED mem
        <3>1. at = "reread-consumption" => Passed(q.run, q.occurrence)
            BY <1>0, <1>6, <2>1 DEF FenceOK
        <3>2. QED
            BY <1>3, <1>6, <2>1, <3>1 DEF SignalPCs
    <2>2. CASE Return(p, "identity-conflict")
        BY <1>4, <2>2
    <2>3. CASE /\ known # NoReceipt /\ same
               /\ Return(p, IF consumption[q.run][q.occurrence] = q.cmd THEN "replay" ELSE "corrupt")
        <3>1. consumption[q.run][q.occurrence] = q.cmd
            BY <1>1, <1>2, <2>3, Zenon DEF WaitOK
        <3>2. QED
            BY <1>5, <2>3, <3>1, Zenon
    <2>4. QED
        BY <1>6, <2>1, <2>2, <2>3 DEF AnswerFromReceipt
<1>7. ASSUME AnswerFromConsumption(p)
      PROVE  Inv'
    <2>1. receipt[q.run][consumption[q.run][q.occurrence]].occurrence = q.occurrence
        BY <1>1, <1>2, <1>7, Zenon DEF WaitOK, AnswerFromConsumption
    <2>2. Return(p, "consumed")
        BY <1>7, <2>1 DEF AnswerFromConsumption
    <2>3. QED
        BY <1>4, <2>2
<1>8. CASE Authorize(p)
    <2>1. \E at \in {"receipt", "authorize-owner"} : Goto(p, at) /\ UNCHANGED mem
        BY <1>8 DEF Authorize
    <2>2. QED
        BY <1>3, <2>1 DEF SignalPCs
<1>9. CASE AuthorizeOwner(p)
    BY <1>3, <1>4, <1>9 DEF AuthorizeOwner, SignalPCs
<1>a. CASE FindReceipt(p) \/ RereadReceipt(p)
    BY <1>6, <1>a DEF FindReceipt, RereadReceipt
<1>b. CASE FindConsumption(p)
    BY <1>3, <1>7, <1>b DEF FindConsumption, SignalPCs
<1>c. CASE LoadWait(p)
    <2>1. CASE Return(p, "consumed")
        BY <1>4, <2>1
    <2>a. CASE Return(p, "refused")
        BY <1>4, <2>a, SMTT(30)
    <2>2. CASE /\ run[q.run].status = "waiting" /\ run[q.run].waits = q.occurrence
               /\ mem' = [mem EXCEPT ![p].revision = run[q.run].revision] /\ Goto(p, "consume")
        <3>1. run[q.run].revision \in Nat
            BY <1>0, <1>1, Fields
        <3>2. /\ mem' \in [Processes -> MemType] /\ \A s \in Processes \ {p} : mem'[s] = mem[s]
              /\ mem'[p].revision = run[q.run].revision
            BY <1>0, <2>2, <3>1 DEF LocalsTyped, MemType
        <3>3. pc'[p] = "consume" /\ run' = run /\ req' = req
            BY <1>0, <2>2 DEF Goto, LocalsTyped, durable
        <3>4. FenceOK(p)'
            BY <2>2, <3>1, <3>2, <3>3 DEF FenceOK
        <3>5. QED
            BY <1>0, <2>2, <3>2, <3>4, GotoKeeps DEF SignalPCs, PCs
    <2>3. QED
        BY <1>c, <2>1, <2>2, <2>a DEF LoadWait
<1>d. CASE RereadConsumption(p)
    <2>1. CASE consumption[q.run][q.occurrence] = None /\ Return(p, "revision-conflict")
        <3>1. Passed(q.run, q.occurrence)
            BY <1>0, <1>d DEF FenceOK, RereadConsumption
        <3>2. Truthful(q, "revision-conflict", 0)
            BY <1>1, <1>2, <2>1, <3>1 DEF Truthful
        <3>3. QED
            BY <2>1, <3>2, AnswerKeeps DEF Answers, Return
    <2>2. QED
        BY <1>7, <1>d, <2>1 DEF RereadConsumption
<1>e. CASE pc[p] = "consume" /\ ConsumeReplay(p)
    <2>1. receipt[q.run][q.cmd].occurrence = q.occurrence /\ Return(p, "replay")
        BY <1>e DEF ConsumeReplay
    <2>2. receipt[q.run][q.cmd] # NoReceipt
        <3>1. q.occurrence # 0 /\ NoReceipt.occurrence = 0
            BY <1>1, IngressAssumption DEF NoReceipt, Occurrences
        <3>2. QED
            BY <2>1, <3>1
    <2>3. consumption[q.run][q.occurrence] = q.cmd
        BY <1>1, <1>2, <2>1, <2>2 DEF WaitOK
    <2>4. QED
        BY <1>5, <2>1, <2>3
<1>f. CASE pc[p] = "consume" /\ ConsumeConflict(p)
    <2>1. receipt[q.run][q.cmd] # NoReceipt \/ Passed(q.run, q.occurrence)
        BY <1>0, <1>f DEF ConsumeConflict, FenceOK, Passed
    <2>2. Goto(p, "reread") /\ UNCHANGED mem
        BY <1>f, Zenon DEF ConsumeConflict
    <2>3. QED
        BY <1>3, <2>1, <2>2 DEF SignalPCs
<1>g. QED
    BY <1>8, <1>9, <1>a, <1>b, <1>c, <1>d, <1>e, <1>f

\* An open wait is over: its Run goes on or stops.
Resumes(r, status) ==
    /\ run[r].status = "waiting" /\ run[r].open = TRUE
    /\ run' \in [Runs -> RunType] /\ \A s \in Runs \ {r} : run'[s] = run[s]
    /\ run'[r].status = status /\ run'[r].revision = run[r].revision + 1 /\ run'[r].open = FALSE
    /\ run'[r].generation = run[r].generation /\ run'[r].waits = run[r].waits
    /\ termination' \in [Runs -> TerminationType]
    /\ \A s \in Runs \ {r} : termination'[s] = termination[s]
    /\ status = "running" => termination'[r] = termination[r]
    /\ status = "stopping" => termination'[r].by = "signal" /\ termination'[r].revision = run[r].revision

\* What the commit of a resolution does to the Run: the fence on the revision
\* read tells that the very wait it names is still open.
LEMMA ConsumeFacts ==
    ASSUME Inv, NEW p \in Processes, pc[p] = "consume", Consume(p)
    PROVE  \E r \in Runs, status \in {"running", "stopping"} :
               r = req[p].run /\ run[r].waits = req[p].occurrence /\ Resumes(r, status)
<1> DEFINE q == req[p]
<1>0. TypeOK /\ StoreTyped /\ q \in SignalRequest /\ FenceOK(p)
    BY TypeParts DEF Inv, LocalOK, RequestOK, SignalPCs
<1>1. q.run \in Runs
    BY <1>0, RequestFields, SMTT(30)
<1>2. run[q.run].revision = mem[p].revision
    BY DEF Consume
<1>3. run[q.run].status = "waiting" /\ run[q.run].waits = q.occurrence
    BY <1>0, <1>2 DEF FenceOK
<1>4. run[q.run].open = TRUE /\ run[q.run] \in RunType /\ run[q.run].revision \in Nat
    BY <1>0, <1>1, <1>3, Fields, SMTT(30) DEF Inv, DurableOK, RunOK
<1>5. PICK status \in {"running", "stopping"} :
           /\ run' = [run EXCEPT ![q.run].status = status, ![q.run].open = FALSE,
                                 ![q.run].revision = mem[p].revision + 1]
           /\ status = "running" => termination' = termination
           /\ status = "stopping" => termination' = [termination EXCEPT ![q.run] =
                  [by |-> "signal", cmd |-> q.cmd, revision |-> mem[p].revision]]
    BY DEF Consume
<1> DEFINE f1 == [run[q.run] EXCEPT !.status = status]
           f2 == [f1 EXCEPT !.open = FALSE]
           f3 == [f2 EXCEPT !.revision = mem[p].revision + 1]
<1>6. run' = [run EXCEPT ![q.run] = f3]
    BY <1>0, <1>1, <1>5 DEF StoreTyped
<1>7. status \in Statuses
    BY DEF Statuses
<1>8. f1 \in RunType /\ f1.status = status /\ f1.generation = run[q.run].generation /\ f1.waits = run[q.run].waits
    BY <1>4, <1>7 DEF RunType
<1> HIDE DEF f1
<1>9. /\ f2 \in RunType /\ f2.status = status /\ f2.generation = run[q.run].generation
      /\ f2.waits = run[q.run].waits /\ f2.open = FALSE
    BY <1>8 DEF RunType
<1> HIDE DEF f2
<1>a. /\ f3 \in RunType /\ f3.status = status /\ f3.generation = run[q.run].generation
      /\ f3.waits = run[q.run].waits /\ f3.open = FALSE /\ f3.revision = run[q.run].revision + 1
    BY <1>2, <1>4, <1>9 DEF RunType
<1> HIDE DEF f3
<1>b. run' \in [Runs -> RunType] /\ run'[q.run] = f3 /\ \A s \in Runs \ {q.run} : run'[s] = run[s]
    BY <1>0, <1>1, <1>6, <1>a DEF StoreTyped
<1>c. /\ termination' \in [Runs -> TerminationType]
      /\ \A s \in Runs \ {q.run} : termination'[s] = termination[s]
      /\ status = "stopping" => /\ termination'[q.run].by = "signal"
                                /\ termination'[q.run].revision = run[q.run].revision
    <2>1. termination \in [Runs -> TerminationType]
        BY <1>0 DEF StoreTyped, TerminationType
    <2>2. CASE status = "running"
        BY <1>5, <2>1, <2>2
    <2>3. CASE status = "stopping"
        <3> DEFINE intent == [by |-> "signal", cmd |-> q.cmd, revision |-> mem[p].revision]
        <3>1. intent \in TerminationType /\ intent.by = "signal" /\ intent.revision = run[q.run].revision
            BY <1>0, <1>2, <1>4, RequestFields DEF TerminationType
        <3>2. termination' = [termination EXCEPT ![q.run] = intent]
            BY <1>5, <2>3
        <3> HIDE DEF intent
        <3>3. QED
            BY <1>1, <2>1, <3>1, <3>2
    <2>4. QED
        BY <2>2, <2>3
<1>d. status = "running" => termination'[q.run] = termination[q.run]
    BY <1>5
<1>e. Resumes(q.run, status)
    BY <1>3, <1>4, <1>a, <1>b, <1>c, <1>d DEF Resumes
<1>f. QED
    BY <1>1, <1>3, <1>e

\* The commit that consumes an occurrence.
LEMMA ConsumeKeeps ==
    ASSUME Inv, NEW p \in Processes, pc[p] = "consume", Consume(p)
    PROVE  Inv'
<1>0. TypeOK /\ StoreTyped /\ req[p] \in SignalRequest
    BY TypeParts DEF Inv, LocalOK, RequestOK, SignalPCs
<1>r. PICK r \in Runs, status \in {"running", "stopping"} :
               r = req[p].run /\ run[r].waits = req[p].occurrence /\ Resumes(r, status)
    BY ConsumeFacts
<1>1. /\ run[r].status = "waiting" /\ run[r].open = TRUE
      /\ run' \in [Runs -> RunType] /\ \A s \in Runs \ {r} : run'[s] = run[s]
      /\ run'[r].status = status /\ run'[r].revision = run[r].revision + 1 /\ run'[r].open = FALSE
      /\ run'[r].generation = run[r].generation /\ run'[r].waits = run[r].waits
    BY <1>r DEF Resumes
<1>2. PICK c \in SignalCommands, o \in Occurrences : c = req[p].cmd /\ o = req[p].occurrence
    BY <1>0, RequestFields
<1>3. req[p].body \in SignalBodies /\ req[p].op = "signal" /\ c # None /\ o \in 1..MaxWaits /\ MaxWaits \in Nat
    BY <1>0, <1>2, RequestFields, IngressAssumption, SMTT(30) DEF Occurrences
<1> DEFINE written == [occurrence |-> o, body |-> req[p].body]
<1>4. /\ receipt[r][c] = NoReceipt /\ consumption[r][o] = None
      /\ receipt' = [receipt EXCEPT ![r][c] = written]
      /\ consumption' = [consumption EXCEPT ![r][o] = c]
      /\ Reply(p, "applied", 0) /\ UNCHANGED <<owner, admission>>
    BY <1>r, <1>2 DEF Consume
<1>5. written \in [occurrence : 0..MaxWaits, body : SignalBodies \cup {None}] /\ written.occurrence = o
    BY <1>3
<1> HIDE DEF written
<1>6. RunOK(r) /\ WaitOK(r) /\ run[r].revision \in Nat /\ termination[r].revision \in Nat /\ run[r].waits = o
    BY <1>0, <1>r, <1>2, Fields DEF Inv, DurableOK
<1>7. /\ termination' \in [Runs -> TerminationType]
      /\ \A s \in Runs \ {r} : termination'[s] = termination[s]
      /\ status = "running" => termination'[r] = termination[r]
      /\ status = "stopping" => termination'[r].by = "signal" /\ termination'[r].revision = run[r].revision
    BY <1>r DEF Resumes
<1>8. /\ receipt' \in [Runs -> [SignalCommands -> [occurrence : 0..MaxWaits, body : SignalBodies \cup {None}]]]
      /\ receipt'[r][c] = written /\ \A d \in SignalCommands \ {c} : receipt'[r][d] = receipt[r][d]
      /\ \A s \in Runs \ {r} : receipt'[s] = receipt[s]
    BY <1>0, <1>4, <1>5 DEF StoreTyped
<1>9. /\ consumption' \in [Runs -> [Occurrences -> SignalCommands \cup {None}]]
      /\ consumption'[r][o] = c /\ \A n \in Occurrences \ {o} : consumption'[r][n] = consumption[r][n]
      /\ \A s \in Runs \ {r} : consumption'[s] = consumption[s]
    BY <1>0, <1>4 DEF StoreTyped
<1>a. StoreTyped'
    BY <1>0, <1>1, <1>4, <1>7, <1>8, <1>9 DEF StoreTyped, TerminationType
<1>b. OwnerOK'
    BY <1>1, <1>4, LiveKeepsKey DEF Live
<1>c. RunOK(r)'
    <2>1. termination[r].by = "none" /\ o >= 1
        BY <1>1, <1>3, <1>6 DEF RunOK, Ended
    <2>2. CASE status = "running"
        BY <1>1, <1>4, <1>6, <1>7, <2>1, <2>2 DEF RunOK, Ended
    <2>3. CASE status = "stopping"
        BY <1>1, <1>4, <1>6, <1>7, <2>1, <2>3 DEF RunOK, Ended
    <2>4. QED
        BY <2>2, <2>3
<1>d. WaitOK(r)'
    <2>1. ASSUME NEW d \in SignalCommands, receipt'[r][d] # NoReceipt
          PROVE  receipt'[r][d].occurrence \in Occurrences /\ consumption'[r][receipt'[r][d].occurrence] = d
        <3>1. CASE d = c
            BY <1>5, <1>8, <1>9, <3>1
        <3>2. CASE d # c
            <4>1. receipt[r][d] # NoReceipt /\ receipt'[r][d] = receipt[r][d]
                BY <1>8, <2>1, <3>2
            <4>2. receipt[r][d].occurrence \in Occurrences /\ consumption[r][receipt[r][d].occurrence] = d
                BY <1>6, <4>1 DEF WaitOK
            <4>3. d # None
                BY IngressAssumption
            <4>4. QED
                BY <1>4, <1>9, <4>1, <4>2, <4>3
        <3>3. QED
            BY <3>1, <3>2
    <2>2. ASSUME NEW n \in Occurrences, consumption'[r][n] # None
          PROVE  receipt'[r][consumption'[r][n]].occurrence = n
        <3>1. CASE n = o
            BY <1>5, <1>8, <1>9, <3>1
        <3>2. CASE n # o
            <4>1. consumption'[r][n] = consumption[r][n] /\ receipt[r][consumption[r][n]].occurrence = n
                BY <1>6, <1>9, <2>2, <3>2 DEF WaitOK
            <4>2. consumption[r][n] \in SignalCommands
                BY <1>0, <2>2, <4>1 DEF StoreTyped
            <4>3. n # 0 /\ NoReceipt.occurrence = 0
                BY IngressAssumption DEF Occurrences, NoReceipt
            <4>4. consumption[r][n] # c
                BY <1>4, <4>1, <4>3
            <4>5. QED
                BY <1>8, <4>1, <4>2, <4>4
        <3>3. QED
            BY <3>1, <3>2
    <2>3. \A n \in Occurrences : consumption[r][n] # None <=> n < o
        <3>1. \A n \in Occurrences : (n <= o /\ n < o) <=> n < o
            BY <1>3 DEF Occurrences
        <3>2. QED
            BY <1>1, <1>6, <3>1 DEF WaitOK, Ended
    <2>4. \A n \in Occurrences : n <= o <=> n = o \/ n < o
        BY <1>3 DEF Occurrences
    <2>5. \A n \in Occurrences : consumption'[r][n] # None <=> n <= o
        BY <1>3, <1>9, <2>3, <2>4
    <2>6. QED
        BY <1>1, <1>6, <2>1, <2>2, <2>5 DEF WaitOK
<1>e. Forward(r)
    <2>1. consumption'[r][run[r].waits] # None
        BY <1>3, <1>6, <1>9
    <2>2. \A n \in Occurrences : consumption[r][n] # None => consumption'[r][n] = consumption[r][n]
        BY <1>4, <1>9
    <2>3. \A d \in SignalCommands : receipt[r][d] # NoReceipt => receipt'[r][d] = receipt[r][d]
        BY <1>4, <1>8
    <2>4. QED
        BY <1>1, <1>4, <1>6, <1>7, <2>1, <2>2, <2>3 DEF Forward, Ended, Terminal
<1>f. DurableOK' /\ \A s \in Runs : Forward(s)
    BY <1>1, <1>4, <1>7, <1>8, <1>9, <1>b, <1>c, <1>d, <1>e, OneRunChanges
<1>g. Truthful(req[p], "applied", 0)'
    <2>1. req' = req
        BY <1>4 DEF Reply
    <2>2. consumption'[req[p].run][req[p].occurrence] = req[p].cmd
        BY <1>r, <1>2, <1>9
    <2>3. QED
        BY <1>3, <2>1, <2>2 DEF Truthful
<1>h. QED
    BY <1>4, <1>a, <1>f, <1>g, ReplyKeeps DEF Answers

\* Every step of a resolution keeps the invariant.
LEMMA SignalKeeps ==
    ASSUME Inv, NEW p \in Processes, Signal(p)
    PROVE  Inv'
<1>1. CASE CommitSignal(p)
    BY <1>1, ConsumeKeeps, SignalReadsKeep DEF CommitSignal
<1>2. QED
    BY <1>1, BeginsKeep, SignalReadsKeep DEF Signal

-----------------------------------------------------------------------------
(* The theorems.                                                           *)

\* Nothing is admitted at first.
LEMMA InitInv == Init => Inv
<1> SUFFICES ASSUME Init PROVE Inv
    OBVIOUS
<1>1. Absent \in RunType
    BY IngressAssumption DEF Absent, RunType, Statuses
<1>2. /\ Absent.status = "absent" /\ Absent.revision = 0 /\ Absent.generation = 0
      /\ Absent.waits = 0 /\ Absent.open = FALSE
    BY DEF Absent
<1>3. /\ NoTermination \in [by : {"none", "stop", "signal", "drive"},
                            cmd : StopCommands \cup SignalCommands \cup {None}, revision : Nat]
      /\ NoTermination.by = "none" /\ NoTermination.revision = 0
    BY DEF NoTermination
<1>4. NoReceipt \in [occurrence : 0..MaxWaits, body : SignalBodies \cup {None}]
    BY IngressAssumption DEF NoReceipt
<1>5. StoreTyped
    BY <1>1, <1>3, <1>4 DEF Init, StoreTyped, NoOwner
<1>6. LocalsTyped
    <2>1. "idle" \in PCs /\ Idle \in Requests /\ NoAnswer \in [kind : Answers \cup {"none"}, generation : Nat]
        BY DEF PCs, Requests, NoAnswer
    <2>2. QED
        BY <2>1, BlankTyped DEF Init, LocalsTyped
<1>7. OwnerOK
    BY <1>2 DEF Init, OwnerOK, NoOwner, Live
<1>8. ASSUME NEW r \in Runs
      PROVE  RunOK(r) /\ WaitOK(r)
    <2>1. run[r] = Absent /\ termination[r] = NoTermination
        BY DEF Init
    <2>2. \A c \in StartCommands : admission[r][c] = None
        BY DEF Init
    <2>3. \A c \in SignalCommands : receipt[r][c] = NoReceipt
        BY DEF Init
    <2>4. \A o \in Occurrences : consumption[r][o] = None /\ ~(o <= 0)
        BY IngressAssumption DEF Init, Occurrences
    <2>5. RunOK(r)
        BY <1>2, <1>3, <2>1, <2>2 DEF RunOK, Ended
    <2>6. WaitOK(r)
        BY <1>2, <2>1, <2>3, <2>4 DEF WaitOK
    <2>7. QED
        BY <2>5, <2>6
<1>9. ASSUME NEW p \in Processes
      PROVE  LocalOK(p)
    <2>1. pc[p] = "idle" /\ req[p] = Idle /\ answer[p] = NoAnswer
        BY DEF Init
    <2>2. QED
        BY <2>1 DEF LocalOK, RequestOK, FenceOK, AnswerOK, Truthful, Idle, NoAnswer, StartPCs, StopPCs, SignalPCs
<1>a. QED
    BY <1>5, <1>6, <1>7, <1>8, <1>9, TypeParts DEF Inv, DurableOK

\* Every step keeps the invariant.
LEMMA NextInv == Inv /\ [Next]_vars => Inv'
<1> SUFFICES ASSUME Inv, [Next]_vars PROVE Inv'
    OBVIOUS
<1>1. ASSUME NEW p \in Processes, Start(p) \/ Stop(p) \/ Signal(p) \/ Leave(p)
      PROVE  Inv'
    BY <1>1, StartKeeps, StopKeeps, SignalKeeps, LeaveKeeps
<1>2. ASSUME NEW r \in Runs, Drive(r)
      PROVE  Inv'
    BY <1>2, MovesKeep, CloseKeeps DEF Drive
<1>3. CASE UNCHANGED vars
    <2>1. UNCHANGED durable /\ UNCHANGED <<pc, req, mem, answer>>
        BY <1>3 DEF vars
    <2>2. DurableOK' /\ \A r \in Runs : Forward(r)
        BY <2>1, SameDurable
    <2>3. StoreTyped'
        BY <2>1, TypeParts DEF Inv, durable, StoreTyped
    <2>4. QED
        BY <2>1, <2>2, <2>3, OnlyDrives
<1>4. QED
    BY <1>1, <1>2, <1>3 DEF Next

\* The store, the requests in progress and the answers given fit together
\* (invoke, RequestActiveRunTermination, resolveExternalWait and Drive).
THEOREM InvHolds == Spec => []Inv
BY InitInv, NextInv, PTL DEF Spec

\* However Starts race, repeat, crash and retry: the live Run holds the key with
\* its own generation, and no generation is given twice (prepareActiveOwnerAcquire,
\* releaseActiveOwner).
THEOREM KeyHeldByLiveRun == Spec => []OneActiveRun
<1>1. Inv => OneActiveRun
    BY DEF Inv, DurableOK, OwnerOK, OneActiveRun, OwnedBy
<1>2. QED
    BY <1>1, InvHolds, PTL

\* Receipts and consumptions agree, exactly the occurrences left behind are
\* consumed, and no read reports a corrupt pair (resolveExternalWait).
THEOREM EachWaitConsumedOnce == Spec => []WaitConsumedOnce
<1>1. ASSUME Inv
      PROVE  WaitConsumedOnce
    <2>1. \A r \in Runs, c \in SignalCommands :
              receipt[r][c] # NoReceipt => consumption[r][receipt[r][c].occurrence] = c
        BY <1>1 DEF Inv, DurableOK, WaitOK
    <2>2. \A r \in Runs, o \in Occurrences :
              consumption[r][o] # None => receipt[r][consumption[r][o]].occurrence = o
        BY <1>1 DEF Inv, DurableOK, WaitOK
    <2>3. \A p \in Processes : answer[p].kind # "corrupt"
        BY <1>1, Zenon DEF Inv, LocalOK, AnswerOK, Truthful
    <2>4. ASSUME NEW r \in Runs, run[r].status \in {"accepted", "running", "waiting", "succeeded"}
          PROVE  {o \in Occurrences : consumption[r][o] # None}
                     = 1..(IF run[r].open THEN run[r].waits - 1 ELSE run[r].waits)
        <3>1. \A o \in Occurrences : consumption[r][o] # None <=>
                  o <= run[r].waits /\ (run[r].open = TRUE => o < run[r].waits)
            BY <1>1, <2>4 DEF Inv, DurableOK, WaitOK, Ended
        <3>2. run[r].waits \in 0..MaxWaits /\ run[r].open \in BOOLEAN /\ MaxWaits \in Nat
            BY <1>1, Fields, IngressAssumption DEF Inv
        <3>3. CASE run[r].open = TRUE
            <4>1. {o \in Occurrences : consumption[r][o] # None} = {o \in 1..MaxWaits : o < run[r].waits}
                BY <3>1, <3>2, <3>3 DEF Occurrences
            <4>2. {o \in 1..MaxWaits : o < run[r].waits} = 1..(run[r].waits - 1)
                BY <3>2
            <4>3. QED
                BY <3>3, <4>1, <4>2
        <3>4. CASE run[r].open = FALSE
            <4>1. {o \in Occurrences : consumption[r][o] # None} = {o \in 1..MaxWaits : o <= run[r].waits}
                BY <3>1, <3>4 DEF Occurrences
            <4>2. {o \in 1..MaxWaits : o <= run[r].waits} = 1..run[r].waits
                BY <3>2
            <4>3. QED
                BY <3>4, <4>1, <4>2
        <3>5. QED
            BY <3>2, <3>3, <3>4
    <2>5. QED
        BY <2>1, <2>2, <2>3, <2>4 DEF WaitConsumedOnce
<1>2. QED
    BY <1>1, InvHolds, PTL

\* What a caller of Invoke, Stop or a wait resolution was told stays true.
THEOREM AnswersStayTrue == Spec => []AnswersHold
<1>1. Inv => AnswersHold
    BY Zenon DEF Inv, LocalOK, AnswerOK, Truthful, AnswersHold
<1>2. QED
    BY <1>1, InvHolds, PTL

-----------------------------------------------------------------------------
(* What a step does to the key and to a decided Run.                       *)

\* A live Run moves and stays live; a stopping one only loses its wait.
Moves(r) ==
    /\ owner' = owner
    /\ \A s \in Runs \ {r} : run'[s] = run[s] /\ termination'[s] = termination[s]
    /\ run[r].status \in Live /\ run'[r].status \in Live
    /\ run[r].status = "stopping" => run'[r].status = "stopping" /\ termination'[r] = termination[r]

\* A command changes the store by admitting, stopping or resuming a Run only.
LEMMA CommandCommits ==
    ASSUME NEW p \in Processes, Start(p) \/ Stop(p) \/ Signal(p) \/ Leave(p)
    PROVE  \/ UNCHANGED durable
           \/ pc[p] = "publish" /\ Publish(p)
           \/ pc[p] = "freeze" /\ CommitStop(p)
           \/ pc[p] = "consume" /\ Consume(p)
<1>1. CASE Start(p)
    <2>1. CASE BeginStart(p) \/ PrepareAcquire(p) \/ ProbeRun(p) \/ InspectOwner(p)
        BY <2>1 DEF BeginStart, Begin, PrepareAcquire, ProbeRun, InspectOwner, Goto, Return
    <2>2. CASE LookupAdmission(p) \/ RelookupAdmission(p)
        BY <2>2 DEF LookupAdmission, RelookupAdmission, AnswerFromAdmission, Goto, Return
    <2>3. CASE CommitStart(p)
        BY <2>3 DEF CommitStart, PublishReplay, PublishConflict, Goto
    <2>4. QED
        BY <1>1, <2>1, <2>2, <2>3 DEF Start
<1>2. CASE Stop(p)
    <2>1. CASE BeginStop(p) \/ FenceStop(p) \/ FenceOwner(p) \/ DecideStop(p)
        BY <2>1 DEF BeginStop, Begin, FenceStop, FenceOwner, DecideStop, Goto, Return
    <2>2. QED
        BY <1>2, <2>1 DEF Stop, CommitStop
<1>3. CASE Signal(p)
    <2>1. CASE BeginSignal(p) \/ Authorize(p) \/ AuthorizeOwner(p) \/ LoadWait(p)
        BY <2>1 DEF BeginSignal, Begin, Authorize, AuthorizeOwner, LoadWait, Goto, Return
    <2>2. CASE FindReceipt(p) \/ RereadReceipt(p)
        BY <2>2 DEF FindReceipt, RereadReceipt, AnswerFromReceipt, Goto, Return
    <2>3. CASE FindConsumption(p) \/ RereadConsumption(p)
        BY <2>3 DEF FindConsumption, RereadConsumption, AnswerFromConsumption, Goto, Return
    <2>4. CASE CommitSignal(p)
        BY <2>4 DEF CommitSignal, ConsumeReplay, ConsumeConflict, Goto, Return
    <2>5. QED
        BY <1>3, <2>1, <2>2, <2>3, <2>4 DEF Signal
<1>4. CASE Leave(p)
    BY <1>4 DEF Leave
<1>5. QED
    BY <1>1, <1>2, <1>3, <1>4

\* A step admits a Run, ends one, moves a live one, or leaves all as it was.
LEMMA StepKinds ==
    ASSUME Inv, [Next]_vars
    PROVE  \/ UNCHANGED <<owner, run, termination>>
           \/ \E p \in Processes : pc[p] = "publish" /\ Publish(p)
           \/ \E r \in Runs : Close(r)
           \/ \E r \in Runs : Moves(r)
<1>0. TypeOK /\ StoreTyped
    BY TypeParts DEF Inv
<1>1. ASSUME NEW r \in Runs, NEW by, NEW cmd, run[r].status \in Live \ {"stopping"}, StopRun(r, by, cmd),
             UNCHANGED owner
      PROVE  Moves(r)
    <2>1. /\ run' = [run EXCEPT ![r].status = "stopping", ![r].revision = run[r].revision + 1]
          /\ termination' = [termination EXCEPT ![r] = [by |-> by, cmd |-> cmd, revision |-> run[r].revision]]
        BY <1>1 DEF StopRun
    <2>2. run'[r].status = "stopping" /\ \A s \in Runs \ {r} : run'[s] = run[s]
        BY <1>0, <2>1 DEF StoreTyped, RunType
    <2>3. \A s \in Runs \ {r} : termination'[s] = termination[s]
        BY <1>0, <2>1 DEF StoreTyped
    <2>4. QED
        BY <1>1, <2>2, <2>3 DEF Moves, Live
<1>2. ASSUME NEW p \in Processes, pc[p] = "freeze", CommitStop(p)
      PROVE  UNCHANGED <<owner, run, termination>> \/ \E r \in Runs : Moves(r)
    <2>1. CASE UNCHANGED durable
        BY <2>1 DEF durable
    <2>2. CASE /\ run[req[p].run].revision = req[p].revision /\ UNCHANGED owner
               /\ StopRun(req[p].run, "stop", req[p].cmd)
        <3>1. req[p].run \in Runs
            BY <1>2, RequestFields DEF Inv, LocalOK, RequestOK, StopPCs
        <3>2. run[req[p].run].status \in Live \ {"stopping"}
            BY <1>2, <2>2 DEF Inv, LocalOK, FenceOK
        <3>3. QED
            BY <1>1, <2>2, <3>1, <3>2
    <2>3. QED
        BY <1>2, <2>1, <2>2 DEF CommitStop, Return
<1>3. ASSUME NEW p \in Processes, pc[p] = "consume", Consume(p)
      PROVE  \E r \in Runs : Moves(r)
    <2>1. PICK r \in Runs, status \in {"running", "stopping"} : Resumes(r, status)
        BY <1>3, ConsumeFacts, SMTT(30)
    <2>2. owner' = owner
        BY <1>3 DEF Consume
    <2>3. QED
        BY <2>1, <2>2 DEF Moves, Live, Resumes
<1>4. ASSUME NEW r \in Runs, Activate(r) \/ Park(r) \/ CancelWait(r)
      PROVE  Moves(r)
    <2>1. owner' = owner /\ termination' = termination
        BY <1>4 DEF Activate, Park, CancelWait
    <2>2. run[r].waits \in 0..MaxWaits /\ MaxWaits \in Nat
        BY <1>0, Fields, IngressAssumption
    <2>3. CASE Activate(r)
        <3>1. run[r].status = "accepted" /\ Advance(r, "running", run[r].waits, FALSE)
            BY <2>3 DEF Activate
        <3>2. run'[r].status = "running" /\ \A s \in Runs \ {r} : run'[s] = run[s]
            BY <2>2, <3>1, AdvanceFacts DEF Statuses
        <3>3. QED
            BY <2>1, <3>1, <3>2 DEF Moves, Live
    <2>4. CASE Park(r)
        <3>1. /\ run[r].status = "running" /\ run[r].waits < MaxWaits
              /\ Advance(r, "waiting", run[r].waits + 1, TRUE)
            BY <2>4 DEF Park
        <3>2. run[r].waits + 1 \in 0..MaxWaits
            BY <2>2, <3>1
        <3>3. run'[r].status = "waiting" /\ \A s \in Runs \ {r} : run'[s] = run[s]
            BY <3>1, <3>2, AdvanceFacts DEF Statuses
        <3>4. QED
            BY <2>1, <3>1, <3>3 DEF Moves, Live
    <2>5. CASE CancelWait(r)
        <3>1. run[r].status = "stopping" /\ run' = [run EXCEPT ![r].open = FALSE]
            BY <2>5 DEF CancelWait
        <3>2. run'[r].status = "stopping" /\ \A s \in Runs \ {r} : run'[s] = run[s]
            BY <1>0, <3>1 DEF StoreTyped, RunType
        <3>3. QED
            BY <2>1, <3>1, <3>2 DEF Moves, Live
    <2>6. QED
        BY <1>4, <2>3, <2>4, <2>5
<1>5. ASSUME NEW r \in Runs, Fail(r)
      PROVE  Moves(r)
    BY <1>1, <1>5 DEF Fail, Live
<1>6. CASE UNCHANGED vars
    BY <1>6 DEF vars, durable
<1>7. CASE \E p \in Processes : Start(p) \/ Stop(p) \/ Signal(p) \/ Leave(p)
    BY <1>2, <1>3, <1>7, CommandCommits DEF durable
<1>8. CASE \E r \in Runs : Drive(r)
    BY <1>4, <1>5, <1>8 DEF Drive
<1>9. QED
    BY <1>6, <1>7, <1>8 DEF Next

\* A stop decision is final and a terminal Run moves no more, whatever a Start, a
\* signal or a second Stop read before it (requestRunTermination, resolveExternalWait).
THEOREM StopIsFinal == Spec => StopWins
<1> DEFINE Final(r) == /\ run[r].status = "stopping" => run'[r].status \in {"stopping", "failed", "stopped"}
                       /\ run[r].status \in Terminal => run'[r] = run[r]
                       /\ termination[r] # NoTermination => termination'[r] = termination[r]
<1>1. ASSUME Inv, [Next]_vars, NEW r \in Runs
      PROVE  Final(r)
    <2>0. RunOK(r)
        BY <1>1 DEF Inv, DurableOK
    <2>1. termination[r] # NoTermination => run[r].status \in Ended
        BY <2>0 DEF RunOK
    <2>2. CASE UNCHANGED <<owner, run, termination>>
        BY <2>2
    <2>3. ASSUME NEW p \in Processes, pc[p] = "publish", Publish(p)
          PROVE  Final(r)
        <3>1. req[p].run \in Runs /\ StoreTyped
            BY <1>1, <2>3, RequestFields, TypeParts DEF Inv, LocalOK, RequestOK, StartPCs
        <3>2. run[req[p].run].status = "absent" /\ termination' = termination
            BY <2>3 DEF Publish
        <3>3. r # req[p].run => run'[r] = run[r]
            BY <2>3, <3>1 DEF Publish, StoreTyped
        <3>4. QED
            BY <3>2, <3>3 DEF Terminal
    <2>4. ASSUME NEW s \in Runs, Close(s)
          PROVE  Final(r)
        <3>1. /\ run[s].status \in {"running", "stopping"} /\ \A t \in Runs \ {s} : run'[t] = run[t]
              /\ (run'[s].status \in Ended <=> run[s].status = "stopping")
            BY <1>1, <2>4, CloseFacts
        <3>2. termination' = termination
            BY <2>4 DEF Close
        <3>3. QED
            BY <3>1, <3>2 DEF Terminal, Ended
    <2>5. ASSUME NEW s \in Runs, Moves(s)
          PROVE  Final(r)
        BY <2>1, <2>5 DEF Moves, Live, Terminal, Ended
    <2>6. QED
        BY <1>1, <2>2, <2>3, <2>4, <2>5, StepKinds
<1>2. Inv /\ [Next]_vars => [\A r \in Runs : Final(r)]_vars
    BY <1>1
<1>3. QED
    BY <1>2, InvHolds, PTL DEF Spec, StopWins

\* The commands and Drive implement the abstract slot: an admission acquires it,
\* the terminal commit releases it, and nothing else touches it.
THEOREM ImplementsSingleActive == Spec => KeepsSlot
<1> DEFINE holder == IF owner.state = "active" THEN owner.run ELSE None
           admitted == {r \in Runs : run[r].status # "absent"}
           live == {r \in Runs : run[r].status \in Live}
<1>1. Init => Slot!Init
    <2> SUFFICES ASSUME Init PROVE Slot!Init
        OBVIOUS
    <2>1. owner.state = "none" /\ owner.generation = 0
        BY DEF Init, NoOwner
    <2>2. \A r \in Runs : run[r].status = "absent"
        BY DEF Init, Absent
    <2>3. admitted = {} /\ live = {}
        BY <2>2 DEF Live
    <2>4. QED
        BY <2>1, <2>3 DEF Slot!Init
<1>2. ASSUME Inv, [Next]_vars
      PROVE  Slot!Next \/ UNCHANGED <<holder, owner.generation, admitted, live>>
    <2>0. TypeOK /\ OwnerOK
        BY <1>2 DEF Inv, DurableOK
    <2>1. CASE UNCHANGED <<owner, run, termination>>
        BY <2>1
    <2>2. ASSUME NEW p \in Processes, pc[p] = "publish", Publish(p)
          PROVE  Slot!Next
        <3>1. PICK r \in Runs : r = req[p].run
            BY <1>2, <2>2, RequestFields DEF Inv, LocalOK, RequestOK, StartPCs
        <3>2. owner.state # "active" /\ mem[p].generation = owner.generation + 1
            BY <1>2, <2>2, PublishIsNext
        <3>3. /\ run[r].status = "absent" /\ run'[r].status = "accepted"
              /\ \A s \in Runs \ {r} : run'[s] = run[s]
            BY <2>0, <2>2, <3>1 DEF Publish, TypeOK
        <3>4. owner'.state = "active" /\ owner'.run = r /\ owner'.generation = owner.generation + 1
            BY <2>2, <3>1, <3>2 DEF Publish
        <3>5. \A s \in Runs : run[s].status \notin Live
            BY <2>0, <3>2 DEF OwnerOK
        <3>6. live = {} /\ live' = {r}
            BY <3>3, <3>5 DEF Live
        <3>7. r \notin admitted /\ admitted' = admitted \cup {r}
            BY <3>3
        <3>8. holder = None /\ holder' = r
            BY <3>2, <3>4
        <3>9. Slot!Acquire(r)
            BY <3>4, <3>6, <3>7, <3>8 DEF Slot!Acquire
        <3>a. QED
            BY <3>9 DEF Slot!Next
    <2>3. ASSUME NEW r \in Runs, Close(r)
          PROVE  Slot!Next
        <3>1. /\ run[r].status \in {"running", "stopping"} /\ run'[r].status \in Terminal
              /\ \A s \in Runs \ {r} : run'[s] = run[s]
            BY <1>2, <2>3, CloseFacts
        <3>2. /\ owner.state = "active" /\ owner.run = r /\ owner'.state = "released"
              /\ owner'.generation = owner.generation
            BY <2>3 DEF Close, ReleaseOwner, OwnedBy
        <3>3. \A s \in Runs : run[s].status \in Live <=> s = r
            BY <2>0, <3>2 DEF OwnerOK
        <3>4. r \in live /\ live' = {}
            BY <3>1, <3>3 DEF Live, Terminal
        <3>5. admitted' = admitted
            BY <3>1 DEF Terminal
        <3>6. holder = r /\ holder' = None
            BY <3>2
        <3>7. Slot!Release
            BY <3>2, <3>4, <3>5, <3>6 DEF Slot!Release
        <3>8. QED
            BY <3>7 DEF Slot!Next
    <2>4. ASSUME NEW r \in Runs, Moves(r)
          PROVE  UNCHANGED <<holder, owner.generation, admitted, live>>
        <3>1. \A s \in Runs : /\ run'[s].status \in Live <=> run[s].status \in Live
                              /\ run'[s].status = "absent" <=> run[s].status = "absent"
            BY <2>4 DEF Moves, Live
        <3>2. QED
            BY <2>4, <3>1 DEF Moves
    <2>5. QED
        BY <1>2, <2>1, <2>2, <2>3, <2>4, StepKinds
<1>3. Inv /\ [Next]_vars => [Slot!Next]_<<holder, owner.generation, admitted, live>>
    BY <1>2
<1>4. QED
    BY <1>1, <1>3, InvHolds, PTL DEF Spec, KeepsSlot, Slot!Spec
=============================================================================
