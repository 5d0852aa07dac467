------------------------------ MODULE Ingress ------------------------------
(***************************************************************************)
(* The commands that enter the kernel from outside for one active-owner    *)
(* key: Invoke (controller/controller.go, admission.go), the exact Stop    *)
(* (termination.go) and the resolution of an external wait                 *)
(* (external_waits.go), each carried out by a process that reads one       *)
(* aggregate at a time and ends in at most one compare-and-swap commit.    *)
(* Any process may issue any command again, concurrently or later, and     *)
(* may crash at every step.  Underneath, Drive moves the Runs.             *)
(*                                                                         *)
(* A command's identity digest is its `body': two requests with one        *)
(* command id and different bodies are different requests.  The store's    *)
(* command ledger and the create-only receipt of a command are written by  *)
(* the same commit and are one variable here.  A Snapshot and the waiting  *)
(* Invocation are likewise changed together: `waits' counts the            *)
(* occurrences a Run has opened and `open' says whether the last is open.  *)
(***************************************************************************)
EXTENDS Naturals

CONSTANTS
    Processes,        \* processes that carry out commands
    Runs,             \* identities of Runs that contend for the key
    StartCommands,    \* command ids of Invoke
    StartBodies,      \* everything else an Invoke request's identity covers
    StopCommands,     \* command ids of Stop
    SignalCommands,   \* command ids of wait resolutions
    SignalBodies,     \* status, payload and observation of a resolution
    Starts,           \* the Invoke requests callers may make
    Targets,          \* the Runs callers may stop and signal
    Signals,          \* the resolutions callers may make
    AcquireAttempts,  \* attempts of invoke's loop (the code has 4)
    MaxWaits,         \* bound: external waits of a Run callers may signal
    None              \* the absent value

ASSUME IngressAssumption ==
    /\ Starts \subseteq [op : {"start"}, run : Runs, cmd : StartCommands, body : StartBodies]
    /\ Targets \subseteq Runs
    /\ Signals \subseteq [op : {"signal"}, run : Targets, cmd : SignalCommands,
                          occurrence : 1..MaxWaits, body : SignalBodies]
    /\ AcquireAttempts \in Nat \ {0}
    /\ MaxWaits \in Nat
    /\ None \notin Runs \cup StartBodies \cup SignalCommands

VARIABLES
    owner,        \* the active-run-owner aggregate
    run,          \* the Run aggregates, with the external wait of the Snapshot
    termination,  \* per Run: who froze the termination, or NoTermination
    admission,    \* per Run and command: body of the admission receipt, or None
    receipt,      \* per Run and command: the resolution receipt, or NoReceipt
    consumption,  \* per Run and occurrence: the command that consumed it, or None
    pc,           \* per process: the next step of its command
    req,          \* per process: the request
    mem,          \* per process: what it read and still uses
    answer        \* per process: the outcome of the last command

durable == <<owner, run, termination, admission, receipt, consumption>>
vars == <<durable, pc, req, mem, answer>>

Terminal == {"succeeded", "failed", "stopped"}
Statuses == {"absent", "accepted", "running", "waiting", "stopping"} \cup Terminal
Live == {"accepted", "running", "waiting", "stopping"}

\* Two commits per wait, then admission, start, stop and end.
MaxRevision == 4 + 2 * MaxWaits
Occurrences == 1..MaxWaits

StartRequest == [op : {"start"}, run : Runs, cmd : StartCommands, body : StartBodies]
StopRequest == [op : {"stop"}, run : Runs, cmd : StopCommands, revision : 1..MaxRevision]
SignalRequest == [op : {"signal"}, run : Runs, cmd : SignalCommands,
                  occurrence : Occurrences, body : SignalBodies]
Idle == [op |-> "none"]

NoTermination == [by |-> "none", cmd |-> None, revision |-> 0]
NoReceipt == [occurrence |-> 0, body |-> None]

NoOwner == [state |-> "none", run |-> None, generation |-> 0, revision |-> 0]
Blank == [expected |-> 0, generation |-> 0, attempt |-> 1, revision |-> 0]
NoAnswer == [kind |-> "none", generation |-> 0]
Answers == {"accepted", "applied", "replay", "identity-conflict", "revision-conflict",
            "owner-conflict", "consumed", "corrupt", "refused"}

Absent == [status |-> "absent", revision |-> 0, generation |-> 0, waits |-> 0, open |-> FALSE]

Init ==
    /\ owner = NoOwner
    /\ run = [r \in Runs |-> Absent]
    /\ termination = [r \in Runs |-> NoTermination]
    /\ admission = [r \in Runs |-> [c \in StartCommands |-> None]]
    /\ receipt = [r \in Runs |-> [c \in SignalCommands |-> NoReceipt]]
    /\ consumption = [r \in Runs |-> [o \in Occurrences |-> None]]
    /\ pc = [p \in Processes |-> "idle"]
    /\ req = [p \in Processes |-> Idle]
    /\ mem = [p \in Processes |-> Blank]
    /\ answer = [p \in Processes |-> NoAnswer]

-----------------------------------------------------------------------------
(* Processes.                                                              *)

\* A step that reads and goes on.
Goto(p, at) ==
    /\ pc' = [pc EXCEPT ![p] = at]
    /\ UNCHANGED <<durable, req, answer>>

\* The command ends with an outcome for its caller.
Reply(p, kind, generation) ==
    /\ pc' = [pc EXCEPT ![p] = "done"]
    /\ answer' = [answer EXCEPT ![p] = [kind |-> kind, generation |-> generation]]
    /\ mem' = [mem EXCEPT ![p] = Blank]
    /\ UNCHANGED req

\* An outcome that left the store alone.
Return(p, kind) ==
    /\ Reply(p, kind, 0)
    /\ UNCHANGED durable

Begin(p, q, at) ==
    /\ pc[p] = "idle"
    /\ pc' = [pc EXCEPT ![p] = at]
    /\ req' = [req EXCEPT ![p] = q]
    /\ UNCHANGED <<durable, mem, answer>>

\* The caller has its outcome, or the process crashed, or a read failed.
Leave(p) ==
    /\ pc[p] # "idle"
    /\ pc' = [pc EXCEPT ![p] = "idle"]
    /\ req' = [req EXCEPT ![p] = Idle]
    /\ mem' = [mem EXCEPT ![p] = Blank]
    /\ answer' = [answer EXCEPT ![p] = NoAnswer]
    /\ UNCHANGED durable

OwnedBy(r) ==
    /\ owner.state = "active"
    /\ owner.run = r
    /\ owner.generation = run[r].generation

-----------------------------------------------------------------------------
(* Invoke under an active-owner key.                                       *)

\* admitIngress accepted the permit and the key.
BeginStart(p) == \E q \in Starts : Begin(p, q, "lookup")

\* The admission receipt answers a repeated command.  `at' is where the
\* command goes on without one.
AnswerFromAdmission(p, at) ==
    LET q == req[p]
        known == admission[q.run][q.cmd]
    IN  \/ /\ known = None
           /\ Goto(p, at)
           /\ UNCHANGED mem
        \/ /\ known = q.body
           /\ Reply(p, "replay", run[q.run].generation)
           /\ UNCHANGED durable
        \/ /\ known \notin {None, q.body}
           /\ Return(p, "identity-conflict")

LookupAdmission(p) == pc[p] = "lookup" /\ AnswerFromAdmission(p, "acquire")

\* prepareActiveOwnerAcquire: an active owner yields a create that must lose.
PrepareAcquire(p) ==
    /\ pc[p] = "acquire"
    /\ LET expected == IF owner.state = "released" THEN owner.revision ELSE 0
           generation == IF owner.state = "released" THEN owner.generation + 1 ELSE 1
       IN  mem' = [mem EXCEPT ![p].expected = expected, ![p].generation = generation]
    /\ Goto(p, "publish")

\* MUTANT of Publish: the commit does not expect the owner's revision.
PublishUnfenced(p) ==
    LET q == req[p] IN
    /\ admission[q.run][q.cmd] = None
    /\ run[q.run].status = "absent"
    /\ owner' = [state |-> "active", run |-> q.run, generation |-> mem[p].generation,
                 revision |-> mem[p].expected + 1]
    /\ run' = [run EXCEPT ![q.run] = [status |-> "accepted", revision |-> 1,
                   generation |-> mem[p].generation, waits |-> 0, open |-> FALSE]]
    /\ admission' = [admission EXCEPT ![q.run][q.cmd] = q.body]
    /\ Reply(p, "accepted", mem[p].generation)
    /\ UNCHANGED <<termination, receipt, consumption>>

\* The Run, its Snapshot, the owner and the receipt, in one commit.
Publish(p) ==
    LET q == req[p] IN
    /\ admission[q.run][q.cmd] = None
    /\ run[q.run].status = "absent"
    /\ owner.revision = mem[p].expected
    /\ owner' = [state |-> "active", run |-> q.run, generation |-> mem[p].generation,
                 revision |-> mem[p].expected + 1]
    /\ run' = [run EXCEPT ![q.run] = [status |-> "accepted", revision |-> 1,
                   generation |-> mem[p].generation, waits |-> 0, open |-> FALSE]]
    /\ admission' = [admission EXCEPT ![q.run][q.cmd] = q.body]
    /\ Reply(p, "accepted", mem[p].generation)
    /\ UNCHANGED <<termination, receipt, consumption>>

\* The store replays an exact command before it looks at revisions.
PublishReplay(p) ==
    /\ admission[req[p].run][req[p].cmd] = req[p].body
    /\ Reply(p, "replay", run[req[p].run].generation)
    /\ UNCHANGED durable

PublishConflict(p) ==
    LET q == req[p] IN
    /\ \/ admission[q.run][q.cmd] \notin {None, q.body}
       \/ /\ admission[q.run][q.cmd] = None
          /\ run[q.run].status # "absent" \/ owner.revision # mem[p].expected
    /\ Goto(p, "relookup")
    /\ UNCHANGED mem

CommitStart(p) ==
    /\ pc[p] = "publish"
    /\ Publish(p) \/ PublishReplay(p) \/ PublishConflict(p)

\* After a conflict: the receipt, then the Run, then the owner.
RelookupAdmission(p) == pc[p] = "relookup" /\ AnswerFromAdmission(p, "probe")

ProbeRun(p) ==
    /\ pc[p] = "probe"
    /\ \/ /\ run[req[p].run].status # "absent"
          /\ Return(p, "revision-conflict")
       \/ /\ run[req[p].run].status = "absent"
          /\ Goto(p, "inspect")
          /\ UNCHANGED mem

InspectOwner(p) ==
    /\ pc[p] = "inspect"
    /\ \/ /\ owner.state = "active"
          /\ Return(p, "owner-conflict")
       \/ /\ owner.state = "released"
          /\ mem[p].attempt = AcquireAttempts
          /\ Return(p, "revision-conflict")
       \/ /\ owner.state = "released"
          /\ mem[p].attempt < AcquireAttempts
          /\ mem' = [mem EXCEPT ![p] = [Blank EXCEPT !.attempt = mem[p].attempt + 1]]
          /\ Goto(p, "acquire")

Start(p) ==
    \/ BeginStart(p)
    \/ LookupAdmission(p)
    \/ PrepareAcquire(p)
    \/ CommitStart(p)
    \/ RelookupAdmission(p)
    \/ ProbeRun(p)
    \/ InspectOwner(p)

-----------------------------------------------------------------------------
(* The exact Stop of an owner-backed Run.                                  *)

\* The caller copies the revision from the Run, or repeats a Stop.
BeginStop(p) ==
    \E q \in StopRequest :
        /\ q.run \in Targets
        /\ q.revision \in {run[q.run].revision, termination[q.run].revision}
        /\ Begin(p, q, "fence")

\* RequestActiveRunTermination reads the Run and, unless its end is already
\* decided, the owner.
FenceStop(p) ==
    /\ pc[p] = "fence"
    /\ LET r == req[p].run
           decided == termination[r] # NoTermination \/ run[r].status \in Terminal
       IN  Goto(p, IF decided THEN "request" ELSE "fence-owner")
    /\ UNCHANGED mem

FenceOwner(p) ==
    /\ pc[p] = "fence-owner"
    /\ \/ /\ OwnedBy(req[p].run)
          /\ Goto(p, "request")
          /\ UNCHANGED mem
       \/ /\ ~OwnedBy(req[p].run)
          /\ Return(p, "owner-conflict")

\* requestRunTermination reads the Run again.  A Run whose end is decided
\* answers every other command with its present state.
DecideStop(p) ==
    LET q == req[p]
        frozen == termination[q.run]
    IN
    /\ pc[p] = "request"
    /\ \/ /\ frozen # NoTermination
          /\ frozen.cmd = q.cmd
          /\ frozen.by # "stop" \/ frozen.revision # q.revision
          /\ Return(p, "identity-conflict")
       \/ /\ frozen # NoTermination
          /\ frozen.cmd = q.cmd => frozen.by = "stop" /\ frozen.revision = q.revision
          /\ Return(p, "replay")
       \/ /\ frozen = NoTermination
          /\ run[q.run].status \in Terminal
          /\ Return(p, "refused")
       \/ /\ frozen = NoTermination
          /\ run[q.run].status \in Live
          /\ run[q.run].revision # q.revision
          /\ Return(p, "revision-conflict")
       \/ /\ frozen = NoTermination
          /\ run[q.run].status \in Live
          /\ run[q.run].revision = q.revision
          /\ Goto(p, "freeze")
          /\ UNCHANGED mem

\* The Run stops: the intent is frozen by whoever decided first.
StopRun(r, by, cmd) ==
    /\ run' = [run EXCEPT ![r].status = "stopping", ![r].revision = run[r].revision + 1]
    /\ termination' = [termination EXCEPT ![r] =
           [by |-> by, cmd |-> cmd, revision |-> run[r].revision]]

\* MUTANT of CommitStop: the revision is compared before the command ledger.
CommitStopRevisionFirst(p) ==
    /\ pc[p] = "freeze"
    /\ \/ /\ run[req[p].run].revision # req[p].revision
          /\ Return(p, "revision-conflict")
       \/ /\ run[req[p].run].revision = req[p].revision
          /\ StopRun(req[p].run, "stop", req[p].cmd)
          /\ Reply(p, "applied", 0)
          /\ UNCHANGED <<owner, admission, receipt, consumption>>

\* MUTANT of CommitStop: the Run has to be live, its revision is not expected.
CommitStopUnfenced(p) ==
    /\ pc[p] = "freeze"
    /\ run[req[p].run].status \in Live
    /\ StopRun(req[p].run, "stop", req[p].cmd)
    /\ Reply(p, "applied", 0)
    /\ UNCHANGED <<owner, admission, receipt, consumption>>

\* The commit: first the command ledger, then the revision of the Run.
CommitStop(p) ==
    LET q == req[p]
        frozen == termination[q.run]
        recorded == frozen.by = "stop" /\ frozen.cmd = q.cmd
    IN
    /\ pc[p] = "freeze"
    /\ \/ /\ recorded
          /\ Return(p, IF frozen.revision = q.revision THEN "replay" ELSE "identity-conflict")
       \/ /\ ~recorded
          /\ run[q.run].revision # q.revision
          /\ Return(p, "revision-conflict")
       \/ /\ ~recorded
          /\ run[q.run].revision = q.revision
          /\ StopRun(q.run, "stop", q.cmd)
          /\ Reply(p, "applied", 0)
          /\ UNCHANGED <<owner, admission, receipt, consumption>>

Stop(p) ==
    \/ BeginStop(p)
    \/ FenceStop(p)
    \/ FenceOwner(p)
    \/ DecideStop(p)
    \/ CommitStop(p)

-----------------------------------------------------------------------------
(* The resolution of an external wait.                                     *)

\* The caller copies the occurrence from a Snapshot it has read.
BeginSignal(p) ==
    \E q \in Signals :
        /\ q.occurrence <= run[q.run].waits
        /\ Begin(p, q, "authorize")

\* authorizeExternalWait: the Run, then the owner unless the Run has ended.
Authorize(p) ==
    /\ pc[p] = "authorize"
    /\ Goto(p, IF run[req[p].run].status \in Terminal THEN "receipt" ELSE "authorize-owner")
    /\ UNCHANGED mem

AuthorizeOwner(p) ==
    /\ pc[p] = "authorize-owner"
    /\ \/ /\ OwnedBy(req[p].run)
          /\ Goto(p, "receipt")
          /\ UNCHANGED mem
       \/ /\ ~OwnedBy(req[p].run)
          /\ Return(p, "owner-conflict")

\* A receipt answers a repeated command; it has to agree with the
\* consumption of its occurrence (verifyExternalWaitOccurrence).
AnswerFromReceipt(p, at) ==
    LET q == req[p]
        known == receipt[q.run][q.cmd]
        same == known.occurrence = q.occurrence /\ known.body = q.body
    IN  \/ /\ known = NoReceipt
           /\ Goto(p, at)
           /\ UNCHANGED mem
        \/ /\ known # NoReceipt
           /\ ~same
           /\ Return(p, "identity-conflict")
        \/ /\ known # NoReceipt
           /\ same
           /\ Return(p, IF consumption[q.run][q.occurrence] = q.cmd THEN "replay" ELSE "corrupt")

\* A consumed occurrence answers every other command; its consumer has to
\* have a receipt for it (verifyExternalWaitConsumption).
AnswerFromConsumption(p) ==
    LET q == req[p]
        consumer == consumption[q.run][q.occurrence]
    IN  /\ consumer # None
        /\ Return(p, IF receipt[q.run][consumer].occurrence = q.occurrence
                     THEN "consumed" ELSE "corrupt")

FindReceipt(p) == pc[p] = "receipt" /\ AnswerFromReceipt(p, "consumption")

FindConsumption(p) ==
    /\ pc[p] = "consumption"
    /\ \/ AnswerFromConsumption(p)
       \/ /\ consumption[req[p].run][req[p].occurrence] = None
          /\ Goto(p, "load")
          /\ UNCHANGED mem

\* The Run, the Snapshot and the Invocation: all three are fenced by the
\* commit, so that one step reads them.
LoadWait(p) ==
    LET q == req[p]
        r == run[q.run]
        matches == r.status = "waiting" /\ r.open /\ r.waits = q.occurrence
    IN
    /\ pc[p] = "load"
    /\ \/ /\ r.status \in Terminal
          /\ Return(p, "consumed")
       \/ /\ r.status \notin Terminal
          /\ ~matches
          /\ Return(p, "refused")
       \/ /\ matches
          /\ mem' = [mem EXCEPT ![p].revision = r.revision]
          /\ Goto(p, "consume")

\* Run, Invocation, Snapshot, receipt and consumption, in one commit.  The
\* node may fail to resume or the signal may report a failure: without a
\* failure handler the Run then stops.
Consume(p) ==
    LET q == req[p] IN
    /\ receipt[q.run][q.cmd] = NoReceipt
    /\ consumption[q.run][q.occurrence] = None
    /\ run[q.run].revision = mem[p].revision
    /\ \/ /\ run' = [run EXCEPT ![q.run].status = "running", ![q.run].open = FALSE,
                                ![q.run].revision = mem[p].revision + 1]
          /\ UNCHANGED termination
       \/ /\ run' = [run EXCEPT ![q.run].status = "stopping", ![q.run].open = FALSE,
                                ![q.run].revision = mem[p].revision + 1]
          /\ termination' = [termination EXCEPT ![q.run] =
                 [by |-> "signal", cmd |-> q.cmd, revision |-> mem[p].revision]]
    /\ receipt' = [receipt EXCEPT ![q.run][q.cmd] =
           [occurrence |-> q.occurrence, body |-> q.body]]
    /\ consumption' = [consumption EXCEPT ![q.run][q.occurrence] = q.cmd]
    /\ Reply(p, "applied", 0)
    /\ UNCHANGED <<owner, admission>>

\* The store replays an exact command; otherwise some revision was lost.
ConsumeReplay(p) ==
    LET q == req[p] IN
    /\ receipt[q.run][q.cmd] = [occurrence |-> q.occurrence, body |-> q.body]
    /\ Return(p, "replay")

ConsumeConflict(p) ==
    LET q == req[p] IN
    /\ receipt[q.run][q.cmd] # [occurrence |-> q.occurrence, body |-> q.body]
    /\ \/ receipt[q.run][q.cmd] # NoReceipt
       \/ consumption[q.run][q.occurrence] # None
       \/ run[q.run].revision # mem[p].revision
    /\ Goto(p, "reread")
    /\ UNCHANGED mem

CommitSignal(p) ==
    /\ pc[p] = "consume"
    /\ Consume(p) \/ ConsumeReplay(p) \/ ConsumeConflict(p)

RereadReceipt(p) == pc[p] = "reread" /\ AnswerFromReceipt(p, "reread-consumption")

RereadConsumption(p) ==
    /\ pc[p] = "reread-consumption"
    /\ \/ AnswerFromConsumption(p)
       \/ /\ consumption[req[p].run][req[p].occurrence] = None
          /\ Return(p, "revision-conflict")

Signal(p) ==
    \/ BeginSignal(p)
    \/ Authorize(p)
    \/ AuthorizeOwner(p)
    \/ FindReceipt(p)
    \/ FindConsumption(p)
    \/ LoadWait(p)
    \/ CommitSignal(p)
    \/ RereadReceipt(p)
    \/ RereadConsumption(p)

-----------------------------------------------------------------------------
(* Drive, reduced to the commits that matter here.                         *)

DriveOnly == UNCHANGED <<admission, receipt, consumption, pc, req, mem, answer>>

\* A commit of Drive that is fenced by the Run.
Advance(r, status, waits, open) ==
    run' = [run EXCEPT ![r].status = status, ![r].revision = run[r].revision + 1,
                       ![r].waits = waits, ![r].open = open]

Activate(r) ==
    /\ run[r].status = "accepted"
    /\ Advance(r, "running", run[r].waits, FALSE)
    /\ UNCHANGED <<owner, termination>>
    /\ DriveOnly

\* MUTANT of Park: the next wait reuses the generation of the last one.
ParkSameGeneration(r) ==
    /\ run[r].status = "running"
    /\ r \in Targets
    /\ Advance(r, "waiting", 1, TRUE)
    /\ UNCHANGED <<owner, termination>>
    /\ DriveOnly

\* A node waits for an event, an approval or a timer.  Runs that nobody
\* signals have no such node.
Park(r) ==
    /\ run[r].status = "running"
    /\ r \in Targets
    /\ run[r].waits < MaxWaits
    /\ Advance(r, "waiting", run[r].waits + 1, TRUE)
    /\ UNCHANGED <<owner, termination>>
    /\ DriveOnly

\* A node fails without a handler.
Fail(r) ==
    /\ run[r].status = "running"
    /\ StopRun(r, "drive", None)
    /\ UNCHANGED owner
    /\ DriveOnly

\* cancelOpenInvocations: Invocation and Snapshot only.
CancelWait(r) ==
    /\ run[r].status = "stopping"
    /\ run[r].open
    /\ run' = [run EXCEPT ![r].open = FALSE]
    /\ UNCHANGED <<owner, termination>>
    /\ DriveOnly

\* MUTANT of ReleaseOwner: the owner is left to a commit of its own.
ReleaseOwnerLater(r) ==
    /\ OwnedBy(r)
    /\ UNCHANGED owner

\* releaseActiveOwner, part of the commit that publishes a terminal Run.  An
\* owner that does not match fails the commit.
ReleaseOwner(r) ==
    /\ OwnedBy(r)
    /\ owner' = [state |-> "released", run |-> r, generation |-> owner.generation,
                 revision |-> owner.revision + 1]

\* The terminal commit: Run, ownership graph and owner.
Close(r) ==
    /\ \/ run[r].status = "running" /\ Advance(r, "succeeded", run[r].waits, FALSE)
       \/ /\ run[r].status = "stopping"
          /\ ~run[r].open
          /\ Advance(r, IF termination[r].by = "stop" THEN "stopped" ELSE "failed",
                     run[r].waits, FALSE)
    /\ ReleaseOwner(r)
    /\ UNCHANGED termination
    /\ DriveOnly

Drive(r) == Activate(r) \/ Park(r) \/ Fail(r) \/ CancelWait(r) \/ Close(r)

-----------------------------------------------------------------------------

Next ==
    \/ \E p \in Processes : Start(p) \/ Stop(p) \/ Signal(p) \/ Leave(p)
    \/ \E r \in Runs : Drive(r)

Spec == Init /\ [][Next]_vars

-----------------------------------------------------------------------------
(* Properties.                                                             *)

PCs == {"idle", "done", "lookup", "acquire", "publish", "relookup", "probe", "inspect",
        "fence", "fence-owner", "request", "freeze", "authorize", "authorize-owner",
        "receipt", "consumption", "load", "consume", "reread", "reread-consumption"}

\* The variables have their types.
TypeOK ==
    /\ owner \in [state : {"none", "active", "released"}, run : Runs \cup {None},
                  generation : Nat, revision : Nat]
    /\ run \in [Runs -> [status : Statuses, revision : Nat, generation : Nat,
                         waits : 0..MaxWaits, open : BOOLEAN]]
    /\ termination \in [Runs -> [by : {"none", "stop", "signal", "drive"},
                                 cmd : StopCommands \cup SignalCommands \cup {None},
                                 revision : Nat]]
    /\ admission \in [Runs -> [StartCommands -> StartBodies \cup {None}]]
    /\ receipt \in [Runs -> [SignalCommands -> [occurrence : 0..MaxWaits,
                                                body : SignalBodies \cup {None}]]]
    /\ consumption \in [Runs -> [Occurrences -> SignalCommands \cup {None}]]
    /\ pc \in [Processes -> PCs]
    /\ req \in [Processes -> {Idle} \cup StartRequest \cup StopRequest \cup SignalRequest]
    /\ mem \in [Processes -> [expected : Nat, generation : Nat,
                              attempt : 1..AcquireAttempts, revision : Nat]]
    /\ answer \in [Processes -> [kind : Answers \cup {"none"}, generation : Nat]]

\* However many Starts race, repeat, crash and retry: a live Run holds the
\* key with the generation frozen into it, so that two live Runs cannot exist
\* and its terminal commit never fails on the owner; no generation is given
\* twice; and the owner's revision follows from its generation, as
\* validateActiveRunOwner demands of every read.
OneActiveRun ==
    /\ \A r \in Runs : run[r].status \in Live <=> owner.state = "active" /\ owner.run = r
    /\ \A r \in Runs : run[r].status \in Live => OwnedBy(r)
    /\ \A r, s \in Runs :
           run[r].generation = run[s].generation /\ run[r].generation # 0 => r = s
    /\ owner.state = "active" => owner.revision + 1 = 2 * owner.generation
    /\ owner.state = "released" => owner.revision = 2 * owner.generation

\* The module implements the abstract slot (prepareActiveOwnerAcquire,
\* releaseActiveOwner and the commits that carry them).
Slot == INSTANCE SingleActive WITH
    holder <- IF owner.state = "active" THEN owner.run ELSE None,
    generation <- owner.generation,
    admitted <- {r \in Runs : run[r].status # "absent"},
    live <- {r \in Runs : run[r].status \in Live}
KeepsSlot == Slot!Spec

\* Exactly the occurrences a Run has left behind are consumed while it is not
\* being stopped, each by one command whose receipt names it, and every
\* receipt names the occurrence its command consumed: a late or repeated
\* signal never unlocks a later wait, and no read ever finds the two records
\* of resolveExternalWait in disagreement.
WaitConsumedOnce ==
    /\ \A r \in Runs, c \in SignalCommands :
           receipt[r][c] # NoReceipt => consumption[r][receipt[r][c].occurrence] = c
    /\ \A r \in Runs, o \in Occurrences :
           consumption[r][o] # None => receipt[r][consumption[r][o]].occurrence = o
    /\ \A r \in Runs : run[r].status \in {"accepted", "running", "waiting", "succeeded"} =>
           {o \in Occurrences : consumption[r][o] # None}
               = 1..(IF run[r].open THEN run[r].waits - 1 ELSE run[r].waits)
    /\ \A p \in Processes : answer[p].kind # "corrupt"

\* What a caller was told stays true.  A Start that was accepted or replayed is
\* the one the receipt names, with the Run's own generation, even after later
\* generations own the key; an identity conflict means that the command id
\* belongs to a different body.  A Stop that lost its revision was not recorded
\* by a concurrent copy of itself, and one that was applied or replayed will
\* not be undone.  A signal that was applied or replayed is the consumer of its
\* occurrence; one that lost its revision is not.
AnswersHold ==
    \A p \in Processes :
        LET q == req[p]
            a == answer[p]
        IN
        /\ q.op = "start" /\ a.kind \in {"accepted", "replay"} =>
               /\ admission[q.run][q.cmd] = q.body
               /\ a.generation = run[q.run].generation
               /\ a.generation # 0
        /\ q.op = "start" /\ a.kind = "identity-conflict" =>
               admission[q.run][q.cmd] \notin {None, q.body}
        /\ q.op = "stop" /\ a.kind = "revision-conflict" =>
               termination[q.run] # [by |-> "stop", cmd |-> q.cmd, revision |-> q.revision]
        /\ q.op = "stop" /\ a.kind \in {"applied", "replay"} =>
               run[q.run].status \in {"stopping"} \cup Terminal
        /\ q.op = "signal" /\ a.kind \in {"applied", "replay"} =>
               consumption[q.run][q.occurrence] = q.cmd
        /\ q.op = "signal" /\ a.kind = "revision-conflict" =>
               consumption[q.run][q.occurrence] # q.cmd

\* A stop decision is final: whatever a Start, a signal or a second Stop read
\* before it, a stopping Run only moves on to its end, a terminal Run moves no
\* more, and the frozen termination is never rewritten.
StopWins ==
    [][\A r \in Runs :
        /\ run[r].status = "stopping" => run'[r].status \in {"stopping", "failed", "stopped"}
        /\ run[r].status \in Terminal => run'[r] = run[r]
        /\ termination[r] # NoTermination => termination'[r] = termination[r]]_vars
=============================================================================
