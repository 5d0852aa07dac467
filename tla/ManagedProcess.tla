--------------------------- MODULE ManagedProcess ---------------------------
(***************************************************************************)
(* RuntimeBinding and process provider together: controllers that lease    *)
(* one binding drive its process through the provider and record in the    *)
(* binding what the provider told them.  Nothing but the fence ties the    *)
(* two: a controller that lost its lease does not know it and goes on      *)
(* calling the provider with its old generation.                           *)
(*                                                                         *)
(* The controllers are the host's and are not in the repository; they are  *)
(* modelled from the port (provider/process), the commands of the reducers *)
(* and the tests of both: a controller reports only what it was told, and  *)
(* may stop acting at any point.                                           *)
(***************************************************************************)
EXTENDS RuntimeBinding, ProcessProvider

ASSUME SameNames ==
    /\ PIDs = Identities
    /\ NoProcess = NoIdentity
    /\ MaxFence = MaxGeneration

VARIABLE mem    \* what each controller knows: its fence, the identity, news to report

vars == <<binding, ownership, now, proc, group, mark, ledger, restarts, mem>>

News == {"none", "running", "stopped"}
Memory == [gen : 0..MaxGeneration, token : 0..MaxGeneration,
           id : Identities \cup {NoIdentity}, news : News]

TypeOK ==
    /\ binding \in Binding
    /\ ownership \in {"owned", "attached"}
    /\ now \in 0..MaxTime
    /\ proc \in [PIDs -> GroupStates]
    /\ group \in PIDs \cup {NoProcess}
    /\ mark \in (0..MaxFence) \X (0..MaxFence)
    /\ ledger \in [Command -> Receipts]
    /\ restarts \in 0..MaxRestarts
    /\ mem \in [Owners -> Memory]

\* An attached runtime is somebody else's process and up already.
Init ==
    /\ BindingInit
    /\ \/ ownership = "owned" /\ ProviderInit({})
       \/ ownership = "attached" /\ \E i \in PIDs : ProviderInit({i})
    /\ mem = [o \in Owners |-> [gen |-> 0, token |-> 0, id |-> NoIdentity, news |-> "none"]]

-----------------------------------------------------------------------------

Learn(o, id, news) == mem' = [mem EXCEPT ![o].id = id, ![o].news = news]

\* The process an attached binding is about.
Attached == {i \in PIDs : ownership = "attached" /\ proc[i] # "unused"}

\* The controller's fence is the one it created or took over; the intent of a
\* takeover carries the recorded identity.
PrepareBinding(o) ==
    /\ Prepare(o)
    /\ \E i \in IF Attached = {} THEN {NoIdentity} ELSE Attached :
          mem' = [mem EXCEPT ![o] = [gen |-> 1, token |-> 1, id |-> i, news |-> "none"]]
    /\ UNCHANGED providerVars

TakeoverBinding(o) ==
    /\ \E t \in Tokens :
          /\ Takeover(o, t)
          /\ mem' = [mem EXCEPT ![o] = [gen |-> binding.gen + 1, token |-> t,
                                        id |-> binding.id, news |-> "none"]]
    /\ UNCHANGED providerVars

HeartbeatBinding(o) ==
    /\ Heartbeat(o, mem[o].gen, mem[o].token)
    /\ UNCHANGED <<providerVars, mem>>

\* Only what the provider said is reported as running or stopped.
Report(o) ==
    /\ mem[o].news # "none"
    /\ Observe(o, mem[o].gen, mem[o].token, mem[o].id, mem[o].news)
    /\ Learn(o, mem[o].id, "none")
    /\ UNCHANGED providerVars

\* A controller that cannot reach the provider, waits for it, or gives the
\* process up.
ReportOwnView(o, state) ==
    /\ state \in {"unknown", "starting", "stopping", "failed", "lost"}
    /\ Observe(o, mem[o].gen, mem[o].token, mem[o].id, state)
    /\ UNCHANGED <<providerVars, mem>>

ReleaseBinding(o) ==
    /\ \/ BeginRelease(o, mem[o].gen, mem[o].token)
       \/ FinishRelease(o, mem[o].gen, mem[o].token)
    /\ UNCHANGED <<providerVars, mem>>

-----------------------------------------------------------------------------

StartCommand(o, n) == [gen |-> mem[o].gen, n |-> n, stop |-> NoProcess]
StopCommand(o, n) == [gen |-> mem[o].gen, n |-> n, stop |-> mem[o].id]

\* A call's answer may be lost; the provider has acted all the same.
Answered(o, id, news) == Learn(o, id, news) \/ UNCHANGED mem

\* Whoever has ever held a lease may call, whatever became of it.
CallStart(o, n) ==
    /\ ownership = "owned" /\ mem[o].gen > 0
    /\ \E i \in PIDs :
          /\ Start(StartCommand(o, n), mem[o].token, i)
          /\ Answered(o, i, "running")
    /\ UNCHANGED bindingVars

\* A replay carries the receipt with the identity, and no observation.
CallStartReplayed(o, n) ==
    /\ ownership = "owned" /\ mem[o].gen > 0
    /\ Replay(StartCommand(o, n))
    /\ LET receipt == ledger[StartCommand(o, n)]
       IN  receipt \in PIDs /\ receipt # mem[o].id /\ Learn(o, receipt, "none")
    /\ UNCHANGED bindingVars

CallStartRefused(o, n) ==
    /\ ownership = "owned" /\ mem[o].gen > 0
    /\ \E receipt \in Receipts : RefuseStart(StartCommand(o, n), mem[o].token, receipt)
    /\ UNCHANGED <<bindingVars, mem>>

CallStop(o, n, end) ==
    /\ ownership = "owned" /\ mem[o].gen > 0 /\ mem[o].id # NoIdentity
    /\ Stop(StopCommand(o, n), mem[o].token, end)
    /\ Answered(o, mem[o].id, "stopped")
    /\ UNCHANGED bindingVars

CallStopFailed(o, n) ==
    /\ ownership = "owned" /\ mem[o].gen > 0 /\ mem[o].id # NoIdentity
    /\ LET c == StopCommand(o, n)
       IN  \/ \E receipt \in Receipts : RefuseStop(c, mem[o].token, receipt)
           \/ \E end \in GroupStates : StopUncertain(c, mem[o].token, end)
    /\ UNCHANGED <<bindingVars, mem>>

CallInspect(o) ==
    /\ mem[o].gen > 0 /\ mem[o].id # NoIdentity
    /\ Inspect(mem[o].gen, mem[o].token)
    /\ Learn(o, mem[o].id, IF mem[o].id \in Up THEN "running" ELSE "stopped")
    /\ UNCHANGED bindingVars

\* Saga cleanup, the kernel and the host act behind the controllers' backs.
Elsewhere ==
    /\ \/ \E i \in PIDs, end \in GroupStates : Compensate(i, end)
       \/ \E i \in PIDs, end \in GroupStates : Exit(i, end)
       \/ \E survivors \in SUBSET Up : Restart(survivors)
    /\ UNCHANGED <<bindingVars, mem>>

Clock == Tick /\ UNCHANGED <<providerVars, mem>>

Next ==
    \/ \E o \in Owners :
          \/ PrepareBinding(o) \/ TakeoverBinding(o) \/ HeartbeatBinding(o)
          \/ Report(o) \/ ReleaseBinding(o) \/ CallInspect(o)
          \/ \E state \in Observed : ReportOwnView(o, state)
          \/ \E n \in 1..MaxCommands :
                \/ CallStart(o, n) \/ CallStartReplayed(o, n) \/ CallStartRefused(o, n)
                \/ CallStopFailed(o, n)
                \/ \E end \in GroupStates : CallStop(o, n, end)
    \/ Elsewhere
    \/ Clock

Spec == Init /\ [][Next]_vars

-----------------------------------------------------------------------------
(***************************************************************************)
(* Properties.                                                             *)
(***************************************************************************)

\* The current owner has heard from the provider and recorded it.
Established == binding.seen = binding.gen /\ binding.observed \in {"running", "stopped"}

\* An owned binding is released only when the process it names is not running:
\* the proof FinishRelease asks for is about that process, whoever stopped it.
ReleasedIsStopped ==
    binding.state = "released" /\ ownership = "owned" => binding.id \notin Up

\* As long as the provider remembers, a binding has at most one process group
\* with a live leader, however many generations and controllers ask for one.
\* Members that outlive their leader are not counted: the provider looks at
\* leaders only, and starts the next group beside them.
OneProcessPerBinding == restarts = 0 => Cardinality(Up) <= 1

\* A generation's new command is rejected and touches no process once a later
\* generation has the provider's word in the binding.
Powerless(c) ==
    c.gen < binding.gen /\ Established /\ ledger[c] = "none" /\ ledger'[c] # "none"
        => ledger'[c] = "rejected" /\ proc' = proc

\* The controller that lost its lease cannot start or stop anything any more
\* once its successor is established, if the provider was not restarted.
OldOwnerPowerless == [][restarts = 0 => \A c \in Command : Powerless(c)]_vars
=============================================================================
