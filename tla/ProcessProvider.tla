-------------------------- MODULE ProcessProvider ---------------------------
(***************************************************************************)
(* The Linux process provider, provider/processlocal, for one binding:     *)
(* Start, Stop and Inspect run under one mutex and are single steps.  All  *)
(* the provider knows (replayed commands, the managed group, the           *)
(* generation high-water mark) is in memory and gone after a restart.      *)
(*                                                                         *)
(* An identity is PID, PGID and start ticks; it names one process group    *)
(* for ever.  The group outlives its leader if members stay behind; the    *)
(* provider only ever looks at the leader.  A process that is dying when   *)
(* an inspection fails leaves the call uncertain.                          *)
(***************************************************************************)
EXTENDS Naturals, FiniteSets

CONSTANTS
    PIDs,           \* identities a started process can get
    NoProcess,      \* no managed group
    MaxFence,       \* bound: generations and tokens of commands
    MaxCommands,    \* bound: commands of one generation
    MaxRestarts     \* bound: restarts of the provider

ASSUME ProviderAssumption ==
    /\ NoProcess \notin PIDs
    /\ PIDs \cap {"none", "rejected", "uncertain", "stopped"} = {}
    /\ MaxFence \in Nat \ {0}
    /\ MaxCommands \in Nat \ {0}
    /\ MaxRestarts \in Nat

VARIABLES
    proc,       \* per identity: the process group as the kernel knows it
    group,      \* provider.groups[binding]
    mark,       \* provider.fences[binding], <<0, 0>> if there is none
    ledger,     \* provider.commands: the receipt each command ended with
    restarts    \* restarts so far

providerVars == <<proc, group, mark, ledger, restarts>>

GroupStates == {"unused", "up", "leaderless", "gone"}
Up == {i \in PIDs : proc[i] = "up"}

\* A command id names its generation, its number and what it asks for.
Command == [gen : 1..MaxFence, n : 1..MaxCommands, stop : {NoProcess} \cup PIDs]
Receipts == {"none", "rejected", "uncertain", "stopped"} \cup PIDs

\* A new provider knows nothing, of processes that are up neither.
ProviderInit(up) ==
    /\ proc = [i \in PIDs |-> IF i \in up THEN "up" ELSE "unused"]
    /\ group = NoProcess
    /\ mark = <<0, 0>>
    /\ ledger = [c \in Command |-> "none"]
    /\ restarts = 0

-----------------------------------------------------------------------------

\* acceptFence refuses an older generation, another token of the same one, and
\* a newer one without a higher token.
Accepted(g, t) ==
    \/ mark = <<0, 0>>
    \/ g = mark[1] /\ t = mark[2]
    \/ g > mark[1] /\ t > mark[2]

\* MUTANT of RaiseMark: the first generation stays the mark.
KeepFirstMark(g, t) == mark' = IF mark = <<0, 0>> THEN <<g, t>> ELSE mark

RaiseMark(g, t) == mark' = IF g > mark[1] THEN <<g, t>> ELSE mark

Receive(c, receipt) == ledger' = [ledger EXCEPT ![c] = receipt]

\* The same command again: the receipt, and no new observation.
Replay(c) == ledger[c] # "none" /\ UNCHANGED providerVars

\* A fresh command that leaves the processes alone.
Refuse(c, t, receipt) ==
    /\ ledger[c] = "none"
    /\ Receive(c, receipt)
    /\ UNCHANGED <<proc, restarts>>
    /\ \/ ~Accepted(c.gen, t) /\ receipt = "rejected" /\ UNCHANGED mark
       \/ Accepted(c.gen, t) /\ RaiseMark(c.gen, t)

\* Start does not start: stale fence, live group, no log file, exec failed, or
\* the new process could not be identified and was killed.  A dead group is
\* forgotten by then, unless the fence or its inspection failed.
RefuseStart(c, t, receipt) ==
    /\ c.stop = NoProcess
    /\ receipt \in {"rejected", "uncertain"}
    /\ Refuse(c, t, receipt)
    /\ \/ group' = NoProcess /\ Accepted(c.gen, t) /\ group \notin Up
       \/ group' = group /\ (receipt = "rejected" => ~Accepted(c.gen, t) \/ group \in Up \cup {NoProcess})

\* MUTANT of Start: the group is not looked at.
StartAnother(c, t, i) ==
    /\ c.stop = NoProcess
    /\ ledger[c] = "none"
    /\ Accepted(c.gen, t)
    /\ proc[i] = "unused"
    /\ proc' = [proc EXCEPT ![i] = "up"]
    /\ group' = i
    /\ RaiseMark(c.gen, t)
    /\ Receive(c, i)
    /\ UNCHANGED restarts

\* A group whose leader is alive blocks the start; a dead one is forgotten.
Start(c, t, i) ==
    /\ c.stop = NoProcess
    /\ ledger[c] = "none"
    /\ Accepted(c.gen, t)
    /\ group # NoProcess => group \notin Up
    /\ proc[i] = "unused"
    /\ proc' = [proc EXCEPT ![i] = "up"]
    /\ group' = i
    /\ RaiseMark(c.gen, t)
    /\ Receive(c, i)
    /\ UNCHANGED restarts

\* Stop does not stop: stale fence, another identity is managed, or the outcome
\* of the signals could not be seen.
RefuseStop(c, t, receipt) ==
    /\ c.stop # NoProcess
    /\ receipt \in {"rejected", "uncertain"}
    /\ receipt = "rejected" => ~Accepted(c.gen, t) \/ group \notin {NoProcess, c.stop}
    /\ Refuse(c, t, receipt)
    /\ UNCHANGED group

\* TERM, and KILL if the leader outlives the grace period: the whole group is
\* gone after KILL, after TERM members may stay behind.
Signaled(i, end) ==
    /\ end \in {"leaderless", "gone"}
    /\ proc' = IF proc[i] = "up" THEN [proc EXCEPT ![i] = end] ELSE proc

Stop(c, t, end) ==
    /\ c.stop # NoProcess
    /\ ledger[c] = "none"
    /\ Accepted(c.gen, t)
    /\ group \in {NoProcess, c.stop}
    /\ Signaled(c.stop, end)
    /\ group' = NoProcess
    /\ RaiseMark(c.gen, t)
    /\ Receive(c, "stopped")
    /\ UNCHANGED restarts

\* A stop that loses sight of the process half way may have hit it all the same.
StopUncertain(c, t, end) ==
    /\ c.stop \in Up
    /\ ledger[c] = "none"
    /\ Accepted(c.gen, t)
    /\ group \in {NoProcess, c.stop}
    /\ Signaled(c.stop, end)
    /\ RaiseMark(c.gen, t)
    /\ Receive(c, "uncertain")
    /\ UNCHANGED <<group, restarts>>

\* processadapter.Compensate stops by external identity: the target of its
\* command is that identity and not the binding, so neither the binding's mark
\* nor its group is involved.
Compensate(i, end) ==
    /\ i \in Up
    /\ Signaled(i, end)
    /\ UNCHANGED <<group, mark, ledger, restarts>>

\* Inspect raises the mark too.
Inspect(g, t) ==
    /\ Accepted(g, t)
    /\ RaiseMark(g, t)
    /\ UNCHANGED <<proc, group, ledger, restarts>>

\* Processes end by themselves, the leader perhaps before its group.
Exit(i, end) ==
    /\ proc[i] \in {"up", "leaderless"}
    /\ end \in {"leaderless", "gone"} \ {proc[i]}
    /\ proc' = [proc EXCEPT ![i] = end]
    /\ UNCHANGED <<group, mark, ledger, restarts>>

\* Its processes get Pdeathsig TERM and may ignore it.
Restart(survivors) ==
    /\ restarts < MaxRestarts
    /\ survivors \subseteq Up
    /\ proc' = [i \in PIDs |-> IF i \in Up \ survivors THEN "gone" ELSE proc[i]]
    /\ group' = NoProcess
    /\ mark' = <<0, 0>>
    /\ ledger' = [c \in Command |-> "none"]
    /\ restarts' = restarts + 1

=============================================================================
