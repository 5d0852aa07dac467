------------------------------ MODULE Journal -------------------------------
(***************************************************************************)
(* The file-backed store, durable/filestore/filestore.go: a journal of     *)
(* complete snapshots behind a sidecar lock, appended to with write and    *)
(* fsync, compacted with stage, fsync, rename and directory fsync, and     *)
(* recovered by Open.                                                      *)
(*                                                                         *)
(* A state of the store is the history of the commands applied to it; a    *)
(* frame holds a whole state.  Two inodes suffice: the one the data name   *)
(* links to and the one a compaction stages.  `data' is what the running   *)
(* system reads from an inode, `safe' every content a power loss may       *)
(* leave it with; `links' are the inodes the name may point to then.       *)
(* Written bytes reach the disk in order (a frame that is not synced       *)
(* survives as a prefix); fsync, once it succeeded, holds.                 *)
(***************************************************************************)
EXTENDS Naturals, Sequences

CONSTANTS
    Commands,  \* the transactions clients send
    KeyOf,     \* the command key of each
    Procs,     \* processes that may open the store
    Budget,    \* retainedFrameBudget
    None       \* no command in hand (the store is being opened), no process

ASSUME JournalAssumption ==
    /\ DOMAIN KeyOf = Commands
    /\ Budget \in Nat \ {0}
    /\ None \notin Commands \cup Procs

Inodes == 1..2

VARIABLES
    data,      \* per inode: its content
    safe,      \* per inode: the contents a power loss may leave
    name,      \* the inode of the data file
    links,     \* the inodes the data name may have after a power loss
    lock,      \* the process that holds the sidecar lock, or None
    pc,        \* per process: where its Store is
    mem,       \* per process: Store.state
    count,     \* per process: Store.frameCount
    hand,      \* per process: the command being committed
    base,      \* per command: the revision its author read
    answered,  \* the commands whose Commit returned success
    shown      \* history variable: the state last visible to a client

disk == <<data, safe, name, links>>
memory == <<lock, mem, count, hand>>
client == <<base, answered, shown>>
vars == <<disk, pc, memory, client>>

Log == Seq(Commands)
File == [frames : Seq(Log), torn : BOOLEAN]
Content(frames, torn) == [frames |-> frames, torn |-> torn]
Empty == Content(<<>>, FALSE)

Opening == {"load", "truncate", "truncated", "barrier", "flush"}
Working == {"write", "writing", "written", "stage", "staged", "synced", "renamed"}
PCs == {"closed", "open", "poisoned"} \cup Opening \cup Working

Other(n) == 3 - n
Applied(l) == {l[i] : i \in 1..Len(l)}
Free(l, c) == \A d \in Applied(l) : KeyOf[d] # KeyOf[c]

\* load: the latest complete frame; what follows it must be a torn tail.
Recovered(f) == IF f.frames = <<>> THEN <<>> ELSE f.frames[Len(f.frames)]
Corrupt(f) == Len(f.frames) > Budget \/ (Len(f.frames) = Budget /\ f.torn)

\* The state a process is about to make durable.
Target(p) == IF hand[p] = None THEN mem[p] ELSE Append(mem[p], hand[p])

Goto(p, to) == pc' = [pc EXCEPT ![p] = to]

\* The content of an inode changes; until a sync, all of `left' may be on disk.
Put(n, f, left) ==
    /\ data' = [data EXCEPT ![n] = f]
    /\ safe' = [safe EXCEPT ![n] = @ \cup left]

Synced(n) == safe' = [safe EXCEPT ![n] = {data[n]}]

Init ==
    /\ data = [n \in Inodes |-> Empty]
    /\ safe = [n \in Inodes |-> {Empty}]
    /\ name = 1
    /\ links = {1}
    /\ lock = None
    /\ pc = [p \in Procs |-> "closed"]
    /\ mem = [p \in Procs |-> <<>>]
    /\ count = [p \in Procs |-> 0]
    /\ hand = [p \in Procs |-> None]
    /\ base = [c \in Commands |-> 0]
    /\ answered = {}
    /\ shown = <<>>

-----------------------------------------------------------------------------
(* Open.                                                                   *)

\* The sidecar lock; ErrLocked changes nothing.
Lock(p) ==
    /\ pc[p] = "closed"
    /\ lock = None
    /\ lock' = p
    /\ Goto(p, "load")
    /\ UNCHANGED <<disk, mem, count, hand, client>>

\* After the tail is gone, a journal of several frames is compacted first.
AfterLoad(n) == IF n > 1 THEN "stage" ELSE "barrier"

Load(p) ==
    LET f == data[name] IN
    /\ pc[p] = "load"
    /\ ~Corrupt(f)
    /\ mem' = [mem EXCEPT ![p] = Recovered(f)]
    /\ count' = [count EXCEPT ![p] = Len(f.frames)]
    /\ Goto(p, IF f.torn THEN "truncate" ELSE AfterLoad(Len(f.frames)))
    /\ UNCHANGED <<disk, lock, hand, client>>

Truncate(p) ==
    LET f == Content(data[name].frames, FALSE) IN
    /\ pc[p] = "truncate"
    /\ Put(name, f, {f})
    /\ Goto(p, "truncated")
    /\ UNCHANGED <<name, links, memory, client>>

SyncTruncated(p) ==
    /\ pc[p] = "truncated"
    /\ Synced(name)
    /\ Goto(p, AfterLoad(count[p]))
    /\ UNCHANGED <<data, name, links, memory, client>>

\* Open reports success only behind both barriers.
Barrier(p) ==
    /\ pc[p] = "barrier"
    /\ Synced(name)
    /\ Goto(p, "flush")
    /\ UNCHANGED <<data, name, links, memory, client>>

Flush(p) ==
    /\ pc[p] = "flush"
    /\ links' = {name}
    /\ shown' = mem[p]
    /\ Goto(p, "open")
    /\ UNCHANGED <<data, safe, name, memory, base, answered>>

-----------------------------------------------------------------------------
(* Operations of an open store.                                            *)

\* GetAggregate: the revision a transaction will expect.
Read(p, c) ==
    /\ pc[p] = "open"
    /\ base' = [base EXCEPT ![c] = Len(mem[p])]
    /\ UNCHANGED <<disk, pc, memory, answered, shown>>

\* Commit of a command the store knows: its recorded outcome.
Replay(p, c) ==
    /\ pc[p] = "open"
    /\ c \in Applied(mem[p])
    /\ answered' = answered \cup {c}
    /\ UNCHANGED <<disk, pc, memory, base, shown>>

\* MUTANT of Commit: a command key that is taken by another command is reused.
CommitAnyKey(p, c) ==
    /\ pc[p] = "open"
    /\ c \notin Applied(mem[p])
    /\ base[c] = Len(mem[p])
    /\ hand' = [hand EXCEPT ![p] = c]
    /\ \/ count[p] < Budget /\ Goto(p, "write")
       \/ Goto(p, "stage")
    /\ UNCHANGED <<disk, lock, mem, count, client>>

\* MUTANT of Commit: one frame too many is appended before a compaction.
CommitOverBudget(p, c) ==
    /\ pc[p] = "open"
    /\ Free(mem[p], c)
    /\ base[c] = Len(mem[p])
    /\ hand' = [hand EXCEPT ![p] = c]
    /\ \/ count[p] <= Budget /\ Goto(p, "write")
       \/ Goto(p, "stage")
    /\ UNCHANGED <<disk, lock, mem, count, client>>

\* Commit of a new command: its key is free and the revision it read is still
\* the current one.  shouldCompact: the frame budget, or the byte budget, which
\* may be reached at any moment.
Commit(p, c) ==
    /\ pc[p] = "open"
    /\ Free(mem[p], c)
    /\ base[c] = Len(mem[p])
    /\ hand' = [hand EXCEPT ![p] = c]
    /\ \/ count[p] < Budget /\ Goto(p, "write")
       \/ Goto(p, "stage")
    /\ UNCHANGED <<disk, lock, mem, count, client>>

\* writeAll: part of the frame, then the rest of it.
WriteSome(p) ==
    LET f == Content(data[name].frames, TRUE) IN
    /\ pc[p] = "write"
    /\ Put(name, f, {f})
    /\ Goto(p, "writing")
    /\ UNCHANGED <<name, links, memory, client>>

WriteRest(p) ==
    LET f == Content(Append(data[name].frames, Target(p)), FALSE) IN
    /\ pc[p] = "writing"
    /\ Put(name, f, {f})
    /\ Goto(p, "written")
    /\ UNCHANGED <<name, links, memory, client>>

\* The state is durable: it becomes visible and the command is answered.
Publish(p, frames) ==
    /\ mem' = [mem EXCEPT ![p] = Target(p)]
    /\ shown' = Target(p)
    /\ answered' = answered \cup {hand[p]}
    /\ hand' = [hand EXCEPT ![p] = None]
    /\ count' = [count EXCEPT ![p] = frames]
    /\ Goto(p, "open")
    /\ UNCHANGED <<lock, base>>

\* MUTANT of SyncWritten: the command is answered before the frame is synced.
SyncWrittenNot(p) ==
    /\ pc[p] = "written"
    /\ Publish(p, count[p] + 1)
    /\ UNCHANGED <<disk>>

SyncWritten(p) ==
    /\ pc[p] = "written"
    /\ Synced(name)
    /\ Publish(p, count[p] + 1)
    /\ UNCHANGED <<data, name, links>>

-----------------------------------------------------------------------------
(* replaceFrame, by Open and by a Commit over budget.                      *)

Stage(p) ==
    LET f == Content(<<Target(p)>>, FALSE) IN
    /\ pc[p] = "stage"
    /\ data' = [data EXCEPT ![Other(name)] = f]
    /\ safe' = [safe EXCEPT ![Other(name)] = {Empty, Content(<<>>, TRUE), f}]
    /\ Goto(p, "staged")
    /\ UNCHANGED <<name, links, memory, client>>

SyncStage(p) ==
    /\ pc[p] = "staged"
    /\ Synced(Other(name))
    /\ Goto(p, "synced")
    /\ UNCHANGED <<data, name, links, memory, client>>

Rename(p) ==
    /\ pc[p] = "synced"
    /\ name' = Other(name)
    /\ links' = links \cup {Other(name)}
    /\ Goto(p, "renamed")
    /\ UNCHANGED <<data, safe, memory, client>>

\* The directory is synced; Open goes on to its barriers, Commit is done.
SyncDirectory(p) ==
    /\ pc[p] = "renamed"
    /\ links' = {name}
    /\ IF hand[p] = None
       THEN /\ count' = [count EXCEPT ![p] = 1]
            /\ Goto(p, "barrier")
            /\ UNCHANGED <<lock, mem, hand, client>>
       ELSE Publish(p, 1)
    /\ UNCHANGED <<data, safe, name>>

-----------------------------------------------------------------------------
(* Failures.                                                               *)

Release(p) == lock' = IF lock = p THEN None ELSE lock

Gone(p) ==
    /\ Release(p)
    /\ Goto(p, "closed")
    /\ mem' = [mem EXCEPT ![p] = <<>>]
    /\ count' = [count EXCEPT ![p] = 0]
    /\ hand' = [hand EXCEPT ![p] = None]
    /\ UNCHANGED <<disk, client>>

\* MUTANT of IOError: a failed write leaves the store usable.
IOErrorForgiven(p) ==
    /\ pc[p] \in Opening \cup Working
    /\ IF hand[p] = None THEN Gone(p)
       ELSE /\ Goto(p, "open")
            /\ hand' = [hand EXCEPT ![p] = None]
            /\ UNCHANGED <<disk, lock, mem, count, client>>

\* A read, write, sync, rename or authority check fails: Open fails, a store
\* that was committing is poisoned.
IOError(p) ==
    /\ pc[p] \in Opening \cup Working
    /\ IF hand[p] = None THEN Gone(p)
       ELSE Goto(p, "poisoned") /\ UNCHANGED <<disk, memory, client>>

Close(p) == pc[p] \in {"open", "poisoned"} /\ Gone(p)

\* The process dies; the system keeps its files and drops its lock.
Crash(p) == pc[p] \in Opening \cup Working /\ Gone(p)

PowerLoss ==
    /\ name' \in links
    /\ links' = {name'}
    /\ data' \in {d \in [Inodes -> UNION {safe[n] : n \in Inodes}] :
                    \A n \in Inodes : d[n] \in safe[n]}
    /\ safe' = [n \in Inodes |-> {data'[n]}]
    /\ lock' = None
    /\ pc' = [p \in Procs |-> "closed"]
    /\ mem' = [p \in Procs |-> <<>>]
    /\ count' = [p \in Procs |-> 0]
    /\ hand' = [p \in Procs |-> None]
    /\ UNCHANGED client

-----------------------------------------------------------------------------

ProcStep(p) ==
    \/ Lock(p) \/ Load(p) \/ Truncate(p) \/ SyncTruncated(p) \/ Barrier(p) \/ Flush(p)
    \/ \E c \in Commands : Read(p, c) \/ Replay(p, c) \/ Commit(p, c)
    \/ WriteSome(p) \/ WriteRest(p) \/ SyncWritten(p)
    \/ Stage(p) \/ SyncStage(p) \/ Rename(p) \/ SyncDirectory(p)
    \/ IOError(p) \/ Close(p) \/ Crash(p)

Next == (\E p \in Procs : ProcStep(p)) \/ PowerLoss

Spec == Init /\ [][Next]_vars

-----------------------------------------------------------------------------
(* Properties.                                                             *)

\* Every variable holds a value of its type.
TypeOK ==
    /\ data \in [Inodes -> File]
    /\ safe \in [Inodes -> SUBSET File]
    /\ name \in Inodes
    /\ links \in SUBSET Inodes
    /\ lock \in Procs \cup {None}
    /\ pc \in [Procs -> PCs]
    /\ mem \in [Procs -> Log]
    /\ count \in [Procs -> 0..Budget]
    /\ hand \in [Procs -> Commands \cup {None}]
    /\ base \in [Commands -> Nat]
    /\ answered \in SUBSET Commands
    /\ shown \in Log

\* Whatever a crash or a power loss leaves behind, at whatever step of an
\* append, a compaction or a recovery: Open never takes it for corruption.
AlwaysRecoverable ==
    /\ ~Corrupt(data[name])
    /\ \A n \in links : \A f \in safe[n] : ~Corrupt(f)

\* An acknowledged command is in every state that could be recovered now.
AcknowledgedSurvives ==
    /\ answered \subseteq Applied(Recovered(data[name]))
    /\ \A n \in links : \A f \in safe[n] : answered \subseteq Applied(Recovered(f))

\* A store that is open and idle answers from exactly what is on disk, and has
\* counted its frames.
MemoryIsDisk ==
    \A p \in Procs : pc[p] = "open" =>
        /\ shown = mem[p]
        /\ data[name].torn = FALSE
        /\ count[p] = Len(data[name].frames)
        /\ links = {name}
        /\ \A f \in safe[name] : Recovered(f) = mem[p]

Promise == INSTANCE DurableLog WITH log <- shown

\* The store implements the history it promises: visible states only grow, by
\* one command at a time, also across failures, crashes and recoveries.
KeepsPromise == Promise!Spec

=============================================================================
