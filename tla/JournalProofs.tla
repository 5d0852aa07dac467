---------------------------- MODULE JournalProofs ---------------------------
(***************************************************************************)
(* Proofs about the file-backed store, for any commands, processes and     *)
(* frame budget: every state a crash or a power loss may leave is          *)
(* recoverable, no acknowledged command is lost, and the store implements  *)
(* DurableLog.                                                             *)
(***************************************************************************)
EXTENDS Journal, TLAPS

\* A state that may be recovered: the visible one, or the visible one and the
\* command whose Commit is under way or ended in an error.
Possible(l) ==
    \/ l = shown
    \/ \E c \in Commands : Free(shown, c) /\ base[c] = Len(shown) /\ l = Append(shown, c)

\* Everything a power loss may leave under the data name is recoverable.  The
\* name is only in doubt after a rename, and then it leads to a whole frame.
DiskOK ==
    /\ name \in links
    /\ \A n \in Inodes : data[n] \in safe[n]
    /\ \A n \in links : \A f \in safe[n] : Possible(Recovered(f)) /\ ~Corrupt(f)
    /\ \/ links = {name}
       \/ /\ safe[name] = {data[name]}
          /\ data[name].torn = FALSE
          /\ Len(data[name].frames) = 1

\* The sidecar lock belongs to the only process that has the store.
LockOK == \A p \in Procs : pc[p] # "closed" <=> lock = p

\* What a process that has the store knows about the disk, step by step.
HandOK(p) ==
    /\ pc[p] \in Opening \cup {"closed", "open"} => hand[p] = None
    /\ pc[p] \in {"write", "writing", "written"} => hand[p] # None
    /\ hand[p] # None => /\ mem[p] = shown
                         /\ Free(shown, hand[p])
                         /\ base[hand[p]] = Len(shown)

LoadedOK(p) ==
    /\ pc[p] \in {"truncate", "truncated", "barrier", "flush", "open", "write", "writing",
                  "stage", "staged", "synced"} =>
           mem[p] = Recovered(data[name]) /\ count[p] = Len(data[name].frames)
    /\ pc[p] \in {"truncate", "truncated", "open", "write", "writing", "written",
                  "stage", "staged", "synced"} => links = {name}
    /\ pc[p] \in {"truncated", "barrier", "flush", "open", "write"} => data[name].torn = FALSE
    /\ pc[p] \in {"flush", "open", "write"} => safe[name] = {data[name]}
    /\ pc[p] = "open" => shown = mem[p]

WritingOK(p) ==
    /\ pc[p] \in {"write", "writing", "written"} => count[p] < Budget
    /\ pc[p] = "written" => /\ Recovered(data[name]) = Target(p)
                            /\ Len(data[name].frames) = count[p] + 1
                            /\ data[name].torn = FALSE
    /\ pc[p] \in {"staged", "synced"} => data[Other(name)] = Content(<<Target(p)>>, FALSE)
    /\ pc[p] = "synced" => safe[Other(name)] = {data[Other(name)]}
    /\ pc[p] = "renamed" => /\ data[name] = Content(<<Target(p)>>, FALSE)
                            /\ safe[name] = {data[name]}

Phase(p) == HandOK(p) /\ LoadedOK(p) /\ WritingOK(p)

Inv ==
    /\ TypeOK
    /\ DiskOK
    /\ LockOK
    /\ answered \subseteq Applied(shown)
    /\ \A p \in Procs : Phase(p)

-----------------------------------------------------------------------------
(* The operators.                                                          *)

\* There are two inodes.
LEMMA OtherFacts ==
    ASSUME NEW n \in Inodes
    PROVE  Other(n) \in Inodes /\ Other(n) # n /\ Other(Other(n)) = n /\ Inodes = {n, Other(n)}
BY DEF Inodes, Other

\* A content is what it was made of.
LEMMA ContentFacts ==
    ASSUME NEW frames \in Seq(Log), NEW torn \in BOOLEAN
    PROVE  /\ Content(frames, torn) \in File
           /\ Content(frames, torn).frames = frames
           /\ Content(frames, torn).torn = torn
BY DEF Content, File

\* load returns a state, and the last one written if a frame was appended.
LEMMA RecoveredFacts ==
    /\ \A f \in File : Recovered(f) \in Log
    /\ \A f \in File, torn \in BOOLEAN : Recovered(Content(f.frames, torn)) = Recovered(f)
    /\ \A f \in File, l \in Log, torn \in BOOLEAN : Recovered(Content(Append(f.frames, l), torn)) = l
    /\ \A l \in Log, torn \in BOOLEAN : Recovered(Content(<<l>>, torn)) = l
<1>1. ASSUME NEW f \in File PROVE Recovered(f) \in Log
  <2>1. f.frames \in Seq(Log) /\ <<>> \in Log
      BY DEF File, Log
  <2>2. CASE f.frames = <<>>
      BY <2>1, <2>2 DEF Recovered
  <2>3. CASE f.frames # <<>>
    <3>1. Len(f.frames) \in 1..Len(f.frames)
        BY <2>1, <2>3
    <3>2. QED
        BY <2>1, <2>3, <3>1 DEF Recovered
  <2>4. QED
      BY <2>2, <2>3
<1>2. ASSUME NEW f \in File, NEW torn \in BOOLEAN PROVE Recovered(Content(f.frames, torn)) = Recovered(f)
    BY DEF Recovered, Content
<1>3. ASSUME NEW f \in File, NEW l \in Log, NEW torn \in BOOLEAN
      PROVE  Recovered(Content(Append(f.frames, l), torn)) = l
  <2>1. f.frames \in Seq(Log)
      BY DEF File
  <2>2. Append(f.frames, l) # <<>> /\ Append(f.frames, l)[Len(Append(f.frames, l))] = l
      BY <2>1
  <2>3. QED
      BY <2>2 DEF Recovered, Content
<1>4. ASSUME NEW l \in Log, NEW torn \in BOOLEAN PROVE Recovered(Content(<<l>>, torn)) = l
    BY DEF Recovered, Content
<1>5. QED
    BY <1>1, <1>2, <1>3, <1>4

\* Appending to a history keeps what was applied and adds the command.
LEMMA AppendFacts ==
    ASSUME NEW l \in Log, NEW c \in Commands
    PROVE  /\ Append(l, c) \in Log
           /\ Applied(Append(l, c)) = Applied(l) \cup {c}
<1>1. Append(l, c) \in Log /\ Len(Append(l, c)) = Len(l) + 1 /\ Len(l) \in Nat
    BY DEF Log
<1>2. \A i \in 1..Len(l) : Append(l, c)[i] = l[i]
    BY DEF Log
<1>3. Append(l, c)[Len(l) + 1] = c
    BY DEF Log
<1>4. 1..(Len(l) + 1) = (1..Len(l)) \cup {Len(l) + 1}
    BY <1>1
<1>5. QED
    BY <1>1, <1>2, <1>3, <1>4 DEF Applied

\* What is possible keeps every visible command.
LEMMA PossibleKeeps ==
    ASSUME TypeOK, NEW l, Possible(l)
    PROVE  l \in Log /\ Applied(shown) \subseteq Applied(l)
<1>1. CASE l = shown
    BY <1>1 DEF TypeOK
<1>2. ASSUME NEW c \in Commands, l = Append(shown, c)
      PROVE  l \in Log /\ Applied(shown) \subseteq Applied(l)
    BY <1>2, AppendFacts DEF TypeOK
<1>3. QED
    BY <1>1, <1>2 DEF Possible

\* What a process is about to make durable is a state.
LEMMA TargetTyped ==
    ASSUME TypeOK, NEW p \in Procs
    PROVE  Target(p) \in Log
BY AppendFacts DEF TypeOK, Target

\* ... and a possible one, if a command in hand was based on the visible state.
LEMMA TargetPossible ==
    ASSUME TypeOK, NEW p \in Procs, HandOK(p), hand[p] = None => Possible(mem[p])
    PROVE  Possible(Target(p))
BY DEF TypeOK, HandOK, Target, Possible

\* Whole states and prefixes within the budget are never taken for corruption.
LEMMA FrameFacts ==
    ASSUME NEW frames \in Seq(Log)
    PROVE  /\ Len(frames) <= Budget => ~Corrupt(Content(frames, FALSE))
           /\ Len(frames) < Budget => ~Corrupt(Content(frames, TRUE))
BY JournalAssumption DEF Corrupt, Content

-----------------------------------------------------------------------------
(* The steps.                                                              *)

\* The initial states: an empty file and nobody who has it.
LEMMA InitInv == Init => Inv
<1> SUFFICES ASSUME Init PROVE Inv
    OBVIOUS
<1>1. Empty \in File /\ Recovered(Empty) = <<>> /\ ~Corrupt(Empty)
  <2>1. <<>> \in Seq(Log) /\ Len(<<>>) = 0 /\ FALSE \in BOOLEAN
      OBVIOUS
  <2>2. Empty \in File /\ Empty.frames = <<>>
      BY <2>1, ContentFacts DEF Empty
  <2>3. ~Corrupt(Empty)
      BY <2>1, JournalAssumption DEF Empty, Content, Corrupt
  <2>4. QED
      BY <2>2, <2>3 DEF Recovered
<1>2. TypeOK
    BY <1>1, JournalAssumption DEF Init, TypeOK, Inodes, PCs, Log
<1>3. DiskOK
    BY <1>1 DEF Init, DiskOK, Inodes, Possible
<1>4. LockOK
    BY JournalAssumption DEF Init, LockOK
<1>5. \A p \in Procs : Phase(p)
    BY DEF Init, Phase, HandOK, LoadedOK, WritingOK
<1>6. QED
    BY <1>2, <1>3, <1>4, <1>5 DEF Inv, Init

\* A process that has the store is alone: nobody else knows anything.
LEMMA Alone ==
    ASSUME Inv, NEW p \in Procs, lock \in {p, None}
    PROVE  \A q \in Procs \ {p} : pc[q] = "closed" /\ hand[q] = None
BY JournalAssumption DEF Inv, LockOK, Phase, HandOK

\* A step of one process keeps the invariant if it keeps what concerns the
\* disk, the lock and the process.
LEMMA StepOfOne ==
    ASSUME Inv, NEW p \in Procs, lock \in {p, None}, lock' \in {p, None},
           TypeOK', DiskOK', answered' \subseteq Applied(shown'), Phase(p)',
           pc'[p] # "closed" <=> lock' = p,
           \A q \in Procs \ {p} : pc'[q] = pc[q] /\ hand'[q] = hand[q]
    PROVE  Inv'
<1>1. \A q \in Procs \ {p} : pc'[q] = "closed" /\ hand'[q] = None
    BY Alone
<1>2. \A q \in Procs \ {p} : Phase(q)'
    BY <1>1 DEF Phase, HandOK, LoadedOK, WritingOK
<1>3. LockOK'
    BY <1>1, JournalAssumption DEF LockOK
<1>4. QED
    BY <1>2, <1>3 DEF Inv

\* Open takes the lock.
LEMMA LockKeeps == ASSUME Inv, NEW p \in Procs, Lock(p) PROVE Inv'
<1> USE DEF Inv
<1>1. /\ UNCHANGED <<disk, mem, count, hand, client>>
      /\ lock = None /\ lock' = p /\ pc' = [pc EXCEPT ![p] = "load"]
    BY DEF Lock, Goto
<1>2. TypeOK'
    BY <1>1 DEF TypeOK, disk, client, PCs, Opening
<1>3. DiskOK'
    BY <1>1 DEF DiskOK, disk, client, Possible
<1>4. hand[p] = None
    BY DEF Lock, Phase, HandOK
<1>5. Phase(p)'
    BY <1>1, <1>4 DEF TypeOK, Phase, HandOK, LoadedOK, WritingOK
<1>6. QED
    BY <1>1, <1>2, <1>3, <1>5, StepOfOne DEF TypeOK, client

\* load reads the latest frame; a name in doubt leads to a file of one frame.
LEMMA LoadKeeps == ASSUME Inv, NEW p \in Procs, Load(p) PROVE Inv'
<1> USE DEF Inv
<1> DEFINE f == data[name]
           to == IF f.torn THEN "truncate" ELSE AfterLoad(Len(f.frames))
<1>1. /\ UNCHANGED <<disk, lock, hand, client>>
      /\ mem' = [mem EXCEPT ![p] = Recovered(f)]
      /\ count' = [count EXCEPT ![p] = Len(f.frames)]
      /\ pc' = [pc EXCEPT ![p] = to]
      /\ pc[p] = "load"
    BY DEF Load, Goto
<1>2. f \in File /\ ~Corrupt(f) /\ Len(f.frames) \in 0..Budget
    BY JournalAssumption DEF TypeOK, File, Load, Corrupt
<1>3. hand[p] = None /\ lock = p
    BY <1>1 DEF Phase, HandOK, Opening, LockOK
<1>4. /\ to \in {"truncate", "stage", "barrier"}
      /\ to = "truncate" => f.torn # FALSE
      /\ to \in {"stage", "barrier"} => f.torn = FALSE
      /\ to = "stage" => Len(f.frames) # 1
  <2> DEFINE n == Len(f.frames)
  <2>1. n \in Nat /\ f.torn \in BOOLEAN
      BY <1>2, JournalAssumption DEF File
  <2> HIDE DEF f, n
  <2>2. CASE f.torn
      BY <2>1, <2>2
  <2>3. CASE ~f.torn /\ n > 1
    <3>1. n # 1
        BY <2>1, <2>3
    <3>2. to = "stage"
        BY <2>3 DEF AfterLoad, n
    <3>3. QED
        BY <2>1, <2>3, <3>1, <3>2 DEF n
  <2>4. CASE ~f.torn /\ ~(n > 1)
    <3>1. to = "barrier"
        BY <2>4 DEF AfterLoad, n
    <3>2. QED
        BY <2>1, <2>4, <3>1
  <2>5. QED
      BY <2>2, <2>3, <2>4
<1> HIDE DEF f, to
<1>5. to \in {"truncate", "stage"} => links = {name}
    BY <1>4 DEF DiskOK, f
<1>6. TypeOK'
    BY <1>1, <1>2, <1>4, RecoveredFacts DEF TypeOK, disk, client, PCs, Opening, Working
<1>7. DiskOK'
    BY <1>1 DEF DiskOK, disk, client, Possible
<1>8. pc'[p] = to /\ mem'[p] = Recovered(f) /\ count'[p] = Len(f.frames) /\ hand'[p] = None
    BY <1>1, <1>3 DEF TypeOK
<1>9. Phase(p)'
    BY <1>1, <1>4, <1>5, <1>8 DEF Phase, HandOK, LoadedOK, WritingOK, disk, f
<1>10. QED
    BY <1>1, <1>3, <1>4, <1>6, <1>7, <1>8, <1>9, StepOfOne DEF TypeOK, client

\* A write in place while the name is not in doubt.
LEMMA PutFacts ==
    ASSUME TypeOK, DiskOK, NEW f \in File, Put(name, f, {f}), links = {name},
           Possible(Recovered(f)), ~Corrupt(f), UNCHANGED <<name, links, client>>
    PROVE  /\ data' \in [Inodes -> File] /\ safe' \in [Inodes -> SUBSET File]
           /\ data'[name] = f
           /\ DiskOK'
<1>1. data' \in [Inodes -> File] /\ safe' \in [Inodes -> SUBSET File]
    BY DEF TypeOK, Put
<1>2. data'[name] = f /\ safe'[name] = safe[name] \cup {f}
    BY DEF TypeOK, Put
<1>3. \A n \in Inodes \ {name} : data'[n] = data[n] /\ safe'[n] = safe[n]
    BY DEF TypeOK, Put
<1>4. \A l : Possible(l) => Possible(l)'
    BY DEF client, Possible
<1>5. QED
    BY <1>1, <1>2, <1>3, <1>4 DEF DiskOK

\* A sync leaves one content for the power loss to leave.
LEMMA SyncedFacts ==
    ASSUME TypeOK, DiskOK, NEW n \in Inodes, Synced(n), UNCHANGED <<data, name, links>>
    PROVE  /\ safe' \in [Inodes -> SUBSET File]
           /\ safe'[n] = {data[n]}
           /\ \A m \in Inodes : data[m] \in safe'[m]
           /\ \A m \in Inodes : safe'[m] \subseteq safe[m]
           /\ UNCHANGED client => DiskOK'
<1>1. safe' \in [Inodes -> SUBSET File] /\ safe'[n] = {data[n]}
    BY DEF TypeOK, Synced
<1>2. \A m \in Inodes \ {n} : safe'[m] = safe[m]
    BY DEF TypeOK, Synced
<1>3. (\A m \in Inodes : data[m] \in safe'[m]) /\ (\A m \in Inodes : safe'[m] \subseteq safe[m])
    BY <1>1, <1>2 DEF DiskOK
<1>4. ASSUME UNCHANGED client PROVE DiskOK'
  <2>1. \A l : Possible(l) => Possible(l)'
      BY <1>4 DEF client, Possible
  <2>2. \A m \in links' : \A f \in safe'[m] : Possible(Recovered(f))' /\ ~Corrupt(f)
      BY <1>3, <2>1 DEF DiskOK, TypeOK
  <2>3. links' = {name'} \/ (/\ safe'[name'] = {data'[name']} /\ data'[name'].torn = FALSE
                             /\ Len(data'[name'].frames) = 1)
      BY <1>3 DEF DiskOK, TypeOK
  <2>4. QED
      BY <1>3, <2>2, <2>3 DEF DiskOK
<1>5. QED
    BY <1>1, <1>3, <1>4

\* The torn tail is cut off.
LEMMA TruncateKeeps == ASSUME Inv, NEW p \in Procs, Truncate(p) PROVE Inv'
<1> USE DEF Inv
<1> DEFINE f == Content(data[name].frames, FALSE)
<1>1. /\ UNCHANGED <<name, links, memory, client>> /\ Put(name, f, {f})
      /\ pc' = [pc EXCEPT ![p] = "truncated"] /\ pc[p] = "truncate"
    BY DEF Truncate, Goto
<1>2. Phase(p) /\ lock = p
    BY <1>1 DEF LockOK
<1>3. /\ hand[p] = None /\ links = {name}
      /\ mem[p] = Recovered(data[name]) /\ count[p] = Len(data[name].frames)
    BY <1>1, <1>2 DEF Phase, HandOK, LoadedOK, Opening
<1>4. data[name] \in File /\ data[name].frames \in Seq(Log) /\ count[p] \in 0..Budget
    BY DEF TypeOK, File
<1>5. f \in File /\ f.frames = data[name].frames /\ f.torn = FALSE /\ Recovered(f) = Recovered(data[name])
    BY <1>4, ContentFacts, RecoveredFacts
<1>6. ~Corrupt(f)
  <2>1. Len(data[name].frames) <= Budget
      BY <1>3, <1>4, JournalAssumption
  <2>2. QED
      BY <1>4, <2>1, FrameFacts
<1>7. Possible(Recovered(f))
    BY <1>5 DEF DiskOK, TypeOK
<1> HIDE DEF f
<1>8. /\ data' \in [Inodes -> File] /\ safe' \in [Inodes -> SUBSET File]
      /\ data'[name] = f /\ DiskOK'
    BY <1>1, <1>3, <1>5, <1>6, <1>7, PutFacts
<1>9. TypeOK'
    BY <1>1, <1>8 DEF TypeOK, memory, client, PCs, Opening
<1>10. pc'[p] = "truncated"
    BY <1>1 DEF TypeOK
<1>11. Phase(p)'
    BY <1>1, <1>3, <1>5, <1>8, <1>10 DEF Phase, HandOK, LoadedOK, WritingOK, memory
<1>12. QED
    BY <1>1, <1>2, <1>8, <1>9, <1>10, <1>11, StepOfOne DEF TypeOK, memory, client

\* A sync while the store is opened.
LEMMA SyncTruncatedKeeps == ASSUME Inv, NEW p \in Procs, SyncTruncated(p) PROVE Inv'
<1> USE DEF Inv
<1>1. /\ UNCHANGED <<data, name, links, memory, client>> /\ Synced(name)
      /\ pc' = [pc EXCEPT ![p] = AfterLoad(count[p])] /\ pc[p] = "truncated"
    BY DEF SyncTruncated, Goto
<1>2. Phase(p) /\ lock = p
    BY <1>1 DEF LockOK
<1>3. AfterLoad(count[p]) \in {"stage", "barrier"}
    BY DEF AfterLoad
<1>4. safe' \in [Inodes -> SUBSET File] /\ DiskOK'
    BY <1>1, SyncedFacts DEF TypeOK
<1>5. TypeOK'
    BY <1>1, <1>3, <1>4 DEF TypeOK, memory, client, PCs, Opening, Working
<1>6. pc'[p] \in {"stage", "barrier"}
    BY <1>1, <1>3 DEF TypeOK
<1>7. Phase(p)'
    BY <1>1, <1>2, <1>6 DEF Phase, HandOK, LoadedOK, WritingOK, memory, client, Opening
<1>8. QED
    BY <1>1, <1>2, <1>4, <1>5, <1>6, <1>7, StepOfOne DEF TypeOK, memory, client

\* The first barrier of Open: the file.
LEMMA BarrierKeeps == ASSUME Inv, NEW p \in Procs, Barrier(p) PROVE Inv'
<1> USE DEF Inv
<1>1. /\ UNCHANGED <<data, name, links, memory, client>> /\ Synced(name)
      /\ pc' = [pc EXCEPT ![p] = "flush"] /\ pc[p] = "barrier"
    BY DEF Barrier, Goto
<1>2. Phase(p) /\ lock = p
    BY <1>1 DEF LockOK
<1>3. safe' \in [Inodes -> SUBSET File] /\ safe'[name] = {data[name]} /\ DiskOK'
    BY <1>1, SyncedFacts DEF TypeOK
<1>4. TypeOK'
    BY <1>1, <1>3 DEF TypeOK, memory, client, PCs, Opening
<1>5. pc'[p] = "flush"
    BY <1>1 DEF TypeOK
<1>6. Phase(p)'
    BY <1>1, <1>2, <1>3, <1>5 DEF Phase, HandOK, LoadedOK, WritingOK, memory, client, Opening
<1>7. QED
    BY <1>1, <1>2, <1>3, <1>4, <1>5, <1>6, StepOfOne DEF TypeOK, memory, client

\* The second barrier: the directory.  The recovered state becomes visible.
LEMMA FlushKeeps == ASSUME Inv, NEW p \in Procs, Flush(p) PROVE Inv'
<1> USE DEF Inv
<1>1. /\ UNCHANGED <<data, safe, name, memory, base, answered>> /\ links' = {name} /\ shown' = mem[p]
      /\ pc' = [pc EXCEPT ![p] = "open"] /\ pc[p] = "flush"
    BY DEF Flush, Goto
<1>2. Phase(p) /\ lock = p
    BY <1>1 DEF LockOK
<1>3. /\ hand[p] = None /\ mem[p] = Recovered(data[name]) /\ count[p] = Len(data[name].frames)
      /\ data[name].torn = FALSE /\ safe[name] = {data[name]}
    BY <1>1, <1>2 DEF Phase, HandOK, LoadedOK, Opening
<1>4. Possible(mem[p]) /\ ~Corrupt(data[name])
    BY <1>3 DEF DiskOK, TypeOK
<1>5. TypeOK'
    BY <1>1 DEF TypeOK, memory, PCs
<1>6. DiskOK'
    BY <1>1, <1>3, <1>4 DEF DiskOK, Possible
<1>7. answered' \subseteq Applied(shown')
    BY <1>1, <1>4, PossibleKeeps
<1>8. pc'[p] = "open"
    BY <1>1 DEF TypeOK
<1>9. Phase(p)'
    BY <1>1, <1>3, <1>8 DEF Phase, HandOK, LoadedOK, WritingOK, memory
<1>10. QED
    BY <1>1, <1>2, <1>5, <1>6, <1>7, <1>8, <1>9, StepOfOne DEF TypeOK, memory

\* While a store is open nothing but the visible state can be recovered.
LEMMA OpenFacts ==
    ASSUME Inv, NEW p \in Procs, pc[p] = "open"
    PROVE  /\ lock = p /\ hand[p] = None /\ mem[p] = shown
           /\ links = {name} /\ safe[name] = {data[name]} /\ data[name].torn = FALSE
           /\ Recovered(data[name]) = shown /\ count[p] = Len(data[name].frames)
           /\ ~Corrupt(data[name])
<1>1. Phase(p) /\ lock = p
    BY DEF Inv, LockOK
<1>2. /\ hand[p] = None /\ mem[p] = shown
      /\ links = {name} /\ safe[name] = {data[name]} /\ data[name].torn = FALSE
      /\ mem[p] = Recovered(data[name]) /\ count[p] = Len(data[name].frames)
    BY <1>1 DEF Phase, HandOK, LoadedOK
<1>3. QED
    BY <1>1, <1>2 DEF Inv, DiskOK

\* A read moves the author's base and finds nothing under way.
LEMMA ReadKeeps == ASSUME Inv, NEW p \in Procs, NEW c \in Commands, Read(p, c) PROVE Inv'
<1> USE DEF Inv
<1>1. /\ UNCHANGED <<disk, pc, memory, answered, shown>>
      /\ base' = [base EXCEPT ![c] = Len(mem[p])] /\ pc[p] = "open"
    BY DEF Read
<1>2. /\ lock = p /\ hand[p] = None /\ mem[p] = shown
      /\ links = {name} /\ safe[name] = {data[name]}
      /\ Recovered(data[name]) = shown /\ ~Corrupt(data[name])
    BY <1>1, OpenFacts
<1>3. TypeOK'
  <2>1. Len(mem[p]) \in Nat
      BY DEF TypeOK, Log
  <2>2. QED
      BY <1>1, <2>1 DEF TypeOK, disk, memory
<1>4. DiskOK'
    BY <1>1, <1>2 DEF DiskOK, disk, Possible
<1>5. Phase(p)'
    BY <1>1, <1>2 DEF Phase, HandOK, LoadedOK, WritingOK, disk, memory
<1>6. QED
    BY <1>1, <1>2, <1>3, <1>4, <1>5, StepOfOne DEF disk, memory

\* A replay answers a command the visible state holds.
LEMMA ReplayKeeps == ASSUME Inv, NEW p \in Procs, NEW c \in Commands, Replay(p, c) PROVE Inv'
<1> USE DEF Inv
<1>1. /\ UNCHANGED <<disk, pc, memory, base, shown>>
      /\ answered' = answered \cup {c} /\ c \in Applied(mem[p]) /\ pc[p] = "open"
    BY DEF Replay
<1>2. lock = p /\ mem[p] = shown
    BY <1>1, OpenFacts
<1>3. TypeOK'
    BY <1>1 DEF TypeOK, disk, memory
<1>4. DiskOK'
    BY <1>1 DEF DiskOK, disk, Possible
<1>5. Phase(p)'
    BY <1>1 DEF Phase, HandOK, LoadedOK, WritingOK, Target, disk, memory
<1>6. answered' \subseteq Applied(shown')
    BY <1>1, <1>2
<1>7. QED
    BY <1>1, <1>2, <1>3, <1>4, <1>5, <1>6, StepOfOne DEF disk, memory

\* A new command is taken in hand.
LEMMA CommitKeeps == ASSUME Inv, NEW p \in Procs, NEW c \in Commands, Commit(p, c) PROVE Inv'
<1> USE DEF Inv
<1>1. PICK to \in {"write", "stage"} : pc' = [pc EXCEPT ![p] = to] /\ (to = "write" => count[p] < Budget)
    BY DEF Commit, Goto
<1>2. /\ UNCHANGED <<disk, lock, mem, count, client>>
      /\ hand' = [hand EXCEPT ![p] = c] /\ pc[p] = "open"
      /\ Free(mem[p], c) /\ base[c] = Len(mem[p])
    BY DEF Commit
<1>3. /\ lock = p /\ mem[p] = shown
      /\ links = {name} /\ safe[name] = {data[name]} /\ data[name].torn = FALSE
      /\ Recovered(data[name]) = shown /\ count[p] = Len(data[name].frames)
    BY <1>2, OpenFacts
<1>4. TypeOK'
    BY <1>1, <1>2 DEF TypeOK, disk, client, PCs, Working
<1>5. DiskOK'
    BY <1>2 DEF DiskOK, disk, client, Possible
<1>6. pc'[p] = to /\ hand'[p] = c
    BY <1>1, <1>2 DEF TypeOK
<1>7. HandOK(p)'
    BY <1>2, <1>3, <1>6, JournalAssumption DEF HandOK, Opening, client
<1>8. LoadedOK(p)' /\ WritingOK(p)'
    BY <1>1, <1>2, <1>3, <1>6 DEF LoadedOK, WritingOK, disk, client
<1>9. QED
    BY <1>1, <1>2, <1>3, <1>4, <1>5, <1>6, <1>7, <1>8, StepOfOne DEF TypeOK, Phase, client

\* Part of the frame is a torn tail behind the frames there were.
LEMMA WriteSomeKeeps == ASSUME Inv, NEW p \in Procs, WriteSome(p) PROVE Inv'
<1> USE DEF Inv
<1> DEFINE f == Content(data[name].frames, TRUE)
<1>1. /\ UNCHANGED <<name, links, memory, client>> /\ Put(name, f, {f})
      /\ pc' = [pc EXCEPT ![p] = "writing"] /\ pc[p] = "write"
    BY DEF WriteSome, Goto
<1>2. Phase(p) /\ lock = p
    BY <1>1 DEF LockOK
<1>3. /\ links = {name} /\ count[p] < Budget
      /\ mem[p] = Recovered(data[name]) /\ count[p] = Len(data[name].frames)
    BY <1>1, <1>2 DEF Phase, LoadedOK, WritingOK
<1>4. data[name] \in File /\ data[name].frames \in Seq(Log)
    BY DEF TypeOK, File
<1>5. f \in File /\ f.frames = data[name].frames /\ Recovered(f) = Recovered(data[name])
    BY <1>4, ContentFacts, RecoveredFacts
<1>6. ~Corrupt(f)
    BY <1>3, <1>4, FrameFacts
<1>7. Possible(Recovered(f))
    BY <1>5 DEF DiskOK, TypeOK
<1> HIDE DEF f
<1>8. /\ data' \in [Inodes -> File] /\ safe' \in [Inodes -> SUBSET File]
      /\ data'[name] = f /\ DiskOK'
    BY <1>1, <1>3, <1>5, <1>6, <1>7, PutFacts
<1>9. TypeOK'
    BY <1>1, <1>8 DEF TypeOK, memory, client, PCs, Working
<1>10. pc'[p] = "writing"
    BY <1>1 DEF TypeOK
<1>11. HandOK(p)'
    BY <1>1, <1>2, <1>10 DEF Phase, HandOK, Opening, memory, client
<1>12. LoadedOK(p)' /\ WritingOK(p)'
    BY <1>1, <1>3, <1>5, <1>8, <1>10 DEF LoadedOK, WritingOK, memory
<1>13. QED
    BY <1>1, <1>2, <1>8, <1>9, <1>10, <1>11, <1>12, StepOfOne DEF TypeOK, Phase, memory, client

\* The whole frame holds the state with the command.
LEMMA WriteRestKeeps == ASSUME Inv, NEW p \in Procs, WriteRest(p) PROVE Inv'
<1> USE DEF Inv
<1> DEFINE f == Content(Append(data[name].frames, Target(p)), FALSE)
<1>1. /\ UNCHANGED <<name, links, memory, client>> /\ Put(name, f, {f})
      /\ pc' = [pc EXCEPT ![p] = "written"] /\ pc[p] = "writing"
    BY DEF WriteRest, Goto
<1>2. Phase(p) /\ lock = p
    BY <1>1 DEF LockOK
<1>3. /\ links = {name} /\ count[p] < Budget /\ hand[p] # None
      /\ count[p] = Len(data[name].frames)
    BY <1>1, <1>2 DEF Phase, HandOK, LoadedOK, WritingOK
<1>4. data[name] \in File /\ data[name].frames \in Seq(Log) /\ Target(p) \in Log
    BY TargetTyped DEF TypeOK, File
<1>5. /\ Append(data[name].frames, Target(p)) \in Seq(Log)
      /\ Len(Append(data[name].frames, Target(p))) = count[p] + 1
    BY <1>3, <1>4
<1>6. f \in File /\ Len(f.frames) = count[p] + 1 /\ f.torn = FALSE /\ Recovered(f) = Target(p)
    BY <1>4, <1>5, ContentFacts, RecoveredFacts
<1>7. ~Corrupt(f)
  <2>1. count[p] + 1 <= Budget
      BY <1>3, JournalAssumption DEF TypeOK
  <2>2. QED
      BY <1>5, <2>1, FrameFacts
<1>8. Possible(Recovered(f))
    BY <1>2, <1>3, <1>6, TargetPossible DEF Phase
<1> HIDE DEF f
<1>9. /\ data' \in [Inodes -> File] /\ safe' \in [Inodes -> SUBSET File]
      /\ data'[name] = f /\ DiskOK'
    BY <1>1, <1>3, <1>6, <1>7, <1>8, PutFacts
<1>10. TypeOK'
    BY <1>1, <1>9 DEF TypeOK, memory, client, PCs, Working
<1>11. pc'[p] = "written"
    BY <1>1 DEF TypeOK
<1>12. HandOK(p)'
    BY <1>1, <1>2, <1>11 DEF Phase, HandOK, Opening, memory, client
<1>13. LoadedOK(p)' /\ WritingOK(p)'
    BY <1>1, <1>3, <1>6, <1>9, <1>11 DEF LoadedOK, WritingOK, Target, memory
<1>14. QED
    BY <1>1, <1>2, <1>9, <1>10, <1>11, <1>12, <1>13, StepOfOne DEF TypeOK, Phase, memory, client

\* The state with the command becomes visible when nothing else can be recovered.
LEMMA PublishKeeps ==
    ASSUME Inv, NEW p \in Procs, NEW frames \in 0..Budget, Publish(p, frames), lock = p,
           hand[p] # None,
           data' \in [Inodes -> File], safe' \in [Inodes -> SUBSET File], name' \in Inodes,
           links' = {name'}, safe'[name'] = {data'[name']}, \A n \in Inodes : data'[n] \in safe'[n],
           data'[name'].torn = FALSE, Recovered(data'[name']) = Target(p),
           Len(data'[name'].frames) = frames, ~Corrupt(data'[name'])
    PROVE  Inv'
<1> USE DEF Inv
<1>1. /\ mem' = [mem EXCEPT ![p] = Target(p)] /\ shown' = Target(p)
      /\ answered' = answered \cup {hand[p]} /\ hand' = [hand EXCEPT ![p] = None]
      /\ count' = [count EXCEPT ![p] = frames] /\ pc' = [pc EXCEPT ![p] = "open"]
      /\ UNCHANGED <<lock, base>>
    BY DEF Publish, Goto
<1>2. hand[p] \in Commands /\ mem[p] = shown /\ Target(p) = Append(shown, hand[p])
    BY DEF TypeOK, Phase, HandOK, Target
<1>3. Target(p) \in Log /\ Applied(Target(p)) = Applied(shown) \cup {hand[p]}
    BY <1>2, AppendFacts DEF TypeOK
<1>4. TypeOK'
    BY <1>1, <1>2, <1>3 DEF TypeOK, PCs
<1>5. DiskOK'
    BY <1>1 DEF DiskOK, Possible
<1>6. answered' \subseteq Applied(shown')
    BY <1>1, <1>3
<1>7. /\ pc'[p] = "open" /\ mem'[p] = Target(p) /\ hand'[p] = None /\ count'[p] = frames
      /\ lock' = p
    BY <1>1 DEF TypeOK
<1>8. Phase(p)'
    BY <1>1, <1>7 DEF Phase, HandOK, LoadedOK, WritingOK
<1>9. QED
    BY <1>1, <1>4, <1>5, <1>6, <1>7, <1>8, StepOfOne DEF TypeOK

\* fsync of the appended frame, and the answer.
LEMMA SyncWrittenKeeps == ASSUME Inv, NEW p \in Procs, SyncWritten(p) PROVE Inv'
<1> USE DEF Inv
<1>1. /\ UNCHANGED <<data, name, links>> /\ Synced(name) /\ Publish(p, count[p] + 1)
      /\ pc[p] = "written"
    BY DEF SyncWritten
<1>2. Phase(p) /\ lock = p
    BY <1>1 DEF LockOK
<1>3. /\ links = {name} /\ count[p] < Budget /\ hand[p] # None /\ data[name].torn = FALSE
      /\ Recovered(data[name]) = Target(p) /\ Len(data[name].frames) = count[p] + 1
    BY <1>1, <1>2 DEF Phase, HandOK, LoadedOK, WritingOK
<1>4. /\ safe' \in [Inodes -> SUBSET File] /\ safe'[name] = {data[name]}
      /\ \A m \in Inodes : data[m] \in safe'[m]
    BY <1>1, SyncedFacts DEF TypeOK
<1>5. count[p] + 1 \in 0..Budget
    BY <1>3, JournalAssumption DEF TypeOK
<1>6. ~Corrupt(data[name])
    BY DEF DiskOK, TypeOK
<1>7. data' \in [Inodes -> File] /\ name' \in Inodes
    BY <1>1 DEF TypeOK
<1>8. QED
    BY <1>1, <1>2, <1>3, <1>4, <1>5, <1>6, <1>7, PublishKeeps

\* A compaction stages the state in an inode no name can lead to.
LEMMA StageKeeps == ASSUME Inv, NEW p \in Procs, Stage(p) PROVE Inv'
<1> USE DEF Inv
<1> DEFINE f == Content(<<Target(p)>>, FALSE)
           o == Other(name)
<1>1. /\ UNCHANGED <<name, links, memory, client>>
      /\ data' = [data EXCEPT ![o] = f]
      /\ safe' = [safe EXCEPT ![o] = {Empty, Content(<<>>, TRUE), f}]
      /\ pc' = [pc EXCEPT ![p] = "staged"] /\ pc[p] = "stage"
    BY DEF Stage, Goto
<1>2. Phase(p) /\ lock = p
    BY <1>1 DEF LockOK
<1>3. links = {name} /\ mem[p] = Recovered(data[name]) /\ count[p] = Len(data[name].frames)
    BY <1>1, <1>2 DEF Phase, LoadedOK
<1>4. o \in Inodes /\ o # name /\ name \in Inodes
    BY OtherFacts DEF TypeOK
<1>5. f \in File /\ Empty \in File /\ Content(<<>>, TRUE) \in File
  <2>1. <<Target(p)>> \in Seq(Log) /\ <<>> \in Seq(Log)
      BY TargetTyped
  <2>2. QED
      BY <2>1, ContentFacts DEF Empty
<1> HIDE DEF f, o
<1>6. data' \in [Inodes -> File] /\ safe' \in [Inodes -> SUBSET File]
    BY <1>1, <1>4, <1>5 DEF TypeOK
<1>7. data'[o] = f /\ f \in safe'[o] /\ data'[name] = data[name] /\ safe'[name] = safe[name]
    BY <1>1, <1>4 DEF TypeOK
<1>8. DiskOK'
  <2>1. \A n \in Inodes : data'[n] \in safe'[n]
    <3>1. \A n \in Inodes \ {o} : data'[n] = data[n] /\ safe'[n] = safe[n]
        BY <1>1 DEF TypeOK
    <3>2. QED
        BY <1>7, <3>1 DEF DiskOK
  <2>2. \A l : Possible(l) => Possible(l)'
      BY <1>1 DEF client, Possible
  <2>3. QED
      BY <1>1, <1>3, <1>7, <2>1, <2>2 DEF DiskOK
<1>9. TypeOK'
    BY <1>1, <1>6 DEF TypeOK, memory, client, PCs, Working
<1>10. pc'[p] = "staged"
    BY <1>1 DEF TypeOK
<1>11. HandOK(p)'
    BY <1>1, <1>2, <1>10 DEF Phase, HandOK, Opening, memory, client
<1>12. LoadedOK(p)' /\ WritingOK(p)'
    BY <1>1, <1>3, <1>7, <1>10 DEF LoadedOK, WritingOK, Target, memory, f, o
<1>13. QED
    BY <1>1, <1>2, <1>8, <1>9, <1>10, <1>11, <1>12, StepOfOne DEF TypeOK, Phase, memory, client

\* The staged file is synced before any name leads to it.
LEMMA SyncStageKeeps == ASSUME Inv, NEW p \in Procs, SyncStage(p) PROVE Inv'
<1> USE DEF Inv
<1>1. /\ UNCHANGED <<data, name, links, memory, client>> /\ Synced(Other(name))
      /\ pc' = [pc EXCEPT ![p] = "synced"] /\ pc[p] = "staged"
    BY DEF SyncStage, Goto
<1>2. Phase(p) /\ lock = p
    BY <1>1 DEF LockOK
<1>3. Other(name) \in Inodes
    BY OtherFacts DEF TypeOK
<1>4. safe' \in [Inodes -> SUBSET File] /\ safe'[Other(name)] = {data[Other(name)]} /\ DiskOK'
    BY <1>1, <1>3, SyncedFacts
<1>5. TypeOK'
    BY <1>1, <1>4 DEF TypeOK, memory, client, PCs, Working
<1>6. pc'[p] = "synced"
    BY <1>1 DEF TypeOK
<1>7. HandOK(p)'
    BY <1>1, <1>2, <1>6 DEF Phase, HandOK, Opening, memory, client
<1>8. LoadedOK(p)' /\ WritingOK(p)'
    BY <1>1, <1>2, <1>4, <1>6 DEF Phase, LoadedOK, WritingOK, Target, memory
<1>9. QED
    BY <1>1, <1>2, <1>4, <1>5, <1>6, <1>7, <1>8, StepOfOne DEF TypeOK, Phase, memory, client

\* The rename puts the name in doubt; both inodes hold a possible state.
LEMMA RenameKeeps == ASSUME Inv, NEW p \in Procs, Rename(p) PROVE Inv'
<1> USE DEF Inv
<1> DEFINE o == Other(name)
<1>1. /\ UNCHANGED <<data, safe, memory, client>> /\ name' = o /\ links' = links \cup {o}
      /\ pc' = [pc EXCEPT ![p] = "renamed"] /\ pc[p] = "synced"
    BY DEF Rename, Goto
<1>2. Phase(p) /\ lock = p
    BY <1>1 DEF LockOK
<1>3. /\ data[o] = Content(<<Target(p)>>, FALSE) /\ safe[o] = {data[o]}
      /\ mem[p] = Recovered(data[name])
    BY <1>1, <1>2 DEF Phase, LoadedOK, WritingOK
<1>4. o \in Inodes /\ name \in Inodes
    BY OtherFacts DEF TypeOK
<1>5. Possible(Target(p))
    BY <1>2, <1>3, <1>4, TargetPossible DEF Phase, DiskOK
<1>6. /\ Recovered(data[o]) = Target(p) /\ Len(data[o].frames) = 1 /\ data[o].torn = FALSE
      /\ ~Corrupt(data[o])
  <2>1. Target(p) \in Log /\ <<Target(p)>> \in Seq(Log) /\ Len(<<Target(p)>>) = 1 /\ 1 <= Budget
      BY TargetTyped, JournalAssumption
  <2>2. ~Corrupt(data[o])
      BY <1>3, <2>1, FrameFacts
  <2>3. QED
      BY <1>3, <2>1, <2>2, ContentFacts, RecoveredFacts
<1> HIDE DEF o
<1>7. TypeOK'
    BY <1>1, <1>4 DEF TypeOK, memory, client, PCs, Working
<1>8. DiskOK'
  <2>1. \A l : Possible(l) => Possible(l)'
      BY <1>1 DEF client, Possible
  <2>2. \A n \in links' : \A f \in safe'[n] : Possible(Recovered(f))' /\ ~Corrupt(f)
      BY <1>1, <1>3, <1>5, <1>6, <2>1 DEF DiskOK
  <2>3. QED
      BY <1>1, <1>3, <1>6, <2>2 DEF DiskOK
<1>9. pc'[p] = "renamed"
    BY <1>1 DEF TypeOK
<1>10. HandOK(p)'
    BY <1>1, <1>2, <1>9 DEF Phase, HandOK, Opening, memory, client
<1>11. LoadedOK(p)' /\ WritingOK(p)'
    BY <1>1, <1>3, <1>9 DEF LoadedOK, WritingOK, Target, memory
<1>12. QED
    BY <1>1, <1>2, <1>7, <1>8, <1>9, <1>10, <1>11, StepOfOne DEF TypeOK, Phase, memory, client

\* The directory is synced: the doubt ends.
LEMMA SyncDirectoryKeeps == ASSUME Inv, NEW p \in Procs, SyncDirectory(p) PROVE Inv'
<1> USE DEF Inv
<1>1. UNCHANGED <<data, safe, name>> /\ links' = {name} /\ pc[p] = "renamed"
    BY DEF SyncDirectory
<1>2. Phase(p) /\ lock = p
    BY <1>1 DEF LockOK
<1>3. data[name] = Content(<<Target(p)>>, FALSE) /\ safe[name] = {data[name]}
    BY <1>1, <1>2 DEF Phase, WritingOK
<1>4. Recovered(data[name]) = Target(p) /\ Len(data[name].frames) = 1 /\ data[name].torn = FALSE
  <2>1. Target(p) \in Log /\ <<Target(p)>> \in Seq(Log) /\ Len(<<Target(p)>>) = 1
      BY TargetTyped
  <2>2. QED
      BY <1>3, <2>1, ContentFacts, RecoveredFacts
<1>5. ~Corrupt(data[name])
    BY DEF DiskOK, TypeOK
<1>6. 1 \in 0..Budget
    BY JournalAssumption
<1>7. CASE hand[p] # None
  <2>1. Publish(p, 1)
      BY <1>7 DEF SyncDirectory
  <2>2. /\ data' \in [Inodes -> File] /\ safe' \in [Inodes -> SUBSET File] /\ name' \in Inodes
        /\ \A n \in Inodes : data'[n] \in safe'[n]
      BY <1>1 DEF TypeOK, DiskOK
  <2>3. QED
      BY <1>1, <1>2, <1>3, <1>4, <1>5, <1>6, <1>7, <2>1, <2>2, PublishKeeps
<1>8. CASE hand[p] = None
  <2>1. /\ count' = [count EXCEPT ![p] = 1] /\ pc' = [pc EXCEPT ![p] = "barrier"]
        /\ UNCHANGED <<lock, mem, hand, client>>
      BY <1>8 DEF SyncDirectory, Goto
  <2>2. TypeOK'
      BY <1>1, <1>6, <2>1 DEF TypeOK, client, PCs, Opening
  <2>3. DiskOK'
      BY <1>1, <2>1 DEF DiskOK, client, Possible
  <2>4. pc'[p] = "barrier" /\ count'[p] = 1 /\ Target(p) = mem[p]
      BY <1>8, <2>1 DEF TypeOK, Target
  <2>5. Phase(p)'
      BY <1>1, <1>4, <1>8, <2>1, <2>4 DEF Phase, HandOK, LoadedOK, WritingOK
  <2>6. QED
      BY <1>2, <2>1, <2>2, <2>3, <2>4, <2>5, StepOfOne DEF TypeOK, client
<1>9. QED
    BY <1>7, <1>8

\* Whoever gives the store up, leaves the disk as it is.
LEMMA GoneKeeps == ASSUME Inv, NEW p \in Procs, pc[p] # "closed", Gone(p) PROVE Inv'
<1> USE DEF Inv
<1>1. lock = p
    BY DEF LockOK
<1>2. /\ UNCHANGED <<disk, client>> /\ lock' = None /\ pc' = [pc EXCEPT ![p] = "closed"]
      /\ mem' = [mem EXCEPT ![p] = <<>>] /\ count' = [count EXCEPT ![p] = 0]
      /\ hand' = [hand EXCEPT ![p] = None]
    BY <1>1 DEF Gone, Release, Goto
<1>3. TypeOK'
    BY <1>2, JournalAssumption DEF TypeOK, disk, client, PCs, Log
<1>4. DiskOK'
    BY <1>2 DEF DiskOK, disk, client, Possible
<1>5. pc'[p] = "closed" /\ hand'[p] = None
    BY <1>2 DEF TypeOK
<1>6. Phase(p)'
    BY <1>5 DEF Phase, HandOK, LoadedOK, WritingOK
<1>7. QED
    BY <1>1, <1>2, <1>3, <1>4, <1>5, <1>6, StepOfOne, JournalAssumption DEF TypeOK, client

\* A failed step ends an Open and poisons a store that was committing.
LEMMA IOErrorKeeps == ASSUME Inv, NEW p \in Procs, IOError(p) PROVE Inv'
<1> USE DEF Inv
<1>1. pc[p] # "closed" /\ lock = p
    BY DEF IOError, Opening, Working, LockOK
<1>2. CASE hand[p] = None
    BY <1>1, <1>2, GoneKeeps DEF IOError
<1>3. CASE hand[p] # None
  <2>1. UNCHANGED <<disk, memory, client>> /\ pc' = [pc EXCEPT ![p] = "poisoned"]
      BY <1>3 DEF IOError, Goto
  <2>2. TypeOK'
      BY <2>1 DEF TypeOK, disk, memory, client, PCs
  <2>3. DiskOK'
      BY <2>1 DEF DiskOK, disk, client, Possible
  <2>4. pc'[p] = "poisoned"
      BY <2>1 DEF TypeOK
  <2>5. Phase(p)'
      BY <2>1, <2>4 DEF Phase, HandOK, LoadedOK, WritingOK, Opening, memory, client
  <2>6. QED
      BY <1>1, <2>1, <2>2, <2>3, <2>4, <2>5, StepOfOne DEF TypeOK, memory, client
<1>4. QED
    BY <1>2, <1>3

\* A power loss leaves, under a name it may have, a content it may have.
LEMMA PowerLossKeeps == ASSUME Inv, PowerLoss PROVE Inv'
<1> USE DEF Inv
<1>1. /\ name' \in links /\ links' = {name'} /\ lock' = None
      /\ pc' = [p \in Procs |-> "closed"] /\ mem' = [p \in Procs |-> <<>>]
      /\ count' = [p \in Procs |-> 0] /\ hand' = [p \in Procs |-> None] /\ UNCHANGED client
      /\ safe' = [n \in Inodes |-> {data'[n]}]
    BY DEF PowerLoss
<1>2. data' \in [Inodes -> UNION {safe[n] : n \in Inodes}] /\ \A n \in Inodes : data'[n] \in safe[n]
    BY DEF PowerLoss
<1>3. data' \in [Inodes -> File] /\ safe' \in [Inodes -> SUBSET File] /\ name' \in Inodes
    BY <1>1, <1>2 DEF TypeOK
<1>4. TypeOK'
    BY <1>1, <1>3, JournalAssumption DEF TypeOK, client, PCs, Log
<1>5. DiskOK'
  <2>1. \A l : Possible(l) => Possible(l)'
      BY <1>1 DEF client, Possible
  <2>2. Possible(Recovered(data'[name'])) /\ ~Corrupt(data'[name'])
      BY <1>1, <1>2, <1>3 DEF DiskOK
  <2>3. QED
      BY <1>1, <1>3, <2>1, <2>2 DEF DiskOK
<1>6. LockOK'
    BY <1>1, JournalAssumption DEF LockOK
<1>7. \A p \in Procs : Phase(p)'
    BY <1>1 DEF Phase, HandOK, LoadedOK, WritingOK
<1>8. QED
    BY <1>1, <1>4, <1>5, <1>6, <1>7 DEF client

-----------------------------------------------------------------------------
(* The theorems.                                                           *)

\* Every step of a process and every power loss keeps the invariant.
LEMMA StepKeeps == Inv /\ [Next]_vars => Inv'
<1> SUFFICES ASSUME Inv, [Next]_vars PROVE Inv'
    OBVIOUS
<1>1. CASE UNCHANGED vars
  <2>1. TypeOK' /\ LockOK' /\ answered' \subseteq Applied(shown')
      BY <1>1 DEF vars, disk, memory, client, Inv, TypeOK, LockOK
  <2>2. DiskOK'
      BY <1>1 DEF vars, disk, client, Inv, DiskOK, Possible
  <2>3. ASSUME NEW p \in Procs PROVE Phase(p)'
      BY <1>1 DEF vars, disk, memory, client, Inv, Phase, HandOK, LoadedOK, WritingOK, Target
  <2>4. QED
      BY <2>1, <2>2, <2>3 DEF Inv
<1>2. ASSUME NEW p \in Procs,
             Lock(p) \/ Load(p) \/ Truncate(p) \/ SyncTruncated(p) \/ Barrier(p) \/ Flush(p)
      PROVE  Inv'
    BY <1>2, LockKeeps, LoadKeeps, TruncateKeeps, SyncTruncatedKeeps, BarrierKeeps, FlushKeeps
<1>3. ASSUME NEW p \in Procs, NEW c \in Commands, Read(p, c) \/ Replay(p, c) \/ Commit(p, c)
      PROVE  Inv'
    BY <1>3, ReadKeeps, ReplayKeeps, CommitKeeps
<1>4. ASSUME NEW p \in Procs,
             \/ WriteSome(p) \/ WriteRest(p) \/ SyncWritten(p)
             \/ Stage(p) \/ SyncStage(p) \/ Rename(p) \/ SyncDirectory(p)
      PROVE  Inv'
    BY <1>4, WriteSomeKeeps, WriteRestKeeps, SyncWrittenKeeps, StageKeeps, SyncStageKeeps,
       RenameKeeps, SyncDirectoryKeeps
<1>5. ASSUME NEW p \in Procs, Close(p) \/ Crash(p)
      PROVE  Inv'
    BY <1>5, GoneKeeps DEF Close, Crash, Opening, Working
<1>6. ASSUME NEW p \in Procs, IOError(p)
      PROVE  Inv'
    BY <1>6, IOErrorKeeps
<1>7. CASE PowerLoss
    BY <1>7, PowerLossKeeps
<1>8. QED
    BY <1>1, <1>2, <1>3, <1>4, <1>5, <1>6, <1>7 DEF Next, ProcStep

\* The inductive invariant of the store holds, and with it the types.
THEOREM InvHolds == Spec => []Inv
<1>1. QED
    BY InitInv, StepKeeps, PTL DEF Spec

\* Open never takes what a crash or a power loss left for corruption, at whatever
\* step of an append, a compaction or a recovery it struck.
THEOREM NeverCorrupt == Spec => []AlwaysRecoverable
<1>1. Inv => AlwaysRecoverable
    BY DEF Inv, TypeOK, DiskOK, AlwaysRecoverable
<1>2. QED
    BY <1>1, InvHolds, PTL

\* A command whose Commit returned success is in every state Open may recover.
THEOREM NothingLost == Spec => []AcknowledgedSurvives
<1>1. Inv => AcknowledgedSurvives
  <2> SUFFICES ASSUME Inv PROVE AcknowledgedSurvives
      OBVIOUS
  <2>1. \A n \in links : \A f \in safe[n] : answered \subseteq Applied(Recovered(f))
      BY PossibleKeeps DEF Inv, DiskOK
  <2>2. QED
      BY <2>1 DEF AcknowledgedSurvives, Inv, DiskOK, TypeOK
<1>2. QED
    BY <1>1, InvHolds, PTL

\* An open and idle store answers from exactly what is on disk.
THEOREM OpenIsExact == Spec => []MemoryIsDisk
<1>1. Inv => MemoryIsDisk
    BY OpenFacts DEF MemoryIsDisk
<1>2. QED
    BY <1>1, InvHolds, PTL

-----------------------------------------------------------------------------
(* The store implements DurableLog.                                        *)

\* A step that lets a possible state become visible applies a command or none.
LEMMA ShowPossible ==
    ASSUME TypeOK, NEW l, Possible(l), shown' = l, UNCHANGED <<base, answered>>
    PROVE  [Promise!Next]_(Promise!vars)
<1>1. CASE l = shown
    BY <1>1 DEF Promise!vars
<1>2. ASSUME NEW c \in Commands, Free(shown, c), base[c] = Len(shown), l = Append(shown, c)
      PROVE  Promise!Apply(c)
    BY <1>2 DEF Promise!Apply, Promise!Free, Promise!Applied, Free, Applied
<1>3. QED
    BY <1>1, <1>2 DEF Possible, Promise!Next

\* Publish applies the command in hand and answers it.
LEMMA PublishApplies ==
    ASSUME Inv, NEW p \in Procs, NEW frames, Publish(p, frames), hand[p] # None
    PROVE  Promise!Next
<1>1. /\ hand[p] \in Commands /\ mem[p] = shown /\ Target(p) = Append(shown, hand[p])
      /\ Free(shown, hand[p]) /\ base[hand[p]] = Len(shown)
    BY DEF Inv, TypeOK, Phase, HandOK, Target
<1>2. shown' = Append(shown, hand[p]) /\ answered' = answered \cup {hand[p]} /\ UNCHANGED base
    BY <1>1 DEF Publish
<1>3. Promise!Apply(hand[p])
    BY <1>1, <1>2 DEF Promise!Apply, Promise!Free, Promise!Applied, Free, Applied
<1>4. QED
    BY <1>1, <1>3 DEF Promise!Next

\* Every step of the store is a step of the promised history or invisible in it:
\* one command at a time, each on the state its author read, never a command key
\* twice, across failures, crashes, power losses and recoveries.
THEOREM ImplementsDurableLog == Spec => KeepsPromise
<1>1. Init => Promise!Init
    BY DEF Init, Promise!Init
<1>2. Inv /\ [Next]_vars => [Promise!Next]_(Promise!vars)
  <2> SUFFICES ASSUME Inv, [Next]_vars PROVE [Promise!Next]_(Promise!vars)
      OBVIOUS
  <2>1. CASE UNCHANGED client
      BY <2>1 DEF client, Promise!vars
  <2>2. ASSUME NEW p \in Procs, Flush(p) PROVE [Promise!Next]_(Promise!vars)
    <3>1. /\ shown' = mem[p] /\ UNCHANGED <<base, answered>>
          /\ mem[p] = Recovered(data[name])
        BY <2>2 DEF Flush, Inv, Phase, LoadedOK
    <3>2. Possible(mem[p])
        BY <3>1 DEF Inv, DiskOK, TypeOK
    <3>3. QED
        BY <3>1, <3>2, ShowPossible DEF Inv
  <2>3. ASSUME NEW p \in Procs, NEW c \in Commands, Read(p, c) PROVE Promise!Next
    <3>1. mem[p] = shown
        BY <2>3, OpenFacts DEF Read
    <3>2. Promise!Read(c)
        BY <2>3, <3>1 DEF Read, Promise!Read
    <3>3. QED
        BY <3>2 DEF Promise!Next
  <2>4. ASSUME NEW p \in Procs, NEW c \in Commands, Replay(p, c) PROVE Promise!Next
    <3>1. mem[p] = shown
        BY <2>4, OpenFacts DEF Replay
    <3>2. Promise!Replay(c)
        BY <2>4, <3>1 DEF Replay, Promise!Replay, Promise!Applied, Applied
    <3>3. QED
        BY <3>2 DEF Promise!Next
  <2>5. ASSUME NEW p \in Procs, SyncWritten(p) PROVE Promise!Next
    <3>1. hand[p] # None
        BY <2>5 DEF SyncWritten, Inv, Phase, HandOK
    <3>2. QED
        BY <2>5, <3>1, PublishApplies DEF SyncWritten
  <2>6. ASSUME NEW p \in Procs, SyncDirectory(p) PROVE [Promise!Next]_(Promise!vars)
    <3>1. CASE hand[p] = None
        BY <2>1, <2>6, <3>1 DEF SyncDirectory
    <3>2. CASE hand[p] # None
        BY <2>6, <3>2, PublishApplies DEF SyncDirectory
    <3>3. QED
        BY <3>1, <3>2
  <2>7. ASSUME NEW p \in Procs,
               \/ Lock(p) \/ Load(p) \/ Truncate(p) \/ SyncTruncated(p) \/ Barrier(p)
               \/ WriteSome(p) \/ WriteRest(p) \/ Stage(p) \/ SyncStage(p) \/ Rename(p)
               \/ \E c \in Commands : Commit(p, c)
        PROVE  UNCHANGED client
      BY <2>7 DEF Lock, Load, Truncate, SyncTruncated, Barrier, WriteSome, WriteRest, Stage,
                  SyncStage, Rename, Commit
  <2>8. ASSUME NEW p \in Procs, IOError(p) \/ Close(p) \/ Crash(p) PROVE UNCHANGED client
      BY <2>8 DEF IOError, Close, Crash, Gone
  <2>9. CASE PowerLoss
      BY <2>1, <2>9 DEF PowerLoss
  <2>10. CASE UNCHANGED vars
      BY <2>1, <2>10 DEF vars
  <2>11. QED
      BY <2>1, <2>2, <2>3, <2>4, <2>5, <2>6, <2>7, <2>8, <2>9, <2>10 DEF Next, ProcStep
<1>3. QED
    BY <1>1, <1>2, InvHolds, PTL DEF Spec, KeepsPromise, Promise!Spec
=============================================================================
