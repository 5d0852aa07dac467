------------------------ MODULE ManagedProcessProofs ------------------------
(***************************************************************************)
(* Proofs about RuntimeBinding and process provider together, for all sets *)
(* of controllers and identities and all bounds.                           *)
(***************************************************************************)
EXTENDS ManagedProcess, FiniteSetTheorems, TLAPS

\* Whatever a controller, the binding or a receipt names was started.
NamedWasStarted ==
    /\ \A o \in Owners : mem[o].id \in PIDs => proc[mem[o].id] # "unused"
    /\ binding.id \in PIDs => proc[binding.id] # "unused"
    /\ \A c \in Command : ledger[c] \in PIDs => proc[ledger[c]] # "unused"

\* News and records of a stop are about a process that is not up.
StoppedIsDown ==
    /\ \A o \in Owners : mem[o].news = "stopped" => mem[o].id \in PIDs \ Up
    /\ binding.observed = "stopped" => binding.id \in PIDs \ Up
    /\ binding.state = "released" /\ ownership = "owned" => binding.observed = "stopped"

\* While the provider remembers, an owned process that is up is the group it
\* manages, and an attached one is alone.
OnlyTheGroup ==
    restarts = 0 =>
        /\ ownership = "owned" => Up \subseteq {group}
        /\ \A i, j \in Up : i = j

\* Who has news of the provider, or recorded it, raised the mark to its generation.
MarkFollowsNews ==
    restarts = 0 =>
        /\ \A o \in Owners : mem[o].news # "none" => mem[o].gen <= mark[1]
        /\ Established => binding.gen <= mark[1]

Inv == TypeOK /\ NamedWasStarted /\ StoppedIsDown /\ OnlyTheGroup /\ MarkFollowsNews

\* No process comes back: what was started stays started, what is down stays down.
Aging ==
    \A i \in PIDs :
        /\ proc[i] # "unused" => proc'[i] # "unused"
        /\ proc[i] \in {"leaderless", "gone"} => proc'[i] \in {"leaderless", "gone"}

\* What every step of the provider does to its state and its processes.
ProviderStep ==
    /\ proc' \in [PIDs -> GroupStates]
    /\ group' \in PIDs \cup {NoProcess}
    /\ mark' \in (0..MaxFence) \X (0..MaxFence)
    /\ ledger' \in [Command -> Receipts]
    /\ restarts' \in 0..MaxRestarts
    /\ Aging
    /\ \A c \in Command : ledger'[c] \in PIDs => proc'[ledger'[c]] # "unused"
    /\ restarts' = 0 => restarts = 0 /\ mark[1] <= mark'[1]
    /\ OnlyTheGroup'

\* What a controller is told is true when it is told.
ToldTheTruth(o) ==
    /\ mem'[o].gen = mem[o].gen
    /\ mem'[o].id \in PIDs => proc'[mem'[o].id] # "unused"
    /\ mem'[o].news = "stopped" => mem'[o].id \in PIDs \ Up'
    /\ restarts' = 0 /\ mem'[o].news # "none" => mem'[o].gen <= mark'[1]

-----------------------------------------------------------------------------

\* acceptFence leaves a mark that covers the command's generation and never
\* takes one back.
LEMMA MarkRises ==
    ASSUME TypeOK, NEW g \in 1..MaxFence, NEW t \in 0..MaxFence, RaiseMark(g, t)
    PROVE  /\ mark' \in (0..MaxFence) \X (0..MaxFence)
           /\ g <= mark'[1]
           /\ mark[1] <= mark'[1]
BY ProviderAssumption DEF TypeOK, RaiseMark

\* A lease granted now ends within the type.
LEMMA LeaseTyped ==
    TypeOK => /\ now + LeaseTerm \in 0..(MaxTime + LeaseTerm)
              /\ 0 \in 0..(MaxTime + LeaseTerm)
BY BindingAssumption DEF TypeOK

\* Records in the binding and in the controllers' memory have their types.
LEMMA RecordsTyped ==
    ASSUME TypeOK
    PROVE  /\ binding.state \in States /\ binding.observed \in Observed
           /\ binding.id \in PIDs \cup {NoIdentity} /\ binding.owner \in Owners \cup {NoOwner}
           /\ binding.gen \in 0..MaxGeneration /\ binding.token \in 0..MaxGeneration
           /\ binding.expires \in 0..(MaxTime + LeaseTerm) /\ binding.seen \in 0..MaxGeneration
           /\ \A o \in Owners : /\ mem[o].gen \in 0..MaxGeneration /\ mem[o].token \in 0..MaxGeneration
                                /\ mem[o].id \in PIDs \cup {NoIdentity} /\ mem[o].news \in News
BY SameNames DEF TypeOK, Binding, Memory

\* What a controller learns changes the identity and the news it holds.
LEMMA LearnFacts ==
    ASSUME TypeOK, NEW o \in Owners, NEW id \in PIDs \cup {NoIdentity}, NEW news \in News,
           Learn(o, id, news)
    PROVE  /\ mem' \in [Owners -> Memory]
           /\ mem'[o] = [gen |-> mem[o].gen, token |-> mem[o].token, id |-> id, news |-> news]
           /\ \A p \in Owners \ {o} : mem'[p] = mem[p]
<1> DEFINE learnt == [gen |-> mem[o].gen, token |-> mem[o].token, id |-> id, news |-> news]
<1>1. learnt \in Memory
    BY RecordsTyped, SameNames DEF Memory
<1>2. mem[o] \in Memory /\ mem \in [Owners -> Memory]
    BY DEF TypeOK
<1> DEFINE first == [mem EXCEPT ![o].id = id]
<1>3. mem' = [first EXCEPT ![o].news = news]
    BY DEF Learn
<1>4. /\ first = [mem EXCEPT ![o] = [mem[o] EXCEPT !.id = id]]
      /\ mem' = [first EXCEPT ![o] = [first[o] EXCEPT !.news = news]]
    BY <1>2, <1>3
<1>5. first \in [Owners -> Memory] /\ first[o] = [mem[o] EXCEPT !.id = id]
    BY <1>2, <1>4, SameNames DEF Memory
<1>6. \A p \in Owners \ {o} : first[p] = mem[p]
    BY <1>2, <1>4
<1> HIDE DEF first
<1>7. [first[o] EXCEPT !.news = news] = learnt
  <2>1. first[o] = [gen |-> mem[o].gen, token |-> mem[o].token, id |-> id, news |-> mem[o].news]
      BY <1>2, <1>5 DEF Memory
  <2>2. QED
      BY <2>1
<1>8. mem' = [first EXCEPT ![o] = learnt]
    BY <1>4, <1>7
<1> HIDE DEF learnt
<1>9. mem' \in [Owners -> Memory] /\ mem'[o] = learnt /\ \A p \in Owners \ {o} : mem'[p] = mem[p]
    BY <1>1, <1>5, <1>6, <1>8
<1>10. QED
    BY <1>9 DEF learnt

\* The initial states: nothing is named, observed or managed.
LEMMA InitInv == Init => Inv
<1> SUFFICES ASSUME Init PROVE Inv
    OBVIOUS
<1> USE BindingAssumption, ProviderAssumption, SameNames
<1>1. TypeOK
  <2>1. binding \in Binding
      BY DEF Init, BindingInit, Binding, Absent, States, Observed
  <2>2. mem \in [Owners -> Memory]
      BY DEF Init, Memory, News
  <2>3. proc \in [PIDs -> GroupStates] /\ group \in PIDs \cup {NoProcess}
      BY DEF Init, ProviderInit, GroupStates
  <2>4. mark \in (0..MaxFence) \X (0..MaxFence) /\ restarts \in 0..MaxRestarts
      BY DEF Init, ProviderInit
  <2>5. ledger \in [Command -> Receipts]
      BY DEF Init, ProviderInit, Receipts
  <2>6. ownership \in {"owned", "attached"} /\ now \in 0..MaxTime
      BY DEF Init, BindingInit
  <2>7. QED
      BY <2>1, <2>2, <2>3, <2>4, <2>5, <2>6 DEF TypeOK
<1>2. NamedWasStarted
  <2>1. "none" \notin PIDs /\ NoIdentity \notin PIDs
      OBVIOUS
  <2>2. \A c \in Command : ledger[c] = "none"
      BY DEF Init, ProviderInit
  <2>3. binding.id = NoIdentity /\ \A o \in Owners : mem[o].id = NoIdentity
      BY DEF Init, BindingInit, Absent
  <2>4. QED
      BY <2>1, <2>2, <2>3 DEF NamedWasStarted
<1>3. StoppedIsDown
    BY DEF Init, BindingInit, ProviderInit, StoppedIsDown, Absent
<1>4. OnlyTheGroup
    BY DEF Init, BindingInit, ProviderInit, OnlyTheGroup, Up
<1>5. MarkFollowsNews
    BY DEF Init, BindingInit, ProviderInit, MarkFollowsNews, Established, Absent
<1>6. QED
    BY <1>1, <1>2, <1>3, <1>4, <1>5 DEF Inv

\* The reducers' own steps and the clock leave the provider alone.
LEMMA PrepareKeeps ==
    ASSUME Inv, NEW o \in Owners, PrepareBinding(o) PROVE Inv'
<1> USE BindingAssumption, ProviderAssumption, SameNames DEF Inv
<1>1. PICK i \in PIDs \cup {NoIdentity} :
          /\ i \in PIDs => proc[i] # "unused"
          /\ mem' = [mem EXCEPT ![o] = [gen |-> 1, token |-> 1, id |-> i, news |-> "none"]]
    BY DEF PrepareBinding, Attached
<1>2. TypeOK'
  <2>1. binding' = [state |-> "preparing", observed |-> "unknown", id |-> NoIdentity, gen |-> 1,
                    token |-> 1, owner |-> o, expires |-> now + LeaseTerm, seen |-> 0]
      BY DEF PrepareBinding, Prepare, Absent
  <2>2. binding' \in Binding
      BY <2>1, LeaseTyped DEF Binding, States, Observed
  <2>3. mem' \in [Owners -> Memory]
      BY <1>1 DEF TypeOK, Memory, News
  <2>4. QED
      BY <2>2, <2>3 DEF PrepareBinding, Prepare, providerVars, TypeOK
<1>3. NamedWasStarted'
    BY <1>1 DEF PrepareBinding, Prepare, providerVars, TypeOK, Absent, NamedWasStarted, Memory
<1>4. StoppedIsDown'
    BY <1>1 DEF PrepareBinding, Prepare, providerVars, TypeOK, Absent, StoppedIsDown, Up, Memory
<1>5. OnlyTheGroup'
    BY DEF PrepareBinding, Prepare, providerVars, OnlyTheGroup, Up
<1>6. MarkFollowsNews'
    BY <1>1 DEF PrepareBinding, Prepare, providerVars, TypeOK, Absent, MarkFollowsNews, Established, Memory
<1>7. QED
    BY <1>2, <1>3, <1>4, <1>5, <1>6

\* Takeover takes the recorded identity along and forgets the observation.
LEMMA TakeoverKeeps ==
    ASSUME Inv, NEW o \in Owners, TakeoverBinding(o) PROVE Inv'
<1> USE BindingAssumption, ProviderAssumption, SameNames DEF Inv
<1>1. PICK t \in Tokens :
          /\ Takeover(o, t)
          /\ mem' = [mem EXCEPT ![o] = [gen |-> binding.gen + 1, token |-> t,
                                        id |-> binding.id, news |-> "none"]]
    BY DEF TakeoverBinding
<1>2. TypeOK'
  <2>1. binding' = [state |-> IF binding.state = "active" THEN "preparing" ELSE binding.state,
                    observed |-> "unknown", id |-> binding.id, gen |-> binding.gen + 1, token |-> t,
                    owner |-> o, expires |-> now + LeaseTerm, seen |-> 0]
      BY <1>1 DEF TypeOK, Takeover, Binding
  <2>2. binding' \in Binding
    <3>1. binding.gen + 1 \in 0..MaxGeneration /\ t \in 0..MaxGeneration
        BY <1>1, RecordsTyped DEF Takeover, Tokens, Generations
    <3>2. (IF binding.state = "active" THEN "preparing" ELSE binding.state) \in States
        BY RecordsTyped DEF States
    <3>3. QED
        BY <2>1, <3>1, <3>2, LeaseTyped, RecordsTyped DEF Binding, Observed
  <2>3. mem' \in [Owners -> Memory]
      BY <1>1, RecordsTyped DEF TypeOK, Takeover, Memory, News, Tokens, Generations
  <2>4. QED
      BY <1>1, <2>2, <2>3 DEF TakeoverBinding, Takeover, providerVars, TypeOK
<1>3. NamedWasStarted'
    BY <1>1 DEF TakeoverBinding, Takeover, providerVars, TypeOK, Binding, NamedWasStarted, Memory
<1>4. StoppedIsDown'
    BY <1>1 DEF TakeoverBinding, Takeover, providerVars, TypeOK, Binding, States, BindingTerminal,
                StoppedIsDown, Up, Memory
<1>5. OnlyTheGroup'
    BY <1>1 DEF TakeoverBinding, Takeover, providerVars, OnlyTheGroup, Up
<1>6. MarkFollowsNews'
    BY <1>1 DEF TakeoverBinding, Takeover, providerVars, TypeOK, Binding, MarkFollowsNews, Established, Memory
<1>7. QED
    BY <1>2, <1>3, <1>4, <1>5, <1>6

\* A heartbeat only moves the end of the lease.
LEMMA HeartbeatKeeps ==
    ASSUME Inv, NEW o \in Owners, HeartbeatBinding(o) PROVE Inv'
<1> USE BindingAssumption, ProviderAssumption, SameNames DEF Inv
<1>1. binding' \in Binding /\ binding' = [binding EXCEPT !.expires = now + LeaseTerm]
    BY LeaseTyped, RecordsTyped DEF TypeOK, HeartbeatBinding, Heartbeat, Binding
<1>2. UNCHANGED <<ownership, now, providerVars, mem>>
    BY DEF HeartbeatBinding, Heartbeat
<1>3. TypeOK'
    BY <1>1, <1>2 DEF TypeOK, providerVars
<1>4. NamedWasStarted' /\ StoppedIsDown' /\ OnlyTheGroup' /\ MarkFollowsNews'
    BY <1>1, <1>2 DEF TypeOK, Binding, providerVars, NamedWasStarted, StoppedIsDown, OnlyTheGroup,
                      MarkFollowsNews, Established, Up
<1>5. QED
    BY <1>3, <1>4

\* Observe records identity, observation and the observer's generation, and
\* releases nothing.
LEMMA ObserveFacts ==
    ASSUME TypeOK, NEW o \in Owners, NEW i \in PIDs \cup {NoIdentity}, NEW state \in Observed,
           NEW g \in 0..MaxGeneration, NEW t, Observe(o, g, t, i, state)
    PROVE  /\ binding'.id = i /\ binding'.observed = state
           /\ binding'.gen = binding.gen /\ binding'.seen = g
           /\ binding'.state # "released"
           /\ binding' \in Binding
<1> DEFINE to == IF binding.state = "preparing" /\ state = "running" THEN "active" ELSE binding.state
           recorded == [binding EXCEPT !.id = i, !.observed = state, !.seen = g, !.state = to]
<1>1. binding' = IF state = "lost" THEN Finished(recorded, "lost") ELSE recorded
    BY DEF Observe
<1>2. to \in States \ {"released"}
    BY RecordsTyped DEF Observe, Fenced, BindingTerminal, States
<1> HIDE DEF to
<1>3. /\ recorded.state = to /\ recorded.id = i /\ recorded.gen = binding.gen
      /\ recorded.observed = state /\ recorded.seen = g
    BY DEF TypeOK, Binding
<1>4. recorded \in Binding
    BY <1>2, SameNames DEF TypeOK, Binding
<1> HIDE DEF recorded
<1>5. CASE state = "lost"
  <2>1. binding' = [recorded EXCEPT !.state = "lost", !.owner = NoOwner, !.expires = 0]
      BY <1>1, <1>5 DEF Finished
  <2>2. binding' \in Binding
      BY <1>4, <2>1, LeaseTyped DEF Binding, States
  <2>3. /\ binding'.state = "lost" /\ binding'.id = recorded.id /\ binding'.gen = recorded.gen
        /\ binding'.observed = recorded.observed /\ binding'.seen = recorded.seen
      BY <1>4, <2>1 DEF Binding
  <2>4. QED
      BY <1>3, <2>2, <2>3
<1>6. CASE state # "lost"
    BY <1>1, <1>2, <1>3, <1>4, <1>6
<1>7. QED
    BY <1>5, <1>6

\* Report writes news into the binding: the owner's, of its own generation.
LEMMA ReportKeeps ==
    ASSUME Inv, NEW o \in Owners, Report(o) PROVE Inv'
<1> USE BindingAssumption, ProviderAssumption, SameNames DEF Inv
<1>1. /\ Learn(o, mem[o].id, "none")
      /\ UNCHANGED <<ownership, now, providerVars>>
      /\ binding.gen = mem[o].gen /\ binding.state \notin BindingTerminal
    BY DEF Report, Observe, Fenced
<1>2. /\ binding'.id = mem[o].id /\ binding'.observed = mem[o].news
      /\ binding'.gen = binding.gen /\ binding'.seen = mem[o].gen
      /\ binding'.state # "released"
      /\ binding' \in Binding
    BY RecordsTyped, ObserveFacts DEF Report, Observed, News
<1>3. /\ mem' \in [Owners -> Memory]
      /\ mem'[o] = [gen |-> mem[o].gen, token |-> mem[o].token, id |-> mem[o].id, news |-> "none"]
      /\ \A p \in Owners \ {o} : mem'[p] = mem[p]
    BY <1>1, RecordsTyped, LearnFacts DEF News
<1>4. TypeOK'
    BY <1>1, <1>2, <1>3 DEF TypeOK, providerVars
<1>5. NamedWasStarted'
    BY <1>1, <1>2, <1>3 DEF providerVars, NamedWasStarted
<1>6. StoppedIsDown'
    BY <1>1, <1>2, <1>3 DEF providerVars, StoppedIsDown, Up
<1>7. OnlyTheGroup'
    BY <1>1 DEF providerVars, OnlyTheGroup, Up
<1>8. MarkFollowsNews'
    BY <1>1, <1>2, <1>3 DEF providerVars, MarkFollowsNews, Established, Report
<1>9. QED
    BY <1>4, <1>5, <1>6, <1>7, <1>8

\* What a controller reports without news is neither running nor stopped.
LEMMA ReportOwnViewKeeps ==
    ASSUME Inv, NEW o \in Owners, NEW state \in Observed, ReportOwnView(o, state) PROVE Inv'
<1> USE BindingAssumption, ProviderAssumption, SameNames DEF Inv
<1>1. UNCHANGED <<ownership, now, providerVars, mem>> /\ state \in {"unknown", "starting", "stopping", "failed", "lost"}
    BY DEF ReportOwnView, Observe
<1>2. /\ binding'.id = mem[o].id /\ binding'.observed = state
      /\ binding'.state # "released"
      /\ binding' \in Binding
    BY RecordsTyped, ObserveFacts DEF ReportOwnView
<1>3. TypeOK'
    BY <1>1, <1>2 DEF TypeOK, providerVars
<1>4. NamedWasStarted' /\ StoppedIsDown' /\ OnlyTheGroup'
    BY <1>1, <1>2 DEF TypeOK, providerVars, NamedWasStarted, StoppedIsDown, OnlyTheGroup, Up
<1>5. MarkFollowsNews'
    BY <1>1, <1>2 DEF providerVars, MarkFollowsNews, Established
<1>6. QED
    BY <1>3, <1>4, <1>5

\* Only FinishRelease makes an owned binding released, and it asks for a stop.
LEMMA ReleaseKeeps ==
    ASSUME Inv, NEW o \in Owners, ReleaseBinding(o) PROVE Inv'
<1> USE BindingAssumption, ProviderAssumption, SameNames DEF Inv
<1>1. UNCHANGED <<ownership, now, providerVars, mem>>
    BY DEF ReleaseBinding, BeginRelease, FinishRelease
<1>2. /\ binding'.id = binding.id /\ binding'.observed = binding.observed
      /\ binding'.gen = binding.gen /\ binding'.seen = binding.seen
      /\ binding'.state = "released" /\ ownership = "owned" => binding.observed = "stopped"
      /\ binding' \in Binding
  <2>1. CASE BeginRelease(o, mem[o].gen, mem[o].token)
      BY <2>1, LeaseTyped, RecordsTyped DEF TypeOK, BeginRelease, Finished, Binding, States
  <2>2. CASE FinishRelease(o, mem[o].gen, mem[o].token)
      BY <2>2, LeaseTyped, RecordsTyped DEF TypeOK, FinishRelease, Finished, Binding, States
  <2>3. QED
      BY <2>1, <2>2 DEF ReleaseBinding
<1>3. TypeOK'
    BY <1>1, <1>2 DEF TypeOK, providerVars
<1>4. NamedWasStarted' /\ StoppedIsDown' /\ OnlyTheGroup' /\ MarkFollowsNews'
    BY <1>1, <1>2 DEF TypeOK, providerVars, NamedWasStarted, StoppedIsDown, OnlyTheGroup,
                      MarkFollowsNews, Established, Up
<1>5. QED
    BY <1>3, <1>4

\* Time alone changes nothing but the validity of the lease.
LEMMA ClockKeeps == ASSUME Inv, Clock PROVE Inv'
<1> USE BindingAssumption, ProviderAssumption, SameNames DEF Inv
<1>1. UNCHANGED <<binding, ownership, providerVars, mem>> /\ now' \in 0..MaxTime
    BY DEF Clock, Tick, TypeOK
<1>2. QED
    BY <1>1 DEF TypeOK, providerVars, NamedWasStarted, StoppedIsDown, OnlyTheGroup,
                MarkFollowsNews, Established, Up

-----------------------------------------------------------------------------

\* A signal never brings a process back and does not spare the one it is for.
LEMMA SignaledFacts ==
    ASSUME TypeOK, NEW i \in PIDs, NEW end, Signaled(i, end)
    PROVE  /\ proc' \in [PIDs -> GroupStates]
           /\ Aging
           /\ Up' \subseteq Up \ {i}
BY DEF TypeOK, Signaled, GroupStates, Aging, Up

\* A command refused, replayed or answered leaves the other receipts alone.
LEMMA ReceiveFacts ==
    ASSUME TypeOK, NamedWasStarted, NEW c \in Command, NEW receipt \in Receipts, Receive(c, receipt),
           Aging, receipt \in PIDs => proc'[receipt] # "unused"
    PROVE  /\ ledger' \in [Command -> Receipts]
           /\ \A d \in Command : ledger'[d] \in PIDs => proc'[ledger'[d]] # "unused"
<1>1. ledger' \in [Command -> Receipts] /\ ledger'[c] = receipt
    BY DEF TypeOK, Receive
<1>2. \A d \in Command \ {c} : ledger'[d] = ledger[d]
    BY DEF TypeOK, Receive
<1>3. QED
    BY <1>1, <1>2 DEF NamedWasStarted, Aging

\* Start: no owned process is up when one is started.
LEMMA StartStep ==
    ASSUME Inv, NEW c \in Command, NEW t \in 0..MaxFence, NEW i \in PIDs, Start(c, t, i),
           ownership = "owned", UNCHANGED ownership
    PROVE  ProviderStep /\ c.gen <= mark'[1] /\ proc'[i] # "unused"
<1> USE ProviderAssumption DEF Inv
<1>1. c.gen \in 1..MaxFence
    BY DEF Command
<1>2. mark' \in (0..MaxFence) \X (0..MaxFence) /\ c.gen <= mark'[1] /\ mark[1] <= mark'[1]
    BY <1>1, MarkRises DEF Start
<1>3. proc' \in [PIDs -> GroupStates] /\ Aging /\ proc'[i] = "up" /\ Up' = Up \cup {i}
    BY DEF Start, TypeOK, GroupStates, Aging, Up
<1>4. restarts' = restarts /\ group' = i
    BY DEF Start
<1>5. OnlyTheGroup'
    BY <1>3, <1>4 DEF Start, OnlyTheGroup, Up
<1>6. /\ ledger' \in [Command -> Receipts]
      /\ \A d \in Command : ledger'[d] \in PIDs => proc'[ledger'[d]] # "unused"
    BY <1>3, ReceiveFacts DEF Start, Receipts
<1>7. QED
    BY <1>2, <1>3, <1>4, <1>5, <1>6 DEF ProviderStep, TypeOK

\* A refused command leaves the processes alone, whatever the reason.
LEMMA RefuseStep ==
    ASSUME Inv, NEW c \in Command, NEW t \in 0..MaxFence, NEW receipt \in Receipts,
           RefuseStart(c, t, receipt) \/ RefuseStop(c, t, receipt), UNCHANGED ownership
    PROVE  ProviderStep
<1> USE ProviderAssumption DEF Inv
<1>1. c.gen \in 1..MaxFence
    BY DEF Command
<1>2. Refuse(c, t, receipt) /\ receipt \in {"rejected", "uncertain"}
    BY DEF RefuseStart, RefuseStop
<1>3. mark' \in (0..MaxFence) \X (0..MaxFence) /\ mark[1] <= mark'[1]
    BY <1>1, <1>2, MarkRises DEF Refuse, TypeOK
<1>4. proc' = proc /\ restarts' = restarts /\ Up' = Up
    BY <1>2 DEF Refuse, Up
<1>5. Aging
    BY <1>4 DEF Aging
<1>6. /\ ledger' \in [Command -> Receipts]
      /\ \A d \in Command : ledger'[d] \in PIDs => proc'[ledger'[d]] # "unused"
    BY <1>2, <1>5, ReceiveFacts DEF Refuse
<1>7. group' = group \/ (group' = NoProcess /\ group \notin Up)
    BY DEF RefuseStart, RefuseStop
<1>8. OnlyTheGroup'
    BY <1>4, <1>7 DEF OnlyTheGroup
<1>9. QED
    BY <1>3, <1>4, <1>5, <1>6, <1>7, <1>8 DEF ProviderStep, TypeOK

\* Stop, completed or not: the group is forgotten only when it is down.
LEMMA StopStep ==
    ASSUME Inv, NEW c \in Command, NEW t \in 0..MaxFence, NEW end,
           Stop(c, t, end) \/ StopUncertain(c, t, end),
           ownership = "owned", UNCHANGED ownership
    PROVE  ProviderStep /\ c.gen <= mark'[1] /\ c.stop \in PIDs \ Up'
<1> USE ProviderAssumption DEF Inv
<1>1. c.gen \in 1..MaxFence /\ c.stop \in PIDs
    BY DEF Command, Stop, StopUncertain, Up
<1>2. mark' \in (0..MaxFence) \X (0..MaxFence) /\ c.gen <= mark'[1] /\ mark[1] <= mark'[1]
    BY <1>1, MarkRises DEF Stop, StopUncertain
<1>3. proc' \in [PIDs -> GroupStates] /\ Aging /\ Up' \subseteq Up \ {c.stop}
    BY <1>1, SignaledFacts DEF Stop, StopUncertain
<1>4. /\ restarts' = restarts
      /\ group \in {NoProcess, c.stop}
      /\ group' \in {NoProcess, group}
    BY DEF Stop, StopUncertain
<1>5. OnlyTheGroup'
    BY <1>3, <1>4 DEF OnlyTheGroup, Up
<1>6. PICK receipt \in {"stopped", "uncertain"} : Receive(c, receipt)
    BY DEF Stop, StopUncertain
<1>7. /\ ledger' \in [Command -> Receipts]
      /\ \A d \in Command : ledger'[d] \in PIDs => proc'[ledger'[d]] # "unused"
    BY <1>3, <1>6, ReceiveFacts DEF Receipts
<1>8. QED
    BY <1>1, <1>2, <1>3, <1>4, <1>5, <1>7 DEF ProviderStep, TypeOK

\* A call to the provider keeps the invariant if what it tells is true.
LEMMA CallKeeps ==
    ASSUME Inv, ProviderStep, UNCHANGED bindingVars, mem' \in [Owners -> Memory],
           \A o \in Owners : mem'[o] = mem[o] \/ ToldTheTruth(o)
    PROVE  Inv'
<1> USE DEF Inv
<1>1. TypeOK'
    BY DEF TypeOK, ProviderStep, bindingVars
<1>2. NamedWasStarted'
    BY DEF NamedWasStarted, ProviderStep, bindingVars, Aging, ToldTheTruth
<1>3. StoppedIsDown'
  <2>1. \A i \in PIDs \ Up : proc[i] # "unused" => i \notin Up'
      BY DEF TypeOK, GroupStates, ProviderStep, Aging, Up
  <2>2. QED
      BY <2>1 DEF StoppedIsDown, NamedWasStarted, bindingVars, ToldTheTruth
<1>4. MarkFollowsNews'
  <2>1. SUFFICES ASSUME restarts' = 0
                 PROVE  /\ \A o \in Owners : mem'[o].news # "none" => mem'[o].gen <= mark'[1]
                        /\ Established' => binding'.gen <= mark'[1]
      BY DEF MarkFollowsNews
  <2>2. mark[1] \in Nat /\ mark'[1] \in Nat /\ mark[1] <= mark'[1] /\ restarts = 0
      BY <2>1, ProviderAssumption DEF TypeOK, ProviderStep
  <2>3. \A o \in Owners : mem'[o].news # "none" => mem'[o].gen <= mark'[1]
      BY <2>1, <2>2, RecordsTyped DEF ToldTheTruth, MarkFollowsNews
  <2>4. Established' => binding'.gen <= mark'[1]
      BY <2>2, RecordsTyped DEF MarkFollowsNews, Established, bindingVars
  <2>5. QED
      BY <2>3, <2>4
<1>5. QED
    BY <1>1, <1>2, <1>3, <1>4 DEF ProviderStep

\* The commands of a controller that has ever held a lease are commands.
LEMMA CommandTyped ==
    ASSUME TypeOK, NEW o \in Owners, NEW n \in 1..MaxCommands, mem[o].gen > 0
    PROVE  /\ mem[o].token \in 0..MaxFence
           /\ StartCommand(o, n) \in Command /\ StartCommand(o, n).gen = mem[o].gen
           /\ StopCommand(o, n) \in Command /\ StopCommand(o, n).gen = mem[o].gen
           /\ StopCommand(o, n).stop = mem[o].id
BY RecordsTyped, SameNames DEF StartCommand, StopCommand, Command

\* An answer that got lost teaches nothing.
LEMMA AnsweredFacts ==
    ASSUME TypeOK, NEW o \in Owners, NEW id \in PIDs, NEW news \in News, Answered(o, id, news),
           proc'[id] # "unused", news = "stopped" => id \notin Up',
           restarts' = 0 => mem[o].gen <= mark'[1]
    PROVE  /\ mem' \in [Owners -> Memory]
           /\ \A p \in Owners : mem'[p] = mem[p] \/ ToldTheTruth(p)
<1>1. CASE UNCHANGED mem
    BY <1>1 DEF TypeOK
<1>2. CASE Learn(o, id, news)
  <2>1. /\ mem' \in [Owners -> Memory]
        /\ mem'[o] = [gen |-> mem[o].gen, token |-> mem[o].token, id |-> id, news |-> news]
        /\ \A p \in Owners \ {o} : mem'[p] = mem[p]
      BY <1>2, LearnFacts
  <2>2. QED
      BY <2>1 DEF ToldTheTruth
<1>3. QED
    BY <1>1, <1>2 DEF Answered

\* A started process is the only one and known to the provider.
LEMMA CallStartKeeps ==
    ASSUME Inv, NEW o \in Owners, NEW n \in 1..MaxCommands, CallStart(o, n) PROVE Inv'
<1>1. PICK i \in PIDs : Start(StartCommand(o, n), mem[o].token, i) /\ Answered(o, i, "running")
    BY DEF CallStart
<1>2. /\ StartCommand(o, n) \in Command /\ StartCommand(o, n).gen = mem[o].gen
      /\ mem[o].token \in 0..MaxFence
    BY CommandTyped DEF CallStart, Inv
<1>3. ProviderStep /\ mem[o].gen <= mark'[1] /\ proc'[i] # "unused"
  <2> DEFINE c == StartCommand(o, n)
  <2> HIDE DEF c
  <2>1. ProviderStep /\ c.gen <= mark'[1] /\ proc'[i] # "unused"
      BY <1>1, <1>2, StartStep DEF CallStart, bindingVars, c
  <2>2. QED
      BY <1>2, <2>1 DEF c
<1>4. /\ mem' \in [Owners -> Memory]
      /\ \A p \in Owners : mem'[p] = mem[p] \/ ToldTheTruth(p)
    BY <1>1, <1>3, AnsweredFacts DEF Inv, News
<1>5. QED
    BY <1>3, <1>4, CallKeeps DEF CallStart

\* A replayed start names the process its first execution started.
LEMMA CallStartReplayedKeeps ==
    ASSUME Inv, NEW o \in Owners, NEW n \in 1..MaxCommands, CallStartReplayed(o, n) PROVE Inv'
<1> DEFINE receipt == ledger[StartCommand(o, n)]
<1>1. StartCommand(o, n) \in Command
    BY CommandTyped DEF CallStartReplayed, Inv
<1>2. UNCHANGED <<providerVars, bindingVars>> /\ receipt \in PIDs /\ Learn(o, receipt, "none")
    BY DEF CallStartReplayed, Replay
<1>3. proc[receipt] # "unused"
    BY <1>1, <1>2 DEF Inv, NamedWasStarted
<1> HIDE DEF receipt
<1>4. /\ mem' \in [Owners -> Memory]
      /\ mem'[o] = [gen |-> mem[o].gen, token |-> mem[o].token, id |-> receipt, news |-> "none"]
      /\ \A p \in Owners \ {o} : mem'[p] = mem[p]
    BY <1>2, LearnFacts DEF Inv, News
<1>5. \A p \in Owners : mem'[p] = mem[p] \/ ToldTheTruth(p)
    BY <1>2, <1>3, <1>4 DEF ToldTheTruth, providerVars
<1>6. ProviderStep
    BY <1>2, ProviderAssumption
    DEF Inv, TypeOK, NamedWasStarted, OnlyTheGroup, Up, Aging, ProviderStep, providerVars, bindingVars
<1>7. QED
    BY <1>2, <1>4, <1>5, <1>6, CallKeeps

\* A refused start teaches the controller nothing.
LEMMA CallStartRefusedKeeps ==
    ASSUME Inv, NEW o \in Owners, NEW n \in 1..MaxCommands, CallStartRefused(o, n) PROVE Inv'
<1>1. StartCommand(o, n) \in Command /\ mem[o].token \in 0..MaxFence
    BY CommandTyped DEF CallStartRefused, Inv
<1>2. ProviderStep
    BY <1>1, RefuseStep DEF CallStartRefused, bindingVars
<1>3. QED
    BY <1>2, CallKeeps DEF CallStartRefused, Inv, TypeOK

\* The controller that stopped a process knows of a process that is down.
LEMMA CallStopKeeps ==
    ASSUME Inv, NEW o \in Owners, NEW n \in 1..MaxCommands, NEW end \in GroupStates,
           CallStop(o, n, end)
    PROVE  Inv'
<1> DEFINE c == StopCommand(o, n)
<1>1. c \in Command /\ c.gen = mem[o].gen /\ c.stop = mem[o].id /\ mem[o].token \in 0..MaxFence
    BY CommandTyped DEF CallStop, Inv
<1>2. Stop(c, mem[o].token, end) /\ Answered(o, mem[o].id, "stopped")
    BY DEF CallStop
<1> HIDE DEF c
<1>3. ProviderStep /\ c.gen <= mark'[1] /\ c.stop \in PIDs \ Up'
    BY <1>1, <1>2, StopStep DEF CallStop, bindingVars
<1>4. mem[o].id \in PIDs /\ proc'[mem[o].id] # "unused"
    BY <1>1, <1>3 DEF Inv, NamedWasStarted, ProviderStep, Aging
<1>5. /\ mem' \in [Owners -> Memory]
      /\ \A p \in Owners : mem'[p] = mem[p] \/ ToldTheTruth(p)
    BY <1>1, <1>2, <1>3, <1>4, AnsweredFacts DEF Inv, News
<1>6. QED
    BY <1>3, <1>5, CallKeeps DEF CallStop

\* A stop that failed or was lost sight of teaches the controller nothing.
LEMMA CallStopFailedKeeps ==
    ASSUME Inv, NEW o \in Owners, NEW n \in 1..MaxCommands, CallStopFailed(o, n) PROVE Inv'
<1> DEFINE c == StopCommand(o, n)
<1>1. c \in Command /\ mem[o].token \in 0..MaxFence
    BY CommandTyped DEF CallStopFailed, Inv
<1>2. \/ \E receipt \in Receipts : RefuseStop(c, mem[o].token, receipt)
      \/ \E end \in GroupStates : StopUncertain(c, mem[o].token, end)
    BY DEF CallStopFailed
<1> HIDE DEF c
<1>3. ProviderStep
    BY <1>1, <1>2, RefuseStep, StopStep DEF CallStopFailed, bindingVars
<1>4. QED
    BY <1>3, CallKeeps DEF CallStopFailed, Inv, TypeOK

\* An inspection tells the truth and raises the mark.
LEMMA CallInspectKeeps ==
    ASSUME Inv, NEW o \in Owners, CallInspect(o) PROVE Inv'
<1> DEFINE news == IF mem[o].id \in Up THEN "running" ELSE "stopped"
<1>1. mem[o].id \in PIDs /\ mem[o].gen \in 1..MaxFence /\ mem[o].token \in 0..MaxFence
    BY RecordsTyped, SameNames DEF Inv, CallInspect
<1>2. /\ UNCHANGED <<proc, group, ledger, restarts, bindingVars>>
      /\ RaiseMark(mem[o].gen, mem[o].token) /\ Learn(o, mem[o].id, news) /\ news \in News
    BY DEF CallInspect, Inspect, News
<1>3. /\ mark' \in (0..MaxFence) \X (0..MaxFence)
      /\ mem[o].gen <= mark'[1] /\ mark[1] <= mark'[1]
    BY <1>1, <1>2, MarkRises DEF Inv
<1>4. ProviderStep
    BY <1>2, <1>3
    DEF Inv, TypeOK, NamedWasStarted, OnlyTheGroup, Up, Aging, ProviderStep, bindingVars
<1>5. proc'[mem[o].id] # "unused" /\ (news = "stopped" => mem[o].id \notin Up')
    BY <1>1, <1>2 DEF Inv, NamedWasStarted, Up
<1> HIDE DEF news
<1>6. Answered(o, mem[o].id, news)
    BY <1>2 DEF Answered
<1>7. /\ mem' \in [Owners -> Memory]
      /\ \A p \in Owners : mem'[p] = mem[p] \/ ToldTheTruth(p)
    BY <1>1, <1>2, <1>3, <1>5, <1>6, AnsweredFacts DEF Inv
<1>8. QED
    BY <1>2, <1>4, <1>7, CallKeeps

\* What happens behind the controllers' backs only takes processes down.
LEMMA ElsewhereKeeps == ASSUME Inv, Elsewhere PROVE Inv'
<1> USE ProviderAssumption DEF Inv
<1>1. UNCHANGED <<bindingVars, mem>>
    BY DEF Elsewhere
<1>2. ASSUME NEW i \in PIDs, NEW end \in GroupStates, Compensate(i, end) \/ Exit(i, end)
      PROVE  ProviderStep
  <2>1. UNCHANGED <<group, mark, ledger, restarts>>
      BY <1>2 DEF Compensate, Exit
  <2>2. proc' \in [PIDs -> GroupStates] /\ Aging /\ Up' \subseteq Up
    <3>1. CASE Compensate(i, end)
        BY <3>1, SignaledFacts DEF Compensate
    <3>2. CASE Exit(i, end)
        BY <3>2 DEF Exit, TypeOK, GroupStates, Aging, Up
    <3>3. QED
        BY <1>2, <3>1, <3>2
  <2>3. QED
      BY <1>1, <2>1, <2>2
      DEF TypeOK, NamedWasStarted, OnlyTheGroup, Aging, ProviderStep, bindingVars
<1>3. ASSUME NEW survivors \in SUBSET Up, Restart(survivors)
      PROVE  ProviderStep
  <2>1. proc' \in [PIDs -> GroupStates] /\ Aging
      BY <1>3 DEF Restart, TypeOK, GroupStates, Aging, Up
  <2>2. ledger' \in [Command -> Receipts] /\ \A c \in Command : ledger'[c] \notin PIDs
      BY <1>3 DEF Restart, Receipts
  <2>3. restarts' \in 0..MaxRestarts /\ restarts' # 0
      BY <1>3 DEF Restart, TypeOK
  <2>4. group' \in PIDs \cup {NoProcess} /\ mark' \in (0..MaxFence) \X (0..MaxFence)
      BY <1>3 DEF Restart
  <2>5. QED
      BY <2>1, <2>2, <2>3, <2>4 DEF ProviderStep, OnlyTheGroup
<1>4. ProviderStep
    BY <1>2, <1>3 DEF Elsewhere
<1>5. QED
    BY <1>1, <1>4, CallKeeps DEF TypeOK

-----------------------------------------------------------------------------
(***************************************************************************)
(* The theorems.                                                           *)
(***************************************************************************)

\* Every step of the controllers, the reducers, the provider and the host keeps
\* the invariant.
LEMMA StepKeeps == Inv /\ [Next]_vars => Inv'
<1> SUFFICES ASSUME Inv, [Next]_vars PROVE Inv'
    OBVIOUS
<1>1. CASE UNCHANGED vars
    BY <1>1 DEF vars, Inv, TypeOK, NamedWasStarted, StoppedIsDown, OnlyTheGroup, MarkFollowsNews,
                Established, Up
<1>2. ASSUME NEW o \in Owners,
             \/ PrepareBinding(o) \/ TakeoverBinding(o) \/ HeartbeatBinding(o)
             \/ Report(o) \/ ReleaseBinding(o) \/ CallInspect(o)
             \/ \E state \in Observed : ReportOwnView(o, state)
      PROVE  Inv'
    BY <1>2, PrepareKeeps, TakeoverKeeps, HeartbeatKeeps, ReportKeeps, ReleaseKeeps,
       CallInspectKeeps, ReportOwnViewKeeps
<1>3. ASSUME NEW o \in Owners, NEW n \in 1..MaxCommands,
             \/ CallStart(o, n) \/ CallStartReplayed(o, n) \/ CallStartRefused(o, n)
             \/ CallStopFailed(o, n)
             \/ \E end \in GroupStates : CallStop(o, n, end)
      PROVE  Inv'
    BY <1>3, CallStartKeeps, CallStartReplayedKeeps, CallStartRefusedKeeps, CallStopFailedKeeps,
       CallStopKeeps
<1>4. CASE Elsewhere
    BY <1>4, ElsewhereKeeps
<1>5. CASE Clock
    BY <1>5, ClockKeeps
<1>6. QED
    BY <1>1, <1>2, <1>3, <1>4, <1>5 DEF Next

\* Binding, provider and controllers keep the inductive invariant, and with it
\* their types.
THEOREM InvHolds == Spec => []Inv
<1>1. QED
    BY InitInv, StepKeeps, PTL DEF Spec

\* The reducers and the provider keep their records, fences and receipts in type.
THEOREM TypesHold == Spec => []TypeOK
<1>1. Inv => TypeOK
    BY DEF Inv
<1>2. QED
    BY <1>1, InvHolds, PTL

\* FinishRelease releases an owned binding only when its process is down, and
\* the process stays down, whoever calls the provider later.
THEOREM ReleasedStaysStopped == Spec => []ReleasedIsStopped
<1>1. Inv => ReleasedIsStopped
    BY DEF Inv, StoppedIsDown, ReleasedIsStopped
<1>2. QED
    BY <1>1, InvHolds, PTL

\* Start cannot give a binding a second live process while the provider has not
\* been restarted, however many generations of controllers call it.
THEOREM NeverTwoProcesses == Spec => []OneProcessPerBinding
<1>1. Inv => OneProcessPerBinding
  <2> SUFFICES ASSUME Inv, restarts = 0 PROVE Cardinality(Up) <= 1
      BY DEF OneProcessPerBinding
  <2>1. \A i, j \in Up : i = j
      BY DEF Inv, OnlyTheGroup
  <2>2. CASE Up = {}
      BY <2>2, FS_EmptySet
  <2>3. ASSUME NEW i \in Up PROVE Cardinality(Up) <= 1
    <3>1. Up = {i}
        BY <2>1, <2>3
    <3>2. Cardinality({i}) = 1
        BY FS_Singleton
    <3>3. QED
        BY <3>1, <3>2
  <2>4. QED
      BY <2>2, <2>3
<1>2. QED
    BY <1>1, InvHolds, PTL

\* acceptFence refuses every generation before the established one.
LEMMA StaleRefused ==
    ASSUME Inv, restarts = 0, Established, NEW c \in Command, c.gen < binding.gen
    PROVE  \A t : ~Accepted(c.gen, t)
<1>1. c.gen \in 1..MaxFence /\ mark[1] \in 0..MaxFence /\ binding.gen \in 0..MaxGeneration
    BY RecordsTyped DEF Inv, TypeOK, Command
<1>2. c.gen < mark[1]
    BY <1>1, ProviderAssumption, BindingAssumption DEF Inv, MarkFollowsNews
<1>3. mark # <<0, 0>>
    BY <1>1, <1>2, ProviderAssumption
<1>4. QED
    BY <1>1, <1>2, <1>3, ProviderAssumption DEF Accepted

\* A controller whose successor recorded what the provider said starts and stops
\* nothing any more: its commands are rejected without a signal.
THEOREM OldOwnersArePowerless == Spec => OldOwnerPowerless
<1>1. Inv /\ [Next]_vars => [restarts = 0 => \A c \in Command : Powerless(c)]_vars
  <2> SUFFICES ASSUME Inv, Next, restarts = 0, NEW c \in Command, c.gen < binding.gen, Established,
                      ledger[c] = "none", ledger'[c] # "none"
               PROVE  ledger'[c] = "rejected" /\ proc' = proc
      BY DEF Powerless
  <2>1. \A t : ~Accepted(c.gen, t)
      BY StaleRefused
  <2>2. \A d \in Command, receipt \in Receipts : Receive(d, receipt) => d = c /\ ledger'[c] = receipt
      BY DEF Receive, Inv, TypeOK
  <2>3. ASSUME NEW d \in Command, NEW t, NEW i \in PIDs, Start(d, t, i) PROVE FALSE
      BY <2>1, <2>2, <2>3 DEF Start, Receipts
  <2>4. ASSUME NEW d \in Command, NEW t, NEW end, Stop(d, t, end) \/ StopUncertain(d, t, end) PROVE FALSE
      BY <2>1, <2>2, <2>4 DEF Stop, StopUncertain, Receipts
  <2>5. ASSUME NEW d \in Command, NEW t, NEW receipt \in Receipts,
               RefuseStart(d, t, receipt) \/ RefuseStop(d, t, receipt)
        PROVE  ledger'[c] = "rejected" /\ proc' = proc
      BY <2>1, <2>2, <2>5 DEF RefuseStart, RefuseStop, Refuse
  <2>6. ASSUME NEW o \in Owners, NEW n \in 1..MaxCommands,
               \/ CallStart(o, n) \/ CallStartReplayed(o, n) \/ CallStartRefused(o, n)
               \/ CallStopFailed(o, n)
               \/ \E end \in GroupStates : CallStop(o, n, end)
        PROVE  ledger'[c] = "rejected" /\ proc' = proc
    <3>1. mem[o].gen > 0
        BY <2>6 DEF CallStart, CallStartReplayed, CallStartRefused, CallStopFailed, CallStop
    <3>2. StartCommand(o, n) \in Command /\ StopCommand(o, n) \in Command
        BY <3>1, CommandTyped DEF Inv
    <3>3. CASE CallStart(o, n)
        BY <2>3, <3>2, <3>3 DEF CallStart
    <3>4. CASE CallStartReplayed(o, n)
        BY <3>4 DEF CallStartReplayed, Replay, providerVars
    <3>5. CASE CallStartRefused(o, n)
        BY <2>5, <3>2, <3>5 DEF CallStartRefused
    <3>6. CASE CallStopFailed(o, n)
        BY <2>4, <2>5, <3>2, <3>6 DEF CallStopFailed
    <3>7. CASE \E end \in GroupStates : CallStop(o, n, end)
        BY <2>4, <3>2, <3>7 DEF CallStop
    <3>8. QED
        BY <2>6, <3>3, <3>4, <3>5, <3>6, <3>7
  <2>7. ASSUME NEW o \in Owners,
               \/ PrepareBinding(o) \/ TakeoverBinding(o) \/ HeartbeatBinding(o)
               \/ Report(o) \/ ReleaseBinding(o) \/ CallInspect(o)
               \/ \E state \in Observed : ReportOwnView(o, state)
        PROVE  FALSE
    <3>1. ledger' = ledger
        BY <2>7 DEF PrepareBinding, TakeoverBinding, HeartbeatBinding, Report, ReleaseBinding,
                    CallInspect, Inspect, ReportOwnView, providerVars
    <3>2. QED
        BY <3>1
  <2>8. CASE Elsewhere \/ Clock
      BY <2>8 DEF Elsewhere, Compensate, Exit, Restart, Clock, providerVars
  <2>9. QED
      BY <2>6, <2>7, <2>8 DEF Next
<1>2. QED
    BY <1>1, InvHolds, PTL DEF Spec, OldOwnerPowerless
=============================================================================
