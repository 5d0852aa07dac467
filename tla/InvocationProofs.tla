-------------------------- MODULE InvocationProofs --------------------------
(***************************************************************************)
(* Proofs about Invocation, for any set of workers and any bounds: the     *)
(* ledger is always one the validator accepts, an open attempt is always   *)
(* the active one, and what is closed stays closed.                        *)
(***************************************************************************)
EXTENDS Invocation, TLAPS

\* The strengthening that makes LedgerValid inductive: no compensation attempt
\* exists before compensation is scheduled (a skip relies on it).
NoEarlyCompensation == comp \in {"not-required", "unscheduled"} => count["compensation"] = 0

Inv ==
    /\ TypeOK
    /\ LedgerValid
    /\ NoEarlyCompensation
    /\ OpenIsActive
    /\ WaitAgrees

-----------------------------------------------------------------------------
(* The two ways an attempt list changes.                                   *)

\* A moved attempt is an attempt, with a consistent lease whenever it was
\* moved before its lease ran out or was closed, and with its cause if given.
LEMMA MovedAttempt ==
    ASSUME NEW a \in Attempt, NEW to \in AttemptStatuses, NEW at \in Nat, NEW cause \in BOOLEAN,
           to \in ClosedAttempts \/ at < a.lease, CauseGiven(to, cause)
    PROVE  /\ Moved(a, to, at, cause) \in Attempt
           /\ Moved(a, to, at, cause).status = to
           /\ AttemptValid(Moved(a, to, at, cause))
BY DEF Moved, Attempt, AttemptValid, CauseGiven

\* An open attempt under a longer lease.
LEMMA ExtendedAttempt ==
    ASSUME NEW a \in Attempt, NEW lease \in Nat, NEW at \in Nat,
           a.status \notin ClosedAttempts, at < a.lease, a.lease < lease
    PROVE  /\ Extended(a, lease, at) \in Attempt
           /\ Extended(a, lease, at).status = a.status
           /\ AttemptValid(Extended(a, lease, at))
BY DEF Extended, Attempt, AttemptValid, ClosedAttempts

\* Replacing one element of one phase's list leaves every other element.
LEMMA ReplaceOne ==
    ASSUME NEW at0 \in [Phases -> Seq(Attempt)], NEW p \in Phases,
           NEW i \in DOMAIN at0[p], NEW a \in Attempt, NEW at1,
           at1 = [at0 EXCEPT ![p][i] = a]
    PROVE  /\ at1 \in [Phases -> Seq(Attempt)]
           /\ \A q \in Phases : q # p => at1[q] = at0[q]
           /\ Len(at1[p]) = Len(at0[p])
           /\ DOMAIN at1[p] = DOMAIN at0[p]
           /\ at1[p][i] = a
           /\ \A j \in DOMAIN at0[p] : j # i => at1[p][j] = at0[p][j]
<1>1. at0[p] \in Seq(Attempt) /\ at1[p] = [at0[p] EXCEPT ![i] = a]
  OBVIOUS
<1>2. at1[p] \in Seq(Attempt) /\ Len(at1[p]) = Len(at0[p]) /\ DOMAIN at1[p] = DOMAIN at0[p]
  BY <1>1
<1>3. at1 \in [Phases -> Seq(Attempt)]
  BY <1>2
<1> QED BY <1>1, <1>2, <1>3

\* A claim adds one element to one phase's list.
LEMMA AppendOne ==
    ASSUME NEW at0 \in [Phases -> Seq(Attempt)], NEW p \in Phases,
           NEW a \in Attempt, NEW at1,
           at1 = [at0 EXCEPT ![p] = Append(@, a)]
    PROVE  /\ at1 \in [Phases -> Seq(Attempt)]
           /\ \A q \in Phases : q # p => at1[q] = at0[q]
           /\ Len(at1[p]) = Len(at0[p]) + 1
           /\ DOMAIN at1[p] = 1..(Len(at0[p]) + 1)
           /\ DOMAIN at0[p] = 1..Len(at0[p])
           /\ at1[p][Len(at0[p]) + 1] = a
           /\ \A j \in DOMAIN at0[p] : at1[p][j] = at0[p][j]
<1>1. at0[p] \in Seq(Attempt) /\ at1[p] = Append(at0[p], a)
  OBVIOUS
<1>2. at1[p] \in Seq(Attempt) /\ Len(at1[p]) = Len(at0[p]) + 1
  BY <1>1
<1>3. at1 \in [Phases -> Seq(Attempt)]
  BY <1>2
<1> QED BY <1>1, <1>2, <1>3

-----------------------------------------------------------------------------
(* The facts every action's proof uses.                                    *)

\* Attempt i of phase p has status `to', and nothing else moved.
AttemptMoved(p, i, to) ==
    /\ attempts' \in [Phases -> Seq(Attempt)]
    /\ \A q \in Phases : /\ Len(attempts'[q]) = Len(attempts[q])
                         /\ DOMAIN attempts'[q] = DOMAIN attempts[q]
                         /\ \A j \in DOMAIN attempts[q] : AttemptValid(attempts'[q][j])
                         /\ \A j \in DOMAIN attempts[q] :
                               q # p \/ j # i => attempts'[q][j] = attempts[q][j]
    /\ attempts'[p][i].status = to

\* Moving one attempt: types, lengths and leases survive, nothing else moves.
LEMMA MoveEffect ==
    ASSUME Inv, NEW p \in Phases, NEW i \in DOMAIN attempts[p],
           NEW to \in AttemptStatuses, NEW at \in Nat, NEW cause \in BOOLEAN,
           to \in ClosedAttempts \/ at < attempts[p][i].lease,
           CauseGiven(to, cause),
           MoveAttempt(p, i, to, at, cause)
    PROVE  AttemptMoved(p, i, to)
<1>1. attempts \in [Phases -> Seq(Attempt)] /\ attempts[p][i] \in Attempt
  BY DEF Inv, TypeOK
<1>2. /\ Moved(attempts[p][i], to, at, cause) \in Attempt
      /\ Moved(attempts[p][i], to, at, cause).status = to
      /\ AttemptValid(Moved(attempts[p][i], to, at, cause))
  BY <1>1, MovedAttempt
<1>3. attempts' = [attempts EXCEPT ![p][i] = Moved(attempts[p][i], to, at, cause)]
  BY DEF MoveAttempt
<1>4. /\ attempts' \in [Phases -> Seq(Attempt)]
      /\ \A q \in Phases : q # p => attempts'[q] = attempts[q]
      /\ Len(attempts'[p]) = Len(attempts[p])
      /\ DOMAIN attempts'[p] = DOMAIN attempts[p]
      /\ attempts'[p][i] = Moved(attempts[p][i], to, at, cause)
      /\ \A j \in DOMAIN attempts[p] : j # i => attempts'[p][j] = attempts[p][j]
  <2> DEFINE a == Moved(attempts[p][i], to, at, cause)
  <2>1. a \in Attempt /\ attempts' = [attempts EXCEPT ![p][i] = a]
    BY <1>2, <1>3
  <2> HIDE DEF a
  <2>2. /\ attempts' \in [Phases -> Seq(Attempt)]
        /\ \A q \in Phases : q # p => attempts'[q] = attempts[q]
        /\ Len(attempts'[p]) = Len(attempts[p])
        /\ DOMAIN attempts'[p] = DOMAIN attempts[p]
        /\ attempts'[p][i] = a
        /\ \A j \in DOMAIN attempts[p] : j # i => attempts'[p][j] = attempts[p][j]
    BY <2>1, <1>1, ReplaceOne
  <2> QED BY <2>2 DEF a
<1>5. \A q \in Phases : \A j \in DOMAIN attempts[q] : AttemptValid(attempts[q][j])
  BY DEF Inv, LedgerValid, AttemptsValid
<1> QED BY <1>2, <1>4, <1>5 DEF AttemptMoved

\* A worker whose fence holds stands on the open, active attempt of the phase.
LEMMA FenceFacts ==
    ASSUME Inv, NEW w \in Workers, NEW p \in Phases, NEW at, FenceHolds(w, p, at)
    PROVE  /\ held[w] \in Fence
           /\ held[w].ordinal = active[p]
           /\ active[p] # 0
           /\ active[p] \in DOMAIN attempts[p]
           /\ attempts[p][active[p]].status \notin ClosedAttempts
           /\ at \in Nat
           /\ at < attempts[p][active[p]].lease
<1>1. /\ held[w].ordinal = active[p]
      /\ active[p] \in DOMAIN attempts[p]
      /\ at \in Sampled
      /\ at < attempts[p][active[p]].lease
  BY DEF FenceHolds
<1>2. /\ held[w] \in Fence
      /\ active[p] \in Nat
      /\ attempts[p] \in Seq(Attempt)
  BY DEF Inv, TypeOK
<1>3. active[p] # 0
  BY <1>1, <1>2
<1>4. attempts[p][active[p]].status \notin ClosedAttempts
  BY <1>3 DEF Inv, LedgerValid, AttemptsValid
<1>5. at \in Nat
  BY <1>1, BoundsAssumption DEF Sampled
<1> QED BY <1>1, <1>2, <1>3, <1>4, <1>5

\* Closing the active attempt of a phase leaves no open attempt behind.
LEMMA CloseActive ==
    ASSUME Inv, NEW p \in Phases, active[p] \in DOMAIN attempts[p],
           NEW to \in ClosedAttempts, NEW at \in Nat, NEW cause \in BOOLEAN,
           CauseGiven(to, cause),
           MoveAttempt(p, active[p], to, at, cause),
           active' = [active EXCEPT ![p] = 0],
           count' = count
    PROVE  /\ attempts' \in [Phases -> Seq(Attempt)]
           /\ active' \in [Phases -> Nat]
           /\ active'[p] = 0
           /\ \A q \in Phases : q # p => active'[q] = active[q]
           /\ AttemptsValid'
           /\ OpenIsActive'
           /\ p = "compensation" => attempts'["execution"] = attempts["execution"]
<1> DEFINE i == active[p]
<1>0. to \in AttemptStatuses
  BY DEF AttemptStatuses
<1>1. /\ attempts' \in [Phases -> Seq(Attempt)]
      /\ \A q \in Phases : /\ Len(attempts'[q]) = Len(attempts[q])
                           /\ DOMAIN attempts'[q] = DOMAIN attempts[q]
                           /\ \A j \in DOMAIN attempts[q] : AttemptValid(attempts'[q][j])
                           /\ \A j \in DOMAIN attempts[q] :
                                 q # p \/ j # i => attempts'[q][j] = attempts[q][j]
      /\ attempts'[p][i].status = to
  <2>1. AttemptMoved(p, i, to)
    BY <1>0, MoveEffect
  <2> QED BY <2>1, Zenon DEF AttemptMoved
<1>2. /\ active' \in [Phases -> Nat]
      /\ active'[p] = 0
      /\ \A q \in Phases : q # p => active'[q] = active[q]
  BY DEF Inv, TypeOK
<1>3. AttemptsValid'
  BY <1>1, <1>2 DEF Inv, LedgerValid, AttemptsValid, AttemptValid
<1>4. OpenIsActive'
  <2> SUFFICES ASSUME NEW q \in Phases, NEW j \in DOMAIN attempts'[q],
                      attempts'[q][j].status \notin ClosedAttempts
               PROVE  active'[q] = j
    BY DEF OpenIsActive
  <2>1. j \in DOMAIN attempts[q] /\ (q # p \/ j # i)
    BY <1>1
  <2>2. attempts'[q][j] = attempts[q][j] /\ active[q] = j
    BY <1>1, <2>1 DEF Inv, OpenIsActive
  <2> QED BY <1>2, <2>1, <2>2
<1>5. p = "compensation" => attempts'["execution"] = attempts["execution"]
  BY DEF Inv, TypeOK, MoveAttempt, Phases
<1> QED BY <1>1, <1>2, <1>3, <1>4, <1>5

\* Moving the active attempt between running and waiting keeps it active.
LEMMA KeepActive ==
    ASSUME Inv, NEW p \in Phases, active[p] \in DOMAIN attempts[p], active[p] # 0,
           NEW to \in {"running", "waiting"}, NEW at \in Nat, NEW cause \in BOOLEAN,
           at < attempts[p][active[p]].lease,
           MoveAttempt(p, active[p], to, at, cause),
           active' = active, count' = count
    PROVE  /\ attempts' \in [Phases -> Seq(Attempt)]
           /\ attempts'[p][active[p]].status = to
           /\ AttemptsValid'
           /\ OpenIsActive'
<1> DEFINE i == active[p]
<1>0. to \in AttemptStatuses /\ to \notin ClosedAttempts /\ CauseGiven(to, cause)
  BY DEF AttemptStatuses, ClosedAttempts, CauseGiven
<1>1. /\ attempts' \in [Phases -> Seq(Attempt)]
      /\ \A q \in Phases : /\ Len(attempts'[q]) = Len(attempts[q])
                           /\ DOMAIN attempts'[q] = DOMAIN attempts[q]
                           /\ \A j \in DOMAIN attempts[q] : AttemptValid(attempts'[q][j])
                           /\ \A j \in DOMAIN attempts[q] :
                                 q # p \/ j # i => attempts'[q][j] = attempts[q][j]
      /\ attempts'[p][i].status = to
  <2>1. AttemptMoved(p, i, to)
    BY <1>0, MoveEffect
  <2> QED BY <2>1, Zenon DEF AttemptMoved
<1>2. AttemptsValid'
  BY <1>0, <1>1 DEF Inv, LedgerValid, AttemptsValid, AttemptValid
<1>3. OpenIsActive'
  BY <1>0, <1>1 DEF Inv, OpenIsActive
<1> QED BY <1>1, <1>2, <1>3

\* A claim of a phase with no active attempt makes the new one the only open one.
LEMMA ClaimEffect ==
    ASSUME Inv, NEW p \in Phases, NEW w \in Workers, NEW at \in Nat, NEW lease \in Nat,
           active[p] = 0, AppendAttempt(p, w, at, lease)
    PROVE  /\ attempts' \in [Phases -> Seq(Attempt)]
           /\ active' \in [Phases -> Nat]
           /\ active'[p] # 0
           /\ attempts'[p][active'[p]].status = "running"
           /\ \A q \in Phases : q # p => /\ active'[q] = active[q]
                                       /\ attempts'[q] = attempts[q]
                                       /\ count'[q] = count[q]
           /\ count' \in [Phases -> Nat]
           /\ held' \in [Workers -> Fence]
           /\ AttemptsValid'
           /\ OpenIsActive'
<1> DEFINE a == NewAttempt(w, at, lease)
           n == Len(attempts[p])
<1>1. /\ attempts \in [Phases -> Seq(Attempt)]
      /\ active \in [Phases -> Nat] /\ count \in [Phases -> Nat]
      /\ held \in [Workers -> Fence] /\ revision \in Nat
      /\ n \in Nat /\ count[p] = n
  BY DEF Inv, TypeOK, LedgerValid, AttemptsValid
<1>2. /\ a \in Attempt /\ a.status = "running" /\ AttemptValid(a)
  BY DEF NewAttempt, Attempt, AttemptStatuses, ClosedAttempts, AttemptValid, AppendAttempt
<1>3. /\ attempts' = [attempts EXCEPT ![p] = Append(@, a)]
      /\ count' = [count EXCEPT ![p] = n + 1]
      /\ active' = [active EXCEPT ![p] = n + 1]
  BY <1>1 DEF AppendAttempt
<1> HIDE DEF a
<1>4. /\ attempts' \in [Phases -> Seq(Attempt)]
      /\ \A q \in Phases : q # p => attempts'[q] = attempts[q]
      /\ Len(attempts'[p]) = n + 1
      /\ DOMAIN attempts'[p] = 1..(n + 1)
      /\ DOMAIN attempts[p] = 1..n
      /\ attempts'[p][n + 1] = a
      /\ \A j \in DOMAIN attempts[p] : attempts'[p][j] = attempts[p][j]
  BY <1>1, <1>2, <1>3, AppendOne
<1>5. held' \in [Workers -> Fence]
  BY <1>1 DEF AppendAttempt, Fence
<1>6. /\ count' \in [Phases -> Nat] /\ active' \in [Phases -> Nat]
      /\ count'[p] = n + 1 /\ active'[p] = n + 1
      /\ \A q \in Phases : q # p => active'[q] = active[q] /\ count'[q] = count[q]
  BY <1>1, <1>3
<1>7. AttemptsValid'
  <2> SUFFICES ASSUME NEW q \in Phases
               PROVE  /\ count'[q] = Len(attempts'[q])
                      /\ active'[q] # 0 => /\ active'[q] \in DOMAIN attempts'[q]
                                           /\ attempts'[q][active'[q]].status \notin ClosedAttempts
                      /\ \A j \in DOMAIN attempts'[q] : AttemptValid(attempts'[q][j])
    BY DEF AttemptsValid, AttemptValid
  <2>1. CASE q # p
    BY <2>1, <1>4, <1>6 DEF Inv, LedgerValid, AttemptsValid
  <2>2. CASE q = p
    <3>1. \A j \in 1..n : AttemptValid(attempts[p][j])
      BY <1>4 DEF Inv, LedgerValid, AttemptsValid
    <3>2. "running" \notin ClosedAttempts
      BY DEF ClosedAttempts
    <3>3. count'[p] = Len(attempts'[p]) /\ active'[p] \in DOMAIN attempts'[p]
      BY <1>1, <1>4, <1>6
    <3>4. attempts'[p][active'[p]].status \notin ClosedAttempts
      BY <3>2, <1>2, <1>4, <1>6
    <3>5. ASSUME NEW j \in DOMAIN attempts'[p] PROVE AttemptValid(attempts'[p][j])
      <4>1. j \in 1..n \/ j = n + 1
        BY <1>1, <1>4
      <4> QED BY <4>1, <3>1, <1>2, <1>4
    <3> QED BY <2>2, <3>3, <3>4, <3>5
  <2> QED BY <2>1, <2>2
<1>8. OpenIsActive'
  <2> SUFFICES ASSUME NEW q \in Phases, NEW j \in DOMAIN attempts'[q],
                      attempts'[q][j].status \notin ClosedAttempts
               PROVE  active'[q] = j
    BY DEF OpenIsActive
  <2>1. CASE q # p
    BY <2>1, <1>4, <1>6 DEF Inv, OpenIsActive
  <2>2. CASE q = p /\ j = n + 1
    BY <2>2, <1>6
  <2>3. CASE q = p /\ j # n + 1
    <3>1. j \in 1..n
      BY <2>3, <1>1, <1>4
    <3>2. active[p] = j
      BY <3>1, <2>3, <1>4 DEF Inv, OpenIsActive
    <3> QED BY <3>1, <3>2
  <2> QED BY <2>1, <2>2, <2>3
<1> QED BY <1>1, <1>2, <1>4, <1>5, <1>6, <1>7, <1>8

-----------------------------------------------------------------------------
(* Init, and one lemma per action.                                         *)

\* A freshly activated Invocation satisfies the invariant.
LEMMA InitInv == Init => Inv
<1> SUFFICES ASSUME Init PROVE Inv
  OBVIOUS
<1>1. TypeOK
  BY DEF Init, TypeOK, Statuses, CompStatuses, Fence, NoFence, WaitFence, NoWait, Phases
<1>2. \A p \in Phases : attempts[p] = << >> /\ count[p] = 0 /\ active[p] = 0
  BY DEF Init
<1>3. AttemptsValid /\ OpenIsActive
  BY <1>2 DEF AttemptsValid, OpenIsActive
<1>4. PrimaryValid /\ CompensationValid /\ NoEarlyCompensation /\ WaitAgrees
  BY DEF Init, PrimaryValid, CompensationValid, NoEarlyCompensation, WaitAgrees,
         Phases, ActiveStatuses
<1> QED BY <1>1, <1>3, <1>4 DEF Inv, LedgerValid

\* Every reducer counts the revision and stamps the time of its caller.
LEMMA TouchType ==
    ASSUME TypeOK, NEW at \in Nat, Touch(at)
    PROVE  updatedAt' \in Nat /\ revision' \in Nat \ {0}
BY DEF TypeOK, Touch

\* ClaimInvocation opens exactly one attempt, of a worker that holds its fence.
LEMMA ClaimInvocationInv ==
    ASSUME Inv, NEW w \in Workers, NEW at \in Times, NEW lease \in Times,
           ClaimInvocation(w, at, lease)
    PROVE  Inv'
<1>1. at \in Nat /\ lease \in Nat /\ "execution" \in Phases /\ "compensation" \in Phases
  BY BoundsAssumption DEF Times, Phases
<1>2. active["execution"] = 0 /\ ~Terminal
  BY DEF ClaimInvocation, Inv, LedgerValid, PrimaryValid, ActiveStatuses, Terminal, TerminalStatuses
<1>3. /\ attempts' \in [Phases -> Seq(Attempt)]
      /\ active' \in [Phases -> Nat]
      /\ active'["execution"] # 0
      /\ attempts'["execution"][active'["execution"]].status = "running"
      /\ active'["compensation"] = active["compensation"]
      /\ count'["compensation"] = count["compensation"]
      /\ count' \in [Phases -> Nat]
      /\ held' \in [Workers -> Fence]
      /\ AttemptsValid'
      /\ OpenIsActive'
  BY <1>1, <1>2, ClaimEffect DEF ClaimInvocation
<1>4. TypeOK'
  BY <1>1, <1>3, SMTT(30) DEF ClaimInvocation, AppendAttempt, SetFailure, Touch, Inv, TypeOK, Statuses,
                    ActiveStatuses
<1>5. PrimaryValid' /\ CompensationValid' /\ NoEarlyCompensation' /\ WaitAgrees'
  BY <1>1, <1>2, <1>3 DEF ClaimInvocation, AppendAttempt, SetFailure, Inv, TypeOK, LedgerValid,
     PrimaryValid, CompensationValid, NoEarlyCompensation, WaitAgrees, ActiveStatuses,
     Terminal, TerminalStatuses
<1> QED BY <1>3, <1>4, <1>5 DEF Inv, LedgerValid

\* A finished attempt is closed together with its Invocation.
LEMMA FinishInv ==
    ASSUME Inv, NEW w \in Workers, NEW at \in Times,
           NEW to, NEW attemptTo \in ClosedAttempts, NEW cause \in BOOLEAN,
           Finish(w, at, to, attemptTo, cause)
    PROVE  Inv'
<1>1. at \in Nat /\ "execution" \in Phases /\ "compensation" \in Phases
  BY BoundsAssumption DEF Times, Phases
<1>2. /\ held[w].ordinal = active["execution"]
      /\ active["execution"] \in DOMAIN attempts["execution"]
  BY <1>1, FenceFacts DEF Finish
<1>3. /\ attempts' \in [Phases -> Seq(Attempt)]
      /\ active' \in [Phases -> Nat]
      /\ active'["execution"] = 0
      /\ active'["compensation"] = active["compensation"]
      /\ AttemptsValid'
      /\ OpenIsActive'
  BY <1>1, <1>2, CloseActive DEF Finish, LeaveWait
<1>4. TypeOK'
  BY <1>1, <1>2, <1>3, SMTT(30) DEF Finish, LeaveWait, Release, Aligned, SetFailure, Touch, Inv, TypeOK,
     Statuses, TerminalStatuses, Fence, NoFence, Phases
<1>5. PrimaryValid' /\ CompensationValid' /\ NoEarlyCompensation' /\ WaitAgrees'
  BY <1>1, <1>2, <1>3 DEF Finish, LeaveWait, Release, Aligned, SetFailure, Inv, TypeOK, LedgerValid,
     PrimaryValid, CompensationValid, NoEarlyCompensation, WaitAgrees, ActiveStatuses,
     Terminal, TerminalStatuses
<1> QED BY <1>3, <1>4, <1>5 DEF Inv, LedgerValid

\* Scheduling a retry closes the failed attempt and sets the due time.
LEMMA ScheduleRetryInv ==
    ASSUME Inv, NEW w \in Workers, NEW at \in Times, NEW retryAt \in Times,
           ScheduleRetry(w, at, retryAt)
    PROVE  Inv'
<1>1. /\ at \in Nat /\ retryAt \in Nat /\ "failed" \in ClosedAttempts
      /\ CauseGiven("failed", TRUE)
      /\ "execution" \in Phases /\ "compensation" \in Phases
  BY BoundsAssumption DEF Times, Phases, ClosedAttempts, CauseGiven
<1>2. /\ held[w].ordinal = active["execution"]
      /\ active["execution"] \in DOMAIN attempts["execution"]
  BY <1>1, FenceFacts DEF ScheduleRetry
<1>3. /\ attempts' \in [Phases -> Seq(Attempt)]
      /\ active' \in [Phases -> Nat]
      /\ active'["execution"] = 0
      /\ active'["compensation"] = active["compensation"]
      /\ AttemptsValid'
      /\ OpenIsActive'
  BY <1>1, <1>2, CloseActive DEF ScheduleRetry, LeaveWait
<1>4. TypeOK'
  BY <1>1, <1>2, <1>3, SMTT(30) DEF ScheduleRetry, LeaveWait, Release, SetFailure, Touch, Inv, TypeOK,
     Statuses, Fence, NoFence, Phases
<1>5. PrimaryValid' /\ CompensationValid' /\ NoEarlyCompensation' /\ WaitAgrees'
  BY <1>1, <1>2, <1>3 DEF ScheduleRetry, LeaveWait, Release, SetFailure, Inv, TypeOK, LedgerValid,
     PrimaryValid, CompensationValid, NoEarlyCompensation, WaitAgrees, ActiveStatuses,
     Terminal, TerminalStatuses
<1> QED BY <1>3, <1>4, <1>5 DEF Inv, LedgerValid

\* Resolving a wait closes the waiting attempt and consumes the wait.
LEMMA ResolveWaitInv ==
    ASSUME Inv, NEW at \in Times, NEW to,
           ResolveInvocationWait(at, to)
    PROVE  Inv'
<1>1. /\ at \in Nat /\ to \in ClosedAttempts /\ CauseGiven(to, to = "failed")
      /\ "execution" \in Phases /\ "compensation" \in Phases
  BY BoundsAssumption DEF Times, Phases, ResolveInvocationWait, ClosedAttempts, CauseGiven
<1>2. /\ waiter.ordinal = active["execution"]
      /\ active["execution"] \in DOMAIN attempts["execution"]
  BY DEF ResolveInvocationWait
<1>3. /\ attempts' \in [Phases -> Seq(Attempt)]
      /\ active' \in [Phases -> Nat]
      /\ active'["execution"] = 0
      /\ active'["compensation"] = active["compensation"]
      /\ AttemptsValid'
      /\ OpenIsActive'
  BY <1>1, <1>2, CloseActive DEF ResolveInvocationWait
<1>4. TypeOK'
  BY <1>1, <1>2, <1>3, SMTT(30) DEF ResolveInvocationWait, SetFailure, Touch, Inv, TypeOK,
     Statuses, TerminalStatuses, WaitFence, NoWait, Phases
<1>5. PrimaryValid' /\ CompensationValid' /\ NoEarlyCompensation' /\ WaitAgrees'
  BY <1>1, <1>2, <1>3 DEF ResolveInvocationWait, SetFailure, Inv, TypeOK, LedgerValid,
     PrimaryValid, CompensationValid, NoEarlyCompensation, WaitAgrees, ActiveStatuses,
     Terminal, TerminalStatuses
<1> QED BY <1>3, <1>4, <1>5 DEF Inv, LedgerValid

\* Expiring a lease abandons the active attempt.
LEMMA ExpireInv ==
    ASSUME Inv, NEW at \in Times, NEW retry \in BOOLEAN,
           ExpireInvocationAttempt(at, retry)
    PROVE  Inv'
<1>1. /\ at \in Nat /\ "abandoned" \in ClosedAttempts /\ CauseGiven("abandoned", TRUE)
      /\ "execution" \in Phases /\ "compensation" \in Phases
  BY BoundsAssumption DEF Times, Phases, ClosedAttempts, CauseGiven
<1>2. active["execution"] \in DOMAIN attempts["execution"]
  BY DEF ExpireInvocationAttempt
<1>3. /\ attempts' \in [Phases -> Seq(Attempt)]
      /\ active' \in [Phases -> Nat]
      /\ active'["execution"] = 0
      /\ active'["compensation"] = active["compensation"]
      /\ AttemptsValid'
      /\ OpenIsActive'
  BY <1>1, <1>2, CloseActive DEF ExpireInvocationAttempt, LeaveWait
<1>4. TypeOK'
  BY <1>1, <1>2, <1>3 DEF ExpireInvocationAttempt, LeaveWait, SetFailure, Touch, Inv, TypeOK,
     Statuses, TerminalStatuses, Phases
<1>5. PrimaryValid' /\ CompensationValid' /\ NoEarlyCompensation' /\ WaitAgrees'
  BY <1>1, <1>2, <1>3 DEF ExpireInvocationAttempt, LeaveWait, SetFailure, Inv, TypeOK, LedgerValid,
     PrimaryValid, CompensationValid, NoEarlyCompensation, WaitAgrees, ActiveStatuses,
     Terminal, TerminalStatuses
<1> QED BY <1>3, <1>4, <1>5 DEF Inv, LedgerValid

\* Parking keeps the attempt open, without a lease.
LEMMA ParkInv ==
    ASSUME Inv, NEW w \in Workers, NEW at \in Times, NEW cause \in BOOLEAN, Park(w, at, cause)
    PROVE  Inv'
<1>1. at \in Nat /\ "execution" \in Phases /\ "compensation" \in Phases
  BY BoundsAssumption DEF Times, Phases
<1>2. /\ held[w] \in Fence
      /\ held[w].ordinal = active["execution"]
      /\ active["execution"] # 0
      /\ active["execution"] \in DOMAIN attempts["execution"]
      /\ at < attempts["execution"][active["execution"]].lease
  BY <1>1, FenceFacts DEF Park
<1>3. /\ attempts' \in [Phases -> Seq(Attempt)]
      /\ attempts'["execution"][active["execution"]].status = "waiting"
      /\ AttemptsValid'
      /\ OpenIsActive'
  BY <1>1, <1>2, KeepActive DEF Park, LeaveWait
<1>4. held' \in [Workers -> Fence]
  BY <1>2, SMTT(30) DEF Park, Refreshed, Fence, Inv, TypeOK
<1>5. TypeOK'
  <2>1. due' \in [Phases -> Nat] /\ wait' \in Nat /\ status' \in Statuses
    BY <1>1, <1>2 DEF Park, LeaveWait, Inv, TypeOK, Statuses, ActiveStatuses
  <2>2. /\ comp' \in CompStatuses /\ active' \in [Phases -> Nat] /\ count' \in [Phases -> Nat]
        /\ failure' \in SUBSET Phases /\ waiter' \in WaitFence /\ clock' \in Nat
    BY DEF Park, LeaveWait, Inv, TypeOK
  <2>3. updatedAt' \in Nat /\ revision' \in Nat \ {0}
    <3>1. TypeOK /\ Touch(at)
      BY DEF Park, LeaveWait, Inv
    <3> QED BY <1>1, <3>1, TouchType
  <2> QED BY <1>3, <1>4, <2>1, <2>2, <2>3 DEF TypeOK
<1>6. PrimaryValid' /\ CompensationValid' /\ NoEarlyCompensation' /\ WaitAgrees'
  BY <1>1, <1>2, <1>3 DEF Park, LeaveWait, Inv, TypeOK, LedgerValid, PrimaryValid,
     CompensationValid, NoEarlyCompensation, WaitAgrees, ActiveStatuses, Terminal, TerminalStatuses
<1> QED BY <1>3, <1>5, <1>6 DEF Inv, LedgerValid

\* Resuming gives the parked attempt a lease again.
LEMMA UnparkInv ==
    ASSUME Inv, NEW w \in Workers, NEW at \in Times, NEW cause \in BOOLEAN, Unpark(w, at, cause)
    PROVE  Inv'
<1>1. at \in Nat /\ "execution" \in Phases /\ "compensation" \in Phases
  BY BoundsAssumption DEF Times, Phases
<1>2. /\ held[w] \in Fence
      /\ held[w].ordinal = active["execution"]
      /\ active["execution"] # 0
      /\ active["execution"] \in DOMAIN attempts["execution"]
      /\ at < attempts["execution"][active["execution"]].lease
  BY <1>1, FenceFacts DEF Unpark
<1>3. /\ attempts' \in [Phases -> Seq(Attempt)]
      /\ attempts'["execution"][active["execution"]].status = "running"
      /\ AttemptsValid'
      /\ OpenIsActive'
  BY <1>1, <1>2, KeepActive DEF Unpark, LeaveWait
<1>4. held' \in [Workers -> Fence]
  BY <1>2, SMTT(30) DEF Unpark, Refreshed, Fence, Inv, TypeOK
<1>5. TypeOK'
  <2>1. due' \in [Phases -> Nat] /\ wait' \in Nat /\ status' \in Statuses
    BY <1>1, <1>2 DEF Unpark, LeaveWait, Inv, TypeOK, Statuses, ActiveStatuses
  <2>2. /\ comp' \in CompStatuses /\ active' \in [Phases -> Nat] /\ count' \in [Phases -> Nat]
        /\ failure' \in SUBSET Phases /\ waiter' \in WaitFence /\ clock' \in Nat
    BY DEF Unpark, LeaveWait, Inv, TypeOK
  <2>3. updatedAt' \in Nat /\ revision' \in Nat \ {0}
    <3>1. TypeOK /\ Touch(at)
      BY DEF Unpark, LeaveWait, Inv
    <3> QED BY <1>1, <3>1, TouchType
  <2> QED BY <1>3, <1>4, <2>1, <2>2, <2>3 DEF TypeOK
<1>6. PrimaryValid' /\ CompensationValid' /\ NoEarlyCompensation' /\ WaitAgrees'
  BY <1>1, <1>2, <1>3 DEF Unpark, LeaveWait, Inv, TypeOK, LedgerValid, PrimaryValid,
     CompensationValid, NoEarlyCompensation, WaitAgrees, ActiveStatuses, Terminal, TerminalStatuses
<1> QED BY <1>3, <1>5, <1>6 DEF Inv, LedgerValid

\* A heartbeat only moves the lease of the active attempt forward.
LEMMA HeartbeatInv ==
    ASSUME Inv, NEW w \in Workers, NEW p \in Phases, NEW at \in Times, NEW lease \in Times,
           HeartbeatAttempt(w, p, at, lease)
    PROVE  Inv'
<1> DEFINE i == active[p]
           a == Extended(attempts[p][i], lease, at)
<1>1. at \in Nat /\ lease \in Nat /\ "execution" \in Phases /\ "compensation" \in Phases
  BY BoundsAssumption DEF Times, Phases
<1>2. /\ held[w] \in Fence
      /\ held[w].ordinal = i
      /\ i # 0
      /\ i \in DOMAIN attempts[p]
      /\ attempts[p][i].status \notin ClosedAttempts
      /\ at < attempts[p][i].lease
      /\ attempts[p][i].lease < lease
  BY <1>1, FenceFacts DEF HeartbeatAttempt
<1>3. attempts \in [Phases -> Seq(Attempt)] /\ attempts[p][i] \in Attempt
  BY <1>2 DEF Inv, TypeOK
<1>4. a \in Attempt /\ a.status = attempts[p][i].status /\ AttemptValid(a)
  BY <1>1, <1>2, <1>3, ExtendedAttempt
<1>5. attempts' = [attempts EXCEPT ![p][i] = a]
  BY <1>2 DEF HeartbeatAttempt
<1> HIDE DEF a
<1>6. /\ attempts' \in [Phases -> Seq(Attempt)]
      /\ \A q \in Phases : q # p => attempts'[q] = attempts[q]
      /\ Len(attempts'[p]) = Len(attempts[p])
      /\ DOMAIN attempts'[p] = DOMAIN attempts[p]
      /\ attempts'[p][i] = a
      /\ \A j \in DOMAIN attempts[p] : j # i => attempts'[p][j] = attempts[p][j]
  BY <1>2, <1>3, <1>4, <1>5, ReplaceOne
<1>7. /\ status' = status /\ comp' = comp /\ active' = active /\ count' = count
      /\ due' = due /\ failure' = failure /\ wait' = wait /\ waiter' = waiter
      /\ clock' = clock /\ updatedAt' = at /\ revision' = revision + 1
  BY DEF HeartbeatAttempt, Touch
<1>8. held' \in [Workers -> Fence]
  BY <1>2 DEF HeartbeatAttempt, Refreshed, Fence, Inv, TypeOK
<1>9. TypeOK'
  BY <1>1, <1>6, <1>7, <1>8, SMTT(30) DEF Inv, TypeOK
<1>10. AttemptsValid'
  BY <1>2, <1>4, <1>6, <1>7 DEF Inv, LedgerValid, AttemptsValid, AttemptValid
<1>11. OpenIsActive' /\ WaitAgrees'
  <2>1. \A q \in Phases : \A j \in DOMAIN attempts'[q] :
            j \in DOMAIN attempts[q] /\ attempts'[q][j].status = attempts[q][j].status
    BY <1>4, <1>6
  <2>2. OpenIsActive'
    BY <2>1, <1>7 DEF Inv, OpenIsActive
  <2>3. active["execution"] # 0 => active["execution"] \in DOMAIN attempts'["execution"]
    BY <1>1, <1>6 DEF Inv, LedgerValid, AttemptsValid
  <2> QED BY <2>1, <2>2, <2>3, <1>1, <1>7 DEF Inv, WaitAgrees
<1>12. PrimaryValid' /\ CompensationValid' /\ NoEarlyCompensation'
  BY <1>7 DEF Inv, LedgerValid, PrimaryValid, CompensationValid, NoEarlyCompensation, Terminal
<1> QED BY <1>9, <1>10, <1>11, <1>12 DEF Inv, LedgerValid

\* What an action that leaves the attempts and their pointers alone preserves.
LEMMA SameAttempts ==
    ASSUME Inv, attempts' = attempts, active' = active, count' = count
    PROVE  AttemptsValid' /\ OpenIsActive'
BY DEF Inv, LedgerValid, AttemptsValid, OpenIsActive, AttemptValid

\* An Invocation without an attempt is ended without touching the ledger.
LEMMA ResolveUnleasedInv ==
    ASSUME Inv, NEW at \in Times, NEW to \in TerminalStatuses, ResolveUnleasedInvocation(at, to)
    PROVE  Inv'
<1>1. at \in Nat /\ "execution" \in Phases /\ "compensation" \in Phases
  BY BoundsAssumption DEF Times, Phases
<1>2. active["execution"] = 0 /\ ~Terminal
  BY DEF ResolveUnleasedInvocation, Inv, LedgerValid, PrimaryValid, ActiveStatuses, Terminal,
         TerminalStatuses
<1>3. active' = active
  BY <1>1, <1>2 DEF ResolveUnleasedInvocation, Inv, TypeOK
<1>4. AttemptsValid' /\ OpenIsActive'
  BY <1>3, SameAttempts DEF ResolveUnleasedInvocation
<1>5. TypeOK'
  BY <1>1, <1>3 DEF ResolveUnleasedInvocation, SetFailure, Touch, Inv, TypeOK, Statuses,
                    CompStatuses
<1>6. PrimaryValid' /\ CompensationValid' /\ NoEarlyCompensation' /\ WaitAgrees'
  BY <1>1, <1>2, <1>3 DEF ResolveUnleasedInvocation, SetFailure, Inv, TypeOK, LedgerValid,
     PrimaryValid, CompensationValid, NoEarlyCompensation, WaitAgrees, ActiveStatuses,
     Terminal, TerminalStatuses
<1> QED BY <1>4, <1>5, <1>6 DEF Inv, LedgerValid

\* Cancellation closes whatever attempt is active, in either phase.
LEMMA CancelInv ==
    ASSUME Inv, NEW at \in Times, CancelInvocation(at)
    PROVE  Inv'
<1>1. /\ at \in Nat /\ "canceled" \in ClosedAttempts
      /\ "execution" \in Phases /\ "compensation" \in Phases
  BY BoundsAssumption DEF Times, Phases, ClosedAttempts
<1>2. /\ attempts' \in [Phases -> Seq(Attempt)]
      /\ active' \in [Phases -> Nat]
      /\ active'["execution"] = 0
      /\ active'["compensation"] = active["compensation"]
      /\ AttemptsValid'
      /\ OpenIsActive'
  <2>1. CASE active["execution"] = 0 /\ UNCHANGED attempts
    <3>1. active' = active
      BY <2>1, <1>1 DEF CancelInvocation, Inv, TypeOK
    <3> QED BY <2>1, <3>1, SameAttempts DEF CancelInvocation, Inv, TypeOK
  <2>2. CASE /\ active["execution"] \in DOMAIN attempts["execution"]
             /\ MoveAttempt("execution", active["execution"], "canceled", at,
                            attempts["execution"][active["execution"]].cause)
    <3> DEFINE cause == attempts["execution"][active["execution"]].cause
    <3>0. attempts["execution"][active["execution"]] \in Attempt
      BY <2>2, <1>1 DEF Inv, TypeOK
    <3>1. cause \in BOOLEAN /\ CauseGiven("canceled", cause)
      BY <3>0 DEF Attempt, CauseGiven
    <3> HIDE DEF cause
    <3>2. MoveAttempt("execution", active["execution"], "canceled", at, cause)
      BY <2>2 DEF cause
    <3> QED BY <2>2, <3>1, <3>2, <1>1, CloseActive DEF CancelInvocation
  <2> QED BY <2>1, <2>2 DEF CancelInvocation
<1>3. TypeOK'
  BY <1>1, <1>2 DEF CancelInvocation, SetFailure, Touch, Inv, TypeOK, Statuses,
                    TerminalStatuses, CompStatuses
<1>4. PrimaryValid' /\ CompensationValid' /\ NoEarlyCompensation' /\ WaitAgrees'
  BY <1>1, <1>2 DEF CancelInvocation, SetFailure, Inv, TypeOK, LedgerValid,
     PrimaryValid, CompensationValid, NoEarlyCompensation, WaitAgrees, ActiveStatuses,
     Terminal, TerminalStatuses
<1> QED BY <1>2, <1>3, <1>4 DEF Inv, LedgerValid

\* Scheduling a compensation opens no attempt.
LEMMA ScheduleCompensationInv ==
    ASSUME Inv, NEW at \in Times, ScheduleInvocationCompensation(at)
    PROVE  Inv'
<1>1. at \in Nat
  BY BoundsAssumption DEF Times
<1>2. AttemptsValid' /\ OpenIsActive'
  BY SameAttempts DEF ScheduleInvocationCompensation
<1>3. TypeOK'
  BY <1>1 DEF ScheduleInvocationCompensation, Touch, Inv, TypeOK, CompStatuses
<1>4. PrimaryValid' /\ CompensationValid' /\ NoEarlyCompensation' /\ WaitAgrees'
  BY DEF ScheduleInvocationCompensation, Inv, LedgerValid, PrimaryValid, CompensationValid,
         NoEarlyCompensation, WaitAgrees, Terminal
<1> QED BY <1>2, <1>3, <1>4 DEF Inv, LedgerValid

\* ClaimCompensation opens exactly one attempt of the compensation phase.
LEMMA ClaimCompensationInv ==
    ASSUME Inv, NEW w \in Workers, NEW at \in Times, NEW lease \in Times,
           ClaimCompensation(w, at, lease)
    PROVE  Inv'
<1>1. at \in Nat /\ lease \in Nat /\ "execution" \in Phases /\ "compensation" \in Phases
  BY BoundsAssumption DEF Times, Phases
<1>2. active["compensation"] = 0 /\ Terminal
  BY DEF ClaimCompensation, Inv, LedgerValid, CompensationValid
<1>3. /\ attempts' \in [Phases -> Seq(Attempt)]
      /\ active' \in [Phases -> Nat]
      /\ active'["compensation"] # 0
      /\ active'["execution"] = active["execution"]
      /\ attempts'["execution"] = attempts["execution"]
      /\ count' \in [Phases -> Nat]
      /\ held' \in [Workers -> Fence]
      /\ AttemptsValid'
      /\ OpenIsActive'
  BY <1>1, <1>2, ClaimEffect DEF ClaimCompensation
<1>4. TypeOK'
  BY <1>1, <1>3, SMTT(30) DEF ClaimCompensation, AppendAttempt, SetFailure, Touch, Inv, TypeOK, CompStatuses
<1>5. PrimaryValid' /\ CompensationValid' /\ NoEarlyCompensation' /\ WaitAgrees'
  BY <1>1, <1>2, <1>3 DEF ClaimCompensation, AppendAttempt, SetFailure, Inv, TypeOK, LedgerValid,
     PrimaryValid, CompensationValid, NoEarlyCompensation, WaitAgrees, Terminal
<1> QED BY <1>3, <1>4, <1>5 DEF Inv, LedgerValid

\* A compensation attempt and its status move together.
LEMMA TransitionCompensationInv ==
    ASSUME Inv, NEW w \in Workers, NEW at \in Times, NEW to, NEW attemptTo \in ClosedAttempts,
           NEW retryAt \in Times,
           TransitionInvocationCompensation(w, at, to, attemptTo, retryAt)
    PROVE  Inv'
<1>1. at \in Nat /\ retryAt \in Nat /\ "execution" \in Phases /\ "compensation" \in Phases
  BY BoundsAssumption DEF Times, Phases
<1>2. /\ held[w].ordinal = active["compensation"]
      /\ active["compensation"] \in DOMAIN attempts["compensation"]
  BY <1>1, FenceFacts DEF TransitionInvocationCompensation
<1>3. /\ attempts' \in [Phases -> Seq(Attempt)]
      /\ active' \in [Phases -> Nat]
      /\ active'["compensation"] = 0
      /\ active'["execution"] = active["execution"]
      /\ attempts'["execution"] = attempts["execution"]
      /\ AttemptsValid'
      /\ OpenIsActive'
  <2> DEFINE cause == to \in {"failed", "retry-wait"}
  <2>1. /\ cause \in BOOLEAN /\ CauseGiven(attemptTo, cause)
        /\ MoveAttempt("compensation", active["compensation"], attemptTo, at, cause)
        /\ active' = [active EXCEPT !["compensation"] = 0] /\ count' = count
    BY <1>2 DEF TransitionInvocationCompensation
  <2> HIDE DEF cause
  <2> QED BY <1>1, <1>2, <2>1, CloseActive DEF Phases
<1>4. \/ to \in {"succeeded", "failed", "canceled"} /\ retryAt = 0
      \/ to = "retry-wait" /\ retryAt # 0
  <2>1. <<to, attemptTo>> \in Aligned => to \in {"succeeded", "failed", "canceled"}
    BY DEF Aligned
  <2> QED BY <2>1, <1>1 DEF TransitionInvocationCompensation
<1>5. held' \in [Workers -> Fence] /\ due' \in [Phases -> Nat] /\ due'["compensation"] = retryAt
  BY <1>1 DEF TransitionInvocationCompensation, Release, NoFence, Fence, Phases, Inv, TypeOK
<1>6. TypeOK'
  BY <1>1, <1>3, <1>4, <1>5 DEF TransitionInvocationCompensation, SetFailure, Touch, Inv, TypeOK,
     CompStatuses
<1>7. PrimaryValid' /\ CompensationValid' /\ NoEarlyCompensation' /\ WaitAgrees'
  BY <1>1, <1>3, <1>4, <1>5 DEF TransitionInvocationCompensation, SetFailure, Inv, TypeOK,
     LedgerValid, PrimaryValid, CompensationValid, NoEarlyCompensation, WaitAgrees, Terminal
<1> QED BY <1>3, <1>6, <1>7 DEF Inv, LedgerValid

\* Reading, crashing, ticking and stuttering leave the ledger alone.
LEMMA SameLedger ==
    ASSUME Inv, UNCHANGED ledger, TypeOK'
    PROVE  Inv'
<1>1. AttemptsValid' /\ OpenIsActive'
  BY SameAttempts DEF ledger
<1>2. PrimaryValid' /\ CompensationValid' /\ NoEarlyCompensation' /\ WaitAgrees'
  BY DEF ledger, Inv, LedgerValid, PrimaryValid, CompensationValid, NoEarlyCompensation,
         WaitAgrees, Terminal
<1> QED BY <1>1, <1>2 DEF Inv, LedgerValid

\* The clock, a read and a worker crash leave the ledger alone.
LEMMA EnvironmentInv ==
    ASSUME Inv, ReadWait \/ Tick \/ (\E w \in Workers : Crash(w)) \/ UNCHANGED vars
    PROVE  Inv'
<1>1. CASE ReadWait
  <2>1. /\ "execution" \in Phases
        /\ active["execution"] \in DOMAIN attempts["execution"]
    BY <1>1 DEF ReadWait, Inv, LedgerValid, PrimaryValid, AttemptsValid, ActiveStatuses, Phases
  <2>2. attempts["execution"][active["execution"]] \in Attempt
    BY <2>1 DEF Inv, TypeOK
  <2>3. TypeOK'
    BY <1>1, <2>1, <2>2 DEF ReadWait, ledger, WaitFence, Attempt, Inv, TypeOK
  <2> QED BY <1>1, <2>3, SameLedger DEF ReadWait
<1>2. CASE Tick
  <2>1. TypeOK'
    BY <1>2 DEF Tick, ledger, Inv, TypeOK
  <2> QED BY <1>2, <2>1, SameLedger DEF Tick
<1>3. ASSUME NEW w \in Workers, Crash(w) PROVE Inv'
  <2>1. TypeOK'
    BY <1>3 DEF Crash, Release, ledger, Inv, TypeOK, Fence, NoFence, Phases
  <2> QED BY <1>3, <2>1, SameLedger DEF Crash
<1>4. CASE UNCHANGED vars
  <2>1. TypeOK'
    BY <1>4 DEF vars, ledger, Inv, TypeOK
  <2> QED BY <1>4, <2>1, SameLedger DEF vars
<1> QED BY <1>1, <1>2, <1>3, <1>4

-----------------------------------------------------------------------------
(* The theorems.                                                           *)

\* Every step preserves the invariant.
LEMMA NextInv == Inv /\ [Next]_vars => Inv'
<1> SUFFICES ASSUME Inv, [Next]_vars PROVE Inv'
  OBVIOUS
<1>1. ASSUME NEW w \in Workers, WorkerStep(w) PROVE Inv'
  <2> PICK at \in Times :
        \/ \E lease \in Times :
              \/ ClaimInvocation(w, at, lease)
              \/ ClaimCompensation(w, at, lease)
              \/ \E p \in Phases : HeartbeatAttempt(w, p, at, lease)
              \/ ScheduleRetry(w, at, lease)
        \/ \E cause \in BOOLEAN : Park(w, at, cause) \/ Unpark(w, at, cause)
        \/ \E to \in {"succeeded", "failed", "canceled", "retry-wait"},
              attemptTo \in ClosedAttempts :
              \/ \E cause \in BOOLEAN : Finish(w, at, to, attemptTo, cause)
              \/ \E retryAt \in Times :
                    TransitionInvocationCompensation(w, at, to, attemptTo, retryAt)
    BY <1>1 DEF WorkerStep
  <2> QED
    BY ClaimInvocationInv, ClaimCompensationInv, HeartbeatInv, ScheduleRetryInv, ParkInv,
       UnparkInv, FinishInv, TransitionCompensationInv
<1>2. ASSUME ControllerStep PROVE Inv'
  <2>1. CASE ReadWait
    BY <2>1, EnvironmentInv
  <2>2. ASSUME NEW at \in Times, NEW to \in TerminalStatuses,
               ResolveInvocationWait(at, to) \/ ResolveUnleasedInvocation(at, to)
        PROVE  Inv'
    BY <2>2, ResolveWaitInv, ResolveUnleasedInv
  <2>3. ASSUME NEW at \in Times, NEW retry \in BOOLEAN, ExpireInvocationAttempt(at, retry)
        PROVE  Inv'
    BY <2>3, ExpireInv
  <2>4. ASSUME NEW at \in Times, CancelInvocation(at) \/ ScheduleInvocationCompensation(at)
        PROVE  Inv'
    BY <2>4, CancelInv, ScheduleCompensationInv
  <2> QED BY <1>2, <2>1, <2>2, <2>3, <2>4 DEF ControllerStep
<1> QED BY <1>1, <1>2, EnvironmentInv DEF Next

\* In every reachable state the strengthened invariant holds.
THEOREM InvocationInvariant == Spec => []Inv
BY InitInv, NextInv, PTL DEF Spec

\* Every field of the ledger keeps its type.
THEOREM TypeCorrect == Spec => []TypeOK
<1>1. Inv => TypeOK
  BY DEF Inv
<1> QED BY <1>1, InvocationInvariant, PTL

\* No reducer ever commits a ledger that ValidateInvocationLedger would reject,
\* and only the missing Failure of a canceled attempt makes it refuse one.
THEOREM LedgerAlwaysValid == Spec => []LedgerValid
<1>1. Inv => LedgerValid
  BY DEF Inv
<1> QED BY <1>1, InvocationInvariant, PTL

\* An open attempt is always the active one of its phase.
THEOREM NoStrayAttempt == Spec => []OpenIsActive
<1>1. Inv => OpenIsActive
  BY DEF Inv
<1> QED BY <1>1, InvocationInvariant, PTL

\* The active attempt waits exactly when its invocation does.
THEOREM WaitsAgree == Spec => []WaitAgrees
<1>1. Inv => WaitAgrees
  BY DEF Inv
<1> QED BY <1>1, InvocationInvariant, PTL

-----------------------------------------------------------------------------
(* What is closed stays closed.                                            *)

\* Replacing an open attempt touches no closed one.
LEMMA ReplaceKeepsClosed ==
    ASSUME Inv, NEW p \in Phases, NEW i \in DOMAIN attempts[p], NEW a,
           attempts[p][i].status \notin ClosedAttempts,
           attempts' = [attempts EXCEPT ![p][i] = a]
    PROVE  ClosedKept
<1> SUFFICES ASSUME NEW q \in Phases, NEW j \in DOMAIN attempts[q],
                    attempts[q][j].status \in ClosedAttempts
             PROVE  attempts'[q][j] = attempts[q][j]
  BY DEF ClosedKept
<1>1. attempts \in [Phases -> Seq(Attempt)]
  BY DEF Inv, TypeOK
<1>2. q # p \/ j # i
  OBVIOUS
<1> QED BY <1>1, <1>2

\* Neither does a claim, which only appends.
LEMMA ClaimKeepsClosed ==
    ASSUME Inv, NEW p \in Phases, NEW w, NEW at, NEW lease, AppendAttempt(p, w, at, lease)
    PROVE  ClosedKept
<1> SUFFICES ASSUME NEW q \in Phases, NEW j \in DOMAIN attempts[q]
             PROVE  attempts'[q][j] = attempts[q][j]
  BY DEF ClosedKept
<1>1. attempts \in [Phases -> Seq(Attempt)] /\ attempts[q] \in Seq(Attempt)
  BY DEF Inv, TypeOK
<1>2. attempts' = [attempts EXCEPT ![p] = Append(@, NewAttempt(w, at, lease))]
  BY DEF AppendAttempt
<1>3. CASE q # p
  BY <1>1, <1>2, <1>3
<1>4. CASE q = p
  <2>1. attempts'[q] = Append(attempts[q], NewAttempt(w, at, lease))
    BY <1>1, <1>2, <1>4
  <2>2. j \in 1..Len(attempts[q])
    BY <1>1
  <2> QED BY <1>1, <2>1, <2>2
<1> QED BY <1>3, <1>4

\* A worker's step keeps every closed attempt and every terminal outcome.
LEMMA WorkerKeepsClosed ==
    ASSUME Inv, NEW w \in Workers, WorkerStep(w)
    PROVE  ClosedKept /\ OutcomeKept
<1> USE DEF OutcomeKept, Terminal, TerminalStatuses, ActiveStatuses
<1>0. "execution" \in Phases /\ "compensation" \in Phases
  BY DEF Phases
<1>1. ASSUME NEW at, NEW lease, ClaimInvocation(w, at, lease)
      PROVE  ClosedKept /\ OutcomeKept
  BY <1>0, <1>1, ClaimKeepsClosed DEF ClaimInvocation
<1>2. ASSUME NEW at, NEW lease, ClaimCompensation(w, at, lease)
      PROVE  ClosedKept /\ OutcomeKept
  BY <1>0, <1>2, ClaimKeepsClosed DEF ClaimCompensation
<1>3. ASSUME NEW at, NEW p \in Phases, NEW lease, HeartbeatAttempt(w, p, at, lease)
      PROVE  ClosedKept /\ OutcomeKept
  <2>1. held[w].ordinal \in DOMAIN attempts[p] /\ attempts[p][held[w].ordinal].status \notin ClosedAttempts
    BY <1>3, FenceFacts DEF HeartbeatAttempt
  <2>2. ClosedKept
    BY <1>3, <2>1, ReplaceKeepsClosed DEF HeartbeatAttempt
  <2> QED BY <1>3, <2>2 DEF HeartbeatAttempt
<1>4. ASSUME NEW at, NEW p \in Phases, NEW to, NEW cause, FenceHolds(w, p, at),
             MoveAttempt(p, held[w].ordinal, to, at, cause)
      PROVE  ClosedKept
  <2>1. /\ held[w].ordinal \in DOMAIN attempts[p]
        /\ attempts[p][held[w].ordinal].status \notin ClosedAttempts
    BY <1>4, FenceFacts
  <2> QED BY <1>4, <2>1, ReplaceKeepsClosed DEF MoveAttempt
<1>5. ASSUME NEW at, NEW to, NEW attemptTo, NEW retryAt, NEW cause,
             \/ Park(w, at, cause) \/ Unpark(w, at, cause)
             \/ Finish(w, at, to, attemptTo, cause) \/ ScheduleRetry(w, at, retryAt)
             \/ TransitionInvocationCompensation(w, at, to, attemptTo, retryAt)
      PROVE  ClosedKept /\ OutcomeKept
  BY <1>0, <1>4, <1>5 DEF Park, Unpark, Finish, ScheduleRetry, TransitionInvocationCompensation
<1> QED BY <1>1, <1>2, <1>3, <1>5 DEF WorkerStep

\* So does a step of the controller.
LEMMA ControllerKeepsClosed ==
    ASSUME Inv, ControllerStep
    PROVE  ClosedKept /\ OutcomeKept
<1> USE DEF OutcomeKept, Terminal, TerminalStatuses, ActiveStatuses
<1>0. "execution" \in Phases
  BY DEF Phases
<1>1. CASE ReadWait
  BY <1>1 DEF ReadWait, ledger, ClosedKept
<1>2. ASSUME NEW at, NEW to, ResolveInvocationWait(at, to)
      PROVE  ClosedKept /\ OutcomeKept
  <2>1. /\ waiter.ordinal \in DOMAIN attempts["execution"]
        /\ attempts["execution"][waiter.ordinal].status \notin ClosedAttempts
    BY <1>2 DEF ResolveInvocationWait, ClosedAttempts
  <2>2. ClosedKept
    BY <1>0, <1>2, <2>1, ReplaceKeepsClosed DEF ResolveInvocationWait, MoveAttempt
  <2> QED BY <1>2, <2>2 DEF ResolveInvocationWait
<1>3. ASSUME NEW at, NEW to, ResolveUnleasedInvocation(at, to)
      PROVE  ClosedKept /\ OutcomeKept
  BY <1>3 DEF ResolveUnleasedInvocation, ClosedKept
<1>4. ASSUME NEW at, NEW retry, ExpireInvocationAttempt(at, retry)
      PROVE  ClosedKept /\ OutcomeKept
  <2>1. ClosedKept
    BY <1>0, <1>4, ReplaceKeepsClosed DEF ExpireInvocationAttempt, MoveAttempt
  <2> QED BY <1>4, <2>1 DEF ExpireInvocationAttempt
<1>5. ASSUME NEW at, CancelInvocation(at)
      PROVE  ClosedKept /\ OutcomeKept
  <2>1. CASE UNCHANGED attempts
    BY <1>5, <2>1 DEF CancelInvocation, ClosedKept
  <2>2. CASE /\ active["execution"] \in DOMAIN attempts["execution"]
             /\ attempts["execution"][active["execution"]].status \notin ClosedAttempts
             /\ MoveAttempt("execution", active["execution"], "canceled", at,
                            attempts["execution"][active["execution"]].cause)
    <3>1. ClosedKept
      BY <1>0, <2>2, ReplaceKeepsClosed DEF MoveAttempt
    <3> QED BY <1>5, <3>1 DEF CancelInvocation
  <2> QED BY <1>5, <2>1, <2>2 DEF CancelInvocation
<1>6. ASSUME NEW at, ScheduleInvocationCompensation(at)
      PROVE  ClosedKept /\ OutcomeKept
  BY <1>6 DEF ScheduleInvocationCompensation, ClosedKept
<1> QED BY <1>1, <1>2, <1>3, <1>4, <1>5, <1>6 DEF ControllerStep

\* A closed attempt and a terminal invocation never change again, whatever a
\* late worker, resolver or termination submits.
THEOREM ClosedStaysClosed == Spec => ClosedIsFinal
<1>1. Inv /\ [Next]_vars => [ClosedKept /\ OutcomeKept]_vars
  <2> SUFFICES ASSUME Inv, Next PROVE ClosedKept /\ OutcomeKept
    OBVIOUS
  <2>1. ASSUME NEW w \in Workers, Crash(w) PROVE ClosedKept /\ OutcomeKept
    BY <2>1 DEF Crash, ledger, ClosedKept, OutcomeKept
  <2>2. CASE Tick
    BY <2>2 DEF Tick, ledger, ClosedKept, OutcomeKept
  <2> QED BY <2>1, <2>2, WorkerKeepsClosed, ControllerKeepsClosed DEF Next
<1> QED BY <1>1, InvocationInvariant, PTL DEF Spec, ClosedIsFinal

=============================================================================
