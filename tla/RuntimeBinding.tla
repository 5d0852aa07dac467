--------------------------- MODULE RuntimeBinding ---------------------------
(***************************************************************************)
(* The RuntimeBinding reducers, kernel/runtime: ownership of one           *)
(* long-lived external object by a leased, generation-fenced owner.        *)
(*                                                                         *)
(* A reducer runs on the stored binding and its commit expects that        *)
(* binding's revision, so a command is one step on the current binding;    *)
(* what a late command carries is its generation, fencing token and lease. *)
(* The lease token is private to one generation and is not kept apart from *)
(* it.  Timestamps other than the lease's follow from the state.           *)
(***************************************************************************)
EXTENDS Naturals

CONSTANTS
    Owners,          \* controllers that may own the runtime
    Identities,      \* external identities of processes
    NoIdentity,      \* ExternalIdentity = ""
    NoOwner,         \* LeaseOwner = ""
    LeaseTerm,       \* how far ahead a lease is granted
    MaxTime,         \* bound: the clock
    MaxGeneration    \* bound: takeovers

ASSUME BindingAssumption ==
    /\ NoIdentity \notin Identities
    /\ NoOwner \notin Owners
    /\ LeaseTerm \in Nat \ {0}
    /\ MaxTime \in Nat
    /\ MaxGeneration \in Nat \ {0}

VARIABLES
    binding,    \* the aggregate
    ownership,  \* Ownership, frozen by Prepare
    now         \* the clock

bindingVars == <<binding, ownership, now>>

States == {"absent", "preparing", "active", "stopping", "released", "lost"}
BindingTerminal == {"released", "lost"}
Observed == {"unknown", "starting", "running", "stopping", "stopped", "failed", "lost"}
Generations == 1..MaxGeneration

\* The token only has to grow from generation to generation.
Tokens == Generations

\* `seen' is the generation whose owner made the recorded observation: the
\* observation digest binds it, no field stores it.
Binding == [state : States, observed : Observed, id : Identities \cup {NoIdentity},
            gen : 0..MaxGeneration, token : 0..MaxGeneration, owner : Owners \cup {NoOwner},
            expires : 0..(MaxTime + LeaseTerm), seen : 0..MaxGeneration]

Absent == [state |-> "absent", observed |-> "unknown", id |-> NoIdentity, gen |-> 0,
           token |-> 0, owner |-> NoOwner, expires |-> 0, seen |-> 0]

BindingInit ==
    /\ binding = Absent
    /\ ownership \in {"owned", "attached"}
    /\ now = 0

-----------------------------------------------------------------------------

\* validateFence
Fenced(o, g, t) ==
    /\ binding.state \notin {"absent"} \cup BindingTerminal
    /\ binding.gen = g /\ binding.token = t
    /\ binding.owner = o
    /\ now < binding.expires

\* clearLease
Finished(b, state) == [b EXCEPT !.state = state, !.owner = NoOwner, !.expires = 0]

Prepare(o) ==
    /\ binding.state = "absent"
    /\ binding' = [Absent EXCEPT !.state = "preparing", !.gen = 1, !.token = 1,
                                 !.owner = o, !.expires = now + LeaseTerm]
    /\ UNCHANGED <<ownership, now>>

\* What Observe and the validation of its result admit: a concrete observation
\* names an identity, and an active binding can only be seen running or lost.
Accepts(i, state) ==
    /\ i = NoIdentity => state \in {"unknown", "lost"}
    /\ binding.state = "active" => state \in {"running", "lost"}

Observe(o, g, t, i, state) ==
    /\ Fenced(o, g, t)
    /\ Accepts(i, state)
    /\ LET recorded == [binding EXCEPT !.id = i, !.observed = state, !.seen = g,
                           !.state = IF @ = "preparing" /\ state = "running" THEN "active" ELSE @]
       IN  binding' = IF state = "lost" THEN Finished(recorded, "lost") ELSE recorded
    /\ UNCHANGED <<ownership, now>>

Heartbeat(o, g, t) ==
    /\ Fenced(o, g, t)
    /\ now + LeaseTerm > binding.expires
    /\ binding' = [binding EXCEPT !.expires = now + LeaseTerm]
    /\ UNCHANGED <<ownership, now>>

\* Generation + 1 and a higher token, once the lease has run out.
Takeover(o, t) ==
    /\ binding.state \notin {"absent"} \cup BindingTerminal
    /\ now >= binding.expires
    /\ binding.gen < MaxGeneration
    /\ t > binding.token
    /\ binding' = [binding EXCEPT !.gen = @ + 1, !.token = t, !.owner = o,
                      !.expires = now + LeaseTerm, !.observed = "unknown", !.seen = 0,
                      !.state = IF @ = "active" THEN "preparing" ELSE @]
    /\ UNCHANGED <<ownership, now>>

\* An owned runtime has to be stopped first, any other is only detached.
BeginRelease(o, g, t) ==
    /\ Fenced(o, g, t)
    /\ binding.state \in {"preparing", "active"}
    /\ binding' = IF ownership = "owned" THEN [binding EXCEPT !.state = "stopping"]
                  ELSE Finished(binding, "released")
    /\ UNCHANGED <<ownership, now>>

\* MUTANT of FinishRelease: a failed observation is taken for a stop.
FinishReleaseFailed(o, g, t) ==
    /\ Fenced(o, g, t)
    /\ binding.state = "stopping"
    /\ ownership = "owned"
    /\ binding.observed \in {"stopped", "failed"}
    /\ binding' = Finished(binding, "released")
    /\ UNCHANGED <<ownership, now>>

FinishRelease(o, g, t) ==
    /\ Fenced(o, g, t)
    /\ binding.state = "stopping"
    /\ ownership = "owned"
    /\ binding.observed = "stopped"
    /\ binding' = Finished(binding, "released")
    /\ UNCHANGED <<ownership, now>>

Tick ==
    /\ now < MaxTime
    /\ now' = now + 1
    /\ UNCHANGED <<binding, ownership>>

=============================================================================
