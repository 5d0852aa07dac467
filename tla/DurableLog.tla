----------------------------- MODULE DurableLog -----------------------------
(***************************************************************************)
(* What the durable store promises the controller (durable/store/store.go  *)
(* and docs/adr/durable-store-reference.md): one history of transactions   *)
(* that only grows, each applied to exactly the state its author read, at  *)
(* most once per command key, and never lost once it was acknowledged.     *)
(*                                                                         *)
(* A command whose Commit ended in an error may still be in the history:   *)
(* its author learns that by sending it again.                             *)
(***************************************************************************)
EXTENDS Naturals, Sequences

CONSTANTS
    Commands,  \* the transactions clients ever send
    KeyOf      \* the command key (scope and command id) of each

VARIABLES
    log,       \* the transactions applied, in order
    answered,  \* the commands whose Commit returned success
    base       \* per command: the revision its author read

vars == <<log, answered, base>>

Applied(l) == {l[i] : i \in 1..Len(l)}
Free(l, c) == \A d \in Applied(l) : KeyOf[d] # KeyOf[c]

Init ==
    /\ log = <<>>
    /\ answered = {}
    /\ base = [c \in Commands |-> 0]

Read(c) ==
    /\ base' = [base EXCEPT ![c] = Len(log)]
    /\ UNCHANGED <<log, answered>>

Apply(c) ==
    /\ Free(log, c)
    /\ base[c] = Len(log)
    /\ log' = Append(log, c)
    /\ answered' \in {answered, answered \cup {c}}
    /\ UNCHANGED base

\* A command that was applied is answered with its recorded outcome.
Replay(c) ==
    /\ c \in Applied(log)
    /\ answered' = answered \cup {c}
    /\ UNCHANGED <<log, base>>

Next == \E c \in Commands : Read(c) \/ Apply(c) \/ Replay(c)

Spec == Init /\ [][Next]_vars

=============================================================================
