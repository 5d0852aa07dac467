---------------------------- MODULE SingleActive ----------------------------
(***************************************************************************)
(* What the active-owner fence promises for one canonical key, whatever    *)
(* commands race, repeat or crash: at most one Run under the key is live,  *)
(* the holder is that Run, a Run is admitted once, and each admission      *)
(* takes the next generation.                                              *)
(***************************************************************************)
EXTENDS Naturals

CONSTANTS Runs, None

VARIABLES
    holder,      \* the Run that holds the key, or None
    generation,  \* how often the key was acquired
    admitted,    \* the Runs that were ever admitted
    live         \* the admitted Runs that are not terminal

Init ==
    /\ holder = None
    /\ generation = 0
    /\ admitted = {}
    /\ live = {}

Acquire(r) ==
    /\ holder = None
    /\ live = {}
    /\ r \notin admitted
    /\ holder' = r
    /\ generation' = generation + 1
    /\ admitted' = admitted \cup {r}
    /\ live' = {r}

Release ==
    /\ holder \in live
    /\ holder' = None
    /\ live' = {}
    /\ UNCHANGED <<generation, admitted>>

Next == Release \/ \E r \in Runs : Acquire(r)

Spec == Init /\ [][Next]_<<holder, generation, admitted, live>>
=============================================================================
