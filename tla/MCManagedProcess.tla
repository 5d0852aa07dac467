-------------------------- MODULE MCManagedProcess --------------------------
(* Two controllers, two generations, two processes, one provider restart. *)
EXTENDS ManagedProcess, TLC

Symmetry == Permutations(Owners) \cup Permutations(Identities)
=============================================================================
