---------------------------- MODULE MCActionCall ----------------------------
(* Small instances of ActionCall for TLC. *)
EXTENDS ActionCall

CONSTANTS c1, c2

=============================================================================
