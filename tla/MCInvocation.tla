---------------------------- MODULE MCInvocation ----------------------------
(* Small instances of Invocation for TLC. *)
EXTENDS Invocation

CONSTANTS w1, w2

=============================================================================
