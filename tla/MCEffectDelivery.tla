-------------------------- MODULE MCEffectDelivery --------------------------
(* Small instances of EffectDelivery for TLC. *)
EXTENDS EffectDelivery, TLC

CONSTANTS h1, h2

\* Workers are interchangeable in the safety runs.
HandlerSymmetry == Permutations({h1, h2})

=============================================================================
