----------------------------- MODULE MCJournal ------------------------------
\* Journal with a command that collides with another one's key, so that three
\* distinct transactions overflow a budget of two frames.
EXTENDS Journal, TLC

CONSTANTS a, b, c, d, p, q

MCKeyOf == a :> 1 @@ b :> 2 @@ c :> 3 @@ d :> 3
ProcSymmetry == Permutations({p, q})

=============================================================================
