---------------------------- MODULE MCRunControl ----------------------------
(* Small plans for RunControl: two nodes in a row.                         *)
EXTENDS RunControl, TLC

CONSTANTS c1, c2

\* The second node handles the failure of the first, and is skipped otherwise.
Handler == {<<1, "failure", 2>>}
\* The second node needs the success of the first.
Success == {<<1, "success", 2>>}

\* Which nodes own an Effect, and how it is compensated.
TwoOwned == <<"required", "best-effort">>
NoneOwned == <<"plain", "plain">>
OneOwned == <<"plain", "best-effort">>

ControllerSymmetry == Permutations(Controllers)

=============================================================================
