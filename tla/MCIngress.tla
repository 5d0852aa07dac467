----------------------------- MODULE MCIngress -----------------------------
(***************************************************************************)
(* Two Runs contend for the key.  The first is stopped and signalled; the  *)
(* second, started under one command with two different bodies, only       *)
(* competes for the key and is driven to its end.                          *)
(***************************************************************************)
EXTENDS Ingress, TLC

CONSTANTS p1, p2, r1, r2, c1, c2, b1, b2

MCProcesses == {p1, p2}
Symmetry == Permutations(MCProcesses)
MCRuns == {r1, r2}
MCStarts == {[op |-> "start", run |-> r1, cmd |-> c1, body |-> b1],
             [op |-> "start", run |-> r2, cmd |-> c1, body |-> b1],
             [op |-> "start", run |-> r2, cmd |-> c1, body |-> b2]}
MCTargets == {r1}
MCSignal(c, o) ==
    [op |-> "signal", run |-> r1, cmd |-> c, occurrence |-> o, body |-> b1]
MCSignals == {MCSignal(c1, 1), MCSignal(c2, 1), MCSignal(c2, 2)}
=============================================================================
