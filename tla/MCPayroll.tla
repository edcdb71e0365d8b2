------------------------------ MODULE MCPayroll ------------------------------
(* Two attendance records, one correction in flight, two payroll runs.     *)
EXTENDS Payroll, TLC

CONSTANTS a1, a2, h1, p1, p2

MCRec == {a1, a2}
MCHandler == {h1}
MCRun == {p1, p2}

Symmetry == Permutations(MCRec) \cup Permutations(MCRun)
=============================================================================
