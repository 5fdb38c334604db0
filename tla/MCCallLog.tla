------------------------------- MODULE MCCallLog -------------------------------
(* Values for model checking CallLog.                                         *)
EXTENDS CallLog, TLC

CONSTANTS n1, n2

TwoNumbers == {n1, n2}
Symm == Permutations(TwoNumbers)
=============================================================================
