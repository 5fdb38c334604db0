---------------------------- MODULE MCCallManager ----------------------------
(* Values for model checking CallManager.                                   *)
EXTENDS CallManager, TLC

CONSTANTS c1, c2, c3

ThreeCalls == {c1, c2, c3}
TwoCalls == {c1, c2}

Symm3 == Permutations(ThreeCalls)
Symm2 == Permutations(TwoCalls)
=============================================================================
