---------------------------- MODULE MCCommandQueue ----------------------------
(* Values for model checking CommandQueue.                                   *)
EXTENDS CommandQueue

CONSTANTS add, send

TwoCmds == {add, send}
=============================================================================
