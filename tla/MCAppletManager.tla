--------------------------- MODULE MCAppletManager ---------------------------
(* Values for model checking AppletManager.                                 *)
EXTENDS AppletManager, TLC

CONSTANTS home, call, contacts, messages

FourApplets == {home, call, contacts, messages}
Symm == Permutations({contacts, messages})
=============================================================================
