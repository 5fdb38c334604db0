-------------------------------- MODULE MCChat --------------------------------
(* Values for model checking Chat: two peers whose addresses both contain the *)
(* short form of the first one.                                               *)
EXTENDS Chat, TLC

CONSTANTS anna, hanna, short

TwoPeers == {anna, hanna}
Forms == TwoPeers \cup {short}
StoredForms == [w \in Forms |-> IF w = hanna THEN hanna ELSE anna]
Containing == {<<w, w>> : w \in Forms} \cup {<<anna, short>>, <<hanna, short>>}
=============================================================================
