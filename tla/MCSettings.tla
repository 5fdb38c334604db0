------------------------------ MODULE MCSettings ------------------------------
(* Values for model checking Settings: the text of one address occurs in the  *)
(* other, as sip:1@host does in sip:11@host.                                  *)
EXTENDS Settings

CONSTANTS a1, a2

TwoUsers == {a1, a2}
OneInTheOther == {<<a, a>> : a \in TwoUsers \cup {Blank}} \cup {<<a1, a2>>}

On1 == [aor |-> a1, enabled |-> TRUE]
On2 == [aor |-> a2, enabled |-> TRUE]
Off2 == [aor |-> a2, enabled |-> FALSE]
Incomplete == [aor |-> Blank, enabled |-> TRUE]
SomeFiles == {<<>>, <<On1>>, <<On1, Off2>>, <<On2, On1>>, <<Incomplete, On1>>}
=============================================================================
