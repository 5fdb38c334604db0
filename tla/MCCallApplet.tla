----------------------------- MODULE MCCallApplet -----------------------------
(* Values for model checking CallApplet.                                     *)
EXTENDS CallApplet

CONSTANTS c1, c2, homeApplet, callApplet, contacts

TwoCalls == {c1, c2}
OneOther == {contacts}
=============================================================================
