------------------------------ MODULE NavHistory ------------------------------
(***************************************************************************)
(* What applet_manager.h promises about navigation: one applet is shown,   *)
(* launching another one shows it, and going back returns to the applet    *)
(* that was left last.  There is no limit to how far back it goes.         *)
(***************************************************************************)
EXTENDS Integers, Sequences

CONSTANTS Applets, NoApplet, Home

VARIABLES
  shown,   \* the applet on the display, NoApplet before and after the run
  past     \* the applets that were left, oldest first

NavInit == shown = NoApplet /\ past = <<>>

Open(a) ==
  /\ shown = NoApplet => a = Home
  /\ shown' = a
  /\ past' = IF shown \in {a, NoApplet} THEN past ELSE Append(past, shown)

Return ==
  /\ past # <<>>
  /\ shown' = past[Len(past)]
  /\ past' = SubSeq(past, 1, Len(past) - 1)

Quit ==
  /\ shown # NoApplet
  /\ shown' = NoApplet
  /\ past' = <<>>

NavNext == (\E a \in Applets : Open(a)) \/ Return \/ Quit

NavSpec == NavInit /\ [][NavNext]_<<shown, past>>
=============================================================================
