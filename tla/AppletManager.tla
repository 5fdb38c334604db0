---------------------------- MODULE AppletManager ----------------------------
(***************************************************************************)
(* The applet life cycle and the navigation stack of applet_manager.c,     *)
(* started the way main.c starts it.  Every operation runs on the user     *)
(* interface's thread and is one action.  The applets' callbacks are not   *)
(* modelled: they call the manager again only from later events.  Nor is   *)
(* applet_manager_close_current(), which nothing in the program calls.     *)
(*                                                                         *)
(* A definition named ...Slip is not part of the model: it is a variant of *)
(* the one after it, with a mistake that a property below detects.         *)
(***************************************************************************)
EXTENDS Integers, Sequences, FiniteSets

CONSTANTS
  Applets,      \* the registered applets
  NoApplet,     \* the NULL pointer
  Home,         \* the applet main() launches
  Background,   \* the applet main() initialises itself: "Call"
  MaxNav        \* MAX_NAV_STACK

ASSUME AppletManagerAssumption ==
  /\ NoApplet \notin Applets
  /\ {Home, Background} \subseteq Applets
  /\ Home # Background
  /\ MaxNav \in Nat

VARIABLES
  phase,     \* applet->state
  screen,    \* is applet->screen there?
  nav,       \* nav_stack, up to nav_depth
  current,   \* current_applet
  quit       \* has applet_manager_destroy() run?

vars == <<phase, screen, nav, current, quit>>

Phases == {"STOPPED", "PAUSED", "RUNNING"}

TypeOK ==
  /\ phase \in [Applets -> Phases]
  /\ screen \in [Applets -> BOOLEAN]
  /\ nav \in Seq(Applets)
  /\ Len(nav) <= MaxNav
  /\ current \in Applets \cup {NoApplet}
  /\ quit \in BOOLEAN

\* main() has registered the applets, and created the screen of the background
\* applet and marked it PAUSED, unless its init callback failed.
Init ==
  /\ \E ok \in BOOLEAN :
       /\ phase = [a \in Applets |-> IF a = Background /\ ok THEN "PAUSED" ELSE "STOPPED"]
       /\ screen = [a \in Applets |-> a = Background /\ ok]
  /\ nav = <<>>
  /\ current = NoApplet
  /\ quit = FALSE

\* applet_init_if_needed(a): a stopped applet gets a screen.
InitIfNeededSlip(a) == screen

InitIfNeeded(a) == [screen EXCEPT ![a] = @ \/ phase[a] = "STOPPED"]

\* The applet states after a takes over from the current applet; ph are the
\* states before.
FocusSlip(ph, a) == [ph EXCEPT ![a] = "RUNNING"]

Focus(ph, a) ==
  [b \in Applets |-> CASE b = a                -> "RUNNING"
                       [] b = current /\ b # a -> "PAUSED"
                       [] OTHER                -> ph[b]]

\* The navigation stack after a is launched, and after the top is taken off.
PushedSlipOverflow(a) ==
  IF current \notin {a, NoApplet} THEN Append(nav, current) ELSE nav

PushedSlipSelf(a) ==
  IF current # NoApplet /\ Len(nav) < MaxNav THEN Append(nav, current) ELSE nav

Pushed(a) ==
  IF current \notin {a, NoApplet} /\ Len(nav) < MaxNav
    THEN Append(nav, current) ELSE nav

PoppedSlip == Tail(nav)

Popped == SubSeq(nav, 1, Len(nav) - 1)

\* applet_manager_launch_applet(), when applet_init_if_needed() succeeds (when
\* it fails it undoes the screen and nothing changes).
Launch(a) ==
  /\ ~quit
  /\ current = NoApplet => a = Home
  /\ screen' = InitIfNeeded(a)
  /\ phase' = Focus(phase, a)
  /\ nav' = Pushed(a)
  /\ current' = a
  /\ UNCHANGED quit

\* applet_manager_back(); without a previous applet it does nothing.
Back ==
  /\ ~quit
  /\ \/ /\ nav = <<>>
        /\ UNCHANGED <<phase, nav, current>>
     \/ /\ nav # <<>>
        /\ phase' = Focus(phase, nav[Len(nav)])
        /\ nav' = Popped
        /\ current' = nav[Len(nav)]
  /\ UNCHANGED <<screen, quit>>

\* applet_manager_destroy(), the end of main().
Destroy ==
  /\ ~quit
  /\ current # NoApplet
  /\ phase' = [a \in Applets |-> "STOPPED"]
  /\ screen' = [a \in Applets |-> FALSE]
  /\ nav' = <<>>
  /\ current' = NoApplet
  /\ quit' = TRUE

Next ==
  \/ \E a \in Applets : Launch(a)
  \/ Back
  \/ Destroy

Spec == Init /\ [][Next]_vars

-----------------------------------------------------------------------------
(* Properties                                                              *)

\* Exactly the current applet is running: whatever was launched, dropped from
\* the stack or returned to, no other one keeps its timers going.
RunningIsCurrent == \A a \in Applets : phase[a] = "RUNNING" <=> a = current

\* The screen that launch and back load exists, and so does that of every
\* applet back can still return to; those are paused, or current again.
StackIsReady ==
  /\ current # NoApplet => screen[current]
  /\ \A k \in 1..Len(nav) : /\ screen[nav[k]]
                            /\ nav[k] # current => phase[nav[k]] = "PAUSED"

\* A launch that leaves an applet without pushing it: the stack was full.
Drops == current \in Applets /\ current' \in Applets \ {current} /\ nav' = nav

\* No applet is twice in a row on the way back, nor the current one on top of
\* the stack: going back always changes the display.  Only a launch from a full
\* stack can break this.
Path == Append(nav, current)
NoSelfReturn ==
  current # NoApplet => \A k \in 1..Len(nav) : Path[k] # Path[k + 1]
NoSelfReturnKept == [][NoSelfReturn /\ ~Drops => NoSelfReturn']_vars

\* The manager moves as the abstract navigation history does, except for a
\* launch that finds the stack full.
History == INSTANCE NavHistory WITH shown <- current, past <- nav
ImplementsHistory ==
  /\ History!NavInit
  /\ [][History!NavNext \/ Drops]_<<current, nav>>
=============================================================================
