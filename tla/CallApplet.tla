------------------------------ MODULE CallApplet ------------------------------
(***************************************************************************)
(* The screens of call_applet.c, between the call tracking of CallManager  *)
(* and the navigation of AppletManager.                                    *)
(*                                                                         *)
(* The manager's events run the listener on_call_state_change(), which     *)
(* only raises flags and queues launches of the applet.  LVGL acts on them *)
(* later: a queued launch first, because it is the newest timer, then the  *)
(* poller check_ui_updates() every 50 ms, update_call_duration() every     *)
(* second and the user's clicks.  Core events come between any two of      *)
(* them.  Each LVGL callback is one action.                                *)
(*                                                                         *)
(* The calls are closed with an event here and come with a call object     *)
(* (CallManager with Silent and SessConn FALSE); the watchdog then finds   *)
(* nothing to do, and is left out.                                         *)
(*                                                                         *)
(* A definition named ...Slip is not part of the model: it is a variant of *)
(* the one after it, with a mistake that a property below detects.         *)
(***************************************************************************)
EXTENDS CallManager

CONSTANTS
  Home,      \* the home applet
  Call,      \* the call applet
  Others,    \* the other applets: call log, contacts, settings...
  NoApplet,  \* the NULL pointer
  MaxNav     \* MAX_NAV_STACK

ASSUME CallAppletAssumption ==
  /\ Home # Call
  /\ {Home, Call} \cap Others = {}
  /\ NoApplet \notin {Home, Call} \cup Others
  /\ MaxNav \in Nat \ {0}
  /\ ~Silent /\ ~SessConn

VARIABLES
  phase, screen, nav, quit,   \* the variables of AppletManager
  shown,                      \* its current_applet
  ui                          \* the call applet's own state

AM == INSTANCE AppletManager
  WITH Applets <- {Home, Call} \cup Others, Background <- Call,
       current <- shown

navVars == <<phase, screen, nav, quit, shown>>
uiVars == <<navVars, ui>>
allVars == <<vars, uiVars>>

LaunchCap == 2   \* queued launches told apart: none, one, several

Views == {"DIALER", "ACTIVE", "INCOMING"}

UiType ==
  [need : BOOLEAN,              \* ui_update_needed
   incoming : BOOLEAN,          \* pending_incoming
   mode : {"NONE", "ACTIVE", "INCOMING"},   \* g_req_view_mode
   view : Views,                \* the screen that is not hidden
   launches : 0..LaunchCap,     \* lv_async_call(launch_call_applet_async)
   ticking : BOOLEAN,           \* are the timers running, not paused?
   lost : BOOLEAN]              \* history: was the screen shown without the call it
                                \* was asked for, and has nothing been heard since?

UiTypeOK ==
  /\ AM!TypeOK
  /\ ui \in UiType

\* main() initialised the call applet, with its timers, and launched Home.
UiInit ==
  /\ Init
  /\ phase = [a \in {Home, Call} \cup Others |->
                CASE a = Home -> "RUNNING" [] a = Call -> "PAUSED"
                  [] OTHER -> "STOPPED"]
  /\ screen = [a \in {Home, Call} \cup Others |-> a \in {Home, Call}]
  /\ nav = <<>>
  /\ shown = Home
  /\ quit = FALSE
  /\ ui = [need |-> FALSE, incoming |-> FALSE, mode |-> "NONE",
           view |-> "DIALER", launches |-> 0, ticking |-> TRUE, lost |-> FALSE]

-----------------------------------------------------------------------------
(* A handler can reach the manager and the listener several times.  The    *)
(* operators below follow it: w is what the flags (w.ui) and the manager's *)
(* current_call, state and peer_uri have become so far; k and sl are the   *)
(* core and the slots it finds, b says whether Call is the current applet. *)

Attends == {"INCOMING", "ESTABLISHED"}

HeardSlip(u, s, out, b) ==
  [u EXCEPT
     !.need = s \in Attends,
     !.lost = FALSE,
     !.incoming = s = "INCOMING" \/ (~out /\ s \notin {"ESTABLISHED", "TERMINATED"}),
     !.mode = CASE s = "INCOMING" -> "INCOMING"
                [] s = "ESTABLISHED" -> "ACTIVE"
                [] OTHER -> @,
     !.launches = IF ~b /\ s \in Attends /\ @ < LaunchCap THEN @ + 1 ELSE @]

HeardSlipMode(u, s, out, b) ==
  [u EXCEPT
     !.need = TRUE,
     !.lost = FALSE,
     !.incoming = s = "INCOMING" \/ (~out /\ s \notin {"ESTABLISHED", "TERMINATED"}),
     !.mode = IF s = "INCOMING" THEN "INCOMING" ELSE @,
     !.launches = IF ~b /\ s \in Attends /\ @ < LaunchCap THEN @ + 1 ELSE @]

\* on_call_state_change(): news of a call in state s, that was dialled or not.
Heard(u, s, out, b) ==
  [u EXCEPT
     !.need = TRUE,
     !.lost = FALSE,
     !.incoming = s = "INCOMING" \/ (~out /\ s \notin {"ESTABLISHED", "TERMINATED"}),
     !.mode = CASE s = "INCOMING" -> "INCOMING"
                [] s = "ESTABLISHED" -> "ACTIVE"
                [] OTHER -> @,
     !.launches = IF ~b /\ s \in Attends /\ @ < LaunchCap THEN @ + 1 ELSE @]

\* baresip_manager_switch_to(c), as CallManager's SwitchTo, with its listener.
Switched(k, w, c, b) ==
  LET s == IF k[c].st = "ANSWERED" THEN "INCOMING" ELSE k[c].st
  IN  [ui |-> Heard(w.ui, s, k[c].out, b), current |-> c, state |-> s, peer |-> c]

LiveSlots(sl) == {i \in Occupied(sl) : sl[i].state \notin DeadStates}

\* update_call_list(): when the current call is not a live one of the table,
\* it makes the first live one current.
ListUpdated(k, sl, w, b) ==
  IF LiveSlots(sl) = {} \/ \E i \in LiveSlots(sl) : sl[i].call = w.current
    THEN w
    ELSE Switched(k, w, sl[First(LiveSlots(sl))].call, b)

Showing(w, v) == [w EXCEPT !.ui.view = v]

\* A screen that is shown although the call it was asked for is not there.
Losing(w, v) == [w EXCEPT !.ui.view = v, !.ui.lost = TRUE]

\* The view request of call_start() and call_resume(): the current call if it
\* is of the kind asked for, else the first slot that is, dead or alive.
Requested(k, sl, w, b) ==
  LET mode == w.ui.mode
      wanted == {i \in Occupied(sl) : sl[i].state = "INCOMING" <=> mode = "INCOMING"}
      ours == {i \in wanted : sl[i].call = w.current}
      target == sl[First(IF ours # {} THEN ours ELSE wanted)].call
      there == Showing(Switched(k, w, target, b), mode)
      done == IF wanted = {} THEN Losing(w, "DIALER")
              ELSE IF mode = "INCOMING" THEN there
              ELSE ListUpdated(k, sl, there, b)
  IN  [done EXCEPT !.ui.mode = "NONE"]

StartedSlip(k, sl, w, b) == Requested(k, sl, w, b)

\* call_start(): without a request, always the dialer.
Started(k, sl, w, b) ==
  IF w.ui.mode # "NONE" THEN Requested(k, sl, w, b) ELSE Showing(w, "DIALER")

ResumedSlip(k, sl, w, b) == Started(k, sl, w, b)

\* call_resume(): without a request, what the manager's state says.
Resumed(k, sl, w, b) ==
  LET awake == [w EXCEPT !.ui.ticking = TRUE]
      found == [awake EXCEPT !.ui.lost = FALSE]
      s == w.state
  IN  IF w.ui.mode # "NONE" THEN Requested(k, sl, awake, b)
      ELSE IF s \in DeadStates THEN Showing(found, "DIALER")
      ELSE IF s = "INCOMING" THEN Showing(found, "INCOMING")
      ELSE ListUpdated(k, sl, Showing(found, "ACTIVE"), b)

\* call_pause(), when the call applet is left.
PausedSlip(w) == w

Paused(w) == [w EXCEPT !.ui.ticking = FALSE]

\* The callbacks that a launch of a and a return to a run.
AfterLaunch(k, sl, w, a) ==
  IF a = Call THEN IF phase[Call] = "PAUSED" THEN Resumed(k, sl, w, shown = Call)
                                            ELSE Started(k, sl, w, shown = Call)
  ELSE IF shown = Call THEN Paused(w) ELSE w

AfterBack(w) ==
  LET left == IF shown = Call THEN Paused(w) ELSE w
  IN  IF nav # <<>> /\ nav[Len(nav)] = Call
        THEN Resumed(core, slots, left, shown = Call)
      ELSE IF nav # <<>> THEN left
      ELSE w

Now(u) == [ui |-> u, current |-> current, state |-> state, peer |-> peer]

\* The handler ends with the flags and the focus of w.
Settles(w) ==
  \E v \in {w} :
    /\ ui' = v.ui
    /\ current' = v.current
    /\ state' = v.state
    /\ peer' = v.peer

-----------------------------------------------------------------------------
(* Events of the core, and what the listener makes of them.                *)

Notified(s, c) == ui' = Heard(ui, s, core'[c].out, shown = Call)

RingingEvent(c, u) ==
  /\ CallIncoming(c, u)
  /\ Notified("INCOMING", c)
  /\ UNCHANGED navVars

ProvisionalEvent(c, s, e) ==
  /\ CallProvisional(c, s, e)
  /\ Notified(e, c)
  /\ UNCHANGED navVars

EstablishedEvent(c) ==
  /\ CallEstablished(c)
  /\ Notified("ESTABLISHED", c)
  /\ UNCHANGED navVars

\* When the manager is left without a call to show, the listener hears of the
\* closed call, TERMINATED and then IDLE; else of the call now current.
ClosedEvent(c) ==
  /\ CallClosed(c)
  /\ LET background == current \notin {c, NoCall}
         idle == state' = "IDLE" /\ ~(background /\ state = "IDLE")
         who == IF idle THEN c ELSE current'
     IN  ui' = Heard(ui, state', core[who].out, shown = Call)
  /\ UNCHANGED navVars

-----------------------------------------------------------------------------
(* LVGL callbacks.  A queued launch goes before all the others.            *)

NoLaunch == ui.launches = 0

tableVars == <<core, older, slots, rows>>

\* launch_call_applet_async(); with several queued, any number may be left.
RunLaunch ==
  /\ ~NoLaunch
  /\ UNCHANGED tableVars
  /\ AM!Launch(Call)
  /\ \E n \in {ui.launches - 1, LaunchCap} :
       /\ n = LaunchCap => ui.launches = LaunchCap
       /\ Settles(AfterLaunch(core, slots, Now([ui EXCEPT !.launches = n]), Call))

\* The states in which the poller takes the calls to be over.
Over == {"IDLE", "TERMINATED"}

\* check_ui_updates()
Poll ==
  /\ NoLaunch /\ ui.ticking /\ ui.need
  /\ UNCHANGED tableVars
  /\ LET w == Now([ui EXCEPT !.need = FALSE])
         over == state \in Over
         rings == state = "INCOMING" \/ (ui.incoming /\ state # "ESTABLISHED")
     IN  \/ /\ over /\ LiveSlots(slots) = {}
            /\ AM!Back
            /\ Settles(AfterBack(w))
         \/ /\ over /\ LiveSlots(slots) # {}
            /\ Settles(w)
            /\ UNCHANGED navVars
         \/ /\ ~over /\ rings
            /\ Settles(ListUpdated(core, slots, Showing(w, "INCOMING"), shown = Call))
            /\ UNCHANGED navVars
         \/ /\ ~over /\ ~rings
            /\ Settles(IF state = "OUTGOING" THEN w ELSE Showing(w, "ACTIVE"))
            /\ UNCHANGED navVars

\* update_call_duration()
Tick ==
  /\ NoLaunch /\ ui.ticking /\ ui.view = "ACTIVE"
  /\ UNCHANGED tableVars
  /\ \/ /\ LiveSlots(slots) = {}
        /\ AM!Back
        /\ Settles(IF nav = <<>> THEN Showing(Now(ui), "DIALER") ELSE AfterBack(Now(ui)))
     \/ /\ LiveSlots(slots) # {}
        /\ Settles(ListUpdated(core, slots, Now(ui), shown = Call))
        /\ UNCHANGED navVars

-----------------------------------------------------------------------------
(* The user.                                                               *)

On(v) == NoLaunch /\ shown = Call /\ ui.view = v

\* A call is dialled: as CallManager's Connect, without the focus, which the
\* rest of the handler may move on.  The core reports BEVENT_CALL_OUTGOING.
Dials(c, u) ==
  /\ Allocate(SetHold(core, HoldTargets(NoCall), TRUE), c, u, "OUTGOING")
  /\ slots' = AddOrUpdate(slots, c, "OUTGOING", c)

DialFails ==
  /\ core' = SetHold(core, HoldTargets(NoCall), TRUE)
  /\ UNCHANGED <<older, slots, rows>>

Dialling(w, c, b) ==
  [ui |-> Heard(w.ui, "OUTGOING", TRUE, b), current |-> c, state |-> "OUTGOING", peer |-> c]

\* call_btn_clicked() on the dialer, also by way of the account picker.
DialHere(c, u) ==
  /\ On("DIALER")
  /\ Dials(c, u)
  /\ Settles(Showing(Dialling(Now(ui), c, TRUE), "ACTIVE"))
  /\ UNCHANGED navVars

\* The same when it cannot be dialled: the dialer stays, except when a video call
\* is made without a default account.
DialHereFails ==
  /\ On("DIALER")
  /\ DialFails
  /\ Settles(Now(ui)) \/ Settles(Losing(Now(ui), "ACTIVE"))
  /\ UNCHANGED navVars

\* call_applet_open(number), a favourite of the home screen: the applet is
\* launched and shows the call, also when it cannot be dialled.
DialFavourite ==
  LET w == AfterLaunch(core, slots, Now(ui), Call)
  IN  /\ NoLaunch /\ shown = Home
      /\ AM!Launch(Call)
      /\ \/ \E c \in Calls, u \in UAs :
              /\ Dials(c, u)
              /\ Settles(Showing(Dialling(w, c, TRUE), "ACTIVE"))
         \/ DialFails /\ Settles(Losing(w, "ACTIVE"))

\* A number of the call log or of the contacts: dialled first, and then the
\* applet is launched with a request to show it.  The details of a log entry
\* do so even when it cannot be dialled.
DialElsewhere ==
  LET asking(w) == AfterLaunch(core', slots', [w EXCEPT !.ui.mode = "ACTIVE"], Call)
  IN  /\ NoLaunch /\ shown \in Others
      /\ AM!Launch(Call)
      /\ \/ \E c \in Calls, u \in UAs :
              /\ Dials(c, u)
              /\ Settles(asking(Dialling(Now(ui), c, FALSE)))
         \/ DialFails /\ Settles(asking(Now(ui)))

\* The Call tile of the home screen, and its buttons for calls that ring and
\* calls in progress, which are taken to be up to date (it is a second's work).
ButtonShown(mode) ==
  mode # "NONE" =>
    \E i \in LiveSlots(slots) : slots[i].state = "INCOMING" <=> mode = "INCOMING"

OpenFromHome(mode) ==
  /\ NoLaunch /\ shown = Home
  /\ ButtonShown(mode)
  /\ AM!Launch(Call)
  /\ LET asked == [ui EXCEPT !.mode = IF mode = "NONE" THEN @ ELSE mode]
     IN  Settles(AfterLaunch(core, slots, Now(asked), Call))
  /\ UNCHANGED tableVars

\* A tile of the home screen or the menu of the dialer (an other applet that
\* opens another one is as far from the call applet as it was).
OpenOther(a) ==
  /\ NoLaunch
  /\ shown \in {Home, Call}
  /\ shown = Call => ui.view = "DIALER"
  /\ AM!Launch(a)
  /\ Settles(AfterLaunch(core, slots, Now(ui), a))
  /\ UNCHANGED tableVars

\* A swipe, or the back button of a title bar.
GoBack ==
  /\ NoLaunch /\ shown # Home
  /\ AM!Back
  /\ Settles(AfterBack(Now(ui)))
  /\ UNCHANGED tableVars

\* answer_btn_clicked(): the second of its two calls changes nothing.
AnswerClick ==
  /\ On("INCOMING")
  /\ Answer
  /\ UNCHANGED <<navVars, ui>>

\* hangup_btn_clicked(), which is also the reject button; the button of an
\* active call does nothing in its first second.
HangupClick ==
  /\ On("INCOMING") \/ On("ACTIVE")
  /\ Hangup
  /\ ui' = Heard(ui, state', current' = NoCall \/ core[current'].out, TRUE)
  /\ UNCHANGED navVars

\* hold_btn_clicked(): is_hold may be that of another call, so either comes.
HoldClick ==
  /\ On("ACTIVE")
  /\ Hold(NoCall) \/ Resume(NoCall)
  /\ UNCHANGED <<navVars, ui>>

\* call_list_item_clicked() on a card of another call.
CardClick(i) ==
  /\ \/ On("ACTIVE") /\ slots[i].state # "INCOMING"
     \/ On("INCOMING") /\ slots[i].state # "ESTABLISHED"
  /\ i \in LiveSlots(slots)
  /\ Settles(Switched(core, Now(ui), slots[i].call, TRUE))
  /\ UNCHANGED <<tableVars, navVars>>

-----------------------------------------------------------------------------
Events ==
  \/ \E c \in Calls, u \in UAs : RingingEvent(c, u)
  \/ \E c \in Calls, s, e \in Provisional : ProvisionalEvent(c, s, e)
  \/ \E c \in Calls : EstablishedEvent(c)
  \/ \E c \in Calls : ClosedEvent(c)

Clicks ==
  \/ \E c \in Calls, u \in UAs : DialHere(c, u)
  \/ DialHereFails
  \/ DialFavourite
  \/ DialElsewhere
  \/ \E mode \in {"NONE", "ACTIVE", "INCOMING"} : OpenFromHome(mode)
  \/ \E a \in Others : OpenOther(a)
  \/ GoBack
  \/ AnswerClick
  \/ HangupClick
  \/ HoldClick
  \/ \E i \in Slots : CardClick(i)

UiNext == Events \/ RunLaunch \/ Poll \/ Tick \/ Clicks

UiSpec == UiInit /\ [][UiNext]_allVars

\* lv_timer_handler() goes on running the timers that are due.
FairUiSpec == UiSpec /\ WF_uiVars(RunLaunch \/ Poll \/ Tick)

-----------------------------------------------------------------------------
(* Properties                                                              *)

\* Only a call applet that is on the display takes the user back: the two
\* timers that end a call never leave the applet the user has turned to.
OnlyCallLeaves == [][Poll \/ Tick => shown = Call \/ shown' = shown]_allVars

\* When the flags have been acted on, the call applet shows what the manager's
\* state says of the live calls: one rings, or is in progress; and without
\* calls it shows the dialer.  A screen that was shown although the call it was
\* asked for is missing is excepted, until the next that is heard of a call.
ScreenFollowsState ==
  shown = Call /\ NoLaunch /\ ~ui.need /\ ~ui.lost =>
    /\ LiveSlots(slots) # {} =>
         /\ state = "INCOMING" => ui.view = "INCOMING"
         /\ state = "ESTABLISHED" => ui.view = "ACTIVE"
         /\ state \in {"RINGING", "EARLY"} => ui.view # "DIALER"
    /\ LiveSlots(slots) = {} /\ state \in Over => ui.view = "DIALER"

\* Also a request for a call that is missing cannot take the screen from a call in
\* progress: none is left over when the manager's state is that of one.
EstablishedIsShown ==
  (/\ shown = Call /\ NoLaunch /\ ~ui.need
   /\ state = "ESTABLISHED" /\ \E i \in Occupied(slots) : slots[i].state = "ESTABLISHED")
    => ui.view = "ACTIVE"

\* The screen of a call does not outlive the calls: it gives way to another
\* screen, or another call comes.  Only the incoming screen may stay, and only
\* while the manager's state is still that of a call, though there is none.
CallScreenEnds ==
  shown = Call /\ ui.view # "DIALER" /\ LiveSlots(slots) = {}
    ~> \/ shown # Call
       \/ ui.view = "DIALER"
       \/ LiveSlots(slots) # {}
       \/ ui.view = "INCOMING" /\ state \notin Over
=============================================================================
