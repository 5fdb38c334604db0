--------------------------- MODULE CallAppletProofs ---------------------------
(***************************************************************************)
(* Proofs about CallApplet, for every set of calls and of other applets,   *)
(* every number of accounts, and every size of the table and of the        *)
(* navigation stack: what the proofs about CallManager and AppletManager   *)
(* established still holds when the call screens drive them, and the       *)
(* screens follow.                                                         *)
(***************************************************************************)
EXTENDS CallApplet, CallManagerProofs

-----------------------------------------------------------------------------
(* The applet manager below the screens.                                   *)

AllApplets == {Home, Call} \cup Others

AMP == INSTANCE AppletManagerProofs
  WITH Applets <- AllApplets, Background <- Call, current <- shown

\* What is proved of the applet manager is about the one the screens use.
LEMMA SameManager ==
  /\ AM!TypeOK <=> AMP!TypeOK
  /\ AM!TypeOK' <=> AMP!TypeOK'
  /\ \A a : AM!Launch(a) <=> AMP!Launch(a)
  /\ AM!Back <=> AMP!Back
  /\ AM!RunningIsCurrent <=> AMP!RunningIsCurrent
  /\ AM!StackIsReady <=> AMP!StackIsReady
BY DEF AllApplets, AM!TypeOK, AMP!TypeOK, AM!Phases, AMP!Phases,
       AM!Launch, AMP!Launch, AM!InitIfNeeded, AMP!InitIfNeeded,
       AM!Focus, AMP!Focus, AM!Pushed, AMP!Pushed,
       AM!Back, AMP!Back, AM!Popped, AMP!Popped,
       AM!RunningIsCurrent, AMP!RunningIsCurrent, AM!StackIsReady, AMP!StackIsReady

LEMMA ManagerAssumed == AMP!AppletManagerAssumption
BY CallAppletAssumption DEF AMP!AppletManagerAssumption, AllApplets

\* The home applet is where the stack begins, and the call applet is never
\* stopped.
HomeIsBottom == IF nav = <<>> THEN shown = Home ELSE nav[1] = Home

NavInv ==
  /\ AMP!TypeOK
  /\ AMP!Ready
  /\ shown \in AllApplets /\ HomeIsBottom
  /\ phase[Call] # "STOPPED"

LEMMA NavInit == UiInit => NavInv
<1> SUFFICES ASSUME UiInit PROVE NavInv
  OBVIOUS
<1>1. /\ phase = [a \in AllApplets |-> CASE a = Home -> "RUNNING" [] a = Call -> "PAUSED"
                                         [] OTHER -> "STOPPED"]
      /\ screen = [a \in AllApplets |-> a \in {Home, Call}]
      /\ nav = <<>> /\ shown = Home /\ quit = FALSE
  BY DEF UiInit, AllApplets
<1>2. Home # Call /\ Home \in AllApplets /\ Call \in AllApplets /\ MaxNav \in Nat
  BY CallAppletAssumption DEF AllApplets
<1>3. /\ \A a \in AllApplets : phase[a] = IF a = Home THEN "RUNNING"
                                   ELSE IF a = Call THEN "PAUSED" ELSE "STOPPED"
      /\ \A a \in AllApplets : screen[a] = (a \in {Home, Call})
  BY <1>1, <1>2
<1>4. AMP!TypeOK
  <2>1. nav \in Seq(AllApplets) /\ Len(nav) <= MaxNav
    BY <1>1, <1>2
  <2>2. phase \in [AllApplets -> AMP!Phases]
    BY <1>1, <1>2 DEF AMP!Phases
  <2>3. screen \in [AllApplets -> BOOLEAN]
    BY <1>1
  <2> QED BY <1>1, <1>2, <2>1, <2>2, <2>3 DEF AMP!TypeOK
<1>5. AMP!Ready
  <2>1. AMP!RunningIsCurrent
    BY <1>1, <1>2, <1>3 DEF AMP!RunningIsCurrent
  <2>2. \A a \in AllApplets : phase[a] # "STOPPED" => screen[a]
    BY <1>3
  <2>3. 1..Len(nav) = {}
    BY <1>1
  <2>4. screen[shown] = TRUE
    BY <1>1, <1>2
  <2> QED BY <2>1, <2>2, <2>3, <2>4, Zenon DEF AMP!Ready, AMP!StackIsReady
<1> QED BY <1>1, <1>2, <1>3, <1>4, <1>5 DEF NavInv, HomeIsBottom

LEMMA NavLaunch ==
  ASSUME NavInv, NEW a \in AllApplets, AM!Launch(a)
  PROVE  NavInv' /\ shown' = a
<1>1. AMP!Launch(a) /\ [AMP!Next]_AMP!vars
  <2>1. AMP!Launch(a)
    BY SameManager
  <2> QED BY <2>1 DEF AMP!Next
<1>2. AMP!TypeOK' /\ AMP!Ready'
  BY <1>1, ManagerAssumed, AMP!TypeStep, AMP!ReadyStep DEF NavInv
<1>3. /\ shown' = a /\ nav' = AMP!Pushed(a) /\ phase' = AMP!Focus(phase, a)
      /\ shown \in AllApplets \cup {NoApplet} /\ phase \in [AllApplets -> AMP!Phases]
      /\ nav \in Seq(AllApplets)
  BY <1>1 DEF AMP!Launch, NavInv, AMP!TypeOK
<1>4. phase'[Call] # "STOPPED"
  <2>1. Call \in AllApplets
    BY DEF AllApplets
  <2>2. AMP!Focus(phase, a)[Call] = IF Call = a THEN "RUNNING"
                                    ELSE IF Call = shown THEN "PAUSED" ELSE phase[Call]
    BY <1>3, <2>1, ManagerAssumed, AMP!FocusFacts
  <2> QED BY <1>3, <2>2 DEF NavInv
<1>5. HomeIsBottom'
  <2>1. CASE nav' = nav
    <3>1. CASE nav = <<>>
      <4>1. shown = Home /\ NoApplet # Home /\ Len(nav) < MaxNav
        <5>1. Len(<<>>) = 0 /\ MaxNav \in Nat \ {0}
          BY CallAppletAssumption
        <5> QED BY <3>1, <5>1, CallAppletAssumption DEF NavInv, HomeIsBottom
      <4>2. a = Home
        BY <1>3, <2>1, <3>1, <4>1 DEF AMP!Pushed
      <4> QED BY <1>3, <2>1, <3>1, <4>2 DEF HomeIsBottom
    <3> QED BY <2>1, <3>1 DEF NavInv, HomeIsBottom
  <2>2. CASE nav' # nav
    <3>1. nav' = Append(nav, shown) /\ shown \in AllApplets
      BY <1>3, <2>2 DEF AMP!Pushed
    <3>2. nav' # <<>> /\ (nav = <<>> => nav'[1] = shown) /\ (nav # <<>> => nav'[1] = nav[1])
      BY <1>3, <3>1
    <3> QED BY <3>2 DEF NavInv, HomeIsBottom
  <2> QED BY <2>1, <2>2
<1> QED BY <1>2, <1>3, <1>4, <1>5 DEF NavInv

LEMMA NavBack ==
  ASSUME NavInv, AM!Back
  PROVE  /\ NavInv'
         /\ shown' = IF nav = <<>> THEN shown ELSE nav[Len(nav)]
<1>1. AMP!Back /\ [AMP!Next]_AMP!vars
  BY SameManager DEF AMP!Next
<1>2. AMP!TypeOK' /\ AMP!Ready'
  BY <1>1, ManagerAssumed, AMP!TypeStep, AMP!ReadyStep DEF NavInv
<1>3. CASE nav = <<>>
  <2>1. shown' = shown /\ nav' = nav /\ phase' = phase
    BY <1>1, <1>3 DEF AMP!Back
  <2> QED BY <1>2, <1>3, <2>1 DEF NavInv, HomeIsBottom
<1>4. CASE nav # <<>>
  <2>1. /\ shown' = nav[Len(nav)] /\ nav' = AMP!Popped
        /\ phase' = AMP!Focus(phase, nav[Len(nav)])
        /\ phase \in [AllApplets -> AMP!Phases] /\ nav \in Seq(AllApplets)
    BY <1>1, <1>4 DEF AMP!Back, NavInv, AMP!TypeOK
  <2>2. /\ nav[Len(nav)] \in AllApplets /\ Len(nav') = Len(nav) - 1
        /\ \A k \in 1..Len(nav') : nav'[k] = nav[k]
        /\ nav' \in Seq(AllApplets)
    BY <1>4, <2>1, ManagerAssumed, AMP!PoppedFacts DEF NavInv
  <2>3. phase'[Call] # "STOPPED"
    <3>1. Call \in AllApplets
      BY DEF AllApplets
    <3> DEFINE a == nav[Len(nav)]
    <3>2. AMP!Focus(phase, a)[Call] = IF Call = a THEN "RUNNING"
                                      ELSE IF Call = shown THEN "PAUSED" ELSE phase[Call]
      <4> HIDE DEF a
      <4>1. a \in AllApplets
        BY <2>2 DEF a
      <4> QED BY <2>1, <3>1, <4>1, ManagerAssumed, AMP!FocusFacts
    <3> QED BY <2>1, <3>2 DEF NavInv
  <2>4. HomeIsBottom'
    <3>1. CASE nav' = <<>>
      <4>1. Len(<<>>) = 0
        OBVIOUS
      <4>2. Len(nav) = 1
        BY <2>1, <2>2, <3>1, <4>1
      <4> QED BY <1>4, <2>1, <3>1, <4>2 DEF NavInv, HomeIsBottom
    <3>2. CASE nav' # <<>>
      <4>1. 1 \in 1..Len(nav')
        BY <2>2, <3>2
      <4> QED BY <1>4, <2>2, <3>2, <4>1 DEF NavInv, HomeIsBottom
    <3> QED BY <3>1, <3>2
  <2> QED BY <1>2, <1>4, <2>1, <2>3, <2>4 DEF NavInv
<1> QED BY <1>3, <1>4

LEMMA NavSame == ASSUME NavInv, UNCHANGED navVars PROVE NavInv'
BY DEF NavInv, navVars, HomeIsBottom, AMP!TypeOK, AMP!Ready,
       AMP!RunningIsCurrent, AMP!StackIsReady

\* The call applet runs when it is shown, and is paused when it is not.
LEMMA CallIsPaused ==
  ASSUME NavInv, shown # Call
  PROVE  phase[Call] = "PAUSED"
<1>1. Call \in AllApplets
  BY DEF AllApplets
<1> QED BY <1>1 DEF NavInv, AMP!TypeOK, AMP!Phases, AMP!Ready, AMP!RunningIsCurrent

-----------------------------------------------------------------------------
(* The flags and the focus that the parts of a handler pass on.            *)

Flags == [ui : UiType, current : Pointers, state : CallStates, peer : Pointers]

\* The pointers of the table lead into the core, and so does the focus of w.
Points(k, sl) ==
  /\ k \in [Calls -> CoreRecord]
  /\ sl \in SlotTable
  /\ \A i \in Slots : sl[i].call # NoCall => sl[i].call \in Calls /\ k[sl[i].call].st # "FREE"

\* The state that the manager takes over from call c.
Told(k, c) == IF k[c].st = "ANSWERED" THEN "INCOMING" ELSE k[c].st

\* The focus of w is a call of the core or none, and it is the manager's, or it
\* came to a call together with the state of that call.
Aims(k, w) ==
  /\ w.current = NoCall \/ (w.current \in Calls /\ k[w.current].st # "FREE")
  /\ \/ w.current = current /\ w.state = state
     \/ w.current \in Calls /\ w.state = Told(k, w.current)

Refocused ==
  \/ current' = current /\ state' = state
  \/ current' \in Calls /\ core'[current'].st # "FREE" /\ state' = Told(core', current')

\* No call is asked for that rings while the manager says that one is in progress.
Fits(w) == w.state = "ESTABLISHED" => w.ui.mode # "INCOMING"

\* Or one rings.
Served(w, sl) ==
  w.state = "ESTABLISHED" /\ w.ui.mode = "INCOMING"
    => \E i \in Occupied(sl) : sl[i].state = "INCOMING"

\* What the rest of a handler makes of w: an update is still pending, and
\* unless one is, the focus has not moved and nothing was queued.
Later(w, v) ==
  /\ Fits(w) => Fits(v)
  /\ w.ui.need => v.ui.need
  /\ \/ v.ui.need
     \/ v.current = w.current /\ v.state = w.state /\ v.ui.launches = w.ui.launches

\* The screen of w agrees with the manager's state and the live calls of sl.
Agrees(w, sl) ==
  /\ LiveSlots(sl) # {} =>
       /\ w.state = "INCOMING" => w.ui.view = "INCOMING"
       /\ w.state = "ESTABLISHED" => w.ui.view = "ACTIVE"
       /\ w.state \in {"RINGING", "EARLY"} => w.ui.view # "DIALER"
  /\ LiveSlots(sl) = {} /\ w.state \in Over => w.ui.view = "DIALER"

\* The screen of w is that of a call in progress when there is one.
Met(w, sl) ==
  w.state = "ESTABLISHED" /\ (\E i \in Occupied(sl) : sl[i].state = "ESTABLISHED")
    => w.ui.view = "ACTIVE"

\* A handler may end with w: an update is pending; or the screen agrees, or the
\* call that was asked for is not there, and then it was not one in progress.
Settled(w, sl) == w.ui.need \/ ((w.ui.lost \/ Agrees(w, sl)) /\ Met(w, sl))

\* The listener raises the flag, and leaves the screen and the timers alone.
LEMMA HeardFacts ==
  ASSUME NEW u \in UiType, NEW s, NEW out, NEW b
  PROVE  /\ Heard(u, s, out, b) \in UiType
         /\ Heard(u, s, out, b).need
         /\ Heard(u, s, out, b).view = u.view
         /\ s = "ESTABLISHED" => Heard(u, s, out, b).mode # "INCOMING"
         /\ Heard(u, s, out, b).ticking = u.ticking
<1> DEFINE incoming == s = "INCOMING" \/ (~out /\ s \notin {"ESTABLISHED", "TERMINATED"})
           mode == CASE s = "INCOMING" -> "INCOMING"
                     [] s = "ESTABLISHED" -> "ACTIVE"
                     [] OTHER -> u.mode
           asks == ~b /\ s \in Attends
           launches == IF asks /\ u.launches < LaunchCap THEN u.launches + 1 ELSE u.launches
<1>1. incoming \in BOOLEAN
  BY Zenon
<1>2. mode \in {"NONE", "ACTIVE", "INCOMING"}
  <2>1. u.mode \in {"NONE", "ACTIVE", "INCOMING"}
    BY DEF UiType
  <2> QED BY <2>1
<1>a. s = "ESTABLISHED" => mode # "INCOMING"
  OBVIOUS
<1>3. launches \in 0..LaunchCap
  <2>1. u.launches \in 0..LaunchCap
    BY DEF UiType
  <2> HIDE DEF asks
  <2>3. u.launches \in Nat /\ u.launches <= 2
    BY <2>1 DEF LaunchCap
  <2> QED BY <2>3 DEF LaunchCap
<1>4. Heard(u, s, out, b)
        = [u EXCEPT !.need = TRUE, !.lost = FALSE, !.incoming = incoming, !.mode = mode,
                    !.launches = launches]
  BY DEF Heard, UiType
<1> HIDE DEF incoming, mode, launches
<1> QED BY <1>a, <1>1, <1>2, <1>3, <1>4 DEF UiType

\* A new focus comes with a pending update.
LEMMA FocusFlags ==
  ASSUME NEW w \in Flags, NEW s \in CallStates, NEW out, NEW c \in Calls, NEW b, NEW v,
         v = [ui |-> Heard(w.ui, s, out, b), current |-> c, state |-> s, peer |-> c]
  PROVE  /\ v \in Flags /\ v.current = c /\ v.state = s
         /\ v.ui.view = w.ui.view /\ v.ui.ticking = w.ui.ticking
         /\ v.ui.need /\ Later(w, v)
<1>1. w.ui \in UiType /\ c \in Pointers
  BY DEF Flags, Pointers
<1>2. /\ Heard(w.ui, s, out, b) \in UiType
      /\ Heard(w.ui, s, out, b).need
      /\ Heard(w.ui, s, out, b).view = w.ui.view
      /\ s = "ESTABLISHED" => Heard(w.ui, s, out, b).mode # "INCOMING"
      /\ Heard(w.ui, s, out, b).ticking = w.ui.ticking
  BY <1>1, HeardFacts
<1>3. v \in Flags
  BY <1>1, <1>2 DEF Flags
<1> QED BY <1>2, <1>3 DEF Later, Fits

LEMMA SwitchedFacts ==
  ASSUME NEW k \in [Calls -> CoreRecord], NEW w \in Flags, NEW c \in Calls,
         k[c].st # "FREE", NEW b
  PROVE  LET v == Switched(k, w, c, b)
         IN  /\ v \in Flags /\ Aims(k, v) /\ Later(w, v) /\ v.ui.need
             /\ v.ui.view = w.ui.view /\ v.ui.ticking = w.ui.ticking
<1> DEFINE s == IF k[c].st = "ANSWERED" THEN "INCOMING" ELSE k[c].st
           v == Switched(k, w, c, b)
<1>1. s \in CallStates
  BY DEF CoreRecord, CoreStates, CallStates
<1>2. v = [ui |-> Heard(w.ui, s, k[c].out, b), current |-> c, state |-> s, peer |-> c]
  BY DEF Switched
<1>3. /\ v \in Flags /\ v.current = c /\ v.state = s
      /\ v.ui.view = w.ui.view /\ v.ui.ticking = w.ui.ticking
      /\ v.ui.need /\ Later(w, v)
  <2> HIDE DEF s, v
  <2> QED BY <1>1, <1>2, FocusFlags
<1>4. s = Told(k, c)
  BY DEF Told
<1> HIDE DEF s, v
<1> QED BY <1>3, <1>4 DEF Aims, v

\* Showing a screen changes nothing else.
LEMMA ShowingFacts ==
  ASSUME NEW k, NEW w \in Flags, Aims(k, w), NEW x \in Views
  PROVE  LET v == Showing(w, x)
         IN  /\ v \in Flags /\ Aims(k, v) /\ Later(w, v) /\ v.ui.view = x
             /\ v.ui.ticking = w.ui.ticking /\ v.state = w.state /\ v.ui.need = w.ui.need
             /\ v.ui.mode = w.ui.mode
<1> DEFINE v == Showing(w, x)
<1>1. w.ui \in UiType
  BY DEF Flags
<1>2. /\ [w.ui EXCEPT !.view = x] \in UiType
      /\ [w.ui EXCEPT !.view = x].view = x
      /\ [w.ui EXCEPT !.view = x].need = w.ui.need
      /\ [w.ui EXCEPT !.view = x].mode = w.ui.mode
      /\ [w.ui EXCEPT !.view = x].launches = w.ui.launches
      /\ [w.ui EXCEPT !.view = x].ticking = w.ui.ticking
  BY <1>1 DEF UiType
<1>3. /\ v \in Flags /\ v.ui = [w.ui EXCEPT !.view = x]
      /\ v.current = w.current /\ v.state = w.state
  BY <1>1, <1>2 DEF Showing, Flags
<1> QED BY <1>2, <1>3 DEF Later, Fits, Aims

LEMMA LosingFacts ==
  ASSUME NEW k, NEW w \in Flags, Aims(k, w), NEW x \in Views
  PROVE  LET v == Losing(w, x)
         IN  /\ v \in Flags /\ Aims(k, v) /\ Later(w, v) /\ v.ui.lost
             /\ v.ui.ticking = w.ui.ticking /\ v.ui.view = x /\ v.state = w.state
<1> DEFINE v == Losing(w, x)
           y == [w.ui EXCEPT !.view = x, !.lost = TRUE]
<1>1. w.ui \in UiType
  BY DEF Flags
<1>2. /\ y \in UiType /\ y.lost /\ y.need = w.ui.need /\ y.mode = w.ui.mode /\ y.view = x
      /\ y.launches = w.ui.launches /\ y.ticking = w.ui.ticking
  BY <1>1 DEF UiType
<1> HIDE DEF y
<1>3. v = [w EXCEPT !.ui = y]
  BY DEF Flags, Losing, y
<1>4. v \in Flags /\ v.ui = y /\ v.current = w.current /\ v.state = w.state
  BY <1>2, <1>3 DEF Flags
<1> HIDE DEF v
<1> QED BY <1>2, <1>4 DEF Later, Fits, Aims, v

\* The state of the manager says what to show: no call is missing.
Finds(w) == [w EXCEPT !.ui.lost = FALSE]

LEMMA FindsFacts ==
  ASSUME NEW k, NEW w \in Flags, Aims(k, w)
  PROVE  LET v == Finds(w)
         IN  /\ v \in Flags /\ Aims(k, v) /\ Later(w, v)
             /\ v.ui.ticking = w.ui.ticking /\ v.state = w.state
<1> DEFINE v == Finds(w)
           y == [w.ui EXCEPT !.lost = FALSE]
<1>1. w.ui \in UiType
  BY DEF Flags
<1>2. /\ y \in UiType /\ y.need = w.ui.need /\ y.mode = w.ui.mode
      /\ y.launches = w.ui.launches /\ y.ticking = w.ui.ticking
  BY <1>1 DEF UiType
<1> HIDE DEF y
<1>3. v = [w EXCEPT !.ui = y]
  BY DEF Flags, Finds, y
<1>4. v \in Flags /\ v.ui = y /\ v.current = w.current /\ v.state = w.state
  BY <1>2, <1>3 DEF Flags
<1> HIDE DEF v
<1> QED BY <1>2, <1>4 DEF Later, Fits, Aims, v

LEMMA LaterTrans ==
  ASSUME NEW w, NEW v, NEW x, Later(w, v), Later(v, x)
  PROVE  Later(w, x)
BY DEF Later

\* update_call_list() moves the focus to a live call of the table, if at all.
LEMMA ListUpdatedFacts ==
  ASSUME NEW k, NEW sl, Points(k, sl), NEW w \in Flags, Aims(k, w), NEW b
  PROVE  LET v == ListUpdated(k, sl, w, b)
         IN  /\ v \in Flags /\ Aims(k, v) /\ Later(w, v)
             /\ v.ui.view = w.ui.view /\ v.ui.ticking = w.ui.ticking
             /\ v = w \/ v.ui.need
             /\ LiveSlots(sl) = {} => v = w
<1> DEFINE v == ListUpdated(k, sl, w, b)
           i == First(LiveSlots(sl))
<1>1. CASE v = w
  BY <1>1 DEF Later
<1>2. CASE v # w
  <2>1. LiveSlots(sl) # {} /\ v = Switched(k, w, sl[i].call, b)
    BY <1>2 DEF ListUpdated
  <2>2. i \in LiveSlots(sl)
    BY <2>1, FirstExists DEF LiveSlots, Occupied
  <2>3. sl[i].call \in Calls /\ k[sl[i].call].st # "FREE" /\ k \in [Calls -> CoreRecord]
    BY <2>2 DEF LiveSlots, Occupied, Points
  <2> DEFINE c == sl[i].call
             x == Switched(k, w, c, b)
  <2>4. c \in Calls /\ k[c].st # "FREE"
    BY <2>3
  <2> HIDE DEF c
  <2>5. /\ x \in Flags /\ Aims(k, x) /\ Later(w, x) /\ x.ui.need
        /\ x.ui.view = w.ui.view /\ x.ui.ticking = w.ui.ticking
    BY <2>3, <2>4, SwitchedFacts
  <2>6. v = x
    BY <2>1 DEF c
  <2> HIDE DEF x
  <2> QED BY <2>1, <2>5, <2>6
<1> QED BY <1>1, <1>2

Asks(w, m) == [w EXCEPT !.ui.mode = m]
Ticks(w, t) == [w EXCEPT !.ui.ticking = t]

LEMMA AsksFacts ==
  ASSUME NEW k, NEW w \in Flags, Aims(k, w), NEW m \in {"NONE", "ACTIVE"}
  PROVE  LET v == Asks(w, m)
         IN  /\ v \in Flags /\ Aims(k, v) /\ Later(w, v) /\ v.ui.view = w.ui.view
             /\ v.ui.ticking = w.ui.ticking /\ v.state = w.state /\ v.ui.need = w.ui.need
             /\ v.ui.lost = w.ui.lost /\ v.ui.mode = m /\ Fits(v)
<1> DEFINE v == Asks(w, m)
<1>1. w.ui \in UiType
  BY DEF Flags
<1>2. /\ [w.ui EXCEPT !.mode = m] \in UiType
      /\ [w.ui EXCEPT !.mode = m].view = w.ui.view
      /\ [w.ui EXCEPT !.mode = m].need = w.ui.need
      /\ [w.ui EXCEPT !.mode = m].lost = w.ui.lost
      /\ [w.ui EXCEPT !.mode = m].mode = m
      /\ [w.ui EXCEPT !.mode = m].launches = w.ui.launches
      /\ [w.ui EXCEPT !.mode = m].ticking = w.ui.ticking
  BY <1>1 DEF UiType
<1>3. /\ v \in Flags /\ v.ui = [w.ui EXCEPT !.mode = m]
      /\ v.current = w.current /\ v.state = w.state
  BY <1>1, <1>2 DEF Flags, Asks
<1> QED BY <1>2, <1>3 DEF Later, Fits, Aims

LEMMA TicksFacts ==
  ASSUME NEW k, NEW w \in Flags, Aims(k, w), NEW t \in BOOLEAN
  PROVE  LET v == Ticks(w, t)
         IN  /\ v \in Flags /\ Aims(k, v) /\ Later(w, v) /\ v.ui.view = w.ui.view
             /\ v.ui.ticking = t /\ v.state = w.state /\ v.ui.mode = w.ui.mode
<1> DEFINE v == Ticks(w, t)
<1>1. w.ui \in UiType
  BY DEF Flags
<1>2. /\ [w.ui EXCEPT !.ticking = t] \in UiType
      /\ [w.ui EXCEPT !.ticking = t].view = w.ui.view
      /\ [w.ui EXCEPT !.ticking = t].need = w.ui.need
      /\ [w.ui EXCEPT !.ticking = t].launches = w.ui.launches
      /\ [w.ui EXCEPT !.ticking = t].mode = w.ui.mode
      /\ [w.ui EXCEPT !.ticking = t].ticking = t
  BY <1>1 DEF UiType
<1>3. /\ v \in Flags /\ v.ui = [w.ui EXCEPT !.ticking = t]
      /\ v.current = w.current /\ v.state = w.state
  BY <1>1, <1>2 DEF Flags, Ticks
<1> QED BY <1>2, <1>3 DEF Later, Fits, Aims

\* A view request is met by a call of the table, or that call is missing.
LEMMA RequestedFacts ==
  ASSUME NEW k, NEW sl, Points(k, sl), NEW w \in Flags, Aims(k, w), NEW b,
         w.ui.mode # "NONE", Served(w, sl)
  PROVE  LET v == Requested(k, sl, w, b)
         IN  /\ v \in Flags /\ Aims(k, v) /\ Later(w, v)
             /\ v.ui.ticking = w.ui.ticking
             /\ v.ui.need \/ (v.ui.lost /\ Met(v, sl))
             /\ Fits(v)
<1> DEFINE mode == w.ui.mode
           wanted == {i \in Occupied(sl) : sl[i].state = "INCOMING" <=> mode = "INCOMING"}
           ours == {i \in wanted : sl[i].call = w.current}
           found == First(IF ours # {} THEN ours ELSE wanted)
           target == sl[found].call
           moved == Switched(k, w, target, b)
           there == Showing(moved, mode)
           done == IF wanted = {} THEN Losing(w, "DIALER")
                   ELSE IF mode = "INCOMING" THEN there
                   ELSE ListUpdated(k, sl, there, b)
           v == Requested(k, sl, w, b)
<1>1. mode \in Views /\ "DIALER" \in Views
  BY DEF Flags, UiType, Views
<1>2. /\ done \in Flags /\ Aims(k, done) /\ Later(w, done)
      /\ done.ui.ticking = w.ui.ticking
      /\ done.ui.need \/ (done.ui.lost /\ Met(done, sl))
  <2>1. CASE wanted = {}
    <3>1. done = Losing(w, "DIALER")
      BY <2>1
    <3> HIDE DEF done
    <3>2. /\ done \in Flags /\ Aims(k, done) /\ Later(w, done) /\ done.ui.lost
          /\ done.ui.ticking = w.ui.ticking /\ done.state = w.state
      BY <1>1, <3>1, LosingFacts
    <3>3. Met(done, sl)
      BY <2>1, <3>2 DEF Met, Served
    <3> QED BY <3>2, <3>3
  <2>2. CASE wanted # {}
    <3>1. found \in wanted
      <4>1. wanted \subseteq Slots /\ ours \subseteq wanted
        BY DEF Occupied
      <4> DEFINE S == IF ours # {} THEN ours ELSE wanted
      <4>2. S \in SUBSET Slots /\ S # {} /\ S \subseteq wanted
        BY <2>2, <4>1
      <4> HIDE DEF S, wanted
      <4>3. First(S) \in S
        BY <4>2, FirstExists
      <4> QED BY <4>2, <4>3 DEF S
    <3>2. target \in Calls /\ k[target].st # "FREE" /\ k \in [Calls -> CoreRecord]
      <4>1. found \in Slots /\ sl[found].call # NoCall
        BY <3>1 DEF Occupied
      <4> HIDE DEF found
      <4> QED BY <4>1 DEF Points
    <3> HIDE DEF target
    <3>3. /\ moved \in Flags /\ Aims(k, moved) /\ Later(w, moved) /\ moved.ui.need
          /\ moved.ui.ticking = w.ui.ticking
      BY <3>2, SwitchedFacts
    <3> HIDE DEF moved, mode
    <3>4. /\ there \in Flags /\ Aims(k, there) /\ Later(moved, there)
          /\ there.ui.need = moved.ui.need /\ there.ui.ticking = moved.ui.ticking
      BY <1>1, <3>3, ShowingFacts
    <3> HIDE DEF there
    <3>5. Later(w, there) /\ there.ui.need /\ there.ui.ticking = w.ui.ticking
      BY <3>3, <3>4, LaterTrans
    <3>6. CASE mode = "INCOMING"
      BY <2>2, <3>4, <3>5, <3>6
    <3>7. CASE mode # "INCOMING"
      <4> DEFINE x == ListUpdated(k, sl, there, b)
      <4>1. /\ x \in Flags /\ Aims(k, x) /\ Later(there, x)
            /\ x.ui.ticking = there.ui.ticking /\ (x = there \/ x.ui.need)
        BY <3>4, ListUpdatedFacts
      <4>2. done = x
        BY <2>2, <3>7
      <4> HIDE DEF x, done
      <4>3. Later(w, x)
        BY <3>5, <4>1, LaterTrans
      <4> QED BY <3>5, <4>1, <4>2, <4>3
    <3> QED BY <3>6, <3>7
  <2> QED BY <2>1, <2>2
<1> DEFINE x == Asks(done, "NONE")
<1>3. v = x
  BY DEF Requested, Asks
<1> HIDE DEF done
<1>4. /\ x \in Flags /\ Aims(k, x) /\ Later(done, x) /\ x.ui.lost = done.ui.lost
      /\ x.ui.view = done.ui.view /\ x.state = done.state /\ Fits(x)
      /\ x.ui.ticking = done.ui.ticking /\ x.ui.need = done.ui.need
  <2>1. "NONE" \in {"NONE", "ACTIVE"}
    OBVIOUS
  <2> QED BY <1>2, <2>1, AsksFacts
<1> HIDE DEF x
<1>5. Later(w, x)
  BY <1>2, <1>4, LaterTrans
<1> QED BY <1>2, <1>3, <1>4, <1>5 DEF Met


LEMMA StartedFacts ==
  ASSUME NEW k, NEW sl, Points(k, sl), NEW w \in Flags, Aims(k, w), NEW b, Served(w, sl)
  PROVE  LET v == Started(k, sl, w, b)
         IN  /\ v \in Flags /\ Aims(k, v) /\ Later(w, v)
             /\ v.ui.ticking = w.ui.ticking
<1> DEFINE v == Started(k, sl, w, b)
<1>1. CASE w.ui.mode # "NONE"
  <2>1. v = Requested(k, sl, w, b)
    BY <1>1 DEF Started
  <2> QED BY <1>1, <2>1, RequestedFacts
<1>2. CASE w.ui.mode = "NONE"
  <2>1. v = Showing(w, "DIALER") /\ "DIALER" \in Views
    BY <1>2 DEF Started, Views
  <2> QED BY <2>1, ShowingFacts
<1> QED BY <1>1, <1>2

LEMMA OverIsDead == Over \subseteq DeadStates
BY DEF Over, DeadStates

\* A resumed applet has its timers running, and its screen is settled.
LEMMA ResumedFacts ==
  ASSUME NEW k, NEW sl, Points(k, sl), NEW w \in Flags, Aims(k, w), NEW b, Served(w, sl)
  PROVE  LET v == Resumed(k, sl, w, b)
         IN  /\ v \in Flags /\ Aims(k, v) /\ Later(w, v)
             /\ v.ui.ticking
             /\ Settled(v, sl) /\ Fits(v)
<1> DEFINE v == Resumed(k, sl, w, b)
           awake == Ticks(w, TRUE)
           calm == Finds(awake)
<1>1. /\ awake \in Flags /\ Aims(k, awake) /\ Later(w, awake)
      /\ awake.ui.ticking = TRUE /\ awake.state = w.state /\ awake.ui.mode = w.ui.mode
  BY TicksFacts
<1>2. v = IF w.ui.mode # "NONE" THEN Requested(k, sl, awake, b)
          ELSE IF w.state \in DeadStates THEN Showing(calm, "DIALER")
          ELSE IF w.state = "INCOMING" THEN Showing(calm, "INCOMING")
          ELSE ListUpdated(k, sl, Showing(calm, "ACTIVE"), b)
  BY DEF Resumed, Ticks, Finds
<1> HIDE DEF awake
<1>3. /\ calm \in Flags /\ Aims(k, calm) /\ Later(w, calm)
      /\ calm.ui.ticking = TRUE /\ calm.state = w.state
  <2>1. /\ calm \in Flags /\ Aims(k, calm) /\ Later(awake, calm)
        /\ calm.ui.ticking = awake.ui.ticking /\ calm.state = awake.state
    BY <1>1, FindsFacts
  <2> HIDE DEF calm
  <2> QED BY <1>1, <2>1, LaterTrans
<1> HIDE DEF calm
<1>4. CASE w.ui.mode # "NONE"
  <2> DEFINE x == Requested(k, sl, awake, b)
  <2>1. /\ x \in Flags /\ Aims(k, x) /\ Later(awake, x) /\ x.ui.ticking = awake.ui.ticking
        /\ x.ui.need \/ (x.ui.lost /\ Met(x, sl))
        /\ Fits(x)
    <3>1. Served(awake, sl)
      BY <1>1 DEF Served
    <3> QED BY <1>1, <1>4, <3>1, RequestedFacts
  <2>2. v = x
    BY <1>2, <1>4
  <2> HIDE DEF x, v
  <2> QED BY <1>1, <2>1, <2>2, LaterTrans DEF Settled, v
<1>5. ASSUME NEW scr \in Views
      PROVE  LET x == Showing(calm, scr)
             IN  /\ x \in Flags /\ Aims(k, x) /\ Later(w, x) /\ x.ui.ticking
                 /\ x.ui.view = scr /\ x.state = w.state
  <2> DEFINE x == Showing(calm, scr)
  <2>1. /\ x \in Flags /\ Aims(k, x) /\ Later(calm, x) /\ x.ui.ticking = calm.ui.ticking
        /\ x.ui.view = scr /\ x.state = calm.state
    BY <1>3, ShowingFacts
  <2> HIDE DEF x
  <2> QED BY <1>3, <2>1, LaterTrans DEF x
<1>6. "DIALER" \in Views /\ "INCOMING" \in Views /\ "ACTIVE" \in Views
  BY DEF Views
<1>7. CASE w.ui.mode = "NONE" /\ w.state \in DeadStates
  <2> DEFINE x == Showing(calm, "DIALER")
  <2>1. v = x
    BY <1>2, <1>7
  <2>2. /\ x \in Flags /\ Aims(k, x) /\ Later(w, x) /\ x.ui.ticking
        /\ x.ui.view = "DIALER" /\ x.state = w.state
    BY <1>5, <1>6
  <2> HIDE DEF x
  <2>3. Agrees(x, sl) /\ Met(x, sl) /\ Fits(x)
    BY <1>7, <2>2 DEF Agrees, Met, Fits, DeadStates
  <2> QED BY <2>1, <2>2, <2>3 DEF Settled
<1>8. CASE w.ui.mode = "NONE" /\ w.state = "INCOMING"
  <2> DEFINE x == Showing(calm, "INCOMING")
  <2>1. v = x
    BY <1>2, <1>8 DEF DeadStates
  <2>2. /\ x \in Flags /\ Aims(k, x) /\ Later(w, x) /\ x.ui.ticking
        /\ x.ui.view = "INCOMING" /\ x.state = w.state
    BY <1>5, <1>6
  <2> HIDE DEF x
  <2>3. Agrees(x, sl) /\ Met(x, sl) /\ Fits(x)
    BY <1>8, <2>2 DEF Agrees, Met, Fits, Over
  <2> QED BY <2>1, <2>2, <2>3 DEF Settled
<1>9. CASE w.ui.mode = "NONE" /\ w.state \notin DeadStates \cup {"INCOMING"}
  <2> DEFINE x == Showing(calm, "ACTIVE")
             y == ListUpdated(k, sl, x, b)
  <2>1. v = y
    BY <1>2, <1>9
  <2>2. /\ x \in Flags /\ Aims(k, x) /\ Later(w, x) /\ x.ui.ticking
        /\ x.ui.view = "ACTIVE" /\ x.state = w.state
    BY <1>5, <1>6
  <2> HIDE DEF x
  <2>3. /\ y \in Flags /\ Aims(k, y) /\ Later(x, y) /\ y.ui.ticking = x.ui.ticking
        /\ y = x \/ y.ui.need
    BY <2>2, ListUpdatedFacts
  <2> HIDE DEF y
  <2>4. Later(w, y)
    BY <2>2, <2>3, LaterTrans
  <2>5. Agrees(x, sl) /\ Met(x, sl)
    BY <1>9, <2>2, OverIsDead DEF Agrees, Met
  <2>6. Fits(y)
    BY <1>9, <2>4 DEF Later, Fits
  <2> QED BY <2>1, <2>2, <2>3, <2>4, <2>5, <2>6 DEF Settled
<1> QED BY <1>4, <1>7, <1>8, <1>9

\* After a launch of the call applet its timers run, and its screen is settled
\* when it was not shown before.
LEMMA LaunchedCall ==
  ASSUME NavInv, NEW k, NEW sl, Points(k, sl), NEW w \in Flags, Aims(k, w),
         shown = Call => w.ui.ticking, Served(w, sl)
  PROVE  LET v == AfterLaunch(k, sl, w, Call)
         IN  /\ v \in Flags /\ Aims(k, v) /\ Later(w, v) /\ v.ui.ticking
             /\ shown # Call => Settled(v, sl) /\ Fits(v)
<1> DEFINE v == AfterLaunch(k, sl, w, Call)
           b == shown = Call
<1>1. CASE phase[Call] = "PAUSED"
  <2>1. v = Resumed(k, sl, w, b)
    BY <1>1 DEF AfterLaunch
  <2> HIDE DEF b
  <2> QED BY <2>1, ResumedFacts
<1>2. CASE phase[Call] # "PAUSED"
  <2>1. v = Started(k, sl, w, b)
    BY <1>2 DEF AfterLaunch
  <2>2. shown = Call /\ w.ui.ticking
    BY <1>2, CallIsPaused
  <2> HIDE DEF b
  <2> QED BY <2>1, <2>2, StartedFacts
<1> QED BY <1>1, <1>2

\* After another applet is launched they do not.
LEMMA LaunchedOther ==
  ASSUME NEW k, NEW sl, NEW w \in Flags, Aims(k, w), NEW a, a # Call
  PROVE  LET v == AfterLaunch(k, sl, w, a)
         IN  /\ v \in Flags /\ Aims(k, v) /\ Later(w, v) /\ v.ui.view = w.ui.view
             /\ IF shown = Call THEN ~v.ui.ticking ELSE v = w
<1> DEFINE v == AfterLaunch(k, sl, w, a)
<1>1. CASE shown = Call
  <2>1. v = Ticks(w, FALSE)
    BY <1>1 DEF AfterLaunch, Paused, Ticks
  <2> QED BY <1>1, <2>1, TicksFacts
<1>2. CASE shown # Call
  <2>1. v = w
    BY <1>2 DEF AfterLaunch
  <2> QED BY <1>2, <2>1 DEF Later
<1> QED BY <1>1, <1>2

\* A return: to the call applet, as any resumption of it; or from it, which
\* stops its timers.
LEMMA ReturnedFacts ==
  ASSUME NavInv, Points(core, slots), NEW w \in Flags, Aims(core, w), Fits(w)
  PROVE  LET v == AfterBack(w)
             to == IF nav = <<>> THEN shown ELSE nav[Len(nav)]
         IN  /\ v \in Flags /\ Aims(core, v) /\ Later(w, v)
             /\ to = Call => v.ui.ticking /\ Settled(v, slots)
             /\ to # Call => /\ v.ui.view = w.ui.view
                             /\ IF shown = Call THEN ~v.ui.ticking ELSE v = w
<1> DEFINE v == AfterBack(w)
           left == IF shown = Call THEN Ticks(w, FALSE) ELSE w
<1>1. /\ left \in Flags /\ Aims(core, left) /\ Later(w, left) /\ left.ui.view = w.ui.view
      /\ left.state = w.state
      /\ IF shown = Call THEN ~left.ui.ticking ELSE left = w
  <2>1. CASE shown = Call
    <3>1. left = Ticks(w, FALSE)
      BY <2>1
    <3> QED BY <2>1, <3>1, TicksFacts
  <2>2. CASE shown # Call
    BY <2>2 DEF Later
  <2> QED BY <2>1, <2>2
<1>2. v = IF nav # <<>> /\ nav[Len(nav)] = Call
            THEN Resumed(core, slots, left, shown = Call)
          ELSE IF nav # <<>> THEN left ELSE w
  BY DEF AfterBack, Paused, Ticks
<1> HIDE DEF left
<1>3. CASE nav = <<>>
  <2>1. shown # Call /\ v = w
    BY <1>2, <1>3, CallAppletAssumption DEF NavInv, HomeIsBottom
  <2> QED BY <1>3, <2>1 DEF Later
<1>4. CASE nav # <<>> /\ nav[Len(nav)] # Call
  BY <1>1, <1>2, <1>4
<1>5. CASE nav # <<>> /\ nav[Len(nav)] = Call
  <2> DEFINE b == shown = Call
             x == Resumed(core, slots, left, b)
  <2>1. v = x
    BY <1>2, <1>5
  <2> HIDE DEF b
  <2>2. /\ x \in Flags /\ Aims(core, x) /\ Later(left, x) /\ x.ui.ticking
        /\ Settled(x, slots)
    <3>1. Served(left, slots)
      BY <1>1 DEF Later, Fits, Served
    <3> QED BY <1>1, <3>1, ResumedFacts
  <2> HIDE DEF x
  <2>3. Later(w, x)
    BY <1>1, <2>2, LaterTrans
  <2> QED BY <1>1, <1>5, <2>1, <2>2, <2>3
<1> QED BY <1>3, <1>4, <1>5

-----------------------------------------------------------------------------
(* The manager below the screens: the pointers of the table and of the     *)
(* focus lead to calls of the core.                                        *)

ManagerInv == TypeOK /\ OneSlotPerCall /\ TrackedInv

LEMMA ManagerInit == UiInit => ManagerInv
BY TypeInit, UniqueInit, TrackedInit DEF UiInit, ManagerInv

\* A step of the manager.
LEMMA ManagerStep ==
  ASSUME ManagerInv, [Next]_vars
  PROVE  ManagerInv'
<1>1. ~Silent
  BY CallAppletAssumption
<1>2. TypeOK' /\ OneSlotPerCall'
  BY TypeStep, UniqueStep DEF ManagerInv
<1> QED BY <1>1, <1>2, TrackedStep DEF ManagerInv

LEMMA PointsNow ==
  ASSUME ManagerInv
  PROVE  /\ Points(core, slots)
         /\ \A u \in UiType : /\ Now(u) \in Flags /\ Aims(core, Now(u))
                              /\ Now(u).ui = u /\ Now(u).state = state
                              /\ Now(u).current = current
<1>1. /\ current = NoCall \/ (current \in Calls /\ core[current].st # "FREE")
      /\ \A i \in Slots : slots[i].call # NoCall =>
           slots[i].call \in Calls /\ core[slots[i].call].st # "FREE"
  BY TrackedElim DEF ManagerInv
<1>2. /\ core \in [Calls -> CoreRecord] /\ slots \in SlotTable
      /\ current \in Pointers /\ state \in CallStates /\ peer \in Pointers
  BY DEF ManagerInv, TypeOK, CoreRecord, SlotTable, SlotRecord
<1>3. Points(core, slots)
  BY <1>1, <1>2 DEF Points
<1>4. ASSUME NEW u \in UiType
      PROVE  /\ Now(u) \in Flags /\ Aims(core, Now(u))
             /\ Now(u).ui = u /\ Now(u).state = state /\ Now(u).current = current
  BY <1>1, <1>2 DEF Now, Flags, Aims
<1> QED BY <1>3, <1>4

\* The table that a handler leaves behind, when it points into the core and
\* the handler settles on a call of the core.
LEMMA SettlesFacts ==
  ASSUME TypeOK, NEW v \in Flags, Settles(v), Aims(core', v), Points(core', slots'),
         older' \subseteq Calls \X Calls, rows' \in [Calls -> Seq(RowTypes)],
         Unique(slots'),
         \A i \in Slots : slots'[i].call # NoCall /\ slots'[i].state \in DeadStates =>
                            core'[slots'[i].call].st = "TERMINATED"
  PROVE  /\ ManagerInv' /\ Refocused
         /\ ui' = v.ui /\ state' = v.state /\ current' = v.current
<1>1. /\ ui' = v.ui /\ state' = v.state /\ current' = v.current /\ peer' = v.peer
  BY DEF Settles
<1>2. /\ core' \in [Calls -> CoreRecord] /\ slots' \in SlotTable
      /\ \A i \in Slots : slots'[i].call # NoCall => core'[slots'[i].call].st # "FREE"
  BY DEF Points
<1>3. TypeOK'
  BY <1>1, <1>2 DEF TypeOK, Flags, CoreRecord, SlotTable, SlotRecord
<1>4. OneSlotPerCall'
  BY DEF Unique, OneSlotPerCall
<1>5. TrackedInv'
  BY <1>1, <1>2, TrackedIntro DEF Aims
<1>6. Refocused
  <2>1. v.current # NoCall => core'[v.current].st # "FREE"
    BY DEF Aims
  <2> QED BY <1>1, <2>1, CallManagerAssumption DEF Aims, Refocused
<1> QED BY <1>1, <1>3, <1>4, <1>5, <1>6 DEF ManagerInv

LEMMA TableNow ==
  ASSUME ManagerInv
  PROVE  /\ older \subseteq Calls \X Calls /\ rows \in [Calls -> Seq(RowTypes)]
         /\ Unique(slots)
         /\ \A i \in Slots : slots[i].call # NoCall =>
              /\ slots[i].call \in Calls
              /\ core[slots[i].call].st # "FREE"
              /\ slots[i].state \in DeadStates => core[slots[i].call].st = "TERMINATED"
BY TrackedElim DEF ManagerInv, TypeOK, OneSlotPerCall, Unique

\* A handler that moves no call, only the focus.
LEMMA FocusMoves ==
  ASSUME ManagerInv, UNCHANGED tableVars, NEW v \in Flags, Aims(core, v), Settles(v)
  PROVE  /\ ManagerInv' /\ Refocused
         /\ ui' = v.ui /\ state' = v.state /\ current' = v.current
<1>1. core' = core /\ older' = older /\ slots' = slots /\ rows' = rows
  BY DEF tableVars
<1>2. TypeOK
  BY DEF ManagerInv
<1> QED BY <1>1, <1>2, PointsNow, TableNow, SettlesFacts

\* A call is dialled: the new call is in the core, and the others are as they
\* were but for their hold.
LEMMA DialsFacts ==
  ASSUME ManagerInv, NEW c \in Calls, NEW u \in UAs, Dials(c, u)
  PROVE  /\ Points(core', slots')
         /\ older' \subseteq Calls \X Calls /\ rows' \in [Calls -> Seq(RowTypes)]
         /\ Unique(slots')
         /\ \A i \in Slots : slots'[i].call # NoCall /\ slots'[i].state \in DeadStates =>
                               core'[slots'[i].call].st = "TERMINATED"
         /\ core[c].st = "FREE" /\ core'[c].st = "OUTGOING"
         /\ \A d \in Calls : d # c => core'[d].st = core[d].st
<1> DEFINE k == SetHold(core, HoldTargets(NoCall), TRUE)
<1>1. /\ TypeOK /\ core \in [Calls -> CoreRecord] /\ slots \in SlotTable
      /\ "OUTGOING" \in CoreStates /\ "OUTGOING" \in CallStates /\ "OUTGOING" \notin DeadStates
      /\ c \in Pointers
  BY DEF ManagerInv, TypeOK, CoreRecord, SlotTable, SlotRecord, CoreStates, CallStates,
         DeadStates, Pointers
<1>2. k \in [Calls -> CoreRecord] /\ \A d \in Calls : k[d].st = core[d].st
  BY <1>1, HoldType
<1>3. Allocate(k, c, u, "OUTGOING") /\ slots' = AddOrUpdate(slots, c, "OUTGOING", c)
  BY DEF Dials
<1>4. core[c].st = "FREE"
  BY <1>3 DEF Allocate
<1> HIDE DEF k
<1>5. /\ core' \in [Calls -> CoreRecord] /\ older' \subseteq Calls \X Calls
      /\ rows' \in [Calls -> Seq(RowTypes)] /\ core'[c].st = "OUTGOING"
      /\ \A d \in Calls : d # c => core'[d] = k[d]
  BY <1>1, <1>2, <1>3, AllocateType
<1>6. slots' \in SlotTable /\ Unique(slots')
  BY <1>1, <1>3, UpdateType, UpdateUnique, TableNow
<1>7. ASSUME NEW i \in Slots, slots'[i].call # NoCall
      PROVE  /\ slots'[i].call \in Calls /\ core'[slots'[i].call].st # "FREE"
             /\ slots'[i].state \in DeadStates => core'[slots'[i].call].st = "TERMINATED"
  <2>1. CASE slots'[i] = [call |-> c, state |-> "OUTGOING", peer |-> c]
    BY <1>1, <1>5, <2>1
  <2>2. CASE slots'[i] = slots[i]
    <3>1. /\ slots[i].call \in Calls /\ core[slots[i].call].st # "FREE"
          /\ slots[i].state \in DeadStates => core[slots[i].call].st = "TERMINATED"
      BY <1>7, <2>2, TableNow
    <3>2. core'[slots[i].call].st = core[slots[i].call].st
      BY <1>2, <1>4, <1>5, <3>1
    <3> QED BY <2>2, <3>1, <3>2
  <2> QED BY <1>1, <1>3, <2>1, <2>2, UpdateSlots
<1>8. \A d \in Calls : d # c => core'[d].st = core[d].st
  BY <1>2, <1>5
<1> QED BY <1>4, <1>5, <1>6, <1>7, <1>8 DEF Points

LEMMA DialFailsFacts ==
  ASSUME ManagerInv, DialFails
  PROVE  /\ Points(core', slots')
         /\ older' \subseteq Calls \X Calls /\ rows' \in [Calls -> Seq(RowTypes)]
         /\ Unique(slots')
         /\ \A i \in Slots : slots'[i].call # NoCall /\ slots'[i].state \in DeadStates =>
                               core'[slots'[i].call].st = "TERMINATED"
         /\ \A d \in Calls : core'[d].st = core[d].st
<1>1. core \in [Calls -> CoreRecord] /\ slots \in SlotTable
  BY DEF ManagerInv, TypeOK, CoreRecord, SlotTable, SlotRecord
<1>2. /\ core' = SetHold(core, HoldTargets(NoCall), TRUE)
      /\ older' = older /\ slots' = slots /\ rows' = rows
  BY DEF DialFails
<1>3. core' \in [Calls -> CoreRecord] /\ \A d \in Calls : core'[d].st = core[d].st
  BY <1>1, <1>2, HoldType
<1> QED BY <1>1, <1>2, <1>3, TableNow DEF Points
-----------------------------------------------------------------------------
(* The invariant of the composition.                                       *)

\* Before the call applet is left for the first time its timers run while it
\* is not shown.  They find nothing to do: no call has come, or the launch of
\* the applet that it queued has not yet run.
NeverLeft ==
  shown # Call /\ ui.ticking =>
    /\ ui.view = "DIALER"
    /\ ui.launches = 0 => ~ui.need /\ \A c \in Calls : core[c].st = "FREE"

FlagsInv ==
  /\ ui \in UiType
  /\ ui.launches # 0 => ui.need
  /\ shown = Call => ui.ticking
  /\ state = "ESTABLISHED" => ui.mode # "INCOMING"
  /\ NeverLeft

ScreensInv == ScreenFollowsState /\ EstablishedIsShown

IInv ==
  /\ ManagerInv
  /\ NavInv
  /\ FlagsInv
  /\ ScreensInv

LEMMA IInit == UiInit => IInv
<1> SUFFICES ASSUME UiInit PROVE IInv
  OBVIOUS
<1>1. /\ shown = Home /\ Home # Call
      /\ core = [c \in Calls |-> FreeCall]
      /\ ui = [need |-> FALSE, incoming |-> FALSE, mode |-> "NONE", view |-> "DIALER",
               launches |-> 0, ticking |-> TRUE, lost |-> FALSE]
  BY CallAppletAssumption DEF UiInit, Init
<1>2. \A c \in Calls : core[c].st = "FREE"
  BY <1>1 DEF FreeCall
<1>3. 0 \in 0..LaunchCap
  BY DEF LaunchCap
<1>4. ui \in UiType
  BY <1>1, <1>3 DEF UiType, Views
<1>5. FlagsInv
  BY <1>1, <1>2, <1>4 DEF FlagsInv, NeverLeft
<1>6. ScreensInv
  BY <1>1 DEF ScreensInv, ScreenFollowsState, EstablishedIsShown
<1> QED BY <1>5, <1>6, ManagerInit, NavInit DEF IInv

\* What the listener queued stays queued ...
LEMMA HeardKeeps ==
  ASSUME NEW u \in UiType, NEW s, NEW out, NEW b, u.launches # 0
  PROVE  Heard(u, s, out, b).launches # 0
<1> DEFINE asks == ~b /\ s \in Attends
           launches == IF asks /\ u.launches < LaunchCap THEN u.launches + 1 ELSE u.launches
<1>1. u.launches \in Nat
  BY DEF UiType, LaunchCap
<1>2. launches # 0
  <2> HIDE DEF asks
  <2> QED BY <1>1
<1>3. Heard(u, s, out, b).launches = launches
  BY DEF Heard, UiType
<1> QED BY <1>2, <1>3

\* ... and a call that wants attention queues a launch, unless the call applet
\* is on the display.
LEMMA HeardQueues ==
  ASSUME NEW u \in UiType, NEW s \in Attends, NEW out, shown # Call
  PROVE  Heard(u, s, out, shown = Call).launches # 0
<1> DEFINE launches == IF u.launches < LaunchCap THEN u.launches + 1 ELSE u.launches
           here == shown = Call
           asks == ~here /\ s \in Attends
<1>1. u.launches \in Nat
  BY DEF UiType, LaunchCap
<1>2. launches # 0
  BY <1>1 DEF LaunchCap
<1>3. asks
  OBVIOUS
<1>4. Heard(u, s, out, here).launches
        = IF asks /\ u.launches < LaunchCap THEN u.launches + 1 ELSE u.launches
  BY DEF Heard, UiType
<1>5. Heard(u, s, out, here).launches = launches
  BY <1>3, <1>4
<1> QED BY <1>2, <1>5

\* An event, or a click on a call: the manager takes a step, and its listener
\* hears of it.
LEMMA EventStep ==
  ASSUME IInv, [Next]_vars, UNCHANGED navVars, NEW s, NEW out, NEW b,
         ui' = Heard(ui, s, out, b), state' = s,
         shown # Call /\ ui.ticking => ui'.launches # 0
  PROVE  IInv'
<1>1. ManagerInv' /\ NavInv' /\ shown' = shown
  BY ManagerStep, NavSame DEF IInv, navVars
<1>2. /\ ui' \in UiType /\ ui'.need /\ ui'.view = ui.view /\ ui'.ticking = ui.ticking
      /\ s = "ESTABLISHED" => ui'.mode # "INCOMING"
  BY HeardFacts DEF IInv, FlagsInv
<1>3. FlagsInv'
  BY <1>1, <1>2 DEF IInv, FlagsInv, NeverLeft
<1>4. ScreensInv'
  BY <1>2 DEF ScreensInv, ScreenFollowsState, EstablishedIsShown
<1> QED BY <1>1, <1>3, <1>4 DEF IInv

\* A handler of LVGL, which went from the flags w to the flags v.
LEMMA FlagsStep ==
  ASSUME FlagsInv, NEW w \in Flags, NEW v \in Flags, Later(w, v), ui' = v.ui,
         state' = v.state, Fits(v),
         w.ui.launches # 0 => w.ui.need,
         shown' = Call => v.ui.ticking,
         shown' # Call => ~v.ui.ticking \/ NeverLeft'
  PROVE  FlagsInv'
<1>1. ui' \in UiType
  BY DEF Flags
<1>2. ui'.launches # 0 => ui'.need
  BY DEF Later
<1> QED BY <1>1, <1>2 DEF FlagsInv, NeverLeft, Fits

\* The screen is looked at only when the call applet is shown.
LEMMA ScreenStep ==
  ASSUME NEW v, ui' = v.ui, state' = v.state, shown' # Call \/ Settled(v, slots')
  PROVE  ScreensInv'
BY DEF Settled, Agrees, Met, ScreensInv, ScreenFollowsState, EstablishedIsShown, LiveSlots, Occupied

\* The flags between two handlers.
LEMMA FlagsFit ==
  ASSUME FlagsInv, NEW w, w.ui.mode = ui.mode, w.state = state, NEW sl
  PROVE  Fits(w) /\ Served(w, sl)
BY DEF FlagsInv, Fits, Served

\* A single flag changes.
LEMMA NeedDone ==
  ASSUME NEW u \in UiType
  PROVE  LET x == [u EXCEPT !.need = FALSE]
         IN  /\ x \in UiType /\ ~x.need /\ x.launches = u.launches
             /\ x.ticking = u.ticking /\ x.view = u.view /\ x.mode = u.mode
BY DEF UiType

LEMMA LaunchesDone ==
  ASSUME NEW u \in UiType, NEW n \in 0..LaunchCap
  PROVE  LET x == [u EXCEPT !.launches = n]
         IN  x \in UiType /\ x.need = u.need /\ x.ticking = u.ticking /\ x.mode = u.mode
BY DEF UiType


-----------------------------------------------------------------------------
(* One step of every action.                                               *)

LEMMA RunLaunchStep == ASSUME IInv, RunLaunch PROVE IInv' /\ Refocused
<1>1. PICK n \in {ui.launches - 1, LaunchCap} :
        /\ n = LaunchCap => ui.launches = LaunchCap
        /\ Settles(AfterLaunch(core, slots, Now([ui EXCEPT !.launches = n]), Call))
  BY DEF RunLaunch
<1>2. /\ ui \in UiType /\ ui.launches # 0 /\ ui.launches \in 0..LaunchCap
      /\ ui.need
      /\ UNCHANGED tableVars /\ AM!Launch(Call)
  BY DEF RunLaunch, NoLaunch, IInv, FlagsInv, UiType
<1>3. n \in 0..LaunchCap
  BY <1>1, <1>2 DEF LaunchCap
<1> DEFINE u == [ui EXCEPT !.launches = n]
           w == Now(u)
           v == AfterLaunch(core, slots, w, Call)
<1>4. u \in UiType /\ u.need /\ u.ticking = ui.ticking /\ u.mode = ui.mode
  BY <1>2, <1>3, LaunchesDone
<1>5. Settles(v)
  BY <1>1
<1> HIDE DEF u
<1>6. Points(core, slots) /\ w \in Flags /\ Aims(core, w) /\ w.ui = u /\ w.state = state
  BY <1>4, PointsNow DEF IInv
<1> HIDE DEF w
<1>a. Fits(w) /\ Served(w, slots)
  BY <1>4, <1>6, FlagsFit DEF IInv
<1>7. v \in Flags /\ Aims(core, v) /\ Later(w, v) /\ v.ui.ticking
  BY <1>4, <1>6, <1>a, LaunchedCall DEF IInv, FlagsInv
<1> HIDE DEF v
<1>8. NavInv' /\ shown' = Call
  BY <1>2, NavLaunch DEF IInv, AllApplets
<1>9. ManagerInv' /\ Refocused /\ ui' = v.ui /\ state' = v.state
  BY <1>2, <1>5, <1>7, FocusMoves DEF IInv
<1>10. FlagsInv'
  <2>1. Fits(v)
    BY <1>7, <1>a DEF Later
  <2> QED BY <2>1, <1>4, <1>6, <1>7, <1>8, <1>9, FlagsStep DEF IInv
<1>11. ScreensInv'
  <2>1. Settled(v, slots')
    BY <1>4, <1>6, <1>7 DEF Later, Settled
  <2> QED BY <1>9, <2>1, ScreenStep
<1> QED BY <1>8, <1>9, <1>10, <1>11 DEF IInv

\* The timers have nothing to do unless the call applet is shown.
LEMMA TimersAreOurs == ASSUME IInv, Poll \/ Tick PROVE shown = Call
BY DEF Poll, Tick, NoLaunch, IInv, FlagsInv, NeverLeft

\* A timer of the call applet takes the user back: to another applet, or to the
\* call applet itself.
LEMMA TimerReturns ==
  ASSUME IInv, shown = Call, UNCHANGED tableVars, AM!Back, LiveSlots(slots) = {},
         NEW u \in UiType, u.launches = 0, u.ticking, u.mode = ui.mode, Settles(AfterBack(Now(u)))
  PROVE  IInv' /\ Refocused
<1> DEFINE w == Now(u)
           v == AfterBack(w)
           to == IF nav = <<>> THEN shown ELSE nav[Len(nav)]
<1>1. Points(core, slots) /\ w \in Flags /\ Aims(core, w) /\ w.ui = u /\ w.state = state
  BY PointsNow DEF IInv
<1>2. NavInv' /\ shown' = to
  BY NavBack DEF IInv
<1> HIDE DEF w
<1>a. Fits(w)
  BY <1>1, FlagsFit DEF IInv
<1>3. /\ v \in Flags /\ Aims(core, v) /\ Later(w, v)
      /\ to = Call => v.ui.ticking /\ Settled(v, slots)
      /\ to # Call => ~v.ui.ticking
  BY <1>1, <1>a, ReturnedFacts DEF IInv
<1>4. Settles(v)
  BY DEF w
<1> HIDE DEF v, to
<1>5. ManagerInv' /\ Refocused /\ ui' = v.ui /\ state' = v.state
  BY <1>3, <1>4, FocusMoves DEF IInv
<1>6. FlagsInv'
  <2>1. Fits(v)
    BY <1>a, <1>3 DEF Later
  <2> QED BY <2>1, <1>1, <1>2, <1>3, <1>5, FlagsStep DEF IInv
<1>7. slots' = slots
  BY DEF tableVars
<1>8. ScreensInv'
  BY <1>2, <1>3, <1>5, <1>7, ScreenStep
<1> QED BY <1>2, <1>5, <1>6, <1>8 DEF IInv

\* A timer of the call applet updates the screen, which agrees then with the
\* manager's state, unless another update is pending.
LEMMA TimerShows ==
  ASSUME IInv, shown = Call, UNCHANGED tableVars, UNCHANGED navVars,
         NEW w \in Flags, NEW v \in Flags, Aims(core, v), Later(w, v), Fits(w),
         w.ui.launches = 0, w.ui.ticking, v.ui.ticking, Settles(v),
         Settled(v, slots)
  PROVE  IInv' /\ Refocused
<1>1. NavInv' /\ shown' = Call
  BY NavSame DEF IInv, navVars
<1>2. ManagerInv' /\ Refocused /\ ui' = v.ui /\ state' = v.state
  BY FocusMoves DEF IInv
<1>3. FlagsInv'
  <2>1. Fits(v)
    BY DEF Later
  <2> QED BY <2>1, <1>1, <1>2, FlagsStep DEF IInv
<1>4. slots' = slots
  BY DEF tableVars
<1>5. ScreensInv'
  BY <1>2, <1>4, ScreenStep
<1> QED BY <1>1, <1>2, <1>3, <1>5 DEF IInv

LEMMA PollStep == ASSUME IInv, Poll PROVE IInv' /\ Refocused
<1> DEFINE u == [ui EXCEPT !.need = FALSE]
           w == Now(u)
           over == state \in Over
           rings == state = "INCOMING" \/ (ui.incoming /\ state # "ESTABLISHED")
<1>1. UNCHANGED tableVars /\ ui.launches = 0 /\ ui.ticking /\ ui \in UiType
  BY DEF Poll, NoLaunch, IInv, FlagsInv
<1>2. u \in UiType /\ ~u.need /\ u.launches = 0 /\ u.ticking /\ u.view = ui.view
      /\ u.mode = ui.mode
  BY <1>1, NeedDone
<1>3. shown = Call
  BY TimersAreOurs
<1>4. \/ over /\ LiveSlots(slots) = {} /\ AM!Back /\ Settles(AfterBack(w))
      \/ over /\ LiveSlots(slots) # {} /\ Settles(w) /\ UNCHANGED navVars
      \/ /\ ~over /\ rings /\ UNCHANGED navVars
         /\ Settles(ListUpdated(core, slots, Showing(w, "INCOMING"), shown = Call))
      \/ /\ ~over /\ ~rings /\ UNCHANGED navVars
         /\ Settles(IF state = "OUTGOING" THEN w ELSE Showing(w, "ACTIVE"))
  BY DEF Poll
<1> HIDE DEF u
<1>5. /\ Points(core, slots) /\ w \in Flags /\ Aims(core, w)
      /\ w.ui = u /\ w.state = state
  BY <1>2, PointsNow DEF IInv
<1>6. CASE over /\ LiveSlots(slots) = {} /\ AM!Back /\ Settles(AfterBack(w))
  BY <1>1, <1>2, <1>3, <1>6, TimerReturns
<1> HIDE DEF w
<1>7. Later(w, w) /\ Fits(w)
  BY <1>2, <1>5, FlagsFit DEF Later, IInv
<1>8. CASE over /\ LiveSlots(slots) # {} /\ Settles(w) /\ UNCHANGED navVars
  <2>1. Settled(w, slots)
    BY <1>5, <1>8 DEF Over, Settled, Agrees, Met
  <2> QED BY <1>1, <1>2, <1>3, <1>5, <1>7, <1>8, <2>1, TimerShows
<1>9. CASE /\ ~over /\ rings /\ UNCHANGED navVars
           /\ Settles(ListUpdated(core, slots, Showing(w, "INCOMING"), shown = Call))
  <2> DEFINE b == shown = Call
             x == Showing(w, "INCOMING")
             v == ListUpdated(core, slots, x, b)
  <2>1. "INCOMING" \in Views
    BY DEF Views
  <2>2. /\ x \in Flags /\ Aims(core, x) /\ Later(w, x) /\ x.ui.view = "INCOMING"
        /\ x.ui.ticking = w.ui.ticking /\ x.state = w.state
    BY <1>5, <2>1, ShowingFacts
  <2> HIDE DEF x
  <2>3. /\ v \in Flags /\ Aims(core, v) /\ Later(x, v)
        /\ v.ui.ticking = x.ui.ticking /\ (v = x \/ v.ui.need)
    BY <1>5, <2>2, ListUpdatedFacts
  <2>4. Settles(v)
    BY <1>9 DEF x
  <2> HIDE DEF v
  <2>5. Later(w, v)
    BY <2>2, <2>3, LaterTrans
  <2>6. Settled(v, slots)
    BY <1>5, <1>9, <2>2, <2>3 DEF Settled, Agrees, Met
  <2> QED BY <1>1, <1>2, <1>3, <1>5, <1>7, <1>9, <2>2, <2>3, <2>4, <2>5, <2>6, TimerShows
<1>10. CASE /\ ~over /\ ~rings /\ UNCHANGED navVars
            /\ Settles(IF state = "OUTGOING" THEN w ELSE Showing(w, "ACTIVE"))
  <2>1. CASE state = "OUTGOING"
    <3>1. Settled(w, slots)
      BY <1>5, <1>10, <2>1 DEF Settled, Agrees, Met
    <3> QED BY <1>1, <1>2, <1>3, <1>5, <1>7, <1>10, <2>1, <3>1, TimerShows
  <2>2. CASE state # "OUTGOING"
    <3> DEFINE v == Showing(w, "ACTIVE")
    <3>1. "ACTIVE" \in Views
      BY DEF Views
    <3>2. /\ v \in Flags /\ Aims(core, v) /\ Later(w, v) /\ v.ui.view = "ACTIVE"
          /\ v.ui.ticking = w.ui.ticking /\ v.state = w.state
      BY <1>5, <3>1, ShowingFacts
    <3>3. Settles(v)
      BY <1>10, <2>2
    <3> HIDE DEF v
    <3>4. Settled(v, slots)
      BY <1>5, <1>10, <3>2 DEF Settled, Agrees, Met
    <3> QED BY <1>1, <1>2, <1>3, <1>5, <1>7, <1>10, <3>2, <3>3, <3>4, TimerShows
  <2> QED BY <2>1, <2>2
<1> QED BY <1>4, <1>6, <1>8, <1>9, <1>10

LEMMA TickStep == ASSUME IInv, Tick PROVE IInv' /\ Refocused
<1> DEFINE w == Now(ui)
           b == shown = Call
<1>1. UNCHANGED tableVars /\ ui.launches = 0 /\ ui.ticking /\ ui \in UiType
      /\ ui.view = "ACTIVE"
  BY DEF Tick, NoLaunch, IInv, FlagsInv
<1>2. shown = Call
  BY TimersAreOurs
<1>3. \/ /\ LiveSlots(slots) = {} /\ AM!Back
         /\ Settles(IF nav = <<>> THEN Showing(w, "DIALER") ELSE AfterBack(w))
      \/ /\ LiveSlots(slots) # {} /\ UNCHANGED navVars
         /\ Settles(ListUpdated(core, slots, w, b))
  BY DEF Tick
<1>4. /\ Points(core, slots) /\ w \in Flags /\ Aims(core, w)
      /\ w.ui = ui /\ w.state = state
  BY <1>1, PointsNow DEF IInv
<1>5. nav # <<>>
  BY <1>2, CallAppletAssumption DEF IInv, NavInv, HomeIsBottom
<1>6. CASE LiveSlots(slots) = {} /\ AM!Back /\ Settles(AfterBack(w))
  BY <1>1, <1>2, <1>6, TimerReturns
<1> HIDE DEF w
<1>a. Fits(w)
  BY <1>4, FlagsFit DEF IInv
<1>7. CASE LiveSlots(slots) # {} /\ UNCHANGED navVars /\ Settles(ListUpdated(core, slots, w, b))
  <2> DEFINE v == ListUpdated(core, slots, w, b)
  <2>1. /\ v \in Flags /\ Aims(core, v) /\ Later(w, v)
        /\ v.ui.ticking = w.ui.ticking /\ (v = w \/ v.ui.need)
    BY <1>4, ListUpdatedFacts
  <2>2. Settles(v)
    BY <1>7
  <2> HIDE DEF v
  <2>3. Settled(v, slots)
    BY <1>1, <1>2, <1>4, <2>1
       DEF IInv, ScreensInv, ScreenFollowsState, NoLaunch, Settled, Agrees, Met
  <2> QED BY <1>1, <1>2, <1>4, <1>7, <1>a, <2>1, <2>2, <2>3, TimerShows
<1> QED BY <1>3, <1>5, <1>6, <1>7

LEMMA DiallingFacts ==
  ASSUME NEW w \in Flags, NEW c \in Calls, NEW k, k[c].st = "OUTGOING", NEW b
  PROVE  LET v == Dialling(w, c, b)
         IN  /\ v \in Flags /\ Aims(k, v) /\ Later(w, v) /\ v.ui.need
             /\ v.ui.ticking = w.ui.ticking
<1> DEFINE out == TRUE
           v == Dialling(w, c, b)
<1>1. "OUTGOING" \in CallStates
  BY DEF CallStates
<1>2. v = [ui |-> Heard(w.ui, "OUTGOING", out, b), current |-> c,
           state |-> "OUTGOING", peer |-> c]
  BY DEF Dialling
<1> HIDE DEF out, v
<1>3. /\ v \in Flags /\ v.current = c /\ v.state = "OUTGOING"
      /\ v.ui.ticking = w.ui.ticking /\ v.ui.need /\ Later(w, v)
  BY <1>1, <1>2, FocusFlags
<1>4. Aims(k, v)
  BY <1>3 DEF Aims, Told
<1> QED BY <1>3, <1>4 DEF v

\* A handler that dialled, or tried to, ends with the call applet shown.
LEMMA DialEnds ==
  ASSUME IInv, AM!Launch(Call), NEW w \in Flags, NEW v \in Flags, Later(w, v),
         (\E c \in Calls, u \in UAs : Dials(c, u)) \/ DialFails,
         Settles(v), Aims(core', v), v.ui.ticking,
         w.ui.launches # 0 => w.ui.need,
         Settled(v, slots'), Fits(v)
  PROVE  IInv' /\ Refocused
<1>1. NavInv' /\ shown' = Call
  BY NavLaunch DEF IInv, AllApplets
<1>2. ManagerInv' /\ Refocused /\ ui' = v.ui /\ state' = v.state
  <2>1. TypeOK
    BY DEF IInv, ManagerInv
  <2> QED BY <2>1, DialsFacts, DialFailsFacts, SettlesFacts DEF IInv
<1>3. FlagsInv'
  BY <1>1, <1>2, FlagsStep DEF IInv
<1>4. ScreensInv'
  BY <1>2, ScreenStep
<1> QED BY <1>1, <1>2, <1>3, <1>4 DEF IInv

LEMMA DialHereStep ==
  ASSUME IInv, NEW c \in Calls, NEW u \in UAs, DialHere(c, u)
  PROVE  IInv' /\ Refocused
<1> DEFINE w == Now(ui)
           d == Dialling(w, c, TRUE)
           v == Showing(d, "ACTIVE")
<1>1. Dials(c, u) /\ Settles(v) /\ UNCHANGED navVars /\ shown = Call
  BY DEF DialHere, On
<1>2. w \in Flags /\ w.ui = ui /\ w.state = state /\ ui.ticking /\ ui \in UiType
  BY <1>1, PointsNow DEF IInv, FlagsInv
<1> HIDE DEF w
<1>3. core'[c].st = "OUTGOING"
  BY <1>1, DialsFacts DEF IInv
<1>4. d \in Flags /\ Aims(core', d) /\ Later(w, d) /\ d.ui.need /\ d.ui.ticking = w.ui.ticking
  BY <1>2, <1>3, DiallingFacts
<1> HIDE DEF d
<1>5. "ACTIVE" \in Views
  BY DEF Views
<1>6. /\ v \in Flags /\ Aims(core', v) /\ Later(d, v) /\ v.ui.need = d.ui.need
      /\ v.ui.ticking = d.ui.ticking
  BY <1>4, <1>5, ShowingFacts
<1> HIDE DEF v
<1>7. NavInv' /\ shown' = Call
  BY <1>1, NavSame DEF IInv, navVars
<1>8. ManagerInv' /\ Refocused /\ ui' = v.ui /\ state' = v.state
  <2>1. TypeOK
    BY DEF IInv, ManagerInv
  <2> QED BY <1>1, <1>6, <2>1, DialsFacts, SettlesFacts DEF IInv
<1>9. FlagsInv'
  <2>1. Fits(w)
    BY <1>2, FlagsFit DEF IInv
  <2>2. Fits(v)
    BY <1>4, <1>6, <2>1 DEF Later
  <2> QED BY <2>2, <1>2, <1>4, <1>6, <1>7, <1>8, FlagsStep DEF IInv
<1>10. ScreensInv'
  BY <1>4, <1>6, <1>8 DEF ScreensInv, ScreenFollowsState, EstablishedIsShown
<1> QED BY <1>7, <1>8, <1>9, <1>10 DEF IInv

\* A call that cannot be dialled moves no focus.
LEMMA AimsStay ==
  ASSUME NEW w \in Flags, Aims(core, w), \A d \in Calls : core'[d].st = core[d].st
  PROVE  Aims(core', w)
BY DEF Aims, Told

LEMMA DialHereFailsStep == ASSUME IInv, DialHereFails PROVE IInv' /\ Refocused
<1> DEFINE w == Now(ui)
           gone == Losing(w, "ACTIVE")
<1>1. /\ DialFails /\ UNCHANGED navVars /\ shown = Call /\ ui.launches = 0
      /\ Settles(w) \/ Settles(gone)
  BY DEF DialHereFails, On, NoLaunch
<1>2. /\ w \in Flags /\ Aims(core, w) /\ w.ui = ui /\ w.state = state
      /\ ui.ticking /\ ui \in UiType
  BY <1>1, PointsNow DEF IInv, FlagsInv
<1>3. slots' = slots
  BY <1>1 DEF DialFails
<1> HIDE DEF w
<1>4. Aims(core', w)
  BY <1>1, <1>2, DialFailsFacts, AimsStay DEF IInv
<1>5. /\ w \in Flags /\ Aims(core', w) /\ Later(w, w) /\ w.ui.ticking
      /\ Settled(w, slots')
  BY <1>1, <1>2, <1>3, <1>4
     DEF Later, IInv, ScreensInv, ScreenFollowsState, EstablishedIsShown, NoLaunch,
         Settled, Agrees, Met
<1>6. /\ gone \in Flags /\ Aims(core', gone) /\ Later(w, gone) /\ gone.ui.ticking
      /\ Settled(gone, slots')
  <2>1. "ACTIVE" \in Views
    BY DEF Views
  <2>2. /\ gone \in Flags /\ Aims(core', gone) /\ Later(w, gone) /\ gone.ui.lost
        /\ gone.ui.ticking = w.ui.ticking /\ gone.ui.view = "ACTIVE"
    BY <1>2, <1>4, <2>1, LosingFacts
  <2> HIDE DEF gone
  <2> QED BY <1>2, <2>2 DEF Settled, Met
<1> HIDE DEF gone
<1>7. NavInv' /\ shown' = Call
  BY <1>1, NavSame DEF IInv, navVars
<1>8. PICK v \in {w, gone} : Settles(v)
  BY <1>1
<1>9. ManagerInv' /\ Refocused /\ ui' = v.ui /\ state' = v.state
  <2>1. TypeOK
    BY DEF IInv, ManagerInv
  <2> QED BY <1>1, <1>5, <1>6, <1>8, <2>1, DialFailsFacts, SettlesFacts DEF IInv
<1>10. FlagsInv'
  <2>1. Fits(w)
    BY <1>2, FlagsFit DEF IInv
  <2>2. Fits(v)
    BY <1>6, <1>8, <2>1 DEF Later
  <2> QED BY <2>2, <1>1, <1>2, <1>5, <1>6, <1>7, <1>8, <1>9, FlagsStep DEF IInv
<1>11. ScreensInv'
  BY <1>5, <1>6, <1>8, <1>9, ScreenStep
<1> QED BY <1>7, <1>9, <1>10, <1>11 DEF IInv

LEMMA DialFavouriteStep == ASSUME IInv, DialFavourite PROVE IInv' /\ Refocused
<1> DEFINE w == AfterLaunch(core, slots, Now(ui), Call)
<1>1. /\ ui.launches = 0 /\ shown = Home /\ AM!Launch(Call)
      /\ \/ \E c \in Calls, u \in UAs :
              Dials(c, u) /\ Settles(Showing(Dialling(w, c, TRUE), "ACTIVE"))
         \/ DialFails /\ Settles(Losing(w, "ACTIVE"))
  BY DEF DialFavourite, NoLaunch
<1> DEFINE n == Now(ui)
<1>2. n \in Flags /\ Aims(core, n) /\ n.ui = ui /\ n.state = state /\ Points(core, slots)
  BY PointsNow DEF IInv, FlagsInv
<1> HIDE DEF n
<1>3. shown # Call
  BY <1>1, CallAppletAssumption
<1>4. w \in Flags /\ Aims(core, w) /\ Later(n, w) /\ w.ui.ticking /\ Fits(w)
  <2>1. Fits(n) /\ Served(n, slots)
    BY <1>2, FlagsFit DEF IInv
  <2> QED BY <1>2, <1>3, <2>1, LaunchedCall DEF IInv, n
<1>5. w.ui.launches # 0 => w.ui.need
  BY <1>1, <1>2, <1>4 DEF Later
<1> HIDE DEF w
<1>6. "ACTIVE" \in Views
  BY DEF Views
<1>7. ASSUME NEW c \in Calls, NEW u \in UAs,
             Dials(c, u), Settles(Showing(Dialling(w, c, TRUE), "ACTIVE"))
      PROVE  IInv' /\ Refocused
  <2> DEFINE d == Dialling(w, c, TRUE)
             v == Showing(d, "ACTIVE")
  <2>1. core'[c].st = "OUTGOING"
    BY <1>7, DialsFacts DEF IInv
  <2>2. /\ d \in Flags /\ Aims(core', d) /\ d.ui.need /\ d.ui.ticking = w.ui.ticking
        /\ Later(w, d)
    BY <1>4, <2>1, DiallingFacts
  <2> HIDE DEF d
  <2>3. /\ v \in Flags /\ Aims(core', v) /\ Later(d, v) /\ v.ui.ticking = d.ui.ticking
        /\ v.ui.need = d.ui.need
    BY <1>6, <2>2, ShowingFacts
  <2>4. Settles(v)
    BY <1>7 DEF d
  <2> HIDE DEF v
  <2>5. Settled(v, slots') /\ Fits(v)
    BY <1>4, <2>2, <2>3 DEF Settled, Later
  <2> QED BY <1>1, <1>4, <1>7, <2>2, <2>3, <2>4, <2>5, DialEnds
<1>8. CASE DialFails /\ Settles(Losing(w, "ACTIVE"))
  <2> DEFINE v == Losing(w, "ACTIVE")
  <2>1. Aims(core', w)
    BY <1>4, <1>8, DialFailsFacts, AimsStay DEF IInv
  <2>2. /\ v \in Flags /\ Aims(core', v) /\ Later(w, v) /\ v.ui.lost
        /\ v.ui.ticking = w.ui.ticking /\ v.ui.view = "ACTIVE"
    BY <1>4, <1>6, <2>1, LosingFacts
  <2>3. Settles(v)
    BY <1>8
  <2> HIDE DEF v
  <2>4. Settled(v, slots') /\ Fits(v)
    BY <1>4, <2>2 DEF Settled, Met, Later
  <2> QED BY <1>1, <1>4, <1>5, <1>8, <2>2, <2>3, <2>4, DialEnds
<1> QED BY <1>1, <1>7, <1>8

LEMMA DialElsewhereStep == ASSUME IInv, DialElsewhere PROVE IInv' /\ Refocused
<1> DEFINE n == Now(ui)
<1>1. /\ ui.launches = 0 /\ shown \in Others /\ AM!Launch(Call)
      /\ \/ \E c \in Calls, u \in UAs :
              /\ Dials(c, u)
              /\ Settles(AfterLaunch(core', slots', Asks(Dialling(n, c, FALSE), "ACTIVE"), Call))
         \/ /\ DialFails
            /\ Settles(AfterLaunch(core', slots', Asks(n, "ACTIVE"), Call))
  BY DEF DialElsewhere, NoLaunch, Asks
<1>2. n \in Flags /\ Aims(core, n) /\ n.ui = ui
  BY PointsNow DEF IInv, FlagsInv
<1> HIDE DEF n
<1>3. shown # Call
  BY <1>1, CallAppletAssumption
<1>4. Points(core', slots')
  BY <1>1, DialsFacts, DialFailsFacts DEF IInv
\* The rest of the handler, from the flags d at which the call is dialled or not.
<1>5. ASSUME NEW d \in Flags, Aims(core', d)
      PROVE  LET x == Asks(d, "ACTIVE")
                 y == AfterLaunch(core', slots', x, Call)
             IN  /\ y \in Flags /\ Aims(core', y) /\ Later(d, y) /\ y.ui.ticking
                 /\ Settled(y, slots') /\ Fits(y)
  <2> DEFINE x == Asks(d, "ACTIVE")
             y == AfterLaunch(core', slots', x, Call)
  <2>1. x \in Flags /\ Aims(core', x) /\ Later(d, x) /\ Served(x, slots')
    <3>1. "ACTIVE" \in {"NONE", "ACTIVE"}
      OBVIOUS
    <3> QED BY <1>5, <3>1, AsksFacts DEF Served
  <2> HIDE DEF x
  <2>2. /\ y \in Flags /\ Aims(core', y) /\ Later(x, y) /\ y.ui.ticking
        /\ Settled(y, slots') /\ Fits(y)
    BY <1>3, <1>4, <2>1, LaunchedCall DEF IInv
  <2>3. Later(d, y)
    BY <2>1, <2>2, LaterTrans
  <2> QED BY <2>2, <2>3 DEF x
<1>6. ASSUME NEW c \in Calls, NEW u \in UAs, Dials(c, u),
             Settles(AfterLaunch(core', slots', Asks(Dialling(n, c, FALSE), "ACTIVE"), Call))
      PROVE  IInv' /\ Refocused
  <2> DEFINE d == Dialling(n, c, FALSE)
             v == AfterLaunch(core', slots', Asks(d, "ACTIVE"), Call)
  <2>1. core'[c].st = "OUTGOING"
    BY <1>6, DialsFacts DEF IInv
  <2>2. d \in Flags /\ Aims(core', d) /\ d.ui.need
    BY <1>2, <2>1, DiallingFacts
  <2>3. Settles(v)
    BY <1>6
  <2> HIDE DEF d
  <2>4. /\ v \in Flags /\ Aims(core', v) /\ Later(d, v) /\ v.ui.ticking
        /\ Settled(v, slots') /\ Fits(v)
    BY <1>5, <2>2
  <2> HIDE DEF v
  <2> QED BY <1>1, <1>6, <2>2, <2>3, <2>4, DialEnds
<1>7. CASE DialFails /\ Settles(AfterLaunch(core', slots', Asks(n, "ACTIVE"), Call))
  <2> DEFINE v == AfterLaunch(core', slots', Asks(n, "ACTIVE"), Call)
  <2>1. Aims(core', n)
    BY <1>2, <1>7, DialFailsFacts, AimsStay DEF IInv
  <2>2. /\ v \in Flags /\ Aims(core', v) /\ Later(n, v) /\ v.ui.ticking
        /\ Settled(v, slots') /\ Fits(v)
    BY <1>2, <1>5, <2>1
  <2>3. Settles(v)
    BY <1>7
  <2> HIDE DEF v
  <2> QED BY <1>1, <1>2, <1>7, <2>2, <2>3, DialEnds
<1> QED BY <1>1, <1>6, <1>7

LEMMA HomeAsks ==
  ASSUME NEW u \in UiType, NEW mode \in {"NONE", "ACTIVE", "INCOMING"}
  PROVE  LET x == [u EXCEPT !.mode = IF mode = "NONE" THEN @ ELSE mode]
         IN  /\ x \in UiType /\ x.need = u.need /\ x.launches = u.launches
             /\ x.mode = IF mode = "NONE" THEN u.mode ELSE mode
BY DEF UiType

LEMMA OpenFromHomeStep ==
  ASSUME IInv, NEW mode \in {"NONE", "ACTIVE", "INCOMING"}, OpenFromHome(mode)
  PROVE  IInv' /\ Refocused
<1> DEFINE u == [ui EXCEPT !.mode = IF mode = "NONE" THEN @ ELSE mode]
           w == Now(u)
           v == AfterLaunch(core, slots, w, Call)
<1>1. /\ ui.launches = 0 /\ shown = Home /\ AM!Launch(Call) /\ UNCHANGED tableVars
      /\ Settles(v) /\ ui \in UiType /\ ButtonShown(mode)
  BY DEF OpenFromHome, NoLaunch, IInv, FlagsInv
<1>2. /\ u \in UiType /\ u.launches = 0
      /\ u.mode = IF mode = "NONE" THEN ui.mode ELSE mode
  BY <1>1, HomeAsks
<1> HIDE DEF u
<1>3. Points(core, slots) /\ w \in Flags /\ Aims(core, w) /\ w.ui = u /\ w.state = state
  BY <1>2, PointsNow DEF IInv
<1> HIDE DEF w
<1>4. shown # Call
  BY <1>1, CallAppletAssumption
<1>a. Served(w, slots)
  <2>1. CASE mode = "NONE"
    BY <1>2, <1>3, <2>1, FlagsFit DEF IInv
  <2>2. CASE mode = "INCOMING"
    BY <1>1, <2>2 DEF Served, ButtonShown, LiveSlots
  <2>3. CASE mode = "ACTIVE"
    BY <1>2, <1>3, <2>3 DEF Served
  <2> QED BY <2>1, <2>2, <2>3
<1>5. v \in Flags /\ Aims(core, v) /\ Later(w, v) /\ v.ui.ticking /\ Settled(v, slots)
      /\ Fits(v)
  BY <1>3, <1>4, <1>a, LaunchedCall DEF IInv
<1> HIDE DEF v
<1>6. NavInv' /\ shown' = Call
  BY <1>1, NavLaunch DEF IInv, AllApplets
<1>7. ManagerInv' /\ Refocused /\ ui' = v.ui /\ state' = v.state
  BY <1>1, <1>5, FocusMoves DEF IInv
<1>8. FlagsInv'
  BY <1>2, <1>3, <1>5, <1>6, <1>7, FlagsStep DEF IInv
<1>9. ScreensInv'
  <2>1. slots' = slots
    BY <1>1 DEF tableVars
  <2> QED BY <1>5, <1>7, <2>1, ScreenStep
<1> QED BY <1>6, <1>7, <1>8, <1>9 DEF IInv

LEMMA OpenOtherStep ==
  ASSUME IInv, NEW a \in Others, OpenOther(a)
  PROVE  IInv' /\ Refocused
<1> DEFINE w == Now(ui)
           v == AfterLaunch(core, slots, w, a)
<1>1. /\ ui.launches = 0 /\ AM!Launch(a) /\ UNCHANGED tableVars
      /\ Settles(v) /\ ui \in UiType /\ a # Call /\ a \in AllApplets
  BY CallAppletAssumption DEF OpenOther, NoLaunch, IInv, FlagsInv, AllApplets
<1>2. w \in Flags /\ Aims(core, w) /\ w.ui = ui /\ w.state = state
  BY <1>1, PointsNow DEF IInv
<1> HIDE DEF w
<1>3. /\ v \in Flags /\ Aims(core, v) /\ Later(w, v)
      /\ IF shown = Call THEN ~v.ui.ticking ELSE v = w
  BY <1>1, <1>2, LaunchedOther
<1> HIDE DEF v
<1>4. NavInv' /\ shown' = a
  BY <1>1, NavLaunch DEF IInv
<1>5. ManagerInv' /\ Refocused /\ ui' = v.ui /\ state' = v.state
  BY <1>1, <1>3, FocusMoves DEF IInv
<1>6. FlagsInv'
  <2>a. Fits(v)
    BY <1>2, <1>3, FlagsFit DEF IInv, Later
  <2>1. CASE shown = Call
    BY <2>a, <1>1, <1>2, <1>3, <1>4, <1>5, <2>1, FlagsStep DEF IInv
  <2>2. CASE shown # Call
    <3>1. ui' = ui /\ state' = state /\ core' = core /\ shown' # Call
      BY <1>1, <1>2, <1>3, <1>4, <1>5, <2>2 DEF tableVars
    <3>2. NeverLeft'
      BY <2>2, <3>1 DEF IInv, FlagsInv, NeverLeft
    <3> QED BY <3>1, <3>2 DEF IInv, FlagsInv
  <2> QED BY <2>1, <2>2
<1>7. ScreensInv'
  BY <1>1, <1>4 DEF ScreensInv, ScreenFollowsState, EstablishedIsShown
<1> QED BY <1>4, <1>5, <1>6, <1>7 DEF IInv

LEMMA GoBackStep == ASSUME IInv, GoBack PROVE IInv' /\ Refocused
<1> DEFINE w == Now(ui)
           v == AfterBack(w)
           to == IF nav = <<>> THEN shown ELSE nav[Len(nav)]
<1>1. /\ ui.launches = 0 /\ AM!Back /\ UNCHANGED tableVars
      /\ Settles(v) /\ ui \in UiType
  BY DEF GoBack, NoLaunch, IInv, FlagsInv
<1>2. Points(core, slots) /\ w \in Flags /\ Aims(core, w) /\ w.ui = ui /\ w.state = state
  BY <1>1, PointsNow DEF IInv
<1> HIDE DEF w
<1>a. Fits(w)
  BY <1>2, FlagsFit DEF IInv
<1>3. NavInv' /\ shown' = to
  BY <1>1, NavBack DEF IInv
<1>4. /\ v \in Flags /\ Aims(core, v) /\ Later(w, v)
      /\ to = Call => v.ui.ticking /\ Settled(v, slots)
      /\ to # Call => IF shown = Call THEN ~v.ui.ticking ELSE v = w
  BY <1>2, <1>a, ReturnedFacts DEF IInv
<1> HIDE DEF v, to
<1>5. ManagerInv' /\ Refocused /\ ui' = v.ui /\ state' = v.state
  BY <1>1, <1>4, FocusMoves DEF IInv
<1>6. FlagsInv'
  <2>a. Fits(v)
    BY <1>a, <1>4 DEF Later
  <2>1. CASE shown = Call \/ to = Call
    BY <2>a, <1>1, <1>2, <1>3, <1>4, <1>5, <2>1, FlagsStep DEF IInv
  <2>2. CASE shown # Call /\ to # Call
    <3>1. ui' = ui /\ state' = state /\ core' = core /\ shown' # Call
      BY <1>1, <1>2, <1>3, <1>4, <1>5, <2>2 DEF tableVars
    <3>2. NeverLeft'
      BY <2>2, <3>1 DEF IInv, FlagsInv, NeverLeft
    <3> QED BY <3>1, <3>2 DEF IInv, FlagsInv
  <2> QED BY <2>1, <2>2
<1>7. slots' = slots
  BY <1>1 DEF tableVars
<1>8. ScreensInv'
  BY <1>3, <1>4, <1>5, <1>7, ScreenStep
<1> QED BY <1>3, <1>5, <1>6, <1>8 DEF IInv

\* A click that leaves the flags, the focus and the table alone.
LEMMA QuietClick ==
  ASSUME IInv, [Next]_vars, UNCHANGED navVars, UNCHANGED <<ui, state, slots>>,
         shown = Call
  PROVE  IInv'
<1>1. ManagerInv' /\ NavInv' /\ shown' = shown
  BY ManagerStep, NavSame DEF IInv, navVars
<1>2. FlagsInv'
  BY <1>1 DEF IInv, FlagsInv, NeverLeft
<1>3. LiveSlots(slots)' = LiveSlots(slots)
  BY DEF LiveSlots, Occupied
<1>4. ScreensInv'
  BY <1>1, <1>3 DEF IInv, ScreensInv, ScreenFollowsState, EstablishedIsShown, NoLaunch, Occupied
<1> QED BY <1>1, <1>2, <1>4 DEF IInv

LEMMA AnswerClickStep == ASSUME IInv, AnswerClick PROVE IInv'
<1>1. Answer /\ UNCHANGED navVars /\ UNCHANGED <<ui, state, slots>> /\ shown = Call
  BY DEF AnswerClick, Answer, On
<1>2. [Next]_vars
  BY <1>1 DEF Next, ApiNext
<1> QED BY <1>1, <1>2, QuietClick

LEMMA HoldClickStep == ASSUME IInv, HoldClick PROVE IInv'
<1>1. /\ Hold(NoCall) \/ Resume(NoCall)
      /\ UNCHANGED navVars /\ UNCHANGED <<ui, state, slots>> /\ shown = Call
  BY DEF HoldClick, Hold, Resume, On
<1>2. [Next]_vars
  BY <1>1 DEF Next, ApiNext
<1> QED BY <1>1, <1>2, QuietClick

LEMMA HangupClickStep == ASSUME IInv, HangupClick PROVE IInv'
<1> DEFINE out == current' = NoCall \/ core[current'].out
           here == TRUE
<1>1. /\ Hangup /\ UNCHANGED navVars /\ shown = Call
      /\ ui' = Heard(ui, state', out, here)
  BY DEF HangupClick, On
<1>2. [Next]_vars
  BY <1>1 DEF Next, ApiNext
<1> DEFINE s == state'
<1> HIDE DEF out, here, s
<1>3. ui' = Heard(ui, s, out, here) /\ state' = s
  BY <1>1 DEF s
<1> QED BY <1>1, <1>2, <1>3, EventStep

LEMMA CardClickStep == ASSUME IInv, NEW i \in Slots, CardClick(i) PROVE IInv' /\ Refocused
<1> DEFINE w == Now(ui)
           c == slots[i].call
           here == TRUE
           v == Switched(core, w, c, here)
<1>1. /\ ui.launches = 0 /\ shown = Call /\ i \in LiveSlots(slots) /\ Settles(v)
      /\ UNCHANGED tableVars /\ UNCHANGED navVars /\ ui \in UiType /\ ui.ticking
  BY DEF CardClick, On, NoLaunch, IInv, FlagsInv
<1>2. Points(core, slots) /\ w \in Flags /\ Aims(core, w) /\ w.ui = ui /\ w.state = state
  BY <1>1, PointsNow DEF IInv
<1>3. core \in [Calls -> CoreRecord] /\ c \in Calls /\ core[c].st # "FREE"
  BY <1>1, <1>2 DEF LiveSlots, Occupied, Points
<1> HIDE DEF w, c, here
<1>4. /\ v \in Flags /\ Aims(core, v) /\ Later(w, v) /\ v.ui.need
      /\ v.ui.ticking = w.ui.ticking
  BY <1>2, <1>3, SwitchedFacts
<1> HIDE DEF v
<1>5. NavInv' /\ shown' = Call
  BY <1>1, NavSame DEF IInv, navVars
<1>6. ManagerInv' /\ Refocused /\ ui' = v.ui /\ state' = v.state
  BY <1>1, <1>4, FocusMoves DEF IInv
<1>7. FlagsInv'
  <2>1. Fits(v)
    BY <1>2, <1>4, FlagsFit DEF IInv, Later
  <2> QED BY <2>1, <1>1, <1>2, <1>4, <1>5, <1>6, FlagsStep DEF IInv
<1>8. ScreensInv'
  BY <1>4, <1>6 DEF ScreensInv, ScreenFollowsState, EstablishedIsShown
<1> QED BY <1>5, <1>6, <1>7, <1>8 DEF IInv

LEMMA EventsStep == ASSUME IInv, Events PROVE IInv'
<1>1. ui \in UiType
  BY DEF IInv, FlagsInv
\* An event of a call that is in the core: it is not the first that is heard.
<1>2. ASSUME NEW c \in Calls, core[c].st # "FREE", shown # Call, ui.ticking
      PROVE  ui.launches # 0
  BY <1>2 DEF IInv, FlagsInv, NeverLeft
<1> DEFINE here == shown = Call
<1>3. ASSUME NEW c \in Calls, core[c].st # "FREE", NEW s, NEW out,
             [Next]_vars, UNCHANGED navVars, ui' = Heard(ui, s, out, here), state' = s
      PROVE  IInv'
  <2> HIDE DEF here
  <2>1. shown # Call /\ ui.ticking => ui'.launches # 0
    BY <1>1, <1>2, <1>3, HeardKeeps
  <2> QED BY <1>3, <2>1, EventStep
<1>4. ASSUME NEW c \in Calls, NEW u \in UAs, RingingEvent(c, u)
      PROVE  IInv'
  <2> DEFINE out == core'[c].out
             s == "INCOMING"
  <2>1. /\ [Next]_vars /\ UNCHANGED navVars /\ ui' = Heard(ui, s, out, here)
        /\ state' = s
    BY <1>4 DEF RingingEvent, CallIncoming, Notified, Next, CoreNext
  <2>2. s \in Attends
    BY DEF Attends
  <2> HIDE DEF out, s
  <2>3. shown # Call => ui'.launches # 0
    BY <1>1, <2>1, <2>2, HeardQueues
  <2> HIDE DEF here
  <2> QED BY <2>1, <2>3, EventStep
<1>5. ASSUME NEW c \in Calls, NEW s \in Provisional, NEW e \in Provisional,
             ProvisionalEvent(c, s, e)
      PROVE  IInv'
  <2> DEFINE out == core'[c].out
  <2>1. /\ [Next]_vars /\ UNCHANGED navVars /\ ui' = Heard(ui, e, out, here)
        /\ core[c].st # "FREE" /\ state' = e
    BY <1>5 DEF ProvisionalEvent, CallProvisional, Notified, Next, CoreNext
  <2> HIDE DEF out, here
  <2> QED BY <1>3, <2>1
<1>6. ASSUME NEW c \in Calls, EstablishedEvent(c)
      PROVE  IInv'
  <2> DEFINE out == core'[c].out
             s == "ESTABLISHED"
  <2>1. /\ [Next]_vars /\ UNCHANGED navVars /\ ui' = Heard(ui, s, out, here)
        /\ core[c].st # "FREE" /\ state' = s
    BY <1>6 DEF EstablishedEvent, CallEstablished, Notified, Next, CoreNext
  <2> HIDE DEF out, here, s
  <2> QED BY <1>3, <2>1
<1>7. ASSUME NEW c \in Calls, ClosedEvent(c)
      PROVE  IInv'
  <2> DEFINE background == current \notin {c, NoCall}
             idle == state' = "IDLE" /\ ~(background /\ state = "IDLE")
             who == IF idle THEN c ELSE current'
             out == core[who].out
             s == state'
  <2>1. /\ [Next]_vars /\ UNCHANGED navVars /\ ui' = Heard(ui, s, out, here)
        /\ core[c].st # "FREE" /\ state' = s
    BY <1>7 DEF ClosedEvent, CallClosed, InCore, Next, CoreNext
  <2> HIDE DEF out, here, s
  <2> QED BY <1>3, <2>1
<1> QED BY <1>4, <1>5, <1>6, <1>7 DEF Events

LEMMA IStep == ASSUME IInv, [UiNext]_allVars PROVE IInv'
<1>1. CASE Events
  BY <1>1, EventsStep
<1>2. CASE RunLaunch
  BY <1>2, RunLaunchStep
<1>3. CASE Poll
  BY <1>3, PollStep
<1>4. CASE Tick
  BY <1>4, TickStep
<1>5. CASE Clicks
  BY <1>5, DialHereStep, DialHereFailsStep, DialFavouriteStep, DialElsewhereStep, OpenFromHomeStep,
     OpenOtherStep, GoBackStep, AnswerClickStep, HangupClickStep, HoldClickStep,
     CardClickStep DEF Clicks
<1>6. CASE UNCHANGED allVars
  <2>1. UNCHANGED vars /\ UNCHANGED navVars /\ ui' = ui
    BY <1>6 DEF allVars, uiVars
  <2>2. ManagerInv' /\ NavInv' /\ shown' = shown
    BY <2>1, ManagerStep, NavSame DEF IInv, navVars
  <2>3. core' = core /\ slots' = slots /\ state' = state
    BY <2>1 DEF vars
  <2>4. FlagsInv'
    BY <2>1, <2>2, <2>3 DEF IInv, FlagsInv, NeverLeft
  <2>5. LiveSlots(slots)' = LiveSlots(slots)
    BY <2>3 DEF LiveSlots, Occupied
  <2>6. ScreensInv'
    BY <2>1, <2>2, <2>3, <2>5
       DEF IInv, ScreensInv, ScreenFollowsState, EstablishedIsShown, NoLaunch, Occupied
  <2> QED BY <2>2, <2>4, <2>6 DEF IInv
<1> QED BY <1>1, <1>2, <1>3, <1>4, <1>5, <1>6 DEF UiNext

LEMMA IInvariant == UiSpec => []IInv
<1>1. IInv /\ [UiNext]_allVars => IInv'
  BY IStep
<1> QED BY <1>1, IInit, PTL DEF UiSpec

-----------------------------------------------------------------------------
(* The screens.                                                            *)

\* The navigation, the table and the flags of the screens keep their types.
THEOREM ScreensAreTyped == UiSpec => []UiTypeOK
<1>1. IInv => UiTypeOK
  BY SameManager DEF IInv, NavInv, FlagsInv, UiTypeOK
<1> QED BY <1>1, IInvariant, PTL

\* The flag, the state, the view and the table are changed by different
\* handlers, but whenever no update is pending the call applet shows what the
\* manager's state says of the live calls; except from the moment at which the
\* call it was asked for is missing to the next that is heard of a call.
THEOREM ScreenShowsState == UiSpec => []ScreenFollowsState
<1>1. IInv => ScreenFollowsState
  BY DEF IInv, ScreensInv
<1> QED BY <1>1, IInvariant, PTL

\* For any number of calls, a request that was left over, or made for a call that
\* is gone when it is acted on, never takes the screen from a call in progress.
THEOREM EstablishedStaysShown == UiSpec => []EstablishedIsShown
<1>1. IInv => EstablishedIsShown
  BY DEF IInv, ScreensInv
<1> QED BY <1>1, IInvariant, PTL

\* The timers of the call applet leave no applet but the call applet.
THEOREM TimersLeaveOnlyCall == UiSpec => OnlyCallLeaves
<1>1. IInv /\ [UiNext]_allVars
        => [Poll \/ Tick => shown = Call \/ shown' = shown]_allVars
  BY TimersAreOurs
<1> QED BY <1>1, IInvariant, PTL DEF UiSpec, OnlyCallLeaves

-----------------------------------------------------------------------------
(* What was proved of the two managers, each by itself, holds when the     *)
(* call screens drive them.                                                *)

\* A step of the screens is, for the applet manager, one of its own.
LEMMA NavigationStep ==
  ASSUME [UiNext]_allVars
  PROVE  [AMP!Next]_AMP!vars
<1>1. Call \in AllApplets /\ \A a \in Others : a \in AllApplets
  BY DEF AllApplets
<1>2. ASSUME NEW a \in AllApplets, AM!Launch(a)
      PROVE  AMP!Next
  BY <1>2, SameManager DEF AMP!Next
<1>3. AM!Back => AMP!Next
  BY SameManager DEF AMP!Next
<1>4. UNCHANGED navVars => UNCHANGED AMP!vars
  BY DEF navVars, AMP!vars
<1>5. CASE Events
  BY <1>4, <1>5 DEF Events, RingingEvent, ProvisionalEvent, EstablishedEvent, ClosedEvent
<1>6. CASE RunLaunch
  BY <1>1, <1>2, <1>6 DEF RunLaunch
<1>7. CASE Poll
  BY <1>3, <1>4, <1>7 DEF Poll
<1>8. CASE Tick
  BY <1>3, <1>4, <1>8 DEF Tick
<1>9. CASE Clicks
  <2>1. ASSUME NEW c \in Calls, NEW u \in UAs, DialHere(c, u)
        PROVE  UNCHANGED navVars
    BY <2>1 DEF DialHere
  <2>2. CASE DialFavourite \/ DialElsewhere
    BY <1>1, <1>2, <2>2 DEF DialFavourite, DialElsewhere
  <2>3. ASSUME NEW mode \in {"NONE", "ACTIVE", "INCOMING"}, OpenFromHome(mode)
        PROVE  AMP!Next
    BY <1>1, <1>2, <2>3 DEF OpenFromHome
  <2>4. ASSUME NEW a \in Others, OpenOther(a)
        PROVE  AMP!Next
    BY <1>1, <1>2, <2>4 DEF OpenOther
  <2>5. GoBack => AMP!Next
    BY <1>3 DEF GoBack
  <2>6. DialHereFails \/ AnswerClick \/ HangupClick \/ HoldClick
          \/ (\E i \in Slots : CardClick(i))
          => UNCHANGED navVars
    BY DEF DialHereFails, AnswerClick, HangupClick, HoldClick, CardClick
  <2> QED BY <1>4, <1>9, <2>1, <2>2, <2>3, <2>4, <2>5, <2>6 DEF Clicks
<1>10. CASE UNCHANGED allVars
  BY <1>4, <1>10 DEF allVars, uiVars
<1> QED BY <1>5, <1>6, <1>7, <1>8, <1>9, <1>10 DEF UiNext

\* Exactly the applet on the display runs, and each applet of the stack has its
\* screen and waits paused, while timers, launches and clicks take turns.
THEOREM NavigationHolds == UiSpec => [](AM!RunningIsCurrent /\ AM!StackIsReady)
<1>1. IInv => AM!RunningIsCurrent /\ AM!StackIsReady
  BY SameManager DEF IInv, NavInv, AMP!Ready
<1> QED BY <1>1, IInvariant, PTL

\* Until a launch finds the stack full, also the way back that the timers take
\* leads from one applet to another one.
THEOREM WayBackMoves == UiSpec => AM!NoSelfReturnKept
<1>1. IInv /\ IInv' /\ [UiNext]_allVars
        => [AMP!NoSelfReturn /\ ~AMP!Drops => AMP!NoSelfReturn']_AMP!vars
  <2> SUFFICES ASSUME IInv, IInv', [UiNext]_allVars, AMP!NoSelfReturn, ~AMP!Drops
               PROVE  AMP!NoSelfReturn'
    OBVIOUS
  <2>1. AMP!TypeOK /\ AMP!TypeOK'
    BY DEF IInv, NavInv
  <2>2. AMP!NothingYet
    <3>1. shown # NoApplet
      BY CallAppletAssumption DEF IInv, NavInv, AllApplets
    <3> QED BY <3>1 DEF AMP!NothingYet
  <2> QED BY <2>1, <2>2, ManagerAssumed, NavigationStep, AMP!SelfReturnStep
<1>2. AM!NoSelfReturnKept
        <=> [][AMP!NoSelfReturn /\ ~AMP!Drops => AMP!NoSelfReturn']_AMP!vars
  BY DEF AM!NoSelfReturnKept, AM!NoSelfReturn, AM!Path, AM!Drops, AM!vars, AllApplets,
         AMP!NoSelfReturn, AMP!Path, AMP!Drops, AMP!vars
<1> QED BY <1>1, <1>2, IInvariant, PTL DEF UiSpec

\* For the call manager, a step of the screens is a step of its own, one that
\* only moves the focus, or a call that is dialled or not.
LEMMA ManagerShapes ==
  ASSUME [UiNext]_allVars
  PROVE  \/ [Next]_vars
         \/ UNCHANGED tableVars
         \/ \E c \in Calls, u \in UAs : Dials(c, u)
         \/ DialFails
<1>1. CASE Events
  BY <1>1 DEF Events, RingingEvent, ProvisionalEvent, EstablishedEvent, ClosedEvent,
              Next, CoreNext
<1>2. CASE RunLaunch \/ Poll \/ Tick
  BY <1>2 DEF RunLaunch, Poll, Tick
<1>3. CASE Clicks
  <2>1. ASSUME NEW c \in Calls, NEW u \in UAs, DialHere(c, u)
        PROVE  Dials(c, u)
    BY <2>1 DEF DialHere
  <2>2. DialHereFails \/ DialFavourite \/ DialElsewhere
          => (\E c \in Calls, u \in UAs : Dials(c, u)) \/ DialFails
    BY DEF DialHereFails, DialFavourite, DialElsewhere
  <2>3. ASSUME \/ GoBack
               \/ \E mode \in {"NONE", "ACTIVE", "INCOMING"} : OpenFromHome(mode)
               \/ \E a \in Others : OpenOther(a)
               \/ \E i \in Slots : CardClick(i)
        PROVE  UNCHANGED tableVars
    BY <2>3 DEF GoBack, OpenFromHome, OpenOther, CardClick
  <2>4. AnswerClick \/ HangupClick \/ HoldClick => [Next]_vars
    BY DEF AnswerClick, HangupClick, HoldClick, Next, ApiNext
  <2> QED BY <1>3, <2>1, <2>2, <2>3, <2>4 DEF Clicks
<1>4. CASE UNCHANGED allVars
  BY <1>4 DEF allVars
<1> QED BY <1>1, <1>2, <1>3, <1>4 DEF UiNext

\* No pointer of the manager dangles and no call has two slots, although the
\* screens move the focus by the pointers they find in the table.
THEOREM TableHolds == UiSpec => [](TypeOK /\ OneSlotPerCall /\ NoDanglingReference)
<1>1. IInv => TypeOK /\ OneSlotPerCall /\ NoDanglingReference
  BY DEF IInv, ManagerInv, TrackedInv
<1> QED BY <1>1, IInvariant, PTL

LEMMA UiLiveStep ==
  ASSUME IInv, IInv', [UiNext]_allVars, NEW c \in Tracked(slots), Alive(c), Alive(c)'
  PROVE  c \in Tracked(slots')
<1>1. /\ TypeOK /\ TypeOK' /\ OneSlotPerCall /\ TrackedInv /\ ~Silent
      /\ slots \in SlotTable
  BY CallAppletAssumption DEF IInv, ManagerInv, TypeOK, SlotTable, SlotRecord
<1>2. CASE [Next]_vars
  <2>1. CASE slots' = slots
    BY <2>1
  <2>2. CASE slots' # slots
    <3>1. ~UNCHANGED vars
      BY <2>2 DEF vars
    <3> QED BY <1>1, <1>2, <3>1, LiveStep
  <2> QED BY <2>1, <2>2
<1>3. CASE UNCHANGED tableVars \/ DialFails
  BY <1>3 DEF tableVars, DialFails
<1>4. ASSUME NEW d \in Calls, NEW u \in UAs, Dials(d, u)
      PROVE  c \in Tracked(slots')
  <2>1. PICK i \in Slots : slots[i].call = c /\ c # NoCall
    BY DEF Tracked
  <2>2. slots[i].state \notin DeadStates
    BY <1>1, <2>1, TrackedElim DEF Alive
  <2>3. slots' = AddOrUpdate(slots, d, "OUTGOING", d)
    BY <1>4 DEF Dials
  <2>4. slots'[i].call = c
    BY <1>1, <2>1, <2>2, <2>3, UpdateKeeps
  <2> QED BY <2>1, <2>4 DEF Tracked
<1> QED BY <1>2, <1>3, <1>4, ManagerShapes

\* A live call that is in the table stays there, whatever the screens dial,
\* answer, hang up or turn to.
THEOREM LiveCallsStayShown == UiSpec => LiveCallStaysTracked
<1>1. IInv /\ IInv' /\ [UiNext]_allVars
        => [\A c \in Tracked(slots) : Alive(c) /\ Alive(c)' => c \in Tracked(slots')]_vars
  BY UiLiveStep
<1> QED BY <1>1, IInvariant, PTL DEF UiSpec, LiveCallStaysTracked

LEMMA UiRowStep ==
  ASSUME IInv, NoRowYet, [UiNext]_allVars
  PROVE  NoRowYet'
<1>1. /\ TypeOK /\ TrackedInv /\ ~Silent /\ core \in [Calls -> CoreRecord]
      /\ \A d \in Calls : core[d].st # "FREE" => rows[d] = <<>>
  BY CallAppletAssumption DEF IInv, ManagerInv, TypeOK, CoreRecord, NoRowYet, InCore
<1>2. CASE [Next]_vars
  BY <1>1, <1>2, NoRowStep
<1>3. CASE UNCHANGED tableVars
  BY <1>3 DEF tableVars, NoRowYet, InCore
<1>4. ASSUME NEW c \in Calls, NEW u \in UAs, Dials(c, u)
      PROVE  NoRowYet'
  <2> DEFINE k == SetHold(core, HoldTargets(NoCall), TRUE)
  <2>1. k \in [Calls -> CoreRecord]
    BY <1>1, HoldType
  <2>2. Allocate(k, c, u, "OUTGOING")
    BY <1>4 DEF Dials
  <2>a. "OUTGOING" \in CoreStates
    BY DEF CoreStates, CallStates
  <2>3. rows'[c] = <<>> /\ \A d \in Calls : d # c => rows'[d] = rows[d]
    <3> HIDE DEF k
    <3> QED BY <1>1, <2>1, <2>2, <2>a, AllocateType
  <2>4. \A d \in Calls : d # c => core'[d].st = core[d].st
    BY <1>4, DialsFacts DEF IInv
  <2> QED BY <1>1, <2>3, <2>4 DEF NoRowYet, InCore
<1>5. CASE DialFails
  <2>1. rows' = rows /\ \A d \in Calls : core'[d].st = core[d].st
    BY <1>5, DialFailsFacts DEF IInv, DialFails
  <2> QED BY <1>1, <2>1 DEF NoRowYet, InCore
<1> QED BY <1>2, <1>3, <1>4, <1>5, ManagerShapes

\* What is logged of a call when it leaves the core.
LoggedOnce ==
  \A c \in Calls : InCore(c) /\ ~InCore(c)' =>
    /\ Len(rows'[c]) = 1
    /\ core[c].out <=> rows'[c][1] = "OUTGOING"

LEMMA UiLogStep ==
  ASSUME IInv, NoRowYet, [UiNext]_allVars
  PROVE  [LoggedOnce]_vars
<1>1. TypeOK /\ ~Silent
  BY CallAppletAssumption DEF IInv, ManagerInv
<1>2. CASE [Next]_vars
  BY <1>1, <1>2, LogStep DEF LoggedOnce
<1>3. ASSUME \A c \in Calls : core'[c].st = "FREE" => core[c].st = "FREE"
      PROVE  LoggedOnce
  BY <1>3 DEF LoggedOnce, InCore
<1>4. CASE UNCHANGED tableVars
  BY <1>3, <1>4 DEF tableVars
<1>5. ASSUME NEW c \in Calls, NEW u \in UAs, Dials(c, u)
      PROVE  LoggedOnce
  <2>1. core[c].st = "FREE" /\ \A d \in Calls : d # c => core'[d].st = core[d].st
    BY <1>5, DialsFacts DEF IInv
  <2> QED BY <1>3, <2>1
<1>6. CASE DialFails
  BY <1>3, <1>6, DialFailsFacts DEF IInv
<1> QED BY <1>2, <1>4, <1>5, <1>6, ManagerShapes

\* Each call leaves one row in the history, of its direction, also when it was
\* dialled, answered or ended on the call screens.
THEOREM CallsOfTheScreensAreLogged == UiSpec => ClosedIsLogged
<1>1. UiInit => NoRowYet
  BY TrackedInit DEF UiInit
<1>2. IInv /\ NoRowYet /\ [UiNext]_allVars => NoRowYet' /\ [LoggedOnce]_vars
  BY UiRowStep, UiLogStep
<1>3. ClosedIsLogged <=> [][LoggedOnce]_vars
  BY DEF ClosedIsLogged, LoggedOnce
<1> QED BY <1>1, <1>2, <1>3, IInvariant, PTL DEF UiSpec

-----------------------------------------------------------------------------
(* With one account.                                                       *)

OneAccountInv == OrderOK /\ SlotIsFaithful /\ EndedIsCurrent

\* A dialled call is new, in the core and in the table.
LEMMA DialsJoins ==
  ASSUME ManagerInv, NEW c \in Calls, NEW u \in UAs, Dials(c, u)
  PROVE  Joins(c, "OUTGOING")
<1> DEFINE k == SetHold(core, HoldTargets(NoCall), TRUE)
<1>a. "OUTGOING" \in CoreStates \ {"FREE"}
  BY DEF CoreStates, CallStates
<1>1. core \in [Calls -> CoreRecord] /\ TypeOK
  BY DEF ManagerInv, TypeOK, CoreRecord
<1>2. Allocate(k, c, u, "OUTGOING") /\ slots' = AddOrUpdate(slots, c, "OUTGOING", c)
  BY DEF Dials
<1>3. k \in [Calls -> CoreRecord] /\ \A d \in Calls : k[d].st = core[d].st
  BY <1>1, HoldType
<1>4. \A d \in Calls : /\ core[d].hold = TRUE => k[d].hold = TRUE
                       /\ core[d].st = "FREE" => k[d].hold = core[d].hold
  BY <1>1, HoldMore
<1> HIDE DEF k
<1>5. /\ core[c].st = "FREE" /\ core'[c].st = "OUTGOING" /\ OthersStay(c) /\ Holds(c)
      /\ \A d, e \in Calls : <<d, e>> \in older' =>
           <<d, e>> \in older \/ (core[d].st # "FREE" /\ e = c)
  BY <1>a, <1>1, <1>2, <1>3, <1>4, AllocateEnters
<1> QED BY <1>2, <1>5 DEF Joins

LEMMA DialFailsStays ==
  ASSUME ManagerInv, DialFails
  PROVE  Stays
BY DialFailsFacts DEF DialFails, Stays

\* A step of the composition that is none of the manager moves the focus only to
\* a call of the core, with the state of that call.
LEMMA FocusShapes ==
  ASSUME IInv, [UiNext]_allVars
  PROVE  [Next]_vars \/ Refocused
<1>1. CASE Events
  BY <1>1 DEF Events, RingingEvent, ProvisionalEvent, EstablishedEvent, ClosedEvent,
              Next, CoreNext
<1>2. CASE RunLaunch \/ Poll \/ Tick
  BY <1>2, RunLaunchStep, PollStep, TickStep
<1>3. CASE Clicks
  <2>1. AnswerClick \/ HangupClick \/ HoldClick => [Next]_vars
    BY DEF AnswerClick, HangupClick, HoldClick, Next, ApiNext
  <2> QED BY <1>3, <2>1, DialHereStep, DialHereFailsStep, DialFavouriteStep, DialElsewhereStep,
             OpenFromHomeStep, OpenOtherStep, GoBackStep, CardClickStep DEF Clicks
<1>4. CASE UNCHANGED allVars
  BY <1>4 DEF allVars
<1> QED BY <1>1, <1>2, <1>3, <1>4 DEF UiNext

\* The core neither revives nor frees a call in a step that is none of the
\* manager.
LEMMA EndedStay ==
  ASSUME IInv, [UiNext]_allVars, NEW c \in Calls, core[c].st = "TERMINATED"
  PROVE  [Next]_vars \/ core'[c].st = "TERMINATED"
<1>1. CASE UNCHANGED tableVars
  BY <1>1 DEF tableVars
<1>2. CASE DialFails
  BY <1>2, DialFailsFacts DEF IInv
<1>3. ASSUME NEW d \in Calls, NEW u \in UAs, Dials(d, u)
      PROVE  core'[c].st = "TERMINATED"
  BY <1>3, DialsFacts DEF IInv
<1> QED BY <1>1, <1>2, <1>3, ManagerShapes

LEMMA UiEndedStep ==
  ASSUME NumUAs = 1, IInv, OlderOK, EndedIsCurrent, [UiNext]_allVars
  PROVE  EndedIsCurrent'
<1>1. TypeOK /\ TrackedInv /\ ~Silent
  BY CallAppletAssumption DEF IInv, ManagerInv
<1>2. CASE [Next]_vars
  BY <1>1, <1>2, EndedStep
<1>3. CASE ~[Next]_vars
  <2>1. CASE current' = current /\ state' = state
    BY <1>3, <2>1, EndedStay DEF EndedIsCurrent
  <2>2. CASE current' \in Calls /\ state' = Told(core', current')
    BY <2>2 DEF Told, EndedIsCurrent
  <2> QED BY <1>3, <2>1, <2>2, FocusShapes DEF Refocused
<1> QED BY <1>2, <1>3

LEMMA OneAccountStep ==
  ASSUME NumUAs = 1, IInv, IInv', OneAccountInv, [UiNext]_allVars
  PROVE  OneAccountInv'
<1>1. /\ TypeOK /\ TypeOK' /\ OneSlotPerCall /\ TrackedInv /\ ~Silent /\ OlderOK
      /\ EndedIsCurrent'
  BY CallAppletAssumption, UiEndedStep DEF IInv, ManagerInv, OneAccountInv, OrderOK
<1>2. CASE [Next]_vars
  BY <1>1, <1>2, OrderStep, FaithStep DEF OneAccountInv
<1>3. ASSUME Stays
      PROVE  OneAccountInv'
  BY <1>1, <1>3, OrderStays, FaithStays DEF OneAccountInv
<1>4. CASE UNCHANGED tableVars
  BY <1>3, <1>4 DEF tableVars, Stays
<1>5. CASE DialFails
  BY <1>3, <1>5, DialFailsStays DEF IInv
<1>6. ASSUME NEW c \in Calls, NEW u \in UAs, Dials(c, u)
      PROVE  OneAccountInv'
  <2>1. Joins(c, "OUTGOING") /\ "OUTGOING" \in CallStates
    BY <1>6, DialsJoins DEF IInv, CallStates
  <2> QED BY <1>1, <2>1, OrderJoins, FaithJoins DEF OneAccountInv
<1> QED BY <1>2, <1>4, <1>5, <1>6, ManagerShapes

LEMMA OneAccountInvariant == ASSUME NumUAs = 1 PROVE UiSpec => []OneAccountInv
<1>1. UiInit => OneAccountInv
  BY FaithInit DEF UiInit, OneAccountInv
<1>2. IInv /\ IInv' /\ OneAccountInv /\ [UiNext]_allVars => OneAccountInv'
  BY OneAccountStep
<1> QED BY <1>1, <1>2, IInvariant, PTL DEF UiSpec

\* With one account, the cards of the call screens say of each call what the
\* core says of it.
THEOREM CardsAreFaithful == ASSUME NumUAs = 1 PROVE UiSpec => []SlotIsFaithful
<1>1. OneAccountInv => SlotIsFaithful
  BY DEF OneAccountInv
<1> QED BY <1>1, OneAccountInvariant, PTL

LEMMA UiFullStep ==
  ASSUME NumUAs = 1, IInv, OneAccountInv, [UiNext]_allVars,
         NEW c \in Calls, ~InCore(c), InCore(c)'
  PROVE  c \in Tracked(slots') \/ \A i \in Slots : slots'[i].state \notin DeadStates
<1>1. /\ TypeOK /\ TrackedInv /\ ~Silent /\ OrderOK /\ slots \in SlotTable
      /\ core[c].st = "FREE" /\ core'[c].st # "FREE"
  BY CallAppletAssumption DEF IInv, ManagerInv, OneAccountInv, TypeOK, SlotTable, SlotRecord,
                              InCore
<1>2. CASE [Next]_vars
  BY <1>1, <1>2, FullStep
<1>3. ~UNCHANGED tableVars /\ ~DialFails
  BY <1>1, DialFailsFacts DEF tableVars, IInv
<1>4. ASSUME NEW d \in Calls, NEW u \in UAs, Dials(d, u)
      PROVE  c \in Tracked(slots') \/ \A i \in Slots : slots'[i].state \notin DeadStates
  <2>1. d = c /\ slots' = AddOrUpdate(slots, c, "OUTGOING", c)
    BY <1>1, <1>4, DialsFacts DEF IInv, Dials
  <2> QED BY <1>1, <2>1, UpdateMisses
<1> QED BY <1>2, <1>3, <1>4, ManagerShapes

\* With one account, a new call has a card unless each slot of the table holds
\* a live one.
THEOREM NewCallsHaveCards == ASSUME NumUAs = 1 PROVE UiSpec => UntrackedOnlyWhenFull
<1>1. IInv /\ OneAccountInv /\ [UiNext]_allVars
        => [\A c \in Calls : ~InCore(c) /\ InCore(c)' =>
              c \in Tracked(slots') \/ \A i \in Slots : slots'[i].state \notin DeadStates]_vars
  BY UiFullStep
<1> QED BY <1>1, IInvariant, OneAccountInvariant, PTL DEF UiSpec, UntrackedOnlyWhenFull

LEMMA UiUnheldStep ==
  ASSUME NumUAs = 1, IInv, OneAccountInv, FreeIsUnheld, [UiNext]_allVars
  PROVE  FreeIsUnheld'
<1>1. TypeOK /\ TrackedInv /\ OlderOK /\ ~Silent /\ core \in [Calls -> CoreRecord]
  BY CallAppletAssumption DEF IInv, ManagerInv, OneAccountInv, OrderOK, TypeOK, CoreRecord
<1>2. CASE [Next]_vars
  BY <1>1, <1>2, UnheldStep
<1>3. CASE UNCHANGED tableVars
  BY <1>3 DEF tableVars, FreeIsUnheld
<1>4. CASE DialFails
  <2>1. core' = SetHold(core, HoldTargets(NoCall), TRUE)
    BY <1>4 DEF DialFails
  <2>2. \A d \in Calls : core'[d].st = core[d].st
    BY <1>4, DialFailsFacts DEF IInv
  <2> QED BY <1>1, <2>1, <2>2, HoldMore DEF FreeIsUnheld
<1>5. ASSUME NEW c \in Calls, NEW u \in UAs, Dials(c, u)
      PROVE  FreeIsUnheld'
  <2>1. core'[c].st = "OUTGOING" /\ OthersStay(c) /\ Holds(c)
    BY <1>5, DialsJoins DEF IInv, Joins
  <2> QED BY <2>1 DEF OthersStay, Holds, FreeIsUnheld
<1> QED BY <1>2, <1>3, <1>4, <1>5, ManagerShapes

\* Beside the steps of the manager, no step answers a call ...
LEMMA UiAnswerStep ==
  ASSUME NumUAs = 1, IInv, OneAccountInv, [UiNext]_allVars,
         NEW c \in Calls, core[c].st = "INCOMING", core'[c].st = "ANSWERED",
         NEW d \in Calls, d # c, d \in Tracked(slots), core[d].st = "ESTABLISHED"
  PROVE  core'[d].hold = TRUE
<1>1. TypeOK /\ TrackedInv /\ OrderOK /\ SlotIsFaithful /\ ~Silent
  BY CallAppletAssumption DEF IInv, ManagerInv, OneAccountInv
<1>2. CASE [Next]_vars
  BY <1>1, <1>2, AnswerHolds
<1>3. ~UNCHANGED tableVars
  BY DEF tableVars
<1>4. ~DialFails
  BY DialFailsFacts DEF IInv
<1>5. ASSUME NEW e \in Calls, NEW u \in UAs, Dials(e, u)
      PROVE  FALSE
  <2>1. core'[e].st = "OUTGOING" /\ OthersStay(e)
    BY <1>5, DialsJoins DEF IInv, Joins
  <2> QED BY <2>1 DEF OthersStay
<1> QED BY <1>2, <1>3, <1>4, <1>5, ManagerShapes

\* ... or takes one off hold.
LEMMA UiResumeStep ==
  ASSUME NumUAs = 1, IInv, OneAccountInv, FreeIsUnheld, [UiNext]_allVars,
         NEW c \in Calls, core[c].hold = TRUE, core'[c].hold = FALSE, core'[c].st # "FREE",
         NEW d \in Calls, d # c, d \in Tracked(slots), core[d].st \notin {"FREE", "TERMINATED"}
  PROVE  core'[d].hold = TRUE
<1>1. /\ TypeOK /\ TrackedInv /\ OrderOK /\ ~Silent
      /\ core \in [Calls -> CoreRecord]
  BY CallAppletAssumption DEF IInv, ManagerInv, OneAccountInv, TypeOK, CoreRecord
<1>2. CASE [Next]_vars
  BY <1>1, <1>2, ResumeHolds
<1>3. core[c].hold # core'[c].hold
  OBVIOUS
<1>4. ~UNCHANGED tableVars
  BY <1>3 DEF tableVars
<1>5. CASE DialFails
  <2>1. core' = SetHold(core, HoldTargets(NoCall), TRUE)
    BY <1>5 DEF DialFails
  <2>2. core'[c].hold = TRUE
    BY <1>1, <2>1, HoldMore
  <2> QED BY <1>3, <2>2
<1>6. ASSUME NEW e \in Calls, NEW u \in UAs, Dials(e, u)
      PROVE  FALSE
  <2>1. core[e].st = "FREE" /\ Holds(e)
    BY <1>6, DialsJoins DEF IInv, Joins
  <2>2. core[e].hold = FALSE
    BY <2>1 DEF FreeIsUnheld
  <2>3. e # c
    BY <1>3, <2>2
  <2>4. core'[c].hold = TRUE
    BY <2>1, <2>3 DEF Holds
  <2> QED BY <1>3, <2>4
<1> QED BY <1>2, <1>4, <1>5, <1>6, ManagerShapes

\* With one account, one call at a time has the microphone: no click on the call
\* screens answers or resumes a call beside one that is not on hold.
THEOREM ScreensShareTheMicrophone == ASSUME NumUAs = 1 PROVE UiSpec => OthersAreHeld
<1> DEFINE Answered ==
             \A c, d \in Calls :
               /\ core[c].st = "INCOMING" /\ core'[c].st = "ANSWERED"
               /\ d # c /\ d \in Tracked(slots) /\ core[d].st = "ESTABLISHED"
               => core'[d].hold
           Unheld ==
             \A c, d \in Calls :
               /\ core[c].hold /\ ~core'[c].hold /\ Alive(c)'
               /\ d # c /\ d \in Tracked(slots) /\ Alive(d)
               => core'[d].hold
<1>1. IInv /\ IInv' /\ OneAccountInv /\ FreeIsUnheld /\ [UiNext]_allVars
        => [Answered /\ Unheld]_vars
  <2> SUFFICES ASSUME IInv, IInv', OneAccountInv, FreeIsUnheld, [UiNext]_allVars,
                      NEW c \in Calls, NEW d \in Calls, d # c, d \in Tracked(slots)
               PROVE  /\ core[c].st = "INCOMING" /\ core'[c].st = "ANSWERED"
                         /\ core[d].st = "ESTABLISHED" => core'[d].hold
                      /\ core[c].hold /\ ~core'[c].hold /\ Alive(c)' /\ Alive(d)
                         => core'[d].hold
    OBVIOUS
  <2>1. core[c].hold \in BOOLEAN /\ core'[c].hold \in BOOLEAN
    BY DEF IInv, ManagerInv, TypeOK
  <2>2. ASSUME core[c].st = "INCOMING", core'[c].st = "ANSWERED", core[d].st = "ESTABLISHED"
        PROVE  core'[d].hold
    <3>1. core'[d].hold = TRUE
      BY <2>2, UiAnswerStep
    <3> QED BY <3>1, Zenon
  <2>3. ASSUME core[c].hold, ~core'[c].hold, Alive(c)', Alive(d)
        PROVE  core'[d].hold
    <3>1. core[c].hold = TRUE /\ core'[c].hold = FALSE
      BY <2>1, <2>3, Zenon
    <3>2. core'[c].st # "FREE" /\ core[d].st \notin {"FREE", "TERMINATED"}
      BY <2>3 DEF Alive
    <3>3. core'[d].hold = TRUE
      BY <3>1, <3>2, UiResumeStep
    <3> QED BY <3>3, Zenon
  <2> QED BY <2>2, <2>3
<1>2. UiInit => FreeIsUnheld
  BY FaithInit DEF UiInit
<1>3. IInv /\ OneAccountInv /\ FreeIsUnheld /\ [UiNext]_allVars => FreeIsUnheld'
  BY UiUnheldStep
<1> QED BY <1>1, <1>2, <1>3, IInvariant, OneAccountInvariant, PTL DEF UiSpec, OthersAreHeld

-----------------------------------------------------------------------------
\* The display moves as the abstract navigation history does, except for a
\* launch that finds the stack full, although timers of the call applet go back
\* by themselves.
THEOREM ScreensFollowHistory == UiSpec => [][AM!History!NavNext \/ AM!Drops]_<<shown, nav>>
<1>1. IInv /\ [UiNext]_allVars => [AMP!History!NavNext \/ AMP!Drops]_<<shown, nav>>
  <2>1. IInv => AMP!TypeOK
    BY DEF IInv, NavInv
  <2> QED BY <2>1, ManagerAssumed, NavigationStep, AMP!HistoryStep
<1>2. AMP!History!NavNext \/ AMP!Drops => AM!History!NavNext \/ AM!Drops
  BY DEF AM!Drops, AMP!Drops, AllApplets, AM!History!NavNext, AMP!History!NavNext,
         AM!History!Open, AMP!History!Open, AM!History!Return, AMP!History!Return,
         AM!History!Quit, AMP!History!Quit
<1> QED BY <1>1, <1>2, IInvariant, PTL DEF UiSpec

LEMMA UiOrphanStep ==
  ASSUME NumUAs = 1, IInv, OneAccountInv, [UiNext]_allVars,
         current # NoCall, current' = NoCall, NEW i \in Occupied(slots')
  PROVE  slots'[i].state = "TERMINATED"
<1>1. /\ TypeOK /\ OneSlotPerCall /\ TrackedInv /\ OrderOK /\ SlotIsFaithful
      /\ ~Silent /\ ~SessConn
  BY CallAppletAssumption DEF IInv, ManagerInv, OneAccountInv
<1>2. ~Refocused
  BY CallManagerAssumption DEF Refocused
<1>3. [Next]_vars
  BY <1>2, FocusShapes
<1> QED BY <1>1, <1>3, OrphanStep

\* With one account, the manager is left without a call only when each call of
\* the table is over, also when the screens turn to calls of their own accord.
THEOREM NoOrphanOnScreen == ASSUME NumUAs = 1 PROVE UiSpec => NoOrphan
<1>1. IInv /\ OneAccountInv /\ [UiNext]_allVars
        => [current # NoCall /\ current' = NoCall =>
              \A i \in Occupied(slots') : slots'[i].state = "TERMINATED"]_vars
  BY UiOrphanStep
<1> QED BY <1>1, IInvariant, OneAccountInvariant, PTL DEF UiSpec, NoOrphan

LEMMA UiIdleStep ==
  ASSUME NumUAs = 1, IInv, IInv', OneAccountInv, [UiNext]_allVars,
         state # "IDLE", state' = "IDLE", NEW c \in Calls, c = current'
  PROVE  core'[c].st \in {"FREE", "TERMINATED"}
<1>1. /\ TypeOK /\ TypeOK' /\ TrackedInv /\ TrackedInv' /\ OlderOK /\ EndedIsCurrent
      /\ ~Silent
  BY CallAppletAssumption DEF IInv, ManagerInv, OneAccountInv, OrderOK
<1>2. ~Refocused
  <2>1. core'[c].st \in CoreStates
    BY <1>1 DEF TypeOK, CoreRecord
  <2>2. Told(core', c) # "IDLE"
    BY <2>1 DEF Told, CoreStates, CallStates
  <2> QED BY <2>2 DEF Refocused
<1>3. [Next]_vars
  BY <1>2, FocusShapes
<1> QED BY <1>1, <1>3, IdleStep

LEMMA UiQuietStep ==
  ASSUME NumUAs = 1, IInv, IInv', OneAccountInv, [UiNext]_allVars,
         current # NoCall, state # "IDLE", state' = "IDLE"
  PROVE  \/ \A c \in Tracked(slots') : core'[c].st \in {"FREE", "TERMINATED"}
         \/ \E c \in Calls : c = current' /\ core'[c].st \in {"FREE", "TERMINATED"}
<1>1. TypeOK' /\ TrackedInv'
  BY DEF IInv, ManagerInv
<1>2. CASE current' = NoCall
  <2>1. \A i \in Occupied(slots') : slots'[i].state = "TERMINATED"
    BY <1>2, UiOrphanStep
  <2> QED BY <1>1, <2>1, TableIsQuiet
<1>3. CASE current' # NoCall
  <2>1. current' \in Calls
    BY <1>1, <1>3 DEF TypeOK, Pointers
  <2>2. core'[current'].st \in {"FREE", "TERMINATED"}
    BY <2>1, UiIdleStep
  <2> QED BY <2>1, <2>2
<1> QED BY <1>2, <1>3

\* With one account, the state that takes the user from the screen of a call is
\* entered, whatever the screens turn to, only when no call of the table lives or
\* the manager's call was hung up before.
THEOREM IdleScreensAreQuiet == ASSUME NumUAs = 1 PROVE UiSpec => IdleIsQuiet
<1>1. IInv /\ IInv' /\ OneAccountInv /\ [UiNext]_allVars
        => [current # NoCall /\ state # "IDLE" /\ state' = "IDLE" =>
              \/ \A c \in Tracked(slots') : ~Alive(c)'
              \/ \E c \in Calls : c = current' /\ ~Alive(c)']_vars
  BY UiQuietStep DEF Alive
<1> QED BY <1>1, IInvariant, OneAccountInvariant, PTL DEF UiSpec, IdleIsQuiet

=============================================================================
