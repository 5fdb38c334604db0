-------------------------- MODULE AppletManagerProofs --------------------------
(***************************************************************************)
(* For every set of applets and every size of the navigation stack: one    *)
(* applet runs, back finds a screen to show, and the manager moves as the  *)
(* abstract history does while the stack has room.                         *)
(***************************************************************************)
EXTENDS AppletManager, SequenceTheorems, TLAPS

\* The stack after a launch is the stack, or the stack and the applet left.
LEMMA PushedFacts ==
  ASSUME TypeOK, NEW a \in Applets
  PROVE  /\ Pushed(a) \in Seq(Applets)
         /\ Len(Pushed(a)) <= MaxNav
         /\ \A k \in 1..Len(Pushed(a)) :
              \/ k \in 1..Len(nav) /\ Pushed(a)[k] = nav[k]
              \/ /\ current \in Applets \ {a} /\ k = Len(nav) + 1
                 /\ Pushed(a)[k] = current
<1>1. CASE current \notin {a, NoApplet} /\ Len(nav) < MaxNav
  <2>1. current \in Applets /\ nav \in Seq(Applets) /\ Pushed(a) = Append(nav, current)
    BY <1>1 DEF Pushed, TypeOK
  <2>2. Len(nav) \in Nat /\ MaxNav \in Nat
    BY <2>1, AppletManagerAssumption
  <2> QED BY <1>1, <2>1, <2>2
<1>2. CASE ~(current \notin {a, NoApplet} /\ Len(nav) < MaxNav)
  BY <1>2 DEF Pushed, TypeOK
<1> QED BY <1>1, <1>2

\* Going back keeps the rest of the stack as it is.
LEMMA PoppedFacts ==
  ASSUME TypeOK, nav # <<>>
  PROVE  /\ nav[Len(nav)] \in Applets
         /\ Popped \in Seq(Applets)
         /\ Len(Popped) = Len(nav) - 1
         /\ \A k \in 1..Len(Popped) : Popped[k] = nav[k]
<1>1. nav \in Seq(Applets) /\ Len(nav) \in Nat \ {0}
  BY EmptySeq DEF TypeOK
<1>2. \A i \in 1..(Len(nav) - 1) : nav[i] \in Applets
  BY <1>1
<1>3. /\ SubSeq(nav, 1, Len(nav) - 1) \in Seq(Applets)
      /\ Len(SubSeq(nav, 1, Len(nav) - 1)) = Len(nav) - 1
      /\ \A i \in 1..(Len(nav) - 1) : SubSeq(nav, 1, Len(nav) - 1)[i] = nav[i]
  <2> DEFINE n == Len(nav) - 1
  <2>1. 1 \in Int /\ n \in Int /\ n - 1 + 1 = n
    BY <1>1
  <2>2. /\ SubSeq(nav, 1, n) \in Seq(Applets)
        /\ Len(SubSeq(nav, 1, n)) = IF 1 <= n THEN n - 1 + 1 ELSE 0
        /\ \A i \in 1..(n - 1 + 1) : SubSeq(nav, 1, n)[i] = nav[1 + i - 1]
    <3>1. \A i \in 1..n : nav[i] \in Applets
      BY <1>2
    <3> HIDE DEF n
    <3> QED BY <2>1, <3>1, SubSeqProperties
  <2>3. \A i \in 1..n : 1 + i - 1 = i
    BY <2>1
  <2> QED BY <1>1, <2>1, <2>2, <2>3
<1> QED BY <1>1, <1>3 DEF Popped

\* The states of the applets after one takes over are states.
LEMMA FocusFacts ==
  ASSUME NEW ph \in [Applets -> Phases], NEW a \in Applets
  PROVE  /\ Focus(ph, a) \in [Applets -> Phases]
         /\ \A b \in Applets :
              Focus(ph, a)[b] = IF b = a THEN "RUNNING"
                                ELSE IF b = current THEN "PAUSED" ELSE ph[b]
BY DEF Focus, Phases

LEMMA TypeStep ==
  ASSUME TypeOK, [Next]_vars
  PROVE  TypeOK'
<1>1. ASSUME NEW a \in Applets, Launch(a) PROVE TypeOK'
  BY <1>1, PushedFacts, FocusFacts DEF TypeOK, Launch, InitIfNeeded
<1>2. CASE Back
  <2>1. CASE nav = <<>>
    BY <1>2, <2>1 DEF Back, TypeOK
  <2>2. CASE nav # <<>>
    <3>1. Len(nav) \in Nat /\ MaxNav \in Nat /\ Len(nav) <= MaxNav
      BY AppletManagerAssumption DEF TypeOK
    <3> QED BY <1>2, <2>2, <3>1, PoppedFacts, FocusFacts DEF Back, TypeOK
  <2> QED BY <2>1, <2>2
<1>5. CASE Destroy
  <2>1. <<>> \in Seq(Applets) /\ Len(<<>>) <= MaxNav
    BY AppletManagerAssumption
  <2> QED BY <1>5, <2>1 DEF Destroy, TypeOK, Phases
<1>6. CASE UNCHANGED vars
  BY <1>6 DEF TypeOK, vars
<1> QED BY <1>1, <1>2, <1>5, <1>6 DEF Next

\* Every variable keeps its type; nav_depth never passes MAX_NAV_STACK.
THEOREM TypeCorrect == Spec => []TypeOK
<1>1. Init => TypeOK
  <2>1. <<>> \in Seq(Applets) /\ Len(<<>>) <= MaxNav
    BY AppletManagerAssumption
  <2> QED BY <2>1 DEF Init, TypeOK, Phases
<1> QED BY <1>1, TypeStep, PTL DEF Spec

-----------------------------------------------------------------------------
\* An applet has a screen as soon as it is not stopped, and the applets of the
\* stack never are.
Ready ==
  /\ RunningIsCurrent
  /\ StackIsReady
  /\ \A a \in Applets : phase[a] # "STOPPED" => screen[a]

LEMMA ReadyStep ==
  ASSUME TypeOK, Ready, [Next]_vars
  PROVE  Ready'
<1> USE AppletManagerAssumption
<1>1. ASSUME NEW a \in Applets, Launch(a) PROVE Ready'
  <2>1. /\ phase' = Focus(phase, a) /\ nav' = Pushed(a) /\ current' = a
        /\ screen' = [screen EXCEPT ![a] = @ \/ phase[a] = "STOPPED"]
        /\ \A b \in Applets : phase'[b] = IF b = a THEN "RUNNING"
                                       ELSE IF b = current THEN "PAUSED" ELSE phase[b]
    BY <1>1, FocusFacts DEF Launch, InitIfNeeded, TypeOK
  <2>2. /\ \A b \in Applets : screen[b] => screen'[b]
        /\ phase[a] = "STOPPED" => screen'[a]
    <3>1. screen'[a] = (screen[a] \/ phase[a] = "STOPPED")
      BY <2>1, Zenon DEF TypeOK
    <3>2. \A b \in Applets \ {a} : screen'[b] = screen[b]
      BY <2>1, Zenon DEF TypeOK
    <3> QED BY <3>1, <3>2, Zenon
  <2>3. RunningIsCurrent'
    BY <2>1 DEF Ready, RunningIsCurrent
  <2>4. \A b \in Applets : phase'[b] # "STOPPED" => screen'[b]
    BY <2>1, <2>2 DEF Ready, StackIsReady
  <2>5. ASSUME NEW k \in 1..Len(nav')
        PROVE  screen'[nav'[k]] /\ (nav'[k] # a => phase'[nav'[k]] = "PAUSED")
    <3>1. nav'[k] \in Applets
      BY <2>1, PushedFacts DEF TypeOK
    <3>2. CASE k \in 1..Len(nav) /\ nav'[k] = nav[k]
      <4>1. screen[nav[k]] /\ (nav[k] # current => phase[nav[k]] = "PAUSED")
        BY <3>2 DEF Ready, StackIsReady
      <4> QED BY <4>1, <3>1, <3>2, <2>1, <2>2
    <3>3. CASE current \in Applets \ {a} /\ nav'[k] = current
      BY <3>1, <3>3, <2>1, <2>2 DEF Ready, StackIsReady
    <3> QED BY <3>2, <3>3, <2>1, PushedFacts
  <2> QED BY <2>1, <2>3, <2>4, <2>5 DEF Ready, StackIsReady
<1>2. CASE Back
  <2>1. CASE nav = <<>>
    BY <1>2, <2>1 DEF Back, Ready, RunningIsCurrent, StackIsReady
  <2>2. CASE nav # <<>>
    <3> DEFINE prev == nav[Len(nav)]
    <3>1. /\ prev \in Applets /\ Len(nav) \in 1..Len(nav)
      BY <2>2, PoppedFacts, EmptySeq DEF TypeOK
    <3>2. /\ phase' = Focus(phase, prev) /\ nav' = Popped /\ current' = prev
          /\ screen' = screen
      BY <1>2, <2>2 DEF Back
    <3>3. \A b \in Applets : phase'[b] = IF b = prev THEN "RUNNING"
                                      ELSE IF b = current THEN "PAUSED" ELSE phase[b]
      BY <3>1, <3>2, FocusFacts DEF TypeOK
    <3>4. RunningIsCurrent'
      BY <3>2, <3>3 DEF Ready, RunningIsCurrent
    <3>5. screen[prev]
      BY <3>1 DEF Ready, StackIsReady
    <3>6. \A b \in Applets : phase'[b] # "STOPPED" => screen'[b]
      BY <3>2, <3>3, <3>5 DEF Ready, StackIsReady
    <3>7. ASSUME NEW k \in 1..Len(nav')
          PROVE  screen'[nav'[k]] /\ (nav'[k] # prev => phase'[nav'[k]] = "PAUSED")
      <4>1. k \in 1..Len(nav) /\ nav'[k] = nav[k] /\ nav[k] \in Applets
        BY <2>2, <3>2, PoppedFacts DEF TypeOK
      <4> QED BY <4>1, <3>2, <3>3 DEF Ready, StackIsReady
    <3> QED BY <3>2, <3>4, <3>5, <3>6, <3>7 DEF Ready, StackIsReady
  <2> QED BY <2>1, <2>2
<1>4. CASE Destroy
  BY <1>4 DEF Destroy, Ready, RunningIsCurrent, StackIsReady
<1>5. CASE UNCHANGED vars
  BY <1>5 DEF vars, Ready, RunningIsCurrent, StackIsReady
<1> QED BY <1>1, <1>2, <1>4, <1>5 DEF Next

LEMMA ReadyInvariant == Spec => []Ready
<1>1. Init => Ready
  BY AppletManagerAssumption DEF Init, Ready, RunningIsCurrent, StackIsReady
<1>2. TypeOK /\ Ready /\ [Next]_vars => Ready'
  BY ReadyStep
<1> QED BY <1>1, <1>2, TypeCorrect, PTL DEF Spec

\* Exactly the current applet runs, whatever the stack dropped.
THEOREM OneRuns == Spec => []RunningIsCurrent
<1>1. Ready => RunningIsCurrent
  BY DEF Ready
<1> QED BY <1>1, ReadyInvariant, PTL

\* Launch and back never load a missing screen, and each applet of the stack waits
\* paused.
THEOREM BackFindsScreen == Spec => []StackIsReady
<1>1. Ready => StackIsReady
  BY DEF Ready
<1> QED BY <1>1, ReadyInvariant, PTL

-----------------------------------------------------------------------------
\* Appending changes nothing of a sequence but its end.
LEMMA AppendFacts ==
  ASSUME NEW S, NEW q \in Seq(S), NEW e
  PROVE  /\ \A k \in 1..Len(q) : Append(q, e)[k] = q[k]
         /\ Append(q, e)[Len(q) + 1] = e
OBVIOUS

\* The steps of the manager, as far as the display and the stack are concerned.
LEMMA NavigationSteps ==
  ASSUME TypeOK, [Next]_vars
  PROVE  \/ UNCHANGED <<current, nav>>
         \/ \E a \in Applets : /\ current = NoApplet => a = Home
                               /\ current' = a /\ nav' = Pushed(a)
         \/ nav # <<>> /\ current' = nav[Len(nav)] /\ nav' = Popped
         \/ current # NoApplet /\ current' = NoApplet /\ nav' = <<>>
<1>1. ASSUME NEW a \in Applets, Launch(a)
      PROVE  (current = NoApplet => a = Home) /\ current' = a /\ nav' = Pushed(a)
  BY <1>1 DEF Launch
<1>2. Back => UNCHANGED <<current, nav>> \/ (nav # <<>> /\ current' = nav[Len(nav)] /\ nav' = Popped)
  BY DEF Back
<1> QED BY <1>1, <1>2 DEF Next, Destroy, vars

\* Before the first launch there is nothing to go back to.
NothingYet == current = NoApplet => nav = <<>>

LEMMA NothingPast == Spec => []NothingYet
<1>1. Init => NothingYet
  BY DEF Init, NothingYet
<1>2. TypeOK /\ NothingYet /\ [Next]_vars => NothingYet'
  BY NavigationSteps, PoppedFacts, AppletManagerAssumption DEF NothingYet
<1> QED BY <1>1, <1>2, TypeCorrect, PTL DEF Spec

\* Only a launch from a full stack can put the same applet twice in a row on the
\* way back.
LEMMA SelfReturnStep ==
  ASSUME TypeOK, TypeOK', NothingYet, NoSelfReturn, ~Drops, [Next]_vars
  PROVE  NoSelfReturn'
<1> USE AppletManagerAssumption
<1>1. /\ Len(nav) \in Nat
      /\ \A k \in 1..Len(nav) : Path[k] = nav[k]
      /\ Path[Len(nav) + 1] = current
  BY AppendFacts DEF Path, TypeOK
<1>2. /\ Len(nav') \in Nat
      /\ \A k \in 1..Len(nav') : Path'[k] = nav'[k]
      /\ Path'[Len(nav') + 1] = current'
  BY AppendFacts DEF Path, TypeOK
<1>3. CASE UNCHANGED <<current, nav>>
  BY <1>3 DEF NoSelfReturn, Path
<1>4. ASSUME NEW a \in Applets, current' = a, nav' = Pushed(a) PROVE NoSelfReturn'
  <2>1. CASE current \notin {a, NoApplet} /\ Len(nav) < MaxNav
    <3>1. nav' = Append(nav, current) /\ Len(nav') = Len(nav) + 1 /\ nav'[Len(nav) + 1] = current
      BY <2>1, <1>4 DEF Pushed, TypeOK
    <3>2. \A k \in 1..Len(nav) : nav'[k] = nav[k] /\ nav'[k + 1] = Path[k + 1]
      BY <3>1 DEF Path, TypeOK
    <3>3. ASSUME NEW k \in 1..Len(nav') PROVE Path'[k] # Path'[k + 1]
      <4>1. CASE k = Len(nav) + 1
        BY <4>1, <3>1, <2>1, <1>2, <1>4
      <4>2. CASE k \in 1..Len(nav)
        <5>1. Path[k] # Path[k + 1]
          BY <4>2, <2>1 DEF NoSelfReturn
        <5>2. Path'[k] = Path[k] /\ k + 1 \in 1..Len(nav') /\ Path'[k + 1] = nav'[k + 1]
          BY <4>2, <3>1, <3>2, <1>1, <1>2
        <5> QED BY <5>1, <5>2, <4>2, <3>2
      <4> QED BY <4>1, <4>2, <3>1, <1>1
    <3> QED BY <3>3 DEF NoSelfReturn
  <2>2. CASE ~(current \notin {a, NoApplet} /\ Len(nav) < MaxNav)
    <3>1. nav' = nav
      BY <2>2, <1>4 DEF Pushed
    <3>2. CASE current = NoApplet
      BY <3>1, <3>2 DEF NoSelfReturn, NothingYet
    <3>3. CASE current = a
      BY <3>1, <3>3, <1>4 DEF NoSelfReturn, Path
    <3> QED BY <3>1, <3>2, <3>3, <1>4 DEF Drops, TypeOK
  <2> QED BY <2>1, <2>2
<1>5. CASE nav # <<>> /\ current' = nav[Len(nav)] /\ nav' = Popped
  <2>1. Len(nav') = Len(nav) - 1 /\ \A k \in 1..Len(nav') : nav'[k] = nav[k]
    BY <1>5, PoppedFacts
  <2>2. current # NoApplet
    BY <1>5 DEF NothingYet
  <2>3. ASSUME NEW k \in 1..Len(nav') PROVE Path'[k] # Path'[k + 1]
    <3>1. k \in 1..Len(nav) /\ k + 1 \in 1..Len(nav)
      BY <2>1, <1>1
    <3>2. Path'[k] = Path[k]
      BY <3>1, <2>1, <1>1, <1>2
    <3>3. Path'[k + 1] = nav[k + 1]
      <4>1. CASE k = Len(nav')
        BY <4>1, <2>1, <1>2, <1>5, <1>1
      <4>2. CASE k + 1 \in 1..Len(nav')
        BY <4>2, <2>1, <1>2
      <4> QED BY <4>1, <4>2, <1>2
    <3> QED BY <3>1, <3>2, <3>3, <2>2, <1>1 DEF NoSelfReturn
  <2> QED BY <2>3 DEF NoSelfReturn
<1>6. CASE current' = NoApplet /\ nav' = <<>>
  BY <1>6 DEF NoSelfReturn
<1> QED BY <1>3, <1>4, <1>5, <1>6, NavigationSteps

\* Until a launch finds the stack full, going back always changes the display.
THEOREM SelfReturnOnlyByOverflow == Spec => NoSelfReturnKept
<1>1. TypeOK /\ TypeOK' /\ NothingYet /\ [Next]_vars
        => [NoSelfReturn /\ ~Drops => NoSelfReturn']_vars
  BY SelfReturnStep
<1> QED BY <1>1, TypeCorrect, NothingPast, PTL DEF Spec, NoSelfReturnKept

-----------------------------------------------------------------------------
LEMMA HistoryStep ==
  ASSUME TypeOK, [Next]_vars
  PROVE  [History!NavNext \/ Drops]_<<current, nav>>
<1>1. ASSUME NEW a \in Applets, current = NoApplet => a = Home,
             current' = a, nav' = Pushed(a)
      PROVE  (History!NavNext \/ Drops) \/ UNCHANGED <<current, nav>>
  <2>1. CASE current \in {a, NoApplet}
    <3>1. History!Open(a)
      BY <1>1, <2>1 DEF History!Open, Pushed
    <3> QED BY <3>1 DEF History!NavNext
  <2>2. CASE current \notin {a, NoApplet} /\ Len(nav) < MaxNav
    <3>1. History!Open(a)
      BY <1>1, <2>2 DEF History!Open, Pushed
    <3> QED BY <3>1 DEF History!NavNext
  <2>3. CASE current \notin {a, NoApplet} /\ ~(Len(nav) < MaxNav)
    BY <1>1, <2>3 DEF Drops, Pushed, TypeOK
  <2> QED BY <2>1, <2>2, <2>3
<1>2. ASSUME nav # <<>>, current' = nav[Len(nav)], nav' = Popped PROVE History!NavNext
  BY <1>2 DEF History!NavNext, History!Return, Popped
<1>3. ASSUME current # NoApplet, current' = NoApplet, nav' = <<>> PROVE History!NavNext
  BY <1>3 DEF History!NavNext, History!Quit
<1> QED BY <1>1, <1>2, <1>3, NavigationSteps

\* applet_manager_launch(), back() and destroy() do to the
\* display and the stack what the abstract history does, for every size of the
\* stack, except for a launch that finds it full.
THEOREM ManagerImplementsHistory == Spec => ImplementsHistory
<1>1. Init => History!NavInit
  BY DEF Init, History!NavInit
<1> QED BY <1>1, TypeCorrect, HistoryStep, PTL DEF Spec, ImplementsHistory
=============================================================================
