----------------------------- MODULE CallManager -----------------------------
(***************************************************************************)
(* The call tracking of baresip_manager.c, above the calls of the baresip  *)
(* core.                                                                   *)
(*                                                                         *)
(* The core (a library, modelled from how the manager uses it) owns the    *)
(* call objects: it allocates them, moves them through their states and    *)
(* frees them.  The manager keeps pointers to them in g_call_state: one    *)
(* current_call and a table active_calls of MAX_CALLS slots.  Its handlers *)
(* and API functions all run on the re_main thread, so each is one action; *)
(* the listeners they notify only raise flags of the user interface.       *)
(*                                                                         *)
(* A call object is also the name of its peer: peer_uri is represented by  *)
(* the call whose URI it is a copy of.                                     *)
(*                                                                         *)
(* A definition named ...Slip is not part of the model: it is a variant of *)
(* the one after it, with a mistake that a property below detects.         *)
(***************************************************************************)
EXTENDS Integers, Sequences, FiniteSets

CONSTANTS
  Calls,      \* addresses at which the core allocates call objects
  NoCall,     \* the NULL pointer, and the empty peer_uri
  NumUAs,     \* user agents, numbered in the order of uag_list()
  MaxCalls,   \* MAX_CALLS, the slots of active_calls
  Silent,     \* may the core free a call without BEVENT_CALL_CLOSED?
  SessConn,   \* does the core hand INVITEs over as BEVENT_SIPSESS_CONN?
  Provisional \* the provisional states of the calls the peers answer with

ASSUME CallManagerAssumption ==
  /\ NoCall \notin Calls
  /\ NumUAs \in Nat \ {0}
  /\ MaxCalls \in Nat \ {0}
  /\ Silent \in BOOLEAN
  /\ SessConn \in BOOLEAN
  /\ Provisional \subseteq {"RINGING", "EARLY"}

UAs == 1..NumUAs
Slots == 1..MaxCalls
Pointers == Calls \cup {NoCall}

CallStates == {"IDLE", "INCOMING", "OUTGOING", "RINGING", "EARLY",
               "ESTABLISHED", "TERMINATED"}
DeadStates == {"IDLE", "TERMINATED", "UNKNOWN"}
RowTypes == {"INCOMING", "OUTGOING", "MISSED"}

\* ANSWERED: 200 OK sent, call_state() still says INCOMING until the ACK.
CoreStates == (CallStates \ {"IDLE"}) \cup {"FREE", "ANSWERED"}

VARIABLES
  core,     \* core[c]: the object at address c
  older,    \* pairs <<d, c>>: d precedes c in the ua_calls() list of their UA
  state,    \* g_call_state.state
  current,  \* g_call_state.current_call
  peer,     \* g_call_state.peer_uri
  slots,    \* g_call_state.active_calls
  rows      \* rows[c]: types of the history rows written for the call c

coreVars == <<core, older>>
vars == <<core, older, state, current, peer, slots, rows>>

RowCap == 2   \* rows remembered per call

FreeCall == [st |-> "FREE", ua |-> 1, out |-> FALSE, hold |-> FALSE]
EmptySlot == [call |-> NoCall, state |-> "IDLE", peer |-> NoCall]

TypeOK ==
  /\ core \in [Calls -> [st : CoreStates, ua : UAs, out : BOOLEAN,
                         hold : BOOLEAN]]
  /\ older \subseteq Calls \X Calls
  /\ state \in CallStates
  /\ current \in Pointers
  /\ peer \in Pointers
  /\ slots \in [Slots -> [call : Pointers, state : CallStates, peer : Pointers]]
  /\ rows \in [Calls -> Seq(RowTypes)]

Init ==
  /\ core = [c \in Calls |-> FreeCall]
  /\ older = {}
  /\ state = "IDLE"
  /\ current = NoCall
  /\ peer = NoCall
  /\ slots = [i \in Slots |-> EmptySlot]
  /\ rows = [c \in Calls |-> <<>>]

-----------------------------------------------------------------------------
(* The core's lists.  k and o stand for core and older, before or after.   *)

InCore(c) == core[c].st # "FREE"
CallStateSlip(c) == core[c].st
CallState(c) == IF core[c].st = "ANSWERED" THEN "INCOMING" ELSE core[c].st
Alive(c) == core[c].st \notin {"FREE", "TERMINATED"}

UaCalls(k, u) == {c \in Calls : k[c].st # "FREE" /\ k[c].ua = u}

\* ua_call(): the newest call of its user agent.
IsUaCall(k, o, c) ==
  /\ k[c].st # "FREE"
  /\ \A d \in UaCalls(k, k[c].ua) : <<c, d>> \notin o

\* The loop over uag_list() that stops at the first UA whose ua_call() is in S.
ScanUas(k, o, S) ==
  LET hits == {c \in S : IsUaCall(k, o, c)}
      best == {c \in hits : \A d \in hits : k[c].ua <= k[d].ua}
  IN  IF best = {} THEN NoCall ELSE CHOOSE c \in best : TRUE

\* The two loops over all UAs and all their calls: the first call that is in S.
ScanCalls(k, o, S) ==
  LET best == {c \in S : \A d \in S : /\ k[c].ua <= k[d].ua
                                      /\ <<d, c>> \notin o}
  IN  IF best = {} THEN NoCall ELSE CHOOSE c \in best : TRUE

\* A new object at address c, the newest of its UA, after the holds in k.
Allocate(k, c, u, s) ==
  /\ core[c].st = "FREE"
  /\ core' = [k EXCEPT ![c] = [FreeCall EXCEPT !.st = s, !.ua = u,
                                               !.out = (s = "OUTGOING")]]
  /\ older' = older \cup {<<d, c>> : d \in UaCalls(core, u)}
  /\ rows' = [rows EXCEPT ![c] = <<>>]

Release(c) ==
  /\ core' = [core EXCEPT ![c] = FreeCall]
  /\ older' = {p \in older : p[1] # c /\ p[2] # c}

\* call_hold(c, b) on every call of S; a call without session refuses.
SetHold(k, S, b) ==
  [c \in Calls |-> IF c \in S /\ k[c].st \notin {"FREE", "TERMINATED"}
                     THEN [k[c] EXCEPT !.hold = b] ELSE k[c]]

-----------------------------------------------------------------------------
(* The slot table.                                                         *)

IsFirst(i, S) == i \in S /\ \A j \in S : i <= j
First(S) == CHOOSE i \in S : \A j \in S : i <= j

SlotsOf(sl, c) == {i \in Slots : sl[i].call = c}
Tracked(sl) == {sl[i].call : i \in Slots} \ {NoCall}
Occupied(sl) == {i \in Slots : sl[i].call # NoCall}

IsTargetSlipDouble(sl, c, i) ==
  IF SlotsOf(sl, NoCall) # {} THEN IsFirst(i, SlotsOf(sl, NoCall))
  ELSE IF c \in Tracked(sl) THEN IsFirst(i, SlotsOf(sl, c))
  ELSE IsFirst(i, {j \in Slots : sl[j].state \in DeadStates})

IsTargetSlipEvict(sl, c, i) ==
  IF c \in Tracked(sl) THEN IsFirst(i, SlotsOf(sl, c))
  ELSE IF SlotsOf(sl, NoCall) # {} THEN IsFirst(i, SlotsOf(sl, NoCall))
  ELSE i = 1

IsTargetSlipKeep(sl, c, i) ==
  IF c \in Tracked(sl) THEN IsFirst(i, SlotsOf(sl, c))
  ELSE IsFirst(i, SlotsOf(sl, NoCall))

\* add_or_update_call(): the slot that holds c, else the first empty slot,
\* else the first dead slot, else none.
IsTarget(sl, c, i) ==
  IF c \in Tracked(sl) THEN IsFirst(i, SlotsOf(sl, c))
  ELSE IF SlotsOf(sl, NoCall) # {} THEN IsFirst(i, SlotsOf(sl, NoCall))
  ELSE IsFirst(i, {j \in Slots : sl[j].state \in DeadStates})

AddOrUpdate(sl, c, s, p) ==
  [i \in Slots |-> IF IsTarget(sl, c, i) THEN [call |-> c, state |-> s, peer |-> p]
                                         ELSE sl[i]]

ClearSlotSlip(sl, c) ==
  [i \in Slots |-> IF sl[i].state # "TERMINATED" /\ IsFirst(i, SlotsOf(sl, c))
                     THEN EmptySlot ELSE sl[i]]

ClearSlot(sl, c) ==
  [i \in Slots |-> IF IsFirst(i, SlotsOf(sl, c)) THEN EmptySlot ELSE sl[i]]

MarkTerminatedSlip(sl, c) == sl

MarkTerminated(sl, c) ==
  [i \in Slots |-> IF IsFirst(i, SlotsOf(sl, c))
                     THEN [sl[i] EXCEPT !.state = "TERMINATED"] ELSE sl[i]]

FirstActiveSlip(sl) ==
  LET spoken == {i \in Slots : sl[i].state = "ESTABLISHED"}
  IN  IF spoken = {} THEN EmptySlot ELSE sl[First(spoken)]

\* The slot the manager switches to when its current call goes away.
FirstActive(sl) ==
  IF Occupied(sl) = {} THEN EmptySlot ELSE sl[First(Occupied(sl))]

AddRow(p, t) ==
  IF p = NoCall THEN rows
  ELSE IF Len(rows[p]) >= RowCap THEN rows
  ELSE [rows EXCEPT ![p] = Append(@, t)]

-----------------------------------------------------------------------------
(* Events of the core, each with the case of call_event_handler() it runs. *)

\* BEVENT_CALL_INCOMING.  The scan runs when there is no current call, and
\* replaces the call the event carries.
CallIncoming(c, u) ==
  /\ Allocate(core, c, u, "INCOMING")
  /\ LET call == IF current = NoCall THEN ScanUas(core', older', Calls) ELSE c
     IN  /\ current' = call
         /\ slots' = AddOrUpdate(slots, call, "INCOMING", c)
  /\ state' = "INCOMING"
  /\ peer' = c

\* BEVENT_CALL_RINGING and BEVENT_CALL_PROGRESS: a 180 or 183, with or without
\* media, so the core's state and the event are chosen independently.
CallProvisional(c, s, e) ==
  /\ core[c].st \in {"OUTGOING", "RINGING", "EARLY"}
  /\ core' = [core EXCEPT ![c].st = s]
  /\ state' = e
  /\ slots' = AddOrUpdate(slots, c, e, c)
  /\ UNCHANGED <<older, current, peer, rows>>

\* BEVENT_CALL_ESTABLISHED
CallEstablished(c) ==
  /\ core[c].st \in {"ANSWERED", "OUTGOING", "RINGING", "EARLY"}
  /\ core' = [core EXCEPT ![c].st = "ESTABLISHED"]
  /\ state' = "ESTABLISHED"
  /\ current' = c
  /\ slots' = AddOrUpdate(slots, c, "ESTABLISHED", c)
  /\ UNCHANGED <<older, peer, rows>>

ClosedTypeSlip(c) == IF state = "ESTABLISHED" THEN "INCOMING" ELSE "MISSED"

\* The type of the history row: decided by the global state.
ClosedType(c) ==
  IF core[c].out THEN "OUTGOING"
  ELSE IF state = "ESTABLISHED" THEN "INCOMING" ELSE "MISSED"

SettleSlip(s) == "IDLE"

\* TERMINATED is notified and then reset to IDLE.
Settle(s) == IF s = "TERMINATED" THEN "IDLE" ELSE s

\* BEVENT_CALL_CLOSED; the core frees the call when the handlers return.
CallClosed(c) ==
  /\ InCore(c)
  /\ rows' = AddRow(c, ClosedType(c))
  /\ slots' = ClearSlot(slots, c)
  /\ LET next == FirstActive(slots') IN
     \/ /\ current = c
        /\ current' = next.call
        /\ state' = IF next.call = NoCall THEN "IDLE" ELSE Settle(next.state)
        /\ peer' = IF next.call = NoCall THEN peer ELSE next.peer
     \/ /\ current \notin {c, NoCall}
        /\ state' = Settle(state)
        /\ UNCHANGED <<current, peer>>
     \/ /\ current = NoCall
        /\ state' = "IDLE"
        /\ UNCHANGED <<current, peer>>
  /\ Release(c)

\* A call freed without an event, the case check_call_watchdog() is there for.
CallVanishes(c) ==
  /\ Silent
  /\ InCore(c)
  /\ Release(c)
  /\ UNCHANGED <<state, current, peer, slots, rows>>

\* BEVENT_SIPSESS_CONN: an INVITE for which there is no call object yet.
SipSessConn ==
  /\ SessConn
  /\ state \in {"IDLE", "INCOMING"}
  /\ LET call == IF current = NoCall THEN ScanUas(core, older, Calls) ELSE NoCall
     IN  /\ current' = call
         /\ peer' = IF call = NoCall THEN peer ELSE call
  /\ state' = "INCOMING"
  /\ UNCHANGED <<core, older, slots, rows>>

-----------------------------------------------------------------------------
(* The API the user interface calls.  A function that reads through a      *)
(* pointer is only modelled while the object is there.                     *)

Readable(S) == \A c \in S \ {NoCall} : InCore(c)

HoldTargetsSlip(exclude) == {current} \ {exclude, NoCall}

\* internal_hold_active_calls(exclude)
HoldTargets(exclude) ==
  {slots[i].call : i \in {j \in Slots : slots[j].state = "ESTABLISHED"}}
    \ {exclude, NoCall}

\* baresip_manager_connect(), when ua_connect() succeeds ...
Connect(c, u) ==
  /\ Readable(HoldTargets(NoCall))
  /\ Allocate(SetHold(core, HoldTargets(NoCall), TRUE), c, u, "OUTGOING")
  /\ current' = c
  /\ slots' = AddOrUpdate(slots, c, "OUTGOING", c)
  /\ peer' = c
  /\ state' = "OUTGOING"

\* ... and when it fails: the other calls stay held.
ConnectFails ==
  /\ Readable(HoldTargets(NoCall))
  /\ core' = SetHold(core, HoldTargets(NoCall), TRUE)
  /\ UNCHANGED <<older, state, current, peer, slots, rows>>

\* baresip_manager_answer_call()
Answer ==
  LET ringing == {c \in Calls : CallState(c) = "INCOMING"}
      call == IF current # NoCall THEN current ELSE ScanUas(core, older, ringing)
      held == SetHold(core, HoldTargets(call), TRUE)
  IN  /\ call # NoCall
      /\ Readable(HoldTargets(call) \cup {call})
      /\ current' = call
      /\ core' = IF core[call].st = "INCOMING"
                   THEN [held EXCEPT ![call].st = "ANSWERED"] ELSE held
      /\ UNCHANGED <<older, state, peer, slots, rows>>

\* baresip_manager_reject_call(ptr): NULL makes it look for a call itself.
Reject(ptr) ==
  LET open == {c \in Calls : CallState(c) \in {"INCOMING", "RINGING", "EARLY",
                                               "ESTABLISHED"}}
      call == IF ptr = NoCall THEN ScanUas(core, older, open) ELSE ptr
  IN  /\ call # NoCall
      /\ Readable({call})
      /\ slots' = MarkTerminated(slots, call)
      /\ core' = [core EXCEPT ![call].st = "TERMINATED"]
      /\ UNCHANGED <<older, state, current, peer, rows>>

\* baresip_manager_hangup()
Hangup ==
  /\ current # NoCall
  /\ Readable({current})
  /\ slots' = MarkTerminated(slots, current)
  /\ core' = [core EXCEPT ![current].st = "TERMINATED"]
  /\ LET next == ScanCalls(core, older, {c \in Calls \ {current} : Alive(c)})
     IN  /\ current' = next
         /\ state' = IF next = NoCall THEN "IDLE" ELSE CallState(next)
         /\ peer' = IF next = NoCall THEN peer ELSE next
  /\ UNCHANGED <<older, rows>>

\* baresip_manager_hold_call(ptr)
Hold(ptr) ==
  LET call == IF ptr = NoCall THEN current ELSE ptr
  IN  /\ call # NoCall
      /\ Readable({call})
      /\ core' = SetHold(core, {call}, TRUE)
      /\ UNCHANGED <<older, state, current, peer, slots, rows>>

\* baresip_manager_resume_call(ptr)
Resume(ptr) ==
  LET call == IF ptr = NoCall THEN current ELSE ptr
  IN  /\ call # NoCall
      /\ Readable(Tracked(slots) \cup {call})
      /\ core' = SetHold(SetHold(core, Tracked(slots) \ {call}, TRUE), {call}, FALSE)
      /\ UNCHANGED <<older, state, current, peer, slots, rows>>

\* baresip_manager_switch_to(ptr)
SwitchTo(ptr) ==
  /\ Readable({ptr})
  /\ current' = ptr
  /\ state' = CallState(ptr)
  /\ peer' = ptr
  /\ UNCHANGED <<core, older, slots, rows>>

-----------------------------------------------------------------------------
(* check_call_watchdog(), every second.  Its first loop removes, slot by   *)
(* slot, the calls that left the core; whenever it removes the current one *)
(* it switches to the first occupied slot, so it ends on the first slot    *)
(* that survives.  The rest is for a current call that is in no slot.      *)

SurvivorsSlip == slots

Survivors == [i \in Slots |-> IF slots[i].call \in Calls /\ ~InCore(slots[i].call)
                                THEN EmptySlot ELSE slots[i]]

WatchdogType == IF state = "INCOMING" THEN "MISSED" ELSE "OUTGOING"

Watchdog ==
  /\ slots' = Survivors
  /\ LET next == FirstActive(slots') IN
     \/ /\ current \in Calls /\ ~InCore(current)
        /\ current' = next.call
        /\ state' = next.state
        /\ rows' = IF current \in Tracked(slots) THEN rows ELSE AddRow(peer, WatchdogType)
     \/ /\ current \in Calls => InCore(current)
        /\ UNCHANGED <<current, state, rows>>
  /\ UNCHANGED <<core, older, peer>>

-----------------------------------------------------------------------------
CoreNext ==
  \/ \E c \in Calls, u \in UAs : CallIncoming(c, u)
  \/ \E c \in Calls, s, e \in Provisional : CallProvisional(c, s, e)
  \/ \E c \in Calls : CallEstablished(c)
  \/ \E c \in Calls : CallClosed(c)
  \/ \E c \in Calls : CallVanishes(c)
  \/ SipSessConn

ApiNext ==
  \/ \E c \in Calls, u \in UAs : Connect(c, u)
  \/ ConnectFails
  \/ Answer
  \/ \E ptr \in Tracked(slots) \cup {NoCall} : Reject(ptr)
  \/ Hangup
  \/ \E ptr \in Tracked(slots) \cup {NoCall} : Hold(ptr)
  \/ \E ptr \in Tracked(slots) \cup {NoCall} : Resume(ptr)
  \/ \E ptr \in Tracked(slots) : SwitchTo(ptr)

Next == CoreNext \/ ApiNext \/ Watchdog

Spec == Init /\ [][Next]_vars

\* The watchdog is a timer that always reschedules itself.
FairSpec == Spec /\ WF_vars(Watchdog)
-----------------------------------------------------------------------------
(* Properties                                                              *)

\* No call occupies two slots of active_calls: add_or_update_call() finds the
\* slot a call has before it takes another, whatever was recycled in between.
OneSlotPerCall ==
  \A i, j \in Slots :
    slots[i].call # NoCall /\ slots[i].call = slots[j].call => i = j

\* Neither active_calls nor current_call points at an object the core has
\* freed: every close clears both before the handlers return.
NoDanglingReference ==
  \A c \in Tracked(slots) \cup ({current} \ {NoCall}) : InCore(c)

\* RINGING and EARLY are one phase: a 180 with media is reported as PROGRESS.
Phase(s) == IF s = "EARLY" THEN "RINGING" ELSE s

\* What get_active_calls() tells the user interface about a call is what the
\* core says of it: no live call is marked dead and no dead one alive, and the
\* URI in the slot is that of the call in the slot.
SlotIsFaithful ==
  \A i \in Occupied(slots) :
    /\ Phase(slots[i].state) = Phase(CallState(slots[i].call))
    /\ slots[i].peer = slots[i].call

\* The manager lets go of its current call without another one only when no
\* live call is left in the table, which nothing could answer or hang up then.
NoOrphan ==
  [][current # NoCall /\ current' = NoCall =>
       \A i \in Occupied(slots') : slots'[i].state = "TERMINATED"]_vars

\* A manager that has a current call becomes IDLE only when no call of its table is
\* alive, or when the call it turns to, or stays with, was hung up before.  (One
\* that has none becomes IDLE whenever a call closes.)
IdleIsQuiet ==
  [][current # NoCall /\ state # "IDLE" /\ state' = "IDLE" =>
       \/ \A c \in Tracked(slots') : ~Alive(c)'
       \/ \E c \in Calls : c = current' /\ ~Alive(c)']_vars

\* A call leaves the core with exactly one history row, of its direction,
\* whether it was hung up, refused, or closed by the peer.
ClosedIsLogged ==
  [][\A c \in Calls : InCore(c) /\ ~InCore(c)' =>
       /\ Len(rows'[c]) = 1
       /\ core[c].out <=> rows'[c][1] = "OUTGOING"]_vars

\* A live call the manager tracks stays in the table until it is terminated or
\* closed: recycling a slot, switching, removing another call never drops it.
LiveCallStaysTracked ==
  [][\A c \in Tracked(slots) : Alive(c) /\ Alive(c)' => c \in Tracked(slots')]_vars

\* A new call is left out of the table only when each slot holds a live one.
UntrackedOnlyWhenFull ==
  [][\A c \in Calls : ~InCore(c) /\ InCore(c)' =>
       c \in Tracked(slots') \/ \A i \in Slots : slots'[i].state \notin DeadStates]_vars

\* Answering puts every other established call of the table on hold, and
\* resuming a call every other live one: one call at a time has the microphone.
OthersAreHeld ==
  [][/\ \A c, d \in Calls :
          /\ core[c].st = "INCOMING" /\ core'[c].st = "ANSWERED"
          /\ d # c /\ d \in Tracked(slots) /\ core[d].st = "ESTABLISHED"
          => core'[d].hold
     /\ \A c, d \in Calls :
          /\ core[c].hold /\ ~core'[c].hold /\ Alive(c)'
          /\ d # c /\ d \in Tracked(slots) /\ Alive(d)
          => core'[d].hold]_vars

\* However often the core frees calls silently, and whichever address it uses
\* again, the manager gets rid of all its pointers to freed calls in the end.
DanglingIsRepaired == []<>NoDanglingReference

-----------------------------------------------------------------------------
(* What comments and documents say, and the code does otherwise: each of   *)
(* these is checked by a run that expects TLC to refute it.                *)

\* "If the closed call was the current one, try to switch to another": when a
\* live call is in the table, the manager switches to a live call.
CloseSwitchesToLiveCall ==
  [][\A c, d \in Calls :
       /\ current = c /\ InCore(c) /\ ~InCore(c)'
       /\ d # c /\ d \in Tracked(slots) /\ Alive(d)
       => \E e \in Calls : e = current' /\ Alive(e)']_vars

\* The home screen counts "missed calls": a call that came in and was established
\* is not logged as one that was missed.
AnsweredIsNotMissed ==
  [][\A c \in Calls :
       core[c].st = "ESTABLISHED" /\ ~core[c].out /\ core'[c].st = "FREE"
       => rows'[c] = <<"INCOMING">>]_vars
=============================================================================
