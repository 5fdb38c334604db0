--------------------------- MODULE CallManagerProofs ---------------------------
(***************************************************************************)
(* Proofs about CallManager, for every set of calls, every number of       *)
(* accounts and every size of the table.                                   *)
(***************************************************************************)
EXTENDS CallManager, WellFoundedInduction, TLAPS

SlotRecord == [call : Pointers, state : CallStates, peer : Pointers]
SlotTable == [Slots -> SlotRecord]

\* No call is twice in the table sl.
Unique(sl) == \A i, j \in Slots : sl[i].call # NoCall /\ sl[i].call = sl[j].call => i = j

-----------------------------------------------------------------------------
(* Finding a slot.                                                         *)

\* A search over the slots that can succeed finds the first one.
LEMMA FirstExists ==
  ASSUME NEW S \in SUBSET Slots, S # {}
  PROVE  First(S) \in S /\ IsFirst(First(S), S)
<1>1. S \subseteq Nat
  BY CallManagerAssumption DEF Slots
<1>2. \A j, k \in Nat : <<j, k>> \in OpToRel(<, Nat) <=> j < k
  BY DEF OpToRel
<1>3. \E R : IsWellFoundedOn(R, Nat) /\ \A j, k \in Nat : <<j, k>> \in R <=> j < k
  BY <1>2, NatLessThanWellFounded, Zenon
<1>4. PICK R : IsWellFoundedOn(R, Nat) /\ \A j, k \in Nat : <<j, k>> \in R <=> j < k
  BY <1>3
<1>5. IsWellFoundedOn(R, Nat)
  BY <1>4
<1>6. \E i \in S : \A j \in S : ~(<<j, i>> \in R)
  <2>1. S # {}
    OBVIOUS
  <2>2. QED
    BY ONLY <1>1, <1>5, <2>1, WFMin, Zenon
<1>7. PICK i \in S : \A j \in S : ~(<<j, i>> \in R)
  BY <1>6
<1>8. i \in Nat /\ \A j \in S : j \in Nat
  BY <1>1
<1>9. \A j \in S : ~(j < i)
  BY <1>4, <1>7, <1>8
<1>10. \A j \in S : i <= j
  BY <1>8, <1>9
<1>11. QED
  BY <1>10 DEF First, IsFirst

\* There is only one first slot.
LEMMA FirstIsOne ==
  ASSUME NEW S \in SUBSET Slots, NEW i, NEW j, IsFirst(i, S), IsFirst(j, S)
  PROVE  i = j
BY CallManagerAssumption DEF IsFirst, Slots

LEMMA TargetIsOne ==
  ASSUME NEW sl, NEW c, NEW i, NEW j, IsTarget(sl, c, i), IsTarget(sl, c, j)
  PROVE  i = j /\ i \in Slots
<1>1. SlotsOf(sl, c) \in SUBSET Slots /\ SlotsOf(sl, NoCall) \in SUBSET Slots
      /\ {k \in Slots : sl[k].state \in DeadStates} \in SUBSET Slots
  BY DEF SlotsOf
<1>2. CASE c \in Tracked(sl)
  BY <1>1, <1>2, FirstIsOne DEF IsTarget, IsFirst
<1>3. CASE c \notin Tracked(sl) /\ SlotsOf(sl, NoCall) # {}
  BY <1>1, <1>3, FirstIsOne DEF IsTarget, IsFirst
<1>4. CASE c \notin Tracked(sl) /\ SlotsOf(sl, NoCall) = {}
  BY <1>1, <1>4, FirstIsOne DEF IsTarget, IsFirst
<1>5. QED
  BY <1>2, <1>3, <1>4

\* The slot the manager switches to is one of the table, or the empty one.
LEMMA FirstActiveFound ==
  ASSUME NEW sl \in SlotTable
  PROVE  /\ FirstActive(sl) \in SlotRecord
         /\ FirstActive(sl).call \in Tracked(sl) \cup {NoCall}
<1>1. CASE Occupied(sl) = {}
  BY <1>1 DEF FirstActive, EmptySlot, SlotRecord, Pointers, CallStates
<1>2. CASE Occupied(sl) # {}
  <2>1. Occupied(sl) \in SUBSET Slots
    BY DEF Occupied
  <2>2. First(Occupied(sl)) \in Slots /\ First(Occupied(sl)) \in Occupied(sl)
    BY <1>2, <2>1, FirstExists
  <2>3. FirstActive(sl) = sl[First(Occupied(sl))]
    BY <1>2 DEF FirstActive
  <2>4. QED
    BY <2>2, <2>3 DEF SlotTable, Tracked, Occupied
<1>3. QED
  BY <1>1, <1>2

\* A scan of the core's lists returns a call that fits, or none.
LEMMA ScanUasFound ==
  ASSUME NEW k, NEW o, NEW S
  PROVE  \/ ScanUas(k, o, S) = NoCall
         \/ ScanUas(k, o, S) \in S /\ k[ScanUas(k, o, S)].st # "FREE"
BY DEF ScanUas, IsUaCall

LEMMA ScanCallsFound ==
  ASSUME NEW k, NEW o, NEW S
  PROVE  ScanCalls(k, o, S) \in S \cup {NoCall}
BY DEF ScanCalls

-----------------------------------------------------------------------------
(* The three ways the table changes.                                       *)

LEMMA UpdateType ==
  ASSUME NEW sl \in SlotTable, NEW c \in Pointers, NEW s \in CallStates,
         NEW p \in Pointers
  PROVE  AddOrUpdate(sl, c, s, p) \in SlotTable
BY DEF AddOrUpdate, SlotTable, SlotRecord

LEMMA UpdateUnique ==
  ASSUME NEW sl \in SlotTable, Unique(sl), NEW c, NEW s, NEW p
  PROVE  Unique(AddOrUpdate(sl, c, s, p))
<1> DEFINE new == AddOrUpdate(sl, c, s, p)
<1> SUFFICES ASSUME NEW i \in Slots, NEW j \in Slots,
                    new[i].call # NoCall, new[i].call = new[j].call
             PROVE  i = j
  BY DEF Unique
<1>1. \A k \in Slots : IF IsTarget(sl, c, k) THEN new[k].call = c
                                           ELSE new[k].call = sl[k].call
  BY DEF AddOrUpdate
<1>2. \A k, m \in Slots : IsTarget(sl, c, k) /\ sl[m].call = c /\ c # NoCall => k = m
  <2> SUFFICES ASSUME NEW k \in Slots, NEW m \in Slots,
                      IsTarget(sl, c, k), sl[m].call = c, c # NoCall
               PROVE  k = m
    OBVIOUS
  <2>1. c \in Tracked(sl)
    BY DEF Tracked
  <2>2. sl[k].call = c
    BY <2>1 DEF IsTarget, IsFirst, SlotsOf
  <2>3. QED
    BY <2>2 DEF Unique
<1>3. CASE IsTarget(sl, c, i) /\ IsTarget(sl, c, j)
  BY <1>3, TargetIsOne
<1>4. CASE IsTarget(sl, c, i) /\ ~IsTarget(sl, c, j)
  BY <1>1, <1>2, <1>4
<1>5. CASE ~IsTarget(sl, c, i) /\ IsTarget(sl, c, j)
  BY <1>1, <1>2, <1>5
<1>6. CASE ~IsTarget(sl, c, i) /\ ~IsTarget(sl, c, j)
  BY <1>1, <1>6 DEF Unique
<1>7. QED
  BY <1>3, <1>4, <1>5, <1>6

\* Each slot of the updated table is the one written or an old one.
LEMMA UpdateSlots ==
  ASSUME NEW sl \in SlotTable, NEW c, NEW s, NEW p, NEW i \in Slots
  PROVE  \/ AddOrUpdate(sl, c, s, p)[i] = [call |-> c, state |-> s, peer |-> p]
         \/ AddOrUpdate(sl, c, s, p)[i] = sl[i]
BY DEF AddOrUpdate

\* The only slots an update takes from another call are dead ones.
LEMMA UpdateKeeps ==
  ASSUME NEW sl \in SlotTable, NEW c, NEW s, NEW p, NEW i \in Slots,
         sl[i].call # NoCall, sl[i].state \notin DeadStates
  PROVE  AddOrUpdate(sl, c, s, p)[i].call = sl[i].call
<1>1. CASE ~IsTarget(sl, c, i)
  BY <1>1 DEF AddOrUpdate
<1>2. CASE IsTarget(sl, c, i)
  <2>1. sl[i].call = c
    BY <1>2 DEF IsTarget, IsFirst, SlotsOf
  <2>2. QED
    BY <1>2, <2>1 DEF AddOrUpdate
<1>3. QED
  BY <1>1, <1>2

LEMMA ClearSlots ==
  ASSUME NEW sl \in SlotTable, Unique(sl), NEW c \in Calls
  PROVE  /\ ClearSlot(sl, c) \in SlotTable
         /\ Unique(ClearSlot(sl, c))
         /\ \A i \in Slots : /\ sl[i].call = c => ClearSlot(sl, c)[i] = EmptySlot
                             /\ sl[i].call # c => ClearSlot(sl, c)[i] = sl[i]
<1>1. \A i \in Slots : /\ sl[i].call = c => ClearSlot(sl, c)[i] = EmptySlot
                       /\ sl[i].call # c => ClearSlot(sl, c)[i] = sl[i]
  <2> SUFFICES ASSUME NEW i \in Slots
               PROVE  /\ sl[i].call = c => ClearSlot(sl, c)[i] = EmptySlot
                      /\ sl[i].call # c => ClearSlot(sl, c)[i] = sl[i]
    OBVIOUS
  <2>1. CASE sl[i].call # c
    BY <2>1 DEF ClearSlot, IsFirst, SlotsOf
  <2>2. CASE sl[i].call = c
    <3>1. SlotsOf(sl, c) = {i}
      BY <2>2, CallManagerAssumption DEF SlotsOf, Unique
    <3>2. IsFirst(i, SlotsOf(sl, c))
      BY <3>1, CallManagerAssumption DEF IsFirst, Slots
    <3>3. QED
      BY <2>2, <3>2 DEF ClearSlot
  <2>3. QED
    BY <2>1, <2>2
<1>2. ClearSlot(sl, c) \in SlotTable
  BY DEF ClearSlot, SlotTable, SlotRecord, EmptySlot, Pointers, CallStates
<1>3. Unique(ClearSlot(sl, c))
  BY <1>1 DEF Unique, EmptySlot
<1>4. QED
  BY <1>1, <1>2, <1>3

LEMMA MarkSlots ==
  ASSUME NEW sl \in SlotTable, NEW c
  PROVE  /\ MarkTerminated(sl, c) \in SlotTable
         /\ \A i \in Slots :
              /\ MarkTerminated(sl, c)[i].call = sl[i].call
              /\ MarkTerminated(sl, c)[i] = sl[i] \/ sl[i].call = c
BY DEF MarkTerminated, SlotTable, SlotRecord, CallStates, IsFirst, SlotsOf

-----------------------------------------------------------------------------
(* The types.                                                              *)

LEMMA RowsType ==
  ASSUME NEW p \in Pointers, NEW t \in RowTypes, rows \in [Calls -> Seq(RowTypes)]
  PROVE  AddRow(p, t) \in [Calls -> Seq(RowTypes)]
<1>1. CASE p = NoCall
  BY <1>1 DEF AddRow
<1>2. CASE p \in Calls
  <2>1. Append(rows[p], t) \in Seq(RowTypes)
    BY <1>2
  <2>2. [rows EXCEPT ![p] = Append(@, t)] \in [Calls -> Seq(RowTypes)]
    BY <2>1
  <2>3. QED
    BY <1>2, <2>2, CallManagerAssumption DEF AddRow
<1>3. QED
  BY <1>1, <1>2 DEF Pointers

CoreRecord == [st : CoreStates, ua : UAs, out : BOOLEAN, hold : BOOLEAN]

LEMMA HoldType ==
  ASSUME NEW k \in [Calls -> CoreRecord], NEW S, NEW b \in BOOLEAN
  PROVE  /\ SetHold(k, S, b) \in [Calls -> CoreRecord]
         /\ \A c \in Calls : SetHold(k, S, b)[c].st = k[c].st
         /\ \A c \in Calls : SetHold(k, S, b)[c].out = k[c].out
BY DEF SetHold, CoreRecord

\* Writing one state in the core leaves the other calls and the directions.
LEMMA StateType ==
  ASSUME NEW k \in [Calls -> CoreRecord], NEW c \in Calls, NEW s \in CoreStates
  PROVE  /\ [k EXCEPT ![c].st = s] \in [Calls -> CoreRecord]
         /\ [k EXCEPT ![c].st = s][c].st = s
         /\ \A d \in Calls : d # c => [k EXCEPT ![c].st = s][d] = k[d]
         /\ \A d \in Calls : [k EXCEPT ![c].st = s][d].out = k[d].out
BY DEF CoreRecord

LEMMA AllocateType ==
  ASSUME TypeOK, NEW k \in [Calls -> CoreRecord], NEW c \in Calls, NEW u \in UAs,
         NEW s \in CoreStates, Allocate(k, c, u, s)
  PROVE  /\ core' \in [Calls -> CoreRecord]
         /\ older' \subseteq Calls \X Calls
         /\ rows' \in [Calls -> Seq(RowTypes)]
         /\ core'[c].st = s
         /\ \A d \in Calls : d # c => core'[d] = k[d]
         /\ rows'[c] = <<>>
         /\ \A d \in Calls : d # c => rows'[d] = rows[d]
<1>1. FreeCall \in CoreRecord
  BY CallManagerAssumption DEF FreeCall, CoreRecord, CoreStates, UAs
<1>2. [FreeCall EXCEPT !.st = s, !.ua = u, !.out = (s = "OUTGOING")] \in CoreRecord
  BY DEF FreeCall, CoreRecord
<1>3. [FreeCall EXCEPT !.st = s, !.ua = u, !.out = (s = "OUTGOING")].st = s
  BY DEF FreeCall
<1>4. core' \in [Calls -> CoreRecord] /\ core'[c].st = s
  BY <1>2, <1>3 DEF Allocate
<1>5. \A d \in Calls : d # c => core'[d] = k[d]
  BY DEF Allocate
<1>6. older' \subseteq Calls \X Calls
  BY DEF Allocate, UaCalls, TypeOK
<1>7. rows' = [rows EXCEPT ![c] = <<>>] /\ rows \in [Calls -> Seq(RowTypes)]
  BY DEF Allocate, TypeOK
<1>8. <<>> \in Seq(RowTypes)
  OBVIOUS
<1>9. rows' \in [Calls -> Seq(RowTypes)] /\ rows'[c] = <<>>
      /\ \A d \in Calls : d # c => rows'[d] = rows[d]
  BY <1>7, <1>8
<1>10. QED
  BY <1>4, <1>5, <1>6, <1>9

LEMMA ReleaseType ==
  ASSUME TypeOK, NEW c \in Calls, Release(c)
  PROVE  /\ core' \in [Calls -> CoreRecord]
         /\ older' \subseteq Calls \X Calls
         /\ core'[c].st = "FREE"
         /\ \A d \in Calls : d # c => core'[d] = core[d]
<1>1. FreeCall \in CoreRecord /\ FreeCall.st = "FREE"
  BY CallManagerAssumption DEF FreeCall, CoreRecord, CoreStates, UAs
<1>2. core \in [Calls -> CoreRecord]
  BY DEF TypeOK, CoreRecord
<1>3. QED
  BY <1>1, <1>2 DEF Release, TypeOK

\* A call in the core is in a state the user interface knows.
LEMMA CallStateType ==
  ASSUME core \in [Calls -> CoreRecord], NEW c \in Calls, InCore(c)
  PROVE  CallState(c) \in CallStates
BY DEF CallState, InCore, CoreRecord, CoreStates, CallStates

LEMMA TypeInit == Init => TypeOK
<1> SUFFICES ASSUME Init PROVE TypeOK
  OBVIOUS
<1> USE DEF Init
<1>1. core \in [Calls -> CoreRecord]
  BY CallManagerAssumption DEF FreeCall, CoreRecord, CoreStates, UAs
<1>2. slots \in SlotTable
  BY DEF EmptySlot, SlotTable, SlotRecord, Pointers, CallStates
<1>3. rows \in [Calls -> Seq(RowTypes)]
  <2>1. <<>> \in Seq(RowTypes)
    OBVIOUS
  <2>2. QED
    BY <2>1
<1>4. QED
  BY <1>1, <1>2, <1>3 DEF TypeOK, CoreRecord, SlotTable, SlotRecord, Pointers, CallStates

LEMMA TypeStep == TypeOK /\ [Next]_vars => TypeOK'
<1> SUFFICES ASSUME TypeOK, [Next]_vars
             PROVE  TypeOK'
  OBVIOUS
<1>a. core \in [Calls -> CoreRecord] /\ slots \in SlotTable
  BY DEF TypeOK, CoreRecord, SlotTable, SlotRecord
<1>b. ASSUME core' \in [Calls -> CoreRecord], older' \subseteq Calls \X Calls,
             state' \in CallStates, current' \in Pointers, peer' \in Pointers,
             slots' \in SlotTable, rows' \in [Calls -> Seq(RowTypes)]
      PROVE  TypeOK'
  BY <1>b DEF TypeOK, CoreRecord, SlotTable, SlotRecord
<1>c. /\ older \subseteq Calls \X Calls /\ state \in CallStates
      /\ current \in Pointers /\ peer \in Pointers
      /\ rows \in [Calls -> Seq(RowTypes)]
  BY DEF TypeOK
<1>d. Calls \subseteq Pointers /\ NoCall \in Pointers
  BY DEF Pointers
<1>1. ASSUME NEW c \in Calls, NEW u \in UAs, CallIncoming(c, u)
      PROVE  TypeOK'
  <2>1. Allocate(core, c, u, "INCOMING") /\ "INCOMING" \in CoreStates
        /\ "INCOMING" \in CallStates
    BY <1>1 DEF CallIncoming, CoreStates, CallStates
  <2>2. /\ core' \in [Calls -> CoreRecord] /\ older' \subseteq Calls \X Calls
        /\ rows' \in [Calls -> Seq(RowTypes)]
    BY <1>a, <2>1, AllocateType
  <2>3. ScanUas(core', older', Calls) \in Pointers
    BY ScanUasFound DEF Pointers
  <2>4. current' \in Pointers /\ slots' = AddOrUpdate(slots, current', "INCOMING", c)
    BY <1>1, <1>d, <2>3 DEF CallIncoming
  <2>5. slots' \in SlotTable
    BY <1>a, <1>d, <2>1, <2>4, UpdateType
  <2>6. QED
    BY <1>1, <1>b, <1>d, <2>1, <2>2, <2>4, <2>5 DEF CallIncoming
<1>2. ASSUME NEW c \in Calls, NEW s \in Provisional, NEW e \in Provisional,
             CallProvisional(c, s, e)
      PROVE  TypeOK'
  <2>1. s \in CoreStates /\ e \in CallStates
    BY CallManagerAssumption DEF CoreStates, CallStates
  <2>2. core' \in [Calls -> CoreRecord]
    BY <1>2, <1>a, <2>1, StateType DEF CallProvisional
  <2>3. slots' \in SlotTable
    BY <1>2, <1>a, <1>d, <2>1, UpdateType DEF CallProvisional
  <2>4. QED
    BY <1>2, <1>b, <1>c, <2>1, <2>2, <2>3 DEF CallProvisional
<1>3. ASSUME NEW c \in Calls, CallEstablished(c)
      PROVE  TypeOK'
  <2>1. "ESTABLISHED" \in CoreStates /\ "ESTABLISHED" \in CallStates
    BY DEF CoreStates, CallStates
  <2>2. core' \in [Calls -> CoreRecord]
    BY <1>3, <1>a, <2>1, StateType DEF CallEstablished
  <2>3. slots' \in SlotTable
    BY <1>3, <1>a, <1>d, <2>1, UpdateType DEF CallEstablished
  <2>4. QED
    BY <1>3, <1>b, <1>c, <1>d, <2>1, <2>2, <2>3 DEF CallEstablished
<1>4. ASSUME NEW c \in Calls, CallClosed(c)
      PROVE  TypeOK'
  <2>1. /\ core' \in [Calls -> CoreRecord] /\ older' \subseteq Calls \X Calls
    BY <1>4, ReleaseType DEF CallClosed
  <2>2. rows' \in [Calls -> Seq(RowTypes)]
    <3>1. ClosedType(c) \in RowTypes
      BY DEF ClosedType, RowTypes
    <3>2. QED
      BY <1>4, <1>c, <1>d, <3>1, RowsType DEF CallClosed
  <2>3. slots' \in SlotTable
    BY <1>4, <1>a DEF CallClosed, ClearSlot, SlotTable, SlotRecord, EmptySlot,
       Pointers, CallStates
  <2>4. FirstActive(slots') \in SlotRecord
    BY <2>3, FirstActiveFound
  <2>5. /\ FirstActive(slots').call \in Pointers /\ FirstActive(slots').peer \in Pointers
        /\ FirstActive(slots').state \in CallStates
    BY <2>4 DEF SlotRecord
  <2>6. "IDLE" \in CallStates /\ \A s \in CallStates : Settle(s) \in CallStates
    BY DEF Settle, CallStates
  <2>7. state' \in CallStates /\ current' \in Pointers /\ peer' \in Pointers
    BY <1>4, <1>c, <2>5, <2>6 DEF CallClosed
  <2>8. QED
    BY <1>b, <2>1, <2>2, <2>3, <2>7
<1>5. ASSUME NEW c \in Calls, CallVanishes(c)
      PROVE  TypeOK'
  BY <1>5, <1>a, <1>b, <1>c, ReleaseType DEF CallVanishes
<1>6. CASE SipSessConn
  <2>1. ScanUas(core, older, Calls) \in Pointers
    BY ScanUasFound DEF Pointers
  <2>2. "INCOMING" \in CallStates
    BY DEF CallStates
  <2>3. current' \in Pointers /\ peer' \in Pointers
    BY <1>6, <1>c, <1>d, <2>1 DEF SipSessConn
  <2>4. QED
    BY <1>6, <1>a, <1>b, <1>c, <2>2, <2>3 DEF SipSessConn
<1>7. ASSUME NEW c \in Calls, NEW u \in UAs, Connect(c, u)
      PROVE  TypeOK'
  <2> DEFINE k == SetHold(core, HoldTargets(NoCall), TRUE)
  <2>1. k \in [Calls -> CoreRecord]
    BY <1>a, HoldType
  <2>2. Allocate(k, c, u, "OUTGOING") /\ "OUTGOING" \in CoreStates
        /\ "OUTGOING" \in CallStates
    BY <1>7 DEF Connect, CoreStates, CallStates
  <2>3. /\ core' \in [Calls -> CoreRecord] /\ older' \subseteq Calls \X Calls
        /\ rows' \in [Calls -> Seq(RowTypes)]
    <3> HIDE DEF k
    <3>1. QED
      BY <2>1, <2>2, AllocateType
  <2>4. slots' \in SlotTable
    BY <1>7, <1>a, <1>d, <2>2, UpdateType DEF Connect
  <2>5. QED
    BY <1>7, <1>b, <1>c, <1>d, <2>2, <2>3, <2>4 DEF Connect
<1>8. CASE ConnectFails
  BY <1>8, <1>a, <1>b, <1>c, HoldType DEF ConnectFails
<1>9. CASE Answer
  <2> DEFINE ringing == {c \in Calls : CallState(c) = "INCOMING"}
             call == IF current # NoCall THEN current ELSE ScanUas(core, older, ringing)
             held == SetHold(core, HoldTargets(call), TRUE)
  <2>1. ringing \subseteq Calls
    OBVIOUS
  <2>2. call \in Calls /\ current' = call
    <3>1. ScanUas(core, older, ringing) \in ringing \cup {NoCall}
      BY ScanUasFound
    <3>2. current' = call /\ call # NoCall
      BY <1>9 DEF Answer
    <3>3. QED
      BY <1>c, <2>1, <3>1, <3>2 DEF Pointers
  <2>3. held \in [Calls -> CoreRecord]
    BY <1>a, HoldType
  <2>4. core' = IF core[call].st = "INCOMING"
                  THEN [held EXCEPT ![call].st = "ANSWERED"] ELSE held
    BY <1>9 DEF Answer
  <2>5. core' \in [Calls -> CoreRecord]
    <3> HIDE DEF held, call
    <3>1. "ANSWERED" \in CoreStates
      BY DEF CoreStates
    <3>2. QED
      BY <2>2, <2>3, <2>4, <3>1, StateType
  <2>6. UNCHANGED <<older, state, peer, slots, rows>>
    BY <1>9 DEF Answer
  <2>7. QED
    BY <1>a, <1>b, <1>c, <1>d, <2>2, <2>5, <2>6
<1>10. ASSUME NEW ptr \in Tracked(slots) \cup {NoCall}, Reject(ptr)
       PROVE  TypeOK'
  <2> DEFINE open == {c \in Calls : CallState(c) \in {"INCOMING", "RINGING", "EARLY",
                                                      "ESTABLISHED"}}
             call == IF ptr = NoCall THEN ScanUas(core, older, open) ELSE ptr
  <2>1. call \in Calls
    <3>1. ScanUas(core, older, open) \in open \cup {NoCall}
      BY ScanUasFound
    <3>2. call # NoCall
      BY <1>10 DEF Reject
    <3>3. ptr \in Pointers
      BY <1>a DEF Tracked, SlotTable, SlotRecord, Pointers
    <3>4. QED
      BY <3>1, <3>2, <3>3 DEF Pointers
  <2>2. slots' = MarkTerminated(slots, call) /\ core' = [core EXCEPT ![call].st = "TERMINATED"]
        /\ UNCHANGED <<older, state, current, peer, rows>>
    BY <1>10 DEF Reject
  <2>3. core' \in [Calls -> CoreRecord] /\ slots' \in SlotTable
    <3> HIDE DEF call
    <3>1. "TERMINATED" \in CoreStates
      BY DEF CoreStates, CallStates
    <3>2. QED
      BY <1>a, <2>1, <2>2, <3>1, StateType, MarkSlots
  <2>4. QED
    BY <1>b, <1>c, <2>2, <2>3
<1>11. CASE Hangup
  <2> DEFINE next == ScanCalls(core, older, {c \in Calls \ {current} : Alive(c)})
  <2>1. next = NoCall \/ (next \in Calls /\ InCore(next))
    <3>1. next \in {c \in Calls \ {current} : Alive(c)} \cup {NoCall}
      BY ScanCallsFound
    <3>2. QED
      BY <3>1 DEF Alive, InCore
  <2>2. current \in Calls
    BY <1>11, <1>c DEF Hangup, Pointers
  <2>3. "TERMINATED" \in CoreStates /\ "IDLE" \in CallStates
    BY DEF CoreStates, CallStates
  <2>4. core' \in [Calls -> CoreRecord] /\ slots' \in SlotTable
    BY <1>11, <1>a, <2>2, <2>3, StateType, MarkSlots DEF Hangup
  <2>5. /\ current' = next
        /\ state' = IF next = NoCall THEN "IDLE" ELSE CallState(next)
        /\ peer' = IF next = NoCall THEN peer ELSE next
        /\ UNCHANGED <<older, rows>>
    BY <1>11 DEF Hangup
  <2>6. state' \in CallStates /\ current' \in Pointers /\ peer' \in Pointers
    <3> HIDE DEF next
    <3>1. QED
      BY <1>a, <1>c, <1>d, <2>1, <2>3, <2>5, CallStateType
  <2>7. QED
    BY <1>b, <1>c, <2>4, <2>5, <2>6
<1>12. ASSUME NEW ptr \in Tracked(slots) \cup {NoCall}, Hold(ptr)
       PROVE  TypeOK'
  BY <1>12, <1>a, <1>b, <1>c, HoldType DEF Hold
<1>13. ASSUME NEW ptr \in Tracked(slots) \cup {NoCall}, Resume(ptr)
       PROVE  TypeOK'
  <2> DEFINE call == IF ptr = NoCall THEN current ELSE ptr
             k == SetHold(core, Tracked(slots) \ {call}, TRUE)
  <2>1. core' = SetHold(k, {call}, FALSE)
        /\ UNCHANGED <<older, state, current, peer, slots, rows>>
    BY <1>13 DEF Resume
  <2>2. k \in [Calls -> CoreRecord]
    BY <1>a, HoldType
  <2>3. core' \in [Calls -> CoreRecord]
    <3> HIDE DEF k, call
    <3>1. QED
      BY <2>1, <2>2, HoldType
  <2>4. QED
    BY <1>a, <1>b, <1>c, <2>1, <2>3
<1>14. ASSUME NEW ptr \in Tracked(slots), SwitchTo(ptr)
       PROVE  TypeOK'
  <2>1. ptr \in Calls /\ InCore(ptr)
    BY <1>14, <1>a DEF Tracked, SlotTable, SlotRecord, Pointers, SwitchTo, Readable
  <2>2. CallState(ptr) \in CallStates
    BY <1>a, <2>1, CallStateType
  <2>3. QED
    BY <1>14, <1>a, <1>b, <1>c, <1>d, <2>1, <2>2 DEF SwitchTo
<1>15. CASE Watchdog
  <2>1. Survivors \in SlotTable
    BY <1>a DEF Survivors, SlotTable, SlotRecord, EmptySlot, Pointers, CallStates
  <2>2. slots' \in SlotTable
    BY <1>15, <2>1 DEF Watchdog
  <2>3. FirstActive(slots') \in SlotRecord
    BY <2>2, FirstActiveFound
  <2>4. FirstActive(slots').call \in Pointers /\ FirstActive(slots').state \in CallStates
    BY <2>3 DEF SlotRecord
  <2>5. AddRow(peer, WatchdogType) \in [Calls -> Seq(RowTypes)]
    <3>1. WatchdogType \in RowTypes
      BY DEF WatchdogType, RowTypes
    <3>2. QED
      BY <1>c, <3>1, RowsType
  <2>6. state' \in CallStates /\ current' \in Pointers
        /\ rows' \in [Calls -> Seq(RowTypes)]
    BY <1>15, <1>c, <2>4, <2>5 DEF Watchdog
  <2>7. QED
    BY <1>15, <1>a, <1>b, <1>c, <2>2, <2>6 DEF Watchdog
<1>16. CASE UNCHANGED vars
  BY <1>16, <1>a, <1>b, <1>c DEF vars
<1>17. QED
  BY <1>1, <1>2, <1>3, <1>4, <1>5, <1>6, <1>7, <1>8, <1>9, <1>10, <1>11, <1>12,
     <1>13, <1>14, <1>15, <1>16 DEF Next, CoreNext, ApiNext

\* The manager's state, its table and its rows keep their types.
THEOREM TypeCorrect == Spec => []TypeOK
BY TypeInit, TypeStep, PTL DEF Spec

LEMMA WatchdogStep ==
  ASSUME TypeOK, Watchdog
  PROVE  NoDanglingReference'
<1>1. /\ slots \in [Slots -> [call : Pointers, state : CallStates, peer : Pointers]]
      /\ current \in Pointers /\ NoCall \notin Calls
  BY CallManagerAssumption DEF TypeOK
<1>2. slots' = Survivors /\ core' = core
  BY DEF Watchdog
<1>3. \A i \in Slots : slots'[i].call # NoCall =>
        slots'[i].call \in Calls /\ core[slots'[i].call].st # "FREE"
  BY <1>1, <1>2 DEF Survivors, EmptySlot, InCore, Pointers
<1>4. \A c \in Tracked(slots') : c \in Calls /\ core[c].st # "FREE"
  BY <1>3 DEF Tracked
<1>5. current' = NoCall \/ core[current'].st # "FREE"
  <2>1. CASE current \in Calls /\ ~InCore(current)
    <3>1. current' = FirstActive(slots').call
      BY <2>1 DEF Watchdog
    <3>2. CASE Occupied(slots') = {}
      BY <3>1, <3>2 DEF FirstActive, EmptySlot
    <3>3. CASE Occupied(slots') # {}
      <4>1. First(Occupied(slots')) \in Occupied(slots')
        BY <3>3, FirstExists DEF Occupied
      <4> QED BY <1>3, <3>1, <3>3, <4>1 DEF FirstActive, Occupied
    <3> QED BY <3>2, <3>3
  <2>2. CASE current \in Calls => InCore(current)
    <3>1. current' = current
      BY <2>2 DEF Watchdog
    <3> QED BY <1>1, <2>2, <3>1 DEF InCore, Pointers
  <2> QED BY <2>1, <2>2
<1> QED BY <1>2, <1>4, <1>5 DEF NoDanglingReference, InCore

\* However many calls the core has freed without an event, and whatever other
\* calls got their addresses, one pass of the watchdog leaves no pointer of the
\* table or of the focus to a freed call.
THEOREM WatchdogRepairs == Spec => [][Watchdog => NoDanglingReference']_vars
<1>1. TypeOK /\ [Next]_vars => [Watchdog => NoDanglingReference']_vars
  BY WatchdogStep
<1> QED BY <1>1, TypeCorrect, PTL DEF Spec

-----------------------------------------------------------------------------
(* One slot per call.                                                      *)

LEMMA UniqueStep == TypeOK /\ OneSlotPerCall /\ [Next]_vars => OneSlotPerCall'
<1> SUFFICES ASSUME TypeOK, OneSlotPerCall, [Next]_vars
             PROVE  OneSlotPerCall'
  OBVIOUS
<1>a. slots \in SlotTable /\ Unique(slots)
  BY DEF TypeOK, SlotTable, SlotRecord, OneSlotPerCall, Unique
<1>b. Unique(slots') => OneSlotPerCall'
  BY DEF OneSlotPerCall, Unique
<1>c. ASSUME NEW c, NEW s, NEW p, slots' = AddOrUpdate(slots, c, s, p)
      PROVE  OneSlotPerCall'
  BY <1>a, <1>b, <1>c, UpdateUnique
<1>d. ASSUME NEW c, slots' = MarkTerminated(slots, c)
      PROVE  OneSlotPerCall'
  BY <1>a, <1>b, <1>d, MarkSlots DEF Unique
<1>e. ASSUME slots' = slots
      PROVE  OneSlotPerCall'
  BY <1>a, <1>b, <1>e
<1>1. ASSUME NEW c \in Calls, NEW u \in UAs, CallIncoming(c, u)
      PROVE  OneSlotPerCall'
  BY <1>1, <1>c DEF CallIncoming
<1>2. ASSUME NEW c \in Calls, NEW s \in Provisional, NEW e \in Provisional,
             CallProvisional(c, s, e)
      PROVE  OneSlotPerCall'
  BY <1>2, <1>c DEF CallProvisional
<1>3. ASSUME NEW c \in Calls, CallEstablished(c)
      PROVE  OneSlotPerCall'
  BY <1>3, <1>c DEF CallEstablished
<1>4. ASSUME NEW c \in Calls, CallClosed(c)
      PROVE  OneSlotPerCall'
  BY <1>4, <1>a, <1>b, ClearSlots DEF CallClosed
<1>5. ASSUME NEW c \in Calls, CallVanishes(c)
      PROVE  OneSlotPerCall'
  BY <1>5, <1>e DEF CallVanishes
<1>6. CASE SipSessConn
  BY <1>6, <1>e DEF SipSessConn
<1>7. ASSUME NEW c \in Calls, NEW u \in UAs, Connect(c, u)
      PROVE  OneSlotPerCall'
  BY <1>7, <1>c DEF Connect
<1>8. CASE ConnectFails
  BY <1>8, <1>e DEF ConnectFails
<1>9. CASE Answer
  BY <1>9, <1>e DEF Answer
<1>10. ASSUME NEW ptr \in Tracked(slots) \cup {NoCall}, Reject(ptr)
       PROVE  OneSlotPerCall'
  BY <1>10, <1>d DEF Reject
<1>11. CASE Hangup
  BY <1>11, <1>d DEF Hangup
<1>12. ASSUME NEW ptr \in Tracked(slots) \cup {NoCall}, Hold(ptr)
       PROVE  OneSlotPerCall'
  BY <1>12, <1>e DEF Hold
<1>13. ASSUME NEW ptr \in Tracked(slots) \cup {NoCall}, Resume(ptr)
       PROVE  OneSlotPerCall'
  BY <1>13, <1>e DEF Resume
<1>14. ASSUME NEW ptr \in Tracked(slots), SwitchTo(ptr)
       PROVE  OneSlotPerCall'
  BY <1>14, <1>e DEF SwitchTo
<1>15. CASE Watchdog
  <2>1. slots' = Survivors
    BY <1>15 DEF Watchdog
  <2>2. Unique(Survivors)
    BY <1>a DEF Survivors, EmptySlot, Unique
  <2>3. QED
    BY <1>b, <2>1, <2>2
<1>16. CASE UNCHANGED vars
  BY <1>16, <1>e DEF vars
<1>17. QED
  BY <1>1, <1>2, <1>3, <1>4, <1>5, <1>6, <1>7, <1>8, <1>9, <1>10, <1>11, <1>12,
     <1>13, <1>14, <1>15, <1>16 DEF Next, CoreNext, ApiNext

LEMMA UniqueInit == Init => OneSlotPerCall
BY DEF Init, OneSlotPerCall, EmptySlot

\* No call is twice in the table, whatever slots were recycled, also when the
\* core frees calls without an event.
THEOREM OneSlotEach == Spec => []OneSlotPerCall
BY TypeCorrect, UniqueInit, UniqueStep, PTL DEF Spec

-----------------------------------------------------------------------------
(* Pointers and recycled slots, while each freed call is reported.         *)

\* What the slot says of a dead call is true: the slots add_or_update_call()
\* may recycle hold no live call.
DeadSlotsAreDead ==
  \A i \in Slots : slots[i].call # NoCall /\ slots[i].state \in DeadStates
                     => ~Alive(slots[i].call)

\* The rows of a call are written when it closes, not before.
NoRowYet == \A c \in Calls : InCore(c) => rows[c] = <<>>

TrackedInv == NoDanglingReference /\ DeadSlotsAreDead

\* A call of the table is one of the core; c is live or not, slot by slot.
LEMMA TrackedFacts ==
  ASSUME slots \in SlotTable, NoDanglingReference, NEW i \in Slots,
         slots[i].call # NoCall
  PROVE  slots[i].call \in Calls /\ InCore(slots[i].call)
BY DEF NoDanglingReference, Tracked, SlotTable, SlotRecord, Pointers

LEMMA TrackedInit == Init => TrackedInv /\ NoRowYet
BY CallManagerAssumption DEF Init, TrackedInv, NoDanglingReference, DeadSlotsAreDead, NoRowYet,
   Tracked, EmptySlot, InCore, FreeCall

\* The invariant in terms of the slots, one at a time.
LEMMA TrackedIntro ==
  ASSUME slots' \in SlotTable,
         current' = NoCall \/ (current' \in Calls /\ core'[current'].st # "FREE"),
         \A i \in Slots : slots'[i].call # NoCall =>
            /\ core'[slots'[i].call].st # "FREE"
            /\ slots'[i].state \in DeadStates =>
                 core'[slots'[i].call].st = "TERMINATED"
  PROVE  TrackedInv'
BY DEF TrackedInv, NoDanglingReference, DeadSlotsAreDead, Tracked, InCore, Alive

LEMMA TrackedElim ==
  ASSUME TypeOK, TrackedInv
  PROVE  /\ current = NoCall \/ (current \in Calls /\ core[current].st # "FREE")
         /\ \A i \in Slots : slots[i].call # NoCall =>
              /\ slots[i].call \in Calls
              /\ core[slots[i].call].st # "FREE"
              /\ slots[i].state \in DeadStates => core[slots[i].call].st = "TERMINATED"
<1>1. slots \in SlotTable /\ current \in Pointers
  BY DEF TypeOK, SlotTable, SlotRecord
<1>2. \A i \in Slots : slots[i].call # NoCall => slots[i].call \in Calls /\ InCore(slots[i].call)
  BY <1>1, TrackedFacts DEF TrackedInv
<1>3. QED
  BY <1>1, <1>2 DEF TrackedInv, DeadSlotsAreDead, NoDanglingReference, InCore, Alive, Pointers

LEMMA TrackedStep ==
  TypeOK /\ TypeOK' /\ OneSlotPerCall /\ TrackedInv /\ ~Silent /\ [Next]_vars => TrackedInv'
<1> SUFFICES ASSUME TypeOK, TypeOK', OneSlotPerCall, TrackedInv, ~Silent, [Next]_vars
             PROVE  TrackedInv'
  OBVIOUS
<1>a. /\ slots \in SlotTable /\ Unique(slots) /\ slots' \in SlotTable
      /\ core \in [Calls -> CoreRecord] /\ core' \in [Calls -> CoreRecord]
      /\ current' \in Pointers
  BY DEF TypeOK, SlotTable, SlotRecord, CoreRecord, OneSlotPerCall, Unique
<1>b. /\ current = NoCall \/ (current \in Calls /\ core[current].st # "FREE")
      /\ \A i \in Slots : slots[i].call # NoCall =>
              /\ slots[i].call \in Calls
              /\ core[slots[i].call].st # "FREE"
              /\ slots[i].state \in DeadStates => core[slots[i].call].st = "TERMINATED"
  BY TrackedElim
\* A step that keeps the table and lets no call go.
<1>c. ASSUME slots' = slots,
             current' = NoCall \/ (current' \in Calls /\ core'[current'].st # "FREE"),
             \A d \in Calls : /\ core[d].st # "FREE" => core'[d].st # "FREE"
                              /\ core[d].st = "TERMINATED" => core'[d].st = "TERMINATED"
      PROVE  TrackedInv'
  BY <1>a, <1>b, <1>c, TrackedIntro
\* A step that puts the live call c in the table.
<1>d. ASSUME NEW c \in Pointers, NEW s, NEW p, s \notin DeadStates,
             slots' = AddOrUpdate(slots, c, s, p),
             c = NoCall \/ core'[c].st # "FREE",
             current' = NoCall \/ (current' \in Calls /\ core'[current'].st # "FREE"),
             \A d \in Calls : /\ core[d].st # "FREE" => core'[d].st # "FREE"
                              /\ core[d].st = "TERMINATED" => core'[d].st = "TERMINATED"
      PROVE  TrackedInv'
  <2> SUFFICES ASSUME NEW i \in Slots, slots'[i].call # NoCall
               PROVE  /\ core'[slots'[i].call].st # "FREE"
                      /\ slots'[i].state \in DeadStates =>
                           core'[slots'[i].call].st = "TERMINATED"
    BY <1>a, <1>d, TrackedIntro
  <2>1. slots'[i] = [call |-> c, state |-> s, peer |-> p] \/ slots'[i] = slots[i]
    BY <1>a, <1>d, UpdateSlots
  <2>2. QED
    BY <1>b, <1>d, <2>1
\* A step that ends the call c and marks it.
<1>e. ASSUME NEW c \in Calls, core[c].st # "FREE",
             slots' = MarkTerminated(slots, c), core' = [core EXCEPT ![c].st = "TERMINATED"],
             current' = NoCall \/ (current' \in Calls /\ core[current'].st # "FREE")
      PROVE  TrackedInv'
  <2>1. "TERMINATED" \in CoreStates
    BY DEF CoreStates, CallStates
  <2>2. core'[c].st = "TERMINATED" /\ \A d \in Calls : d # c => core'[d] = core[d]
    BY <1>a, <1>e, <2>1, StateType
  <2>3. \A i \in Slots : slots'[i].call = slots[i].call
                         /\ (slots'[i] = slots[i] \/ slots[i].call = c)
    BY <1>a, <1>e, MarkSlots
  <2>4. \A i \in Slots : slots'[i].call # NoCall =>
            /\ core'[slots'[i].call].st # "FREE"
            /\ slots'[i].state \in DeadStates =>
                 core'[slots'[i].call].st = "TERMINATED"
    BY <1>b, <2>2, <2>3
  <2>5. current' = NoCall \/ (current' \in Calls /\ core'[current'].st # "FREE")
    BY <1>e, <2>2
  <2>6. QED
    BY <1>a, <2>4, <2>5, TrackedIntro
<1>1. ASSUME NEW c \in Calls, NEW u \in UAs, CallIncoming(c, u)
      PROVE  TrackedInv'
  <2>1. Allocate(core, c, u, "INCOMING") /\ "INCOMING" \in CoreStates
        /\ "INCOMING" \notin DeadStates
    BY <1>1 DEF CallIncoming, CoreStates, CallStates, DeadStates
  <2>2. core[c].st = "FREE" /\ core'[c].st = "INCOMING"
        /\ \A d \in Calls : d # c => core'[d] = core[d]
    <3>1. core[c].st = "FREE"
      BY <2>1 DEF Allocate
    <3>2. core'[c].st = "INCOMING" /\ \A d \in Calls : d # c => core'[d] = core[d]
      BY <1>a, <2>1, AllocateType
    <3>3. QED
      BY <3>1, <3>2
  <2>3. \/ current' = c
        \/ current' = NoCall
        \/ current' \in Calls /\ core'[current'].st # "FREE"
    BY <1>1, ScanUasFound DEF CallIncoming
  <2>4. current' = NoCall \/ (current' \in Calls /\ core'[current'].st # "FREE")
    BY <2>2, <2>3
  <2>5. slots' = AddOrUpdate(slots, current', "INCOMING", c)
    BY <1>1 DEF CallIncoming
  <2>6. QED
    BY <1>a, <1>d, <2>1, <2>2, <2>4, <2>5
<1>2. ASSUME NEW c \in Calls, NEW s \in Provisional, NEW e \in Provisional,
             CallProvisional(c, s, e)
      PROVE  TrackedInv'
  <2>1. s \in CoreStates /\ e \notin DeadStates /\ c \in Pointers /\ s # "FREE"
    BY CallManagerAssumption DEF CoreStates, CallStates, DeadStates, Pointers
  <2>2. core'[c].st = s /\ \A d \in Calls : d # c => core'[d] = core[d]
    BY <1>2, <1>a, <2>1, StateType DEF CallProvisional
  <2>3. core[c].st # "TERMINATED"
    BY <1>2 DEF CallProvisional
  <2>4. current' = current /\ slots' = AddOrUpdate(slots, c, e, c)
    BY <1>2 DEF CallProvisional
  <2>5. \A d \in Calls : /\ core[d].st # "FREE" => core'[d].st # "FREE"
                         /\ core[d].st = "TERMINATED" => core'[d].st = "TERMINATED"
    BY <2>1, <2>2, <2>3
  <2>6. QED
    BY <1>b, <1>d, <2>1, <2>2, <2>4, <2>5
<1>3. ASSUME NEW c \in Calls, CallEstablished(c)
      PROVE  TrackedInv'
  <2>1. "ESTABLISHED" \in CoreStates /\ "ESTABLISHED" \notin DeadStates /\ c \in Pointers
    BY DEF CoreStates, CallStates, DeadStates, Pointers
  <2>2. core'[c].st = "ESTABLISHED" /\ \A d \in Calls : d # c => core'[d] = core[d]
    BY <1>3, <1>a, <2>1, StateType DEF CallEstablished
  <2>3. core[c].st # "TERMINATED" /\ current' = c
        /\ slots' = AddOrUpdate(slots, c, "ESTABLISHED", c)
    BY <1>3 DEF CallEstablished
  <2>4. \A d \in Calls : /\ core[d].st # "FREE" => core'[d].st # "FREE"
                         /\ core[d].st = "TERMINATED" => core'[d].st = "TERMINATED"
    BY <2>2, <2>3
  <2>5. QED
    BY <1>d, <2>1, <2>2, <2>3, <2>4
<1>4. ASSUME NEW c \in Calls, CallClosed(c)
      PROVE  TrackedInv'
  <2>1. core'[c].st = "FREE" /\ \A d \in Calls : d # c => core'[d] = core[d]
    BY <1>4, ReleaseType DEF CallClosed
  <2>2. /\ \A i \in Slots : /\ slots[i].call = c => slots'[i] = EmptySlot
                            /\ slots[i].call # c => slots'[i] = slots[i]
    BY <1>4, <1>a, ClearSlots DEF CallClosed
  <2>3. \A i \in Slots : slots'[i].call # NoCall => slots'[i] = slots[i] /\ slots[i].call # c
    BY <2>2 DEF EmptySlot
  <2>4. \A i \in Slots : slots'[i].call # NoCall =>
            /\ core'[slots'[i].call].st # "FREE"
            /\ slots'[i].state \in DeadStates =>
                 core'[slots'[i].call].st = "TERMINATED"
    BY <1>b, <2>1, <2>3
  <2>5. \/ current' = NoCall
        \/ current' \in Tracked(slots')
        \/ current' = current /\ current # c
    <3>1. FirstActive(slots').call \in Tracked(slots') \cup {NoCall}
      BY <1>a, FirstActiveFound
    <3>2. \/ current' = FirstActive(slots').call
          \/ current' = current /\ current # c
          \/ current' = NoCall
      BY <1>4 DEF CallClosed
    <3>3. QED
      BY <3>1, <3>2
  <2>6. \A d \in Tracked(slots') : d \in Calls /\ core'[d].st # "FREE"
    BY <1>a, <2>4 DEF Tracked, SlotTable, SlotRecord, Pointers
  <2>7. current' = NoCall \/ (current' \in Calls /\ core'[current'].st # "FREE")
    BY <1>b, <2>1, <2>5, <2>6
  <2>8. QED
    BY <1>a, <2>4, <2>7, TrackedIntro
<1>5. ASSUME NEW c \in Calls, CallVanishes(c)
      PROVE  TrackedInv'
  BY <1>5 DEF CallVanishes
<1>6. CASE SipSessConn
  <2>1. \/ current' = NoCall
        \/ current' \in Calls /\ core[current'].st # "FREE"
    BY <1>6, ScanUasFound DEF SipSessConn
  <2>2. QED
    BY <1>6, <1>c, <2>1 DEF SipSessConn
<1>7. ASSUME NEW c \in Calls, NEW u \in UAs, Connect(c, u)
      PROVE  TrackedInv'
  <2> DEFINE k == SetHold(core, HoldTargets(NoCall), TRUE)
  <2>1. k \in [Calls -> CoreRecord] /\ \A d \in Calls : k[d].st = core[d].st
    BY <1>a, HoldType
  <2>2. Allocate(k, c, u, "OUTGOING") /\ "OUTGOING" \in CoreStates
        /\ "OUTGOING" \notin DeadStates /\ c \in Pointers
    BY <1>7 DEF Connect, CoreStates, CallStates, DeadStates, Pointers
  <2>3. core[c].st = "FREE"
    BY <1>7 DEF Connect, Allocate
  <2>4. core'[c].st = "OUTGOING" /\ \A d \in Calls : d # c => core'[d].st = core[d].st
    <3> HIDE DEF k
    <3>1. QED
      BY <2>1, <2>2, AllocateType
  <2>5. current' = c /\ slots' = AddOrUpdate(slots, c, "OUTGOING", c)
    BY <1>7 DEF Connect
  <2>6. \A d \in Calls : /\ core[d].st # "FREE" => core'[d].st # "FREE"
                         /\ core[d].st = "TERMINATED" => core'[d].st = "TERMINATED"
    BY <2>3, <2>4
  <2>7. QED
    BY <1>d, <2>2, <2>4, <2>5, <2>6
<1>8. CASE ConnectFails
  <2>1. \A d \in Calls : core'[d].st = core[d].st
    BY <1>8, <1>a, HoldType DEF ConnectFails
  <2>2. QED
    BY <1>8, <1>b, <1>c, <2>1 DEF ConnectFails
<1>9. CASE Answer
  <2> DEFINE ringing == {c \in Calls : CallState(c) = "INCOMING"}
             call == IF current # NoCall THEN current ELSE ScanUas(core, older, ringing)
             held == SetHold(core, HoldTargets(call), TRUE)
  <2>1. /\ call # NoCall /\ current' = call /\ slots' = slots
        /\ core' = IF core[call].st = "INCOMING"
                     THEN [held EXCEPT ![call].st = "ANSWERED"] ELSE held
    BY <1>9 DEF Answer
  <2>2. call \in Calls /\ core[call].st # "FREE"
    <3>1. \/ ScanUas(core, older, ringing) = NoCall
          \/ ScanUas(core, older, ringing) \in ringing
             /\ core[ScanUas(core, older, ringing)].st # "FREE"
      BY ScanUasFound
    <3>2. QED
      BY <1>b, <2>1, <3>1
  <2>3. held \in [Calls -> CoreRecord] /\ \A d \in Calls : held[d].st = core[d].st
    BY <1>a, HoldType
  <2>4. "ANSWERED" \in CoreStates
    BY DEF CoreStates
  <2>5. \A d \in Calls : \/ core'[d].st = core[d].st
                         \/ core[d].st = "INCOMING" /\ core'[d].st = "ANSWERED"
    <3> HIDE DEF held, call
    <3>1. CASE core[call].st = "INCOMING"
      <4>1. core' = [held EXCEPT ![call].st = "ANSWERED"]
        BY <2>1, <3>1
      <4>2. QED
        BY <2>2, <2>3, <2>4, <3>1, <4>1, StateType
    <3>2. CASE core[call].st # "INCOMING"
      BY <2>1, <2>3, <3>2
    <3>3. QED
      BY <3>1, <3>2
  <2>6. \A d \in Calls : /\ core[d].st # "FREE" => core'[d].st # "FREE"
                         /\ core[d].st = "TERMINATED" => core'[d].st = "TERMINATED"
    BY <2>5
  <2>7. QED
    <3> HIDE DEF held, call
    <3>1. QED
      BY <1>c, <2>1, <2>2, <2>6
<1>10. ASSUME NEW ptr \in Tracked(slots) \cup {NoCall}, Reject(ptr)
       PROVE  TrackedInv'
  <2> DEFINE open == {c \in Calls : CallState(c) \in {"INCOMING", "RINGING", "EARLY",
                                                      "ESTABLISHED"}}
             call == IF ptr = NoCall THEN ScanUas(core, older, open) ELSE ptr
  <2>1. /\ call # NoCall /\ Readable({call}) /\ current' = current
        /\ slots' = MarkTerminated(slots, call) /\ core' = [core EXCEPT ![call].st = "TERMINATED"]
    BY <1>10 DEF Reject
  <2>2. call \in Calls
    <3>1. ScanUas(core, older, open) \in open \cup {NoCall}
      BY ScanUasFound
    <3>2. ptr \in Pointers
      BY <1>a DEF Tracked, SlotTable, SlotRecord, Pointers
    <3>3. QED
      BY <2>1, <3>1, <3>2 DEF Pointers
  <2>3. core[call].st # "FREE"
    BY <2>1 DEF Readable, InCore
  <2>4. QED
    <3> HIDE DEF call
    <3>1. QED
      BY <1>b, <1>e, <2>1, <2>2, <2>3
<1>11. CASE Hangup
  <2> DEFINE next == ScanCalls(core, older, {c \in Calls \ {current} : Alive(c)})
  <2>1. next = NoCall \/ (next \in Calls /\ core[next].st # "FREE")
    <3>1. next \in {c \in Calls \ {current} : Alive(c)} \cup {NoCall}
      BY ScanCallsFound
    <3>2. QED
      BY <3>1 DEF Alive
  <2>2. /\ current # NoCall /\ current' = next
        /\ slots' = MarkTerminated(slots, current)
        /\ core' = [core EXCEPT ![current].st = "TERMINATED"]
    BY <1>11 DEF Hangup
  <2>3. QED
    <3> HIDE DEF next
    <3>1. QED
      BY <1>b, <1>e, <2>1, <2>2
<1>12. ASSUME NEW ptr \in Tracked(slots) \cup {NoCall}, Hold(ptr)
       PROVE  TrackedInv'
  <2> DEFINE call == IF ptr = NoCall THEN current ELSE ptr
  <2>1. core' = SetHold(core, {call}, TRUE) /\ UNCHANGED <<current, slots>>
    BY <1>12 DEF Hold
  <2>2. \A d \in Calls : core'[d].st = core[d].st
    <3> HIDE DEF call
    <3>1. QED
      BY <1>a, <2>1 DEF SetHold, CoreRecord
  <2>3. QED
    BY <1>b, <1>c, <2>1, <2>2
<1>13. ASSUME NEW ptr \in Tracked(slots) \cup {NoCall}, Resume(ptr)
       PROVE  TrackedInv'
  <2> DEFINE call == IF ptr = NoCall THEN current ELSE ptr
             k == SetHold(core, Tracked(slots) \ {call}, TRUE)
  <2>1. core' = SetHold(k, {call}, FALSE) /\ UNCHANGED <<current, slots>>
    BY <1>13 DEF Resume
  <2>2. k \in [Calls -> CoreRecord] /\ \A d \in Calls : k[d].st = core[d].st
    <3> HIDE DEF call
    <3>1. QED
      BY <1>a, HoldType
  <2>3. \A d \in Calls : core'[d].st = core[d].st
    <3> HIDE DEF k, call
    <3>1. QED
      BY <2>1, <2>2, HoldType
  <2>4. QED
    BY <1>b, <1>c, <2>1, <2>3
<1>14. ASSUME NEW ptr \in Tracked(slots), SwitchTo(ptr)
       PROVE  TrackedInv'
  <2>1. ptr \in Calls /\ core[ptr].st # "FREE"
    BY <1>14, <1>a DEF Tracked, SlotTable, SlotRecord, Pointers, SwitchTo, Readable, InCore
  <2>2. QED
    BY <1>14, <1>c, <2>1 DEF SwitchTo
<1>15. CASE Watchdog
  <2>1. \A i \in Slots : slots[i].call \in Calls => InCore(slots[i].call)
    BY <1>b, CallManagerAssumption DEF InCore
  <2>2. slots' = slots
    BY <1>15, <1>a, <2>1 DEF Watchdog, Survivors, SlotTable
  <2>3. current \in Calls => InCore(current)
    BY <1>b, CallManagerAssumption DEF InCore
  <2>4. current' = current /\ core' = core
    BY <1>15, <2>3 DEF Watchdog
  <2>5. QED
    BY <1>b, <1>c, <2>2, <2>4
<1>16. CASE UNCHANGED vars
  BY <1>16, <1>b, <1>c DEF vars
<1>17. QED
  BY <1>1, <1>2, <1>3, <1>4, <1>5, <1>6, <1>7, <1>8, <1>9, <1>10, <1>11, <1>12,
     <1>13, <1>14, <1>15, <1>16 DEF Next, CoreNext, ApiNext

\* The part of the step that writes no row: the log of each call of the core.
LEMMA NoRowStep ==
  TypeOK /\ TrackedInv /\ NoRowYet /\ ~Silent /\ [Next]_vars => NoRowYet'
<1> SUFFICES ASSUME TypeOK, TrackedInv, NoRowYet, ~Silent, [Next]_vars
             PROVE  NoRowYet'
  OBVIOUS
<1>a. /\ core \in [Calls -> CoreRecord]
      /\ \A d \in Calls : core[d].st # "FREE" => rows[d] = <<>>
  BY DEF TypeOK, CoreRecord, NoRowYet, InCore
<1>b. ASSUME rows' = rows, \A d \in Calls : core[d].st = "FREE" => core'[d].st = "FREE"
      PROVE  NoRowYet'
  BY <1>a, <1>b DEF NoRowYet, InCore
<1>c. ASSUME NEW c \in Calls, NEW s \in CoreStates, core[c].st # "FREE", rows' = rows,
             core' = [core EXCEPT ![c].st = s]
      PROVE  NoRowYet'
  <2>1. \A d \in Calls : d # c => core'[d] = core[d]
    BY <1>a, <1>c, StateType
  <2>2. QED
    BY <1>b, <1>c, <2>1
<1>d. ASSUME NEW k \in [Calls -> CoreRecord], \A d \in Calls : k[d].st = core[d].st,
             NEW c \in Calls, NEW u \in UAs, NEW s \in CoreStates, Allocate(k, c, u, s)
      PROVE  NoRowYet'
  <2>1. /\ rows'[c] = <<>>
        /\ \A d \in Calls : d # c => core'[d] = k[d] /\ rows'[d] = rows[d]
    BY <1>d, AllocateType
  <2>2. QED
    BY <1>a, <1>d, <2>1 DEF NoRowYet, InCore
<1>1. ASSUME NEW c \in Calls, NEW u \in UAs, CallIncoming(c, u)
      PROVE  NoRowYet'
  <2>1. "INCOMING" \in CoreStates /\ Allocate(core, c, u, "INCOMING")
    BY <1>1 DEF CallIncoming, CoreStates, CallStates
  <2>2. QED
    BY <1>a, <1>d, <2>1
<1>2. ASSUME NEW c \in Calls, NEW s \in Provisional, NEW e \in Provisional,
             CallProvisional(c, s, e)
      PROVE  NoRowYet'
  <2>1. s \in CoreStates
    BY CallManagerAssumption DEF CoreStates, CallStates
  <2>2. core[c].st # "FREE" /\ rows' = rows /\ core' = [core EXCEPT ![c].st = s]
    BY <1>2 DEF CallProvisional
  <2>3. QED
    BY <1>c, <2>1, <2>2
<1>3. ASSUME NEW c \in Calls, CallEstablished(c)
      PROVE  NoRowYet'
  <2>1. "ESTABLISHED" \in CoreStates
    BY DEF CoreStates, CallStates
  <2>2. core[c].st # "FREE" /\ rows' = rows /\ core' = [core EXCEPT ![c].st = "ESTABLISHED"]
    BY <1>3 DEF CallEstablished
  <2>3. QED
    BY <1>c, <2>1, <2>2
<1>4. ASSUME NEW c \in Calls, CallClosed(c)
      PROVE  NoRowYet'
  <2>1. core'[c].st = "FREE" /\ \A d \in Calls : d # c => core'[d] = core[d]
    BY <1>4, ReleaseType DEF CallClosed
  <2>2. rows' = rows \/ rows' = [rows EXCEPT ![c] = Append(@, ClosedType(c))]
    BY <1>4 DEF CallClosed, AddRow
  <2>3. \A d \in Calls : d # c => rows'[d] = rows[d]
    BY <2>2 DEF TypeOK
  <2>4. QED
    BY <1>a, <2>1, <2>3 DEF NoRowYet, InCore
<1>5. ASSUME NEW c \in Calls, CallVanishes(c)
      PROVE  NoRowYet'
  BY <1>5 DEF CallVanishes
<1>6. CASE SipSessConn
  BY <1>6, <1>b DEF SipSessConn
<1>7. ASSUME NEW c \in Calls, NEW u \in UAs, Connect(c, u)
      PROVE  NoRowYet'
  <2> DEFINE k == SetHold(core, HoldTargets(NoCall), TRUE)
  <2>1. k \in [Calls -> CoreRecord] /\ \A d \in Calls : k[d].st = core[d].st
    BY <1>a, HoldType
  <2>2. "OUTGOING" \in CoreStates /\ Allocate(k, c, u, "OUTGOING")
    BY <1>7 DEF Connect, CoreStates, CallStates
  <2>3. QED
    <3> HIDE DEF k
    <3>1. QED
      BY <1>d, <2>1, <2>2
<1>8. CASE ConnectFails
  <2>1. \A d \in Calls : core'[d].st = core[d].st
    BY <1>8, <1>a DEF ConnectFails, SetHold, CoreRecord
  <2>2. QED
    BY <1>8, <1>b, <2>1 DEF ConnectFails
<1>9. CASE Answer
  <2> DEFINE ringing == {c \in Calls : CallState(c) = "INCOMING"}
             call == IF current # NoCall THEN current ELSE ScanUas(core, older, ringing)
             held == SetHold(core, HoldTargets(call), TRUE)
  <2>1. /\ rows' = rows
        /\ core' = IF core[call].st = "INCOMING"
                     THEN [held EXCEPT ![call].st = "ANSWERED"] ELSE held
    BY <1>9 DEF Answer
  <2>2. held \in [Calls -> CoreRecord] /\ \A d \in Calls : held[d].st = core[d].st
    BY <1>a, HoldType
  <2>3. \A d \in Calls : core[d].st = "FREE" => core'[d].st = "FREE"
    <3> HIDE DEF held, call
    <3>1. SUFFICES ASSUME NEW d \in Calls, core[d].st = "FREE"
                   PROVE  core'[d].st = "FREE"
      OBVIOUS
    <3>2. CASE d = call
      BY <2>1, <2>2, <3>1, <3>2
    <3>3. CASE d # call
      BY <2>1, <2>2, <3>1, <3>3
    <3>4. QED
      BY <3>2, <3>3
  <2>4. QED
    BY <1>b, <2>1, <2>3
<1>10. ASSUME NEW ptr \in Tracked(slots) \cup {NoCall}, Reject(ptr)
       PROVE  NoRowYet'
  <2> DEFINE open == {c \in Calls : CallState(c) \in {"INCOMING", "RINGING", "EARLY",
                                                      "ESTABLISHED"}}
             call == IF ptr = NoCall THEN ScanUas(core, older, open) ELSE ptr
  <2>1. /\ call # NoCall /\ Readable({call}) /\ rows' = rows
        /\ core' = [core EXCEPT ![call].st = "TERMINATED"]
    BY <1>10 DEF Reject
  <2>2. call \in Calls
    <3>1. ScanUas(core, older, open) \in open \cup {NoCall}
      BY ScanUasFound
    <3>2. ptr \in Pointers
      BY DEF TypeOK, Tracked, Pointers
    <3>3. QED
      BY <2>1, <3>1, <3>2 DEF Pointers
  <2>3. core[call].st # "FREE" /\ "TERMINATED" \in CoreStates
    BY <2>1 DEF Readable, InCore, CoreStates, CallStates
  <2>4. QED
    <3> HIDE DEF call
    <3>1. QED
      BY <1>c, <2>1, <2>2, <2>3
<1>11. CASE Hangup
  <2>1. current \in Calls /\ core[current].st # "FREE" /\ rows' = rows
        /\ core' = [core EXCEPT ![current].st = "TERMINATED"]
    BY <1>11 DEF Hangup, TypeOK, Pointers, Readable, InCore
  <2>2. "TERMINATED" \in CoreStates
    BY DEF CoreStates, CallStates
  <2>3. QED
    BY <1>c, <2>1, <2>2
<1>12. ASSUME NEW ptr \in Tracked(slots) \cup {NoCall}, Hold(ptr)
       PROVE  NoRowYet'
  <2> DEFINE call == IF ptr = NoCall THEN current ELSE ptr
  <2>1. core' = SetHold(core, {call}, TRUE) /\ rows' = rows
    BY <1>12 DEF Hold
  <2>2. \A d \in Calls : core'[d].st = core[d].st
    <3> HIDE DEF call
    <3>1. QED
      BY <1>a, <2>1 DEF SetHold, CoreRecord
  <2>3. QED
    BY <1>b, <2>1, <2>2
<1>13. ASSUME NEW ptr \in Tracked(slots) \cup {NoCall}, Resume(ptr)
       PROVE  NoRowYet'
  <2> DEFINE call == IF ptr = NoCall THEN current ELSE ptr
             k == SetHold(core, Tracked(slots) \ {call}, TRUE)
  <2>1. core' = SetHold(k, {call}, FALSE) /\ rows' = rows
    BY <1>13 DEF Resume
  <2>2. k \in [Calls -> CoreRecord] /\ \A d \in Calls : k[d].st = core[d].st
    <3> HIDE DEF call
    <3>1. QED
      BY <1>a, HoldType
  <2>3. \A d \in Calls : core'[d].st = core[d].st
    <3> HIDE DEF k, call
    <3>1. QED
      BY <2>1, <2>2, HoldType
  <2>4. QED
    BY <1>b, <2>1, <2>3
<1>14. ASSUME NEW ptr \in Tracked(slots), SwitchTo(ptr)
       PROVE  NoRowYet'
  BY <1>14, <1>b DEF SwitchTo
<1>15. CASE Watchdog
  <2>1. current \in Calls => InCore(current)
    BY TrackedElim, CallManagerAssumption DEF InCore
  <2>2. rows' = rows /\ core' = core
    BY <1>15, <2>1 DEF Watchdog
  <2>3. QED
    BY <1>b, <2>2
<1>16. CASE UNCHANGED vars
  BY <1>16, <1>b DEF vars
<1>17. QED
  BY <1>1, <1>2, <1>3, <1>4, <1>5, <1>6, <1>7, <1>8, <1>9, <1>10, <1>11, <1>12,
     <1>13, <1>14, <1>15, <1>16 DEF Next, CoreNext, ApiNext

\* The inductive invariant behind the theorems below.
TableInv == TypeOK /\ OneSlotPerCall /\ TrackedInv /\ NoRowYet

LEMMA TableInvariant ==
  ASSUME ~Silent
  PROVE  Spec => []TableInv
<1>1. Init => TableInv
  BY TypeInit, UniqueInit, TrackedInit DEF TableInv
<1>2. TableInv /\ [Next]_vars => TableInv'
  BY TypeStep, UniqueStep, TrackedStep, NoRowStep DEF TableInv
<1>3. QED
  BY <1>1, <1>2, PTL DEF Spec

\* When the core reports each call it frees, no pointer of the manager dangles.
THEOREM NoneDangles ==
  ASSUME ~Silent
  PROVE  Spec => []NoDanglingReference
<1>1. TableInv => NoDanglingReference
  BY DEF TableInv, TrackedInv
<1>2. QED
  BY <1>1, TableInvariant, PTL

-----------------------------------------------------------------------------
(* What a step may not do.                                                 *)

LEMMA LiveStep ==
  TypeOK /\ TypeOK' /\ OneSlotPerCall /\ TrackedInv /\ ~Silent /\ [Next]_vars
    => [\A c \in Tracked(slots) : Alive(c) /\ Alive(c)' => c \in Tracked(slots')]_vars
<1> SUFFICES ASSUME TypeOK, TypeOK', OneSlotPerCall, TrackedInv, ~Silent, Next,
                    NEW c \in Tracked(slots), Alive(c), Alive(c)'
             PROVE  c \in Tracked(slots')
  BY DEF vars
<1>a. /\ slots \in SlotTable /\ Unique(slots)
      /\ core \in [Calls -> CoreRecord]
  BY DEF TypeOK, SlotTable, SlotRecord, CoreRecord, OneSlotPerCall, Unique
<1>b. PICK i \in Slots : slots[i].call = c /\ c # NoCall
  BY DEF Tracked
<1>c. c \in Calls /\ slots[i].state \notin DeadStates /\ core[c].st # "FREE"
  BY <1>b, TrackedElim DEF Alive
<1>d. ASSUME slots'[i].call = c
      PROVE  c \in Tracked(slots')
  BY <1>b, <1>d DEF Tracked
<1>e. ASSUME NEW e, NEW s, NEW p, slots' = AddOrUpdate(slots, e, s, p)
      PROVE  c \in Tracked(slots')
  BY <1>a, <1>b, <1>c, <1>d, <1>e, UpdateKeeps
<1>f. ASSUME NEW e, slots' = MarkTerminated(slots, e)
      PROVE  c \in Tracked(slots')
  BY <1>a, <1>b, <1>d, <1>f, MarkSlots
<1>g. ASSUME slots' = slots
      PROVE  c \in Tracked(slots')
  BY <1>b, <1>d, <1>g
<1>1. ASSUME NEW d \in Calls, CallClosed(d)
      PROVE  c \in Tracked(slots')
  <2>1. core'[d].st = "FREE" /\ slots' = ClearSlot(slots, d)
    BY <1>1, ReleaseType DEF CallClosed
  <2>2. d # c
    BY <2>1 DEF Alive
  <2>3. slots'[i] = slots[i]
    BY <1>a, <1>b, <2>1, <2>2, ClearSlots
  <2>4. QED
    BY <1>b, <1>d, <2>3
<1>2. CASE Watchdog
  <2>1. slots'[i] = slots[i]
    BY <1>2, <1>b, <1>c DEF Watchdog, Survivors, InCore
  <2>2. QED
    BY <1>b, <1>d, <2>1
<1>3. CASE CoreNext
  <2>1. ASSUME NEW d \in Calls, NEW u \in UAs, CallIncoming(d, u)
        PROVE  c \in Tracked(slots')
    BY <1>e, <2>1 DEF CallIncoming
  <2>2. ASSUME NEW d \in Calls, NEW s \in Provisional, NEW e \in Provisional,
               CallProvisional(d, s, e)
        PROVE  c \in Tracked(slots')
    BY <1>e, <2>2 DEF CallProvisional
  <2>3. ASSUME NEW d \in Calls, CallEstablished(d)
        PROVE  c \in Tracked(slots')
    BY <1>e, <2>3 DEF CallEstablished
  <2>4. ASSUME NEW d \in Calls, CallVanishes(d)
        PROVE  c \in Tracked(slots')
    BY <2>4 DEF CallVanishes
  <2>5. CASE SipSessConn
    BY <1>g, <2>5 DEF SipSessConn
  <2>6. QED
    BY <1>1, <1>3, <2>1, <2>2, <2>3, <2>4, <2>5 DEF CoreNext
<1>4. CASE ApiNext
  <2>1. ASSUME NEW d \in Calls, NEW u \in UAs, Connect(d, u)
        PROVE  c \in Tracked(slots')
    BY <1>e, <2>1 DEF Connect
  <2>2. ASSUME NEW ptr \in Tracked(slots) \cup {NoCall}, Reject(ptr) \/ Hold(ptr) \/ Resume(ptr)
        PROVE  c \in Tracked(slots')
    BY <1>f, <1>g, <2>2 DEF Reject, Hold, Resume
  <2>3. CASE Hangup
    BY <1>f, <2>3 DEF Hangup
  <2>4. ASSUME NEW ptr \in Tracked(slots), SwitchTo(ptr)
        PROVE  c \in Tracked(slots')
    BY <1>g, <2>4 DEF SwitchTo
  <2>5. CASE ConnectFails \/ Answer
    BY <1>g, <2>5 DEF ConnectFails, Answer
  <2>6. QED
    BY <1>4, <2>1, <2>2, <2>3, <2>4, <2>5 DEF ApiNext
<1>5. QED
  BY <1>2, <1>3, <1>4 DEF Next

\* When the core reports each call it frees, no live call is dropped from the
\* table, however full it is.
THEOREM LiveCallsStay ==
  ASSUME ~Silent
  PROVE  Spec => LiveCallStaysTracked
<1>1. TableInv /\ TableInv' /\ [Next]_vars
        => [\A c \in Tracked(slots) : Alive(c) /\ Alive(c)' => c \in Tracked(slots')]_vars
  BY LiveStep DEF TableInv
<1>2. QED
  BY <1>1, TableInvariant, PTL DEF Spec, LiveCallStaysTracked

\* Only the event that closes a call takes it out of the core.
LEMMA OnlyCloseFrees ==
  ASSUME TypeOK, ~Silent, Next, NEW c \in Calls, InCore(c), ~InCore(c)'
  PROVE  CallClosed(c)
<1>a. core \in [Calls -> CoreRecord] /\ core[c].st # "FREE" /\ core'[c].st = "FREE"
  BY DEF TypeOK, CoreRecord, InCore
<1>b. ASSUME \A d \in Calls : core'[d].st = core[d].st
      PROVE  FALSE
  BY <1>a, <1>b
<1>c. ASSUME NEW d \in Calls, NEW s \in CoreStates \ {"FREE"}, core' = [core EXCEPT ![d].st = s]
      PROVE  FALSE
  BY <1>a, <1>c, StateType
<1>d. ASSUME NEW k \in [Calls -> CoreRecord], \A d \in Calls : k[d].st = core[d].st,
             NEW d \in Calls, NEW u \in UAs, NEW s \in CoreStates \ {"FREE"},
             Allocate(k, d, u, s)
      PROVE  FALSE
  <2>1. core'[d].st = s /\ \A e \in Calls : e # d => core'[e] = k[e]
    BY <1>d, AllocateType
  <2>2. QED
    BY <1>a, <1>d, <2>1
<1>1. CoreStates \ {"FREE"} = {"INCOMING", "OUTGOING", "RINGING", "EARLY", "ESTABLISHED",
                               "TERMINATED", "ANSWERED"}
  BY DEF CoreStates, CallStates
<1>2. CASE CoreNext
  <2>1. ASSUME NEW d \in Calls, NEW u \in UAs, CallIncoming(d, u)
        PROVE  FALSE
    BY <1>a, <1>d, <1>1, <2>1 DEF CallIncoming
  <2>2. ASSUME NEW d \in Calls, NEW s \in Provisional, NEW e \in Provisional,
               CallProvisional(d, s, e)
        PROVE  FALSE
    BY <1>c, <1>1, <2>2, CallManagerAssumption DEF CallProvisional
  <2>3. ASSUME NEW d \in Calls, CallEstablished(d)
        PROVE  FALSE
    BY <1>c, <1>1, <2>3 DEF CallEstablished
  <2>4. ASSUME NEW d \in Calls, CallClosed(d)
        PROVE  d = c
    <3>1. \A e \in Calls : e # d => core'[e] = core[e]
      BY <2>4, ReleaseType DEF CallClosed
    <3>2. QED
      BY <1>a, <3>1
  <2>5. ASSUME NEW d \in Calls, CallVanishes(d)
        PROVE  FALSE
    BY <2>5 DEF CallVanishes
  <2>6. CASE SipSessConn
    BY <1>a, <2>6 DEF SipSessConn
  <2>7. QED
    BY <1>2, <2>1, <2>2, <2>3, <2>4, <2>5, <2>6 DEF CoreNext
<1>3. CASE ApiNext
  <2>1. ASSUME NEW d \in Calls, NEW u \in UAs, Connect(d, u)
        PROVE  FALSE
    <3> DEFINE k == SetHold(core, HoldTargets(NoCall), TRUE)
    <3>1. k \in [Calls -> CoreRecord] /\ \A e \in Calls : k[e].st = core[e].st
      BY <1>a, HoldType
    <3>2. Allocate(k, d, u, "OUTGOING")
      BY <2>1 DEF Connect
    <3>3. QED
      <4> HIDE DEF k
      <4>1. QED
        BY <1>d, <1>1, <3>1, <3>2
  <2>2. CASE ConnectFails
    BY <1>a, <1>b, <2>2 DEF ConnectFails, SetHold, CoreRecord
  <2>3. CASE Answer
    <3> DEFINE ringing == {d \in Calls : CallState(d) = "INCOMING"}
               call == IF current # NoCall THEN current ELSE ScanUas(core, older, ringing)
               held == SetHold(core, HoldTargets(call), TRUE)
    <3>1. core' = IF core[call].st = "INCOMING"
                    THEN [held EXCEPT ![call].st = "ANSWERED"] ELSE held
      BY <2>3 DEF Answer
    <3>2. held \in [Calls -> CoreRecord] /\ \A d \in Calls : held[d].st = core[d].st
      BY <1>a, HoldType
    <3>3. QED
      <4> HIDE DEF held, call
      <4>1. CASE c = call
        BY <1>a, <3>1, <3>2, <4>1
      <4>2. CASE c # call
        BY <1>a, <3>1, <3>2, <4>2
      <4>3. QED
        BY <4>1, <4>2
  <2>4. ASSUME NEW ptr \in Tracked(slots) \cup {NoCall}, Reject(ptr)
        PROVE  FALSE
    <3> DEFINE open == {d \in Calls : CallState(d) \in {"INCOMING", "RINGING", "EARLY",
                                                        "ESTABLISHED"}}
               call == IF ptr = NoCall THEN ScanUas(core, older, open) ELSE ptr
    <3>1. core' = [core EXCEPT ![call].st = "TERMINATED"]
      BY <2>4 DEF Reject
    <3>2. QED
      <4> HIDE DEF call
      <4>1. CASE c = call
        BY <1>a, <3>1, <4>1
      <4>2. CASE c # call
        BY <1>a, <3>1, <4>2
      <4>3. QED
        BY <4>1, <4>2
  <2>5. CASE Hangup
    <3>1. current \in Calls /\ core' = [core EXCEPT ![current].st = "TERMINATED"]
      BY <2>5 DEF Hangup, TypeOK, Pointers
    <3>2. QED
      BY <1>c, <1>1, <3>1
  <2>6. ASSUME NEW ptr \in Tracked(slots) \cup {NoCall}, Hold(ptr)
        PROVE  FALSE
    <3> DEFINE call == IF ptr = NoCall THEN current ELSE ptr
    <3>1. core' = SetHold(core, {call}, TRUE)
      BY <2>6 DEF Hold
    <3>2. QED
      <4> HIDE DEF call
      <4>1. QED
        BY <1>a, <1>b, <3>1 DEF SetHold, CoreRecord
  <2>7. ASSUME NEW ptr \in Tracked(slots) \cup {NoCall}, Resume(ptr)
        PROVE  FALSE
    <3> DEFINE call == IF ptr = NoCall THEN current ELSE ptr
               k == SetHold(core, Tracked(slots) \ {call}, TRUE)
    <3>1. core' = SetHold(k, {call}, FALSE)
      BY <2>7 DEF Resume
    <3>2. k \in [Calls -> CoreRecord] /\ \A d \in Calls : k[d].st = core[d].st
      <4> HIDE DEF call
      <4>1. QED
        BY <1>a, HoldType
    <3>3. QED
      <4> HIDE DEF k, call
      <4>1. QED
        BY <1>b, <3>1, <3>2, HoldType
  <2>8. ASSUME NEW ptr \in Tracked(slots), SwitchTo(ptr)
        PROVE  FALSE
    BY <1>a, <2>8 DEF SwitchTo
  <2>9. QED
    BY <1>3, <2>1, <2>2, <2>3, <2>4, <2>5, <2>6, <2>7, <2>8 DEF ApiNext
<1>4. CASE Watchdog
  BY <1>a, <1>4 DEF Watchdog
<1>5. QED
  BY <1>2, <1>3, <1>4 DEF Next

LEMMA LogStep ==
  TypeOK /\ NoRowYet /\ ~Silent /\ [Next]_vars
    => [\A c \in Calls : InCore(c) /\ ~InCore(c)' =>
          /\ Len(rows'[c]) = 1
          /\ core[c].out <=> rows'[c][1] = "OUTGOING"]_vars
<1> SUFFICES ASSUME TypeOK, NoRowYet, ~Silent, Next, NEW c \in Calls, InCore(c), ~InCore(c)'
             PROVE  /\ Len(rows'[c]) = 1
                    /\ core[c].out <=> rows'[c][1] = "OUTGOING"
  BY DEF vars
<1>1. rows' = AddRow(c, ClosedType(c))
  BY OnlyCloseFrees DEF CallClosed
<1>2. rows[c] = <<>> /\ rows \in [Calls -> Seq(RowTypes)] /\ c # NoCall
  BY CallManagerAssumption DEF NoRowYet, TypeOK
<1>3. rows' = [rows EXCEPT ![c] = Append(@, ClosedType(c))]
  BY <1>1, <1>2 DEF AddRow, RowCap
<1>4. rows'[c] = <<ClosedType(c)>>
  BY <1>2, <1>3
<1>5. core[c].out => ClosedType(c) = "OUTGOING"
  BY DEF ClosedType
<1>6. ~core[c].out => ClosedType(c) # "OUTGOING"
  BY DEF ClosedType
<1>7. Len(rows'[c]) = 1 /\ rows'[c][1] = ClosedType(c)
  BY <1>4
<1>8. core[c].out \in BOOLEAN
  BY DEF TypeOK
<1>9. QED
  BY <1>5, <1>6, <1>7, <1>8

\* When the core reports each call it frees, each call leaves exactly one row in
\* the history, of its direction.
THEOREM EachCallIsLogged ==
  ASSUME ~Silent
  PROVE  Spec => ClosedIsLogged
<1>1. TableInv /\ [Next]_vars
        => [\A c \in Calls : InCore(c) /\ ~InCore(c)' =>
              /\ Len(rows'[c]) = 1
              /\ core[c].out <=> rows'[c][1] = "OUTGOING"]_vars
  BY LogStep DEF TableInv
<1>2. QED
  BY <1>1, TableInvariant, PTL DEF Spec, ClosedIsLogged

-----------------------------------------------------------------------------
(* The table and the core, with one account: that the table says what the  *)
(* core says, and what follows for single steps.  With several accounts a  *)
(* new call is not always the one the scan of the accounts returns, and    *)
(* its slot would name another call.                                       *)

\* The order of ua_calls() is one of the calls in the core.
OlderOK == \A c, d \in Calls : <<c, d>> \in older => core[c].st # "FREE" /\ core[d].st # "FREE"

\* With one account, the call that was allocated last is ua_call().
LEMMA NewestIsFound ==
  ASSUME TypeOK, OlderOK, NumUAs = 1, NEW c \in Calls, NEW u \in UAs,
         NEW s \in CoreStates \ {"FREE"}, Allocate(core, c, u, s)
  PROVE  ScanUas(core', older', Calls) = c
<1>a. /\ core \in [Calls -> CoreRecord] /\ core' \in [Calls -> CoreRecord]
      /\ core[c].st = "FREE" /\ core'[c].st = s
      /\ \A d \in Calls : d # c => core'[d] = core[d]
      /\ older \subseteq Calls \X Calls
      /\ older' = older \cup {<<d, c>> : d \in UaCalls(core, u)}
  <2>1. core \in [Calls -> CoreRecord] /\ older \subseteq Calls \X Calls
    BY DEF TypeOK, CoreRecord
  <2>2. core' \in [Calls -> CoreRecord] /\ core'[c].st = s
        /\ \A d \in Calls : d # c => core'[d] = core[d]
    BY <2>1, AllocateType
  <2> QED
    BY <2>1, <2>2 DEF Allocate
<1>b. u = 1 /\ \A d \in Calls : core[d].ua = 1 /\ core'[d].ua = 1
  BY <1>a DEF UAs, CoreRecord
<1>1. IsUaCall(core', older', c)
  <2> SUFFICES ASSUME NEW d \in UaCalls(core', core'[c].ua), <<c, d>> \in older'
               PROVE  FALSE
    BY <1>a DEF IsUaCall
  <2>1. d \in Calls
    BY DEF UaCalls
  <2>2. <<c, d>> \notin older
    BY <1>a, <2>1 DEF OlderOK
  <2>3. PICK e \in UaCalls(core, u) : <<c, d>> = <<e, c>>
    BY <1>a, <2>2
  <2>4. core[c].st # "FREE"
    BY <2>3 DEF UaCalls
  <2> QED
    BY <1>a, <2>4
<1>2. ASSUME NEW x \in Calls, IsUaCall(core', older', x), x # c
      PROVE  FALSE
  <2>1. core[x].st # "FREE"
    BY <1>a, <1>2 DEF IsUaCall
  <2>2. <<x, c>> \in older'
    BY <1>a, <1>b, <2>1 DEF UaCalls
  <2>3. c \in UaCalls(core', core'[x].ua)
    BY <1>a, <1>b DEF UaCalls
  <2> QED
    BY <1>2, <2>2, <2>3 DEF IsUaCall
<1>3. {x \in Calls : IsUaCall(core', older', x)} = {c}
  BY <1>1, <1>2
<1>4. {x \in {c} : \A d \in {c} : core'[x].ua <= core'[d].ua} = {c}
  BY <1>b
<1> QED
  BY <1>3, <1>4 DEF ScanUas

-----------------------------------------------------------------------------
(* What a step does to the table and to the core.                          *)

OthersStay(c) == \A d \in Calls : d # c => core'[d].st = core[d].st

\* No other call is taken off hold.
Holds(c) ==
  \A d \in Calls : d # c => /\ core[d].hold = TRUE => core'[d].hold = TRUE
                            /\ core[d].st = "FREE" => core'[d].hold = core[d].hold

\* A call is new, in the core and in the table ...
Joins(c, s) ==
  /\ core[c].st = "FREE" /\ core'[c].st = s /\ OthersStay(c)
  /\ s \in {"INCOMING", "OUTGOING"}
  /\ Holds(c)
  /\ \A d, e \in Calls : <<d, e>> \in older' =>
       <<d, e>> \in older \/ (core[d].st # "FREE" /\ e = c)
  /\ slots' = AddOrUpdate(slots, c, s, c)

\* ... and the manager turns to it.
Enters(c, s) ==
  /\ Joins(c, s)
  /\ current' = c /\ state' = s

\* It is in another state, s for the manager and t for the core.
Moves(c, s, t) ==
  /\ core[c].st \notin {"FREE", "TERMINATED"} /\ core'[c].st = t /\ OthersStay(c)
  /\ Holds(c) /\ core'[c].hold = core[c].hold
  /\ s \in {"RINGING", "EARLY", "ESTABLISHED"} /\ t \in {"RINGING", "EARLY", "ESTABLISHED"}
  /\ Phase(s) = Phase(t)
  /\ older' = older
  /\ slots' = AddOrUpdate(slots, c, s, c)
  /\ current' \in {current, c} /\ state' = s

\* It is ended by the user.
Ends(c) ==
  /\ core[c].st # "FREE" /\ core'[c].st = "TERMINATED" /\ OthersStay(c)
  /\ Holds(c) /\ core'[c].hold = core[c].hold
  /\ older' = older
  /\ slots' = MarkTerminated(slots, c)

\* The table is as before, and so is the core, but for a call that is answered.
Stays ==
  /\ slots' = slots /\ older' = older
  /\ \A d \in Calls : \/ core'[d].st = core[d].st
                      \/ core[d].st = "INCOMING" /\ core'[d].st = "ANSWERED"

Quiet ==
  \/ SipSessConn \/ ConnectFails \/ Answer
  \/ \E ptr \in Tracked(slots) \cup {NoCall} : Hold(ptr)
  \/ \E ptr \in Tracked(slots) \cup {NoCall} : Resume(ptr)
  \/ \E ptr \in Tracked(slots) : SwitchTo(ptr)
  \/ Watchdog
  \/ UNCHANGED vars

\* A hold leaves the calls that are not in the core alone.
LEMMA HoldMore ==
  ASSUME core \in [Calls -> CoreRecord], NEW S
  PROVE  \A d \in Calls :
           /\ core[d].hold = TRUE => SetHold(core, S, TRUE)[d].hold = TRUE
           /\ core[d].st = "FREE" => SetHold(core, S, TRUE)[d].hold = core[d].hold
BY DEF SetHold, CoreRecord

LEMMA AllocateEnters ==
  ASSUME TypeOK, NEW k \in [Calls -> CoreRecord], \A d \in Calls : k[d].st = core[d].st,
         \A d \in Calls : /\ core[d].hold = TRUE => k[d].hold = TRUE
                          /\ core[d].st = "FREE" => k[d].hold = core[d].hold,
         NEW c \in Calls, NEW u \in UAs, NEW s \in CoreStates \ {"FREE"}, Allocate(k, c, u, s)
  PROVE  /\ core[c].st = "FREE" /\ core'[c].st = s /\ OthersStay(c) /\ Holds(c)
         /\ \A d, e \in Calls : <<d, e>> \in older' =>
              <<d, e>> \in older \/ (core[d].st # "FREE" /\ e = c)
<1>1. core'[c].st = s /\ \A d \in Calls : d # c => core'[d] = k[d]
  BY AllocateType
<1>2. core[c].st = "FREE" /\ older' = older \cup {<<d, c>> : d \in UaCalls(core, u)}
  BY DEF Allocate
<1>3. OthersStay(c) /\ Holds(c)
  BY <1>1 DEF OthersStay, Holds
<1>4. ASSUME NEW d \in Calls, NEW e \in Calls, <<d, e>> \in older', <<d, e>> \notin older
      PROVE  core[d].st # "FREE" /\ e = c
  <2>1. PICK x \in UaCalls(core, u) : <<d, e>> = <<x, c>>
    BY <1>2, <1>4
  <2>2. d = x /\ e = c
    BY <2>1
  <2> QED
    BY <2>2 DEF UaCalls
<1> QED
  BY <1>1, <1>2, <1>3, <1>4

\* Writing one state in the core.
LEMMA StateOthers ==
  ASSUME core \in [Calls -> CoreRecord], NEW c \in Calls, NEW s \in CoreStates,
         core' = [core EXCEPT ![c].st = s]
  PROVE  core'[c].st = s /\ OthersStay(c) /\ Holds(c) /\ core'[c].hold = core[c].hold
BY DEF OthersStay, Holds, CoreRecord

\* The shapes of the steps.
LEMMA StepShapes ==
  ASSUME TypeOK, TrackedInv, OlderOK, ~Silent, NumUAs = 1, [Next]_vars
  PROVE  \/ \E c \in Calls, s \in CallStates : Enters(c, s)
         \/ \E c \in Calls, s, t \in CallStates : Moves(c, s, t)
         \/ \E c \in Calls : CallClosed(c)
         \/ \E c \in Calls : Ends(c) /\ ((Hangup /\ c = current) \/ UNCHANGED <<state, current>>)
         \/ Quiet
<1>a. core \in [Calls -> CoreRecord] /\ slots \in SlotTable /\ current \in Pointers
  BY DEF TypeOK, CoreRecord, SlotTable, SlotRecord
<1>b. /\ {"INCOMING", "OUTGOING", "RINGING", "EARLY", "ESTABLISHED", "TERMINATED"} \subseteq CallStates
      /\ {"INCOMING", "OUTGOING", "RINGING", "EARLY", "ESTABLISHED", "TERMINATED"}
           \subseteq CoreStates \ {"FREE"}
  BY DEF CoreStates, CallStates
<1>1. ASSUME NEW c \in Calls, NEW u \in UAs, CallIncoming(c, u)
      PROVE  Enters(c, "INCOMING")
  <2>1. Allocate(core, c, u, "INCOMING") /\ "INCOMING" \in CoreStates \ {"FREE"}
    BY <1>1, <1>b DEF CallIncoming
  <2>2. ScanUas(core', older', Calls) = c
    BY <2>1, NewestIsFound
  <2>3. current' = c /\ slots' = AddOrUpdate(slots, c, "INCOMING", c) /\ state' = "INCOMING"
    BY <1>1, <2>2 DEF CallIncoming
  <2>4. /\ core[c].st = "FREE" /\ core'[c].st = "INCOMING" /\ OthersStay(c) /\ Holds(c)
        /\ \A d, e \in Calls : <<d, e>> \in older' =>
             <<d, e>> \in older \/ (core[d].st # "FREE" /\ e = c)
    BY <1>a, <2>1, AllocateEnters
  <2> QED
    BY <2>3, <2>4 DEF Enters, Joins
<1>2. ASSUME NEW c \in Calls, NEW s \in Provisional, NEW e \in Provisional,
             CallProvisional(c, s, e)
      PROVE  Moves(c, e, s)
  <2>1. s \in {"RINGING", "EARLY"} /\ e \in {"RINGING", "EARLY"}
    BY CallManagerAssumption
  <2>2. s \in CoreStates /\ core' = [core EXCEPT ![c].st = s]
    BY <1>2, <1>b, <2>1 DEF CallProvisional
  <2>3. core'[c].st = s /\ OthersStay(c) /\ Holds(c) /\ core'[c].hold = core[c].hold
    BY <1>a, <2>2, StateOthers
  <2>4. Phase(s) = Phase(e)
    BY <2>1 DEF Phase
  <2>5. /\ core[c].st \notin {"FREE", "TERMINATED"} /\ older' = older
        /\ slots' = AddOrUpdate(slots, c, e, c) /\ current' = current /\ state' = e
    BY <1>2 DEF CallProvisional
  <2> QED
    BY <2>1, <2>3, <2>4, <2>5 DEF Moves
<1>3. ASSUME NEW c \in Calls, CallEstablished(c)
      PROVE  Moves(c, "ESTABLISHED", "ESTABLISHED")
  <2>1. core' = [core EXCEPT ![c].st = "ESTABLISHED"] /\ "ESTABLISHED" \in CoreStates
    BY <1>3, <1>b DEF CallEstablished
  <2>2. core'[c].st = "ESTABLISHED" /\ OthersStay(c) /\ Holds(c) /\ core'[c].hold = core[c].hold
    BY <1>a, <2>1, StateOthers
  <2>3. /\ core[c].st \notin {"FREE", "TERMINATED"} /\ older' = older
        /\ slots' = AddOrUpdate(slots, c, "ESTABLISHED", c) /\ current' = c
        /\ state' = "ESTABLISHED"
    BY <1>3 DEF CallEstablished
  <2> QED
    BY <2>2, <2>3 DEF Moves
<1>4. ASSUME NEW c \in Calls, NEW u \in UAs, Connect(c, u)
      PROVE  Enters(c, "OUTGOING")
  <2> DEFINE k == SetHold(core, HoldTargets(NoCall), TRUE)
  <2>1. k \in [Calls -> CoreRecord] /\ \A d \in Calls : k[d].st = core[d].st
    BY <1>a, HoldType
  <2>2. \A d \in Calls : /\ core[d].hold = TRUE => k[d].hold = TRUE
                         /\ core[d].st = "FREE" => k[d].hold = core[d].hold
    BY <1>a, HoldMore
  <2>3. /\ Allocate(k, c, u, "OUTGOING") /\ current' = c /\ state' = "OUTGOING"
        /\ slots' = AddOrUpdate(slots, c, "OUTGOING", c)
    BY <1>4 DEF Connect
  <2>4. "OUTGOING" \in CoreStates \ {"FREE"}
    BY <1>b
  <2> HIDE DEF k
  <2>5. /\ core[c].st = "FREE" /\ core'[c].st = "OUTGOING" /\ OthersStay(c) /\ Holds(c)
        /\ \A d, e \in Calls : <<d, e>> \in older' =>
             <<d, e>> \in older \/ (core[d].st # "FREE" /\ e = c)
    BY <2>1, <2>2, <2>3, <2>4, AllocateEnters
  <2> QED
    BY <2>3, <2>5 DEF Enters, Joins
<1>5. ASSUME NEW c \in Calls, core[c].st # "FREE", core' = [core EXCEPT ![c].st = "TERMINATED"],
             slots' = MarkTerminated(slots, c), older' = older
      PROVE  Ends(c)
  <2>1. "TERMINATED" \in CoreStates
    BY <1>b
  <2>2. core'[c].st = "TERMINATED" /\ OthersStay(c) /\ Holds(c) /\ core'[c].hold = core[c].hold
    BY <1>a, <1>5, <2>1, StateOthers
  <2> QED
    BY <1>5, <2>2 DEF Ends
<1>6. ASSUME NEW ptr \in Tracked(slots) \cup {NoCall}, Reject(ptr)
      PROVE  \E c \in Calls : Ends(c) /\ UNCHANGED <<state, current>>
  <2> DEFINE open == {c \in Calls : CallState(c) \in {"INCOMING", "RINGING", "EARLY",
                                                      "ESTABLISHED"}}
             call == IF ptr = NoCall THEN ScanUas(core, older, open) ELSE ptr
  <2>1. /\ call # NoCall /\ Readable({call})
        /\ slots' = MarkTerminated(slots, call) /\ core' = [core EXCEPT ![call].st = "TERMINATED"]
        /\ older' = older /\ state' = state /\ current' = current
    BY <1>6 DEF Reject
  <2>2. call \in Calls
    <3>1. ScanUas(core, older, open) \in open \cup {NoCall}
      BY ScanUasFound
    <3>2. ptr \in Pointers
      BY <1>a DEF Tracked, SlotTable, SlotRecord, Pointers
    <3> QED
      BY <2>1, <3>1, <3>2 DEF Pointers
  <2>3. core[call].st # "FREE"
    BY <2>1 DEF Readable, InCore
  <2> HIDE DEF call
  <2> QED
    BY <1>5, <2>1, <2>2, <2>3
<1>7. ASSUME Hangup
      PROVE  Ends(current) /\ current \in Calls
  <2>1. /\ current # NoCall /\ Readable({current}) /\ older' = older
        /\ slots' = MarkTerminated(slots, current) /\ core' = [core EXCEPT ![current].st = "TERMINATED"]
    BY <1>7 DEF Hangup
  <2>2. current \in Calls /\ core[current].st # "FREE"
    BY <1>a, <2>1 DEF Readable, InCore, Pointers
  <2> QED
    BY <1>5, <2>1, <2>2
<1>8. ASSUME NEW c \in Calls, CallVanishes(c)
      PROVE  FALSE
  BY <1>8 DEF CallVanishes
<1>9. CASE CoreNext
  <2>1. \/ \E c \in Calls, s \in CallStates : Enters(c, s)
        \/ \E c \in Calls, s, t \in CallStates : Moves(c, s, t)
        \/ \E c \in Calls : CallClosed(c)
        \/ SipSessConn
    <3>1. Provisional \subseteq CallStates
      BY <1>b, CallManagerAssumption
    <3> QED
      BY <1>1, <1>2, <1>3, <1>8, <1>9, <1>b, <3>1 DEF CoreNext
  <2> QED
    BY <2>1 DEF Quiet
<1>10. CASE ApiNext
  <2>1. ASSUME NEW c \in Calls, NEW u \in UAs, Connect(c, u)
        PROVE  \E d \in Calls, s \in CallStates : Enters(d, s)
    BY <1>4, <1>b, <2>1
  <2>2. CASE Hangup
    BY <1>7, <2>2
  <2> QED
    BY <1>6, <1>10, <2>1, <2>2 DEF ApiNext, Quiet
<1> QED
  BY <1>9, <1>10 DEF Next, Quiet

\* Quiet steps.
LEMMA QuietStays ==
  ASSUME TypeOK, TrackedInv, ~Silent, Quiet
  PROVE  Stays
<1>a. core \in [Calls -> CoreRecord] /\ slots \in SlotTable
  BY DEF TypeOK, CoreRecord, SlotTable, SlotRecord
<1>b. /\ current = NoCall \/ (current \in Calls /\ core[current].st # "FREE")
      /\ \A i \in Slots : slots[i].call # NoCall =>
              /\ slots[i].call \in Calls
              /\ core[slots[i].call].st # "FREE"
  BY TrackedElim
<1>1. CASE SipSessConn
  BY <1>1 DEF SipSessConn, Stays
<1>2. CASE ConnectFails
  BY <1>2, <1>a, HoldType DEF ConnectFails, Stays
<1>3. CASE Answer
  <2> DEFINE ringing == {c \in Calls : CallState(c) = "INCOMING"}
             call == IF current # NoCall THEN current ELSE ScanUas(core, older, ringing)
             held == SetHold(core, HoldTargets(call), TRUE)
  <2>1. /\ call # NoCall /\ slots' = slots /\ older' = older
        /\ core' = IF core[call].st = "INCOMING"
                     THEN [held EXCEPT ![call].st = "ANSWERED"] ELSE held
    BY <1>3 DEF Answer
  <2>2. call \in Calls
    <3>1. \/ ScanUas(core, older, ringing) = NoCall
          \/ ScanUas(core, older, ringing) \in ringing
      BY ScanUasFound
    <3> QED
      BY <1>b, <2>1, <3>1
  <2>3. held \in [Calls -> CoreRecord] /\ \A d \in Calls : held[d].st = core[d].st
    BY <1>a, HoldType
  <2>4. "ANSWERED" \in CoreStates
    BY DEF CoreStates
  <2> HIDE DEF held, call
  <2>5. CASE core[call].st = "INCOMING"
    <3>1. core' = [held EXCEPT ![call].st = "ANSWERED"]
      BY <2>1, <2>5
    <3> QED
      BY <2>1, <2>2, <2>3, <2>4, <2>5, <3>1, StateType DEF Stays
  <2>6. CASE core[call].st # "INCOMING"
    BY <2>1, <2>3, <2>6 DEF Stays
  <2> QED
    BY <2>5, <2>6
<1>4. ASSUME NEW ptr \in Tracked(slots) \cup {NoCall}, Hold(ptr)
      PROVE  Stays
  BY <1>4, <1>a, HoldType DEF Hold, Stays
<1>5. ASSUME NEW ptr \in Tracked(slots) \cup {NoCall}, Resume(ptr)
      PROVE  Stays
  <2> DEFINE call == IF ptr = NoCall THEN current ELSE ptr
             k == SetHold(core, Tracked(slots) \ {call}, TRUE)
  <2>1. core' = SetHold(k, {call}, FALSE) /\ UNCHANGED <<older, slots>>
    BY <1>5 DEF Resume
  <2>2. k \in [Calls -> CoreRecord] /\ \A d \in Calls : k[d].st = core[d].st
    <3> HIDE DEF call
    <3> QED
      BY <1>a, HoldType
  <2> HIDE DEF k, call
  <2>3. \A d \in Calls : core'[d].st = core[d].st
    BY <2>1, <2>2, HoldType
  <2> QED
    BY <2>1, <2>3 DEF Stays
<1>6. ASSUME NEW ptr \in Tracked(slots), SwitchTo(ptr)
      PROVE  Stays
  BY <1>6 DEF SwitchTo, Stays
<1>7. CASE Watchdog
  <2>1. \A i \in Slots : slots[i].call \in Calls => InCore(slots[i].call)
    BY <1>b, CallManagerAssumption DEF InCore
  <2>2. slots' = slots
    BY <1>7, <1>a, <2>1 DEF Watchdog, Survivors, SlotTable
  <2> QED
    BY <1>7, <2>2 DEF Watchdog, Stays
<1>8. CASE UNCHANGED vars
  BY <1>8 DEF vars, Stays
<1> QED
  BY <1>1, <1>2, <1>3, <1>4, <1>5, <1>6, <1>7, <1>8 DEF Quiet

\* The watchdog finds nothing to repair while each freed call is reported.
LEMMA WatchdogIdles ==
  ASSUME TypeOK, TrackedInv, Watchdog
  PROVE  UNCHANGED <<core, current, state>>
<1>1. current = NoCall \/ (current \in Calls /\ core[current].st # "FREE")
  BY TrackedElim
<1>2. current \in Calls => InCore(current)
  BY <1>1, CallManagerAssumption DEF InCore
<1> QED
  BY <1>2 DEF Watchdog

-----------------------------------------------------------------------------
(* What each shape does to the slots and to the order of the calls.        *)

\* The slot of a call that is in the table is the one an update writes ...
LEMMA UpdateHits ==
  ASSUME NEW sl \in SlotTable, Unique(sl), NEW c \in Calls, NEW s, NEW p,
         NEW i \in Slots, sl[i].call = c
  PROVE  AddOrUpdate(sl, c, s, p)[i] = [call |-> c, state |-> s, peer |-> p]
<1>1. SlotsOf(sl, c) = {i}
  BY CallManagerAssumption DEF SlotsOf, Unique
<1>2. IsFirst(i, SlotsOf(sl, c))
  BY <1>1, CallManagerAssumption DEF IsFirst, Slots
<1>3. c \in Tracked(sl)
  BY CallManagerAssumption DEF Tracked
<1> QED
  BY <1>2, <1>3 DEF AddOrUpdate, IsTarget

\* ... and the one that is marked when the call is ended.
LEMMA MarkHits ==
  ASSUME NEW sl \in SlotTable, Unique(sl), NEW c \in Calls, NEW i \in Slots, sl[i].call = c
  PROVE  /\ MarkTerminated(sl, c)[i].state = "TERMINATED"
         /\ MarkTerminated(sl, c)[i].call = c
         /\ MarkTerminated(sl, c)[i].peer = sl[i].peer
<1>1. SlotsOf(sl, c) = {i}
  BY CallManagerAssumption DEF SlotsOf, Unique
<1>2. IsFirst(i, SlotsOf(sl, c))
  BY <1>1, CallManagerAssumption DEF IsFirst, Slots
<1>3. MarkTerminated(sl, c)[i] = [sl[i] EXCEPT !.state = "TERMINATED"]
  BY <1>2 DEF MarkTerminated
<1> QED
  BY <1>3 DEF SlotTable, SlotRecord

\* An update that finds no slot leaves a table of live calls.
LEMMA UpdateMisses ==
  ASSUME NEW sl \in SlotTable, NEW c \in Calls, NEW s, NEW p
  PROVE  \/ c \in Tracked(AddOrUpdate(sl, c, s, p))
         \/ \A i \in Slots : AddOrUpdate(sl, c, s, p)[i].state \notin DeadStates
<1> DEFINE dead == {j \in Slots : sl[j].state \in DeadStates}
           new == AddOrUpdate(sl, c, s, p)
<1>1. ASSUME NEW i, IsTarget(sl, c, i)
      PROVE  c \in Tracked(new)
  <2>1. i \in Slots
    BY <1>1, TargetIsOne
  <2>2. new[i].call = c
    BY <1>1, <2>1 DEF AddOrUpdate
  <2> HIDE DEF new
  <2> QED
    BY <2>1, <2>2, CallManagerAssumption DEF Tracked
<1>2. CASE c \in Tracked(sl)
  <2>1. SlotsOf(sl, c) \in SUBSET Slots /\ SlotsOf(sl, c) # {}
    BY <1>2 DEF Tracked, SlotsOf
  <2>2. IsTarget(sl, c, First(SlotsOf(sl, c)))
    BY <1>2, <2>1, FirstExists DEF IsTarget
  <2> QED
    BY <1>1, <2>2
<1>3. CASE c \notin Tracked(sl) /\ SlotsOf(sl, NoCall) # {}
  <2>1. SlotsOf(sl, NoCall) \in SUBSET Slots
    BY DEF SlotsOf
  <2>2. IsTarget(sl, c, First(SlotsOf(sl, NoCall)))
    BY <1>3, <2>1, FirstExists DEF IsTarget
  <2> QED
    BY <1>1, <2>2
<1>4. CASE c \notin Tracked(sl) /\ SlotsOf(sl, NoCall) = {} /\ dead # {}
  <2>1. dead \in SUBSET Slots
    OBVIOUS
  <2>2. IsFirst(First(dead), dead)
    BY <1>4, <2>1, FirstExists
  <2>3. IsTarget(sl, c, First(dead))
    BY <1>4, <2>2 DEF IsTarget
  <2> QED
    BY <1>1, <2>3
<1>5. CASE c \notin Tracked(sl) /\ SlotsOf(sl, NoCall) = {} /\ dead = {}
  <2>1. \A i \in Slots : ~IsTarget(sl, c, i)
    BY <1>5 DEF IsTarget, IsFirst
  <2>2. \A i \in Slots : new[i] = sl[i]
    BY <2>1 DEF AddOrUpdate
  <2> QED
    BY <1>5, <2>2
<1> QED
  BY <1>2, <1>3, <1>4, <1>5

\* The oldest of several calls exists.
HasOldest ==
  \A S \in SUBSET Calls : S # {} /\ (\A d \in S : core[d].st # "FREE")
     => \E m \in S : \A d \in S : <<d, m>> \notin older

OrderOK == OlderOK /\ HasOldest

\* A call that has left the core is not on hold.
FreeIsUnheld == \A c \in Calls : core[c].st = "FREE" => core[c].hold = FALSE

\* TERMINATED is the state of a call that is still the current one.
EndedIsCurrent == state = "TERMINATED" => current \in Calls /\ core[current].st = "TERMINATED"

FaithInv ==
  TypeOK /\ OneSlotPerCall /\ TrackedInv /\ OrderOK /\ SlotIsFaithful
  /\ FreeIsUnheld /\ EndedIsCurrent

\* A step that takes no call into the core.
LEMMA OrderKept ==
  ASSUME OrderOK,
         \A d \in Calls : core'[d].st # "FREE" => core[d].st # "FREE",
         older' \subseteq older,
         \A d, e \in Calls : <<d, e>> \in older' => core'[d].st # "FREE" /\ core'[e].st # "FREE"
  PROVE  OrderOK'
<1>1. OlderOK'
  BY DEF OlderOK
<1>2. HasOldest'
  <2> SUFFICES ASSUME NEW S \in SUBSET Calls, S # {}, \A d \in S : core'[d].st # "FREE"
               PROVE  \E m \in S : \A d \in S : <<d, m>> \notin older'
    BY DEF HasOldest
  <2>1. \A d \in S : core[d].st # "FREE"
    OBVIOUS
  <2>2. PICK m \in S : \A d \in S : <<d, m>> \notin older
    BY <2>1 DEF OrderOK, HasOldest
  <2> QED
    BY <2>2
<1> QED
  BY <1>1, <1>2 DEF OrderOK

LEMMA OrderJoins ==
  ASSUME OrderOK, NEW c \in Calls, NEW s \in CallStates, Joins(c, s)
  PROVE  OrderOK'
<1>1. /\ core[c].st = "FREE" /\ core'[c].st # "FREE"
      /\ \A d \in Calls : d # c => core'[d].st = core[d].st
      /\ \A d, e \in Calls : <<d, e>> \in older' =>
           <<d, e>> \in older \/ (core[d].st # "FREE" /\ e = c)
  BY DEF Joins, OthersStay
<1>2. \A d, e \in Calls : <<d, e>> \in older => core[d].st # "FREE" /\ core[e].st # "FREE"
  BY DEF OrderOK, OlderOK
<1>3. OlderOK'
  BY <1>1, <1>2 DEF OlderOK
<1>4. HasOldest'
  <2> SUFFICES ASSUME NEW S \in SUBSET Calls, S # {}, \A d \in S : core'[d].st # "FREE"
               PROVE  \E m \in S : \A d \in S : <<d, m>> \notin older'
    BY DEF HasOldest
  <2>1. CASE S = {c}
    BY <1>1, <1>2, <2>1
  <2>2. CASE S # {c}
    <3> DEFINE T == S \ {c}
    <3>1. T \in SUBSET Calls /\ T # {} /\ \A d \in T : core[d].st # "FREE"
      BY <1>1, <2>2
    <3>2. PICK m \in T : \A d \in T : <<d, m>> \notin older
      <4> HIDE DEF T
      <4> QED
        BY <3>1 DEF OrderOK, HasOldest
    <3>3. m \in S /\ m # c
      BY <3>2
    <3>4. \A d \in S : <<d, m>> \notin older'
      BY <1>1, <1>2, <3>2, <3>3
    <3> QED
      BY <3>3, <3>4
  <2> QED
    BY <2>1, <2>2
<1> QED
  BY <1>3, <1>4 DEF OrderOK

LEMMA OrderStays ==
  ASSUME OrderOK, Stays
  PROVE  OrderOK'
BY OrderKept DEF OrderOK, OlderOK, Stays

LEMMA OrderStep ==
  ASSUME TypeOK, TrackedInv, OrderOK, ~Silent, NumUAs = 1, [Next]_vars
  PROVE  OrderOK'
<1>a. OlderOK /\ HasOldest
  BY DEF OrderOK
<1>b. core \in [Calls -> CoreRecord]
  BY DEF TypeOK, CoreRecord
<1>1. ASSUME NEW c \in Calls, NEW s \in CallStates, Enters(c, s)
      PROVE  OrderOK'
  BY <1>1, OrderJoins DEF Enters
<1>2. ASSUME NEW c \in Calls, NEW s \in CallStates, NEW t \in CallStates, Moves(c, s, t)
      PROVE  OrderOK'
  <2>1. /\ core[c].st # "FREE" /\ core'[c].st # "FREE" /\ older' = older
        /\ \A d \in Calls : d # c => core'[d].st = core[d].st
    BY <1>2 DEF Moves, OthersStay
  <2> QED
    BY <1>a, <2>1, OrderKept DEF OlderOK
<1>3. ASSUME NEW c \in Calls, CallClosed(c)
      PROVE  OrderOK'
  <2>1. Release(c)
    BY <1>3 DEF CallClosed
  <2>2. core'[c].st = "FREE" /\ \A d \in Calls : d # c => core'[d] = core[d]
    BY <2>1, ReleaseType
  <2>3. older' = {p \in older : p[1] # c /\ p[2] # c}
    BY <2>1 DEF Release
  <2>4. \A d, e \in Calls : <<d, e>> \in older' => d # c /\ e # c /\ <<d, e>> \in older
    BY <2>3
  <2> QED
    BY <1>a, <2>2, <2>3, <2>4, OrderKept DEF OlderOK
<1>4. ASSUME NEW c \in Calls, Ends(c)
      PROVE  OrderOK'
  <2>1. /\ core[c].st # "FREE" /\ core'[c].st # "FREE" /\ older' = older
        /\ \A d \in Calls : d # c => core'[d].st = core[d].st
    BY <1>4 DEF Ends, OthersStay
  <2> QED
    BY <1>a, <2>1, OrderKept DEF OlderOK
<1>5. CASE Quiet
  BY <1>5, QuietStays, OrderStays
<1> QED
  BY <1>a, <1>1, <1>2, <1>3, <1>4, <1>5, StepShapes

\* What call_state() says, as far as a slot can tell.
Said(st) == Phase(IF st = "ANSWERED" THEN "INCOMING" ELSE st)

\* A faithful table, slot by slot.
LEMMA FaithElim ==
  ASSUME TypeOK, TrackedInv, SlotIsFaithful, NEW i \in Slots, slots[i].call # NoCall
  PROVE  /\ slots[i].call \in Calls
         /\ core[slots[i].call].st # "FREE"
         /\ Phase(slots[i].state) = Said(core[slots[i].call].st)
         /\ slots[i].peer = slots[i].call
<1>1. slots[i].call \in Calls /\ core[slots[i].call].st # "FREE"
  BY TrackedElim
<1> QED
  BY <1>1 DEF SlotIsFaithful, Occupied, CallState, Said

LEMMA FaithIntro ==
  ASSUME \A i \in Slots : slots'[i].call # NoCall =>
           /\ Phase(slots'[i].state) = Said(core'[slots'[i].call].st)
           /\ slots'[i].peer = slots'[i].call
  PROVE  SlotIsFaithful'
BY DEF SlotIsFaithful, Occupied, CallState, Said

LEMMA FaithJoins ==
  ASSUME TypeOK, TrackedInv, SlotIsFaithful,
         NEW c \in Calls, NEW s \in CallStates, Joins(c, s)
  PROVE  SlotIsFaithful'
<1>a. slots \in SlotTable
  BY DEF TypeOK, SlotTable, SlotRecord
<1> SUFFICES ASSUME NEW i \in Slots, slots'[i].call # NoCall
             PROVE  /\ Phase(slots'[i].state) = Said(core'[slots'[i].call].st)
                    /\ slots'[i].peer = slots'[i].call
  BY FaithIntro
<1>1. /\ core[c].st = "FREE" /\ core'[c].st = s /\ s # "ANSWERED"
      /\ \A d \in Calls : d # c => core'[d].st = core[d].st
      /\ slots' = AddOrUpdate(slots, c, s, c)
  BY DEF Joins, OthersStay
<1>2. slots'[i] = [call |-> c, state |-> s, peer |-> c] \/ slots'[i] = slots[i]
  BY <1>a, <1>1, UpdateSlots
<1>3. CASE slots'[i] = [call |-> c, state |-> s, peer |-> c]
  BY <1>1, <1>3 DEF Said
<1>4. CASE slots'[i] = slots[i]
  BY <1>1, <1>4, FaithElim
<1> QED
  BY <1>2, <1>3, <1>4

LEMMA FaithStays ==
  ASSUME TypeOK, TrackedInv, SlotIsFaithful, Stays
  PROVE  SlotIsFaithful'
<1> SUFFICES ASSUME NEW i \in Slots, slots'[i].call # NoCall
             PROVE  /\ Phase(slots'[i].state) = Said(core'[slots'[i].call].st)
                    /\ slots'[i].peer = slots'[i].call
  BY FaithIntro
<1>1. /\ slots' = slots
      /\ \A d \in Calls : \/ core'[d].st = core[d].st
                          \/ core[d].st = "INCOMING" /\ core'[d].st = "ANSWERED"
  BY DEF Stays
<1>2. \A d \in Calls : Said(core'[d].st) = Said(core[d].st)
  BY <1>1 DEF Said
<1> QED
  BY <1>1, <1>2, FaithElim

LEMMA FaithStep ==
  ASSUME TypeOK, TypeOK', OneSlotPerCall, TrackedInv, OlderOK, SlotIsFaithful,
         ~Silent, NumUAs = 1, [Next]_vars
  PROVE  SlotIsFaithful'
<1>a. slots \in SlotTable /\ Unique(slots) /\ slots' \in SlotTable
  BY DEF TypeOK, SlotTable, SlotRecord, OneSlotPerCall, Unique
<1>b. \A i \in Slots : slots[i].call # NoCall =>
        /\ slots[i].call \in Calls
        /\ core[slots[i].call].st # "FREE"
        /\ Phase(slots[i].state) = Said(core[slots[i].call].st)
        /\ slots[i].peer = slots[i].call
  BY FaithElim
<1>1. ASSUME NEW c \in Calls, NEW s \in CallStates, Enters(c, s)
      PROVE  SlotIsFaithful'
  BY <1>1, FaithJoins DEF Enters
<1>2. ASSUME NEW i \in Slots, slots'[i].call # NoCall,
             NEW c \in Calls, NEW s \in CallStates, NEW t \in CallStates, Moves(c, s, t)
      PROVE  /\ Phase(slots'[i].state) = Said(core'[slots'[i].call].st)
             /\ slots'[i].peer = slots'[i].call
  <2>1. /\ core'[c].st = t /\ t # "ANSWERED" /\ Phase(s) = Phase(t)
        /\ \A d \in Calls : d # c => core'[d].st = core[d].st
        /\ slots' = AddOrUpdate(slots, c, s, c)
    BY <1>2 DEF Moves, OthersStay
  <2>2. slots'[i] = [call |-> c, state |-> s, peer |-> c] \/ slots'[i] = slots[i]
    BY <1>2, <1>a, <2>1, UpdateSlots
  <2>3. slots[i].call = c => slots'[i] = [call |-> c, state |-> s, peer |-> c]
    BY <1>2, <1>a, <2>1, UpdateHits
  <2>4. CASE slots'[i] = [call |-> c, state |-> s, peer |-> c]
    BY <1>2, <2>1, <2>4 DEF Said
  <2>5. CASE slots'[i] = slots[i] /\ slots[i].call # c
    BY <1>2, <1>b, <2>1, <2>5
  <2> QED
    BY <1>2, <2>2, <2>3, <2>4, <2>5
<1>3. ASSUME NEW i \in Slots, slots'[i].call # NoCall,
             NEW c \in Calls, CallClosed(c)
      PROVE  /\ Phase(slots'[i].state) = Said(core'[slots'[i].call].st)
             /\ slots'[i].peer = slots'[i].call
  <2>1. core'[c].st = "FREE" /\ \A d \in Calls : d # c => core'[d] = core[d]
    BY <1>3, ReleaseType DEF CallClosed
  <2>2. /\ slots[i].call = c => slots'[i] = EmptySlot
        /\ slots[i].call # c => slots'[i] = slots[i]
    BY <1>3, <1>a, ClearSlots DEF CallClosed
  <2>3. slots'[i] = slots[i] /\ slots[i].call # c
    BY <1>3, <2>2 DEF EmptySlot
  <2> QED
    BY <1>3, <1>b, <2>1, <2>3
<1>4. ASSUME NEW i \in Slots, slots'[i].call # NoCall,
             NEW c \in Calls, Ends(c)
      PROVE  /\ Phase(slots'[i].state) = Said(core'[slots'[i].call].st)
             /\ slots'[i].peer = slots'[i].call
  <2>1. /\ core'[c].st = "TERMINATED" /\ slots' = MarkTerminated(slots, c)
        /\ \A d \in Calls : d # c => core'[d].st = core[d].st
    BY <1>4 DEF Ends, OthersStay
  <2>2. slots'[i].call = slots[i].call /\ (slots'[i] = slots[i] \/ slots[i].call = c)
    BY <1>4, <1>a, <2>1, MarkSlots
  <2>3. CASE slots[i].call = c
    <3>1. slots'[i].state = "TERMINATED" /\ slots'[i].call = c /\ slots'[i].peer = slots[i].peer
      BY <1>4, <1>a, <2>1, <2>3, MarkHits
    <3> QED
      BY <1>4, <1>b, <2>1, <2>2, <2>3, <3>1 DEF Said
  <2>4. CASE slots[i].call # c
    BY <1>4, <1>b, <2>1, <2>2, <2>4
  <2> QED
    BY <1>4, <2>3, <2>4
<1>5. CASE Quiet
  BY <1>5, QuietStays, FaithStays
<1>6. ASSUME \/ \E c \in Calls, s, t \in CallStates : Moves(c, s, t)
             \/ \E c \in Calls : CallClosed(c) \/ Ends(c)
      PROVE  SlotIsFaithful'
  BY <1>2, <1>3, <1>4, <1>6, FaithIntro
<1> QED
  BY <1>1, <1>5, <1>6, StepShapes

LEMMA UnheldStep ==
  ASSUME TypeOK, TrackedInv, OlderOK, FreeIsUnheld, ~Silent, NumUAs = 1, [Next]_vars
  PROVE  FreeIsUnheld'
<1>a. core \in [Calls -> CoreRecord]
  BY DEF TypeOK, CoreRecord
<1>b. ASSUME \A d \in Calls : core'[d].st = "FREE" =>
               core[d].st = "FREE" /\ core'[d].hold = core[d].hold
      PROVE  FreeIsUnheld'
  BY <1>b DEF FreeIsUnheld
<1>1. ASSUME NEW c \in Calls, NEW s \in CallStates, Enters(c, s)
      PROVE  FreeIsUnheld'
  <2>1. core'[c].st # "FREE" /\ OthersStay(c) /\ Holds(c)
    BY <1>1 DEF Enters, Joins
  <2> QED
    BY <1>b, <2>1 DEF OthersStay, Holds
<1>2. ASSUME NEW c \in Calls, NEW s \in CallStates, NEW t \in CallStates, Moves(c, s, t)
      PROVE  FreeIsUnheld'
  <2>1. core'[c].st # "FREE" /\ OthersStay(c) /\ Holds(c)
    BY <1>2 DEF Moves
  <2> QED
    BY <1>b, <2>1 DEF OthersStay, Holds
<1>3. ASSUME NEW c \in Calls, CallClosed(c)
      PROVE  FreeIsUnheld'
  <2>1. core' = [core EXCEPT ![c] = FreeCall]
    BY <1>3 DEF CallClosed, Release
  <2>2. core'[c].hold = FALSE /\ \A d \in Calls : d # c => core'[d] = core[d]
    BY <1>a, <2>1 DEF FreeCall
  <2> QED
    BY <2>2 DEF FreeIsUnheld
<1>4. ASSUME NEW c \in Calls, Ends(c)
      PROVE  FreeIsUnheld'
  <2>1. core'[c].st # "FREE" /\ OthersStay(c) /\ Holds(c)
    BY <1>4 DEF Ends
  <2> QED
    BY <1>b, <2>1 DEF OthersStay, Holds
<1>5. CASE Quiet
  <2>1. \A d \in Calls : core'[d].st = "FREE" => core[d].st = "FREE"
    BY <1>5, QuietStays DEF Stays
  <2>2. ASSUME NEW d \in Calls, core[d].st = "FREE"
        PROVE  core'[d].hold = core[d].hold
    <3>1. CASE core' = core
      BY <3>1
    <3>2. CASE ConnectFails
      BY <2>2, <3>2, <1>a, HoldMore DEF ConnectFails
    <3>3. CASE Answer
      <4> DEFINE ringing == {c \in Calls : CallState(c) = "INCOMING"}
                 call == IF current # NoCall THEN current ELSE ScanUas(core, older, ringing)
                 held == SetHold(core, HoldTargets(call), TRUE)
      <4>1. core' = IF core[call].st = "INCOMING"
                      THEN [held EXCEPT ![call].st = "ANSWERED"] ELSE held
        BY <3>3 DEF Answer
      <4>2. held \in [Calls -> CoreRecord]
        BY <1>a, HoldType
      <4>3. held[d].hold = core[d].hold
        BY <1>a, <2>2, HoldMore
      <4> HIDE DEF held, call
      <4>4. core'[d].hold = held[d].hold
        BY <4>1, <4>2 DEF CoreRecord
      <4> QED
        BY <4>3, <4>4
    <3>4. ASSUME NEW ptr \in Tracked(slots) \cup {NoCall}, Hold(ptr)
          PROVE  core'[d].hold = core[d].hold
      BY <2>2, <3>4, <1>a, HoldMore DEF Hold
    <3>5. ASSUME NEW ptr \in Tracked(slots) \cup {NoCall}, Resume(ptr)
          PROVE  core'[d].hold = core[d].hold
      BY <2>2, <3>5, <1>a DEF Resume, SetHold
    <3>6. CASE SipSessConn \/ Watchdog \/ UNCHANGED vars
      BY <3>1, <3>6 DEF SipSessConn, Watchdog, vars
    <3>7. ASSUME NEW ptr \in Tracked(slots), SwitchTo(ptr)
          PROVE  core'[d].hold = core[d].hold
      BY <3>1, <3>7 DEF SwitchTo
    <3> QED
      BY <1>5, <3>2, <3>3, <3>4, <3>5, <3>6, <3>7 DEF Quiet
  <2> QED
    BY <1>b, <2>1, <2>2
<1> QED
  BY <1>1, <1>2, <1>3, <1>4, <1>5, StepShapes

\* The call the manager goes on with after a hang-up is alive.
LEMMA NextIsAlive ==
  ASSUME core \in [Calls -> CoreRecord], NEW c, c \in Calls, Alive(c)
  PROVE  CallState(c) \in CallStates \ {"IDLE", "TERMINATED"}
BY DEF Alive, CallState, CoreRecord, CoreStates, CallStates

\* The states and the current call after the steps that are no new call.
LEMMA EndedStep ==
  ASSUME TypeOK, TrackedInv, OlderOK, EndedIsCurrent, ~Silent, NumUAs = 1, [Next]_vars
  PROVE  EndedIsCurrent'
<1>a. core \in [Calls -> CoreRecord]
  BY DEF TypeOK, CoreRecord
<1>b. SUFFICES ASSUME state' = "TERMINATED"
               PROVE  current' \in Calls /\ core'[current'].st = "TERMINATED"
  BY DEF EndedIsCurrent
<1>c. ASSUME state = "TERMINATED", current' = current,
             \A d \in Calls : core[d].st = "TERMINATED" => core'[d].st = "TERMINATED"
      PROVE  current' \in Calls /\ core'[current'].st = "TERMINATED"
  BY <1>c DEF EndedIsCurrent
<1>1. ASSUME NEW c \in Calls, NEW s \in CallStates, Enters(c, s)
      PROVE  FALSE
  BY <1>1, <1>b DEF Enters, Joins
<1>2. ASSUME NEW c \in Calls, NEW s \in CallStates, NEW t \in CallStates, Moves(c, s, t)
      PROVE  FALSE
  BY <1>2, <1>b DEF Moves
<1>3. ASSUME NEW c \in Calls, CallClosed(c)
      PROVE  FALSE
  BY <1>3, <1>b DEF CallClosed, Settle
<1>4. ASSUME NEW c \in Calls, Ends(c), UNCHANGED <<state, current>>
      PROVE  current' \in Calls /\ core'[current'].st = "TERMINATED"
  BY <1>4, <1>b, <1>c DEF Ends, OthersStay
<1>5. CASE Hangup
  <2> DEFINE next == ScanCalls(core, older, {c \in Calls \ {current} : Alive(c)})
  <2>1. state' = IF next = NoCall THEN "IDLE" ELSE CallState(next)
    BY <1>5 DEF Hangup
  <2>2. next = NoCall \/ (next \in Calls /\ Alive(next))
    BY ScanCallsFound
  <2> HIDE DEF next
  <2> QED
    BY <1>a, <1>b, <2>1, <2>2, NextIsAlive
<1>6. CASE Quiet
  <2>1. \A d \in Calls : core[d].st = "TERMINATED" => core'[d].st = "TERMINATED"
    BY <1>6, QuietStays DEF Stays
  <2>2. CASE SipSessConn
    BY <1>b, <2>2 DEF SipSessConn
  <2>3. CASE Answer
    <3>1. state = "TERMINATED"
      BY <1>b, <2>3 DEF Answer
    <3>2. current # NoCall
      BY <3>1, CallManagerAssumption DEF EndedIsCurrent
    <3>3. current' = current
      BY <2>3, <3>2 DEF Answer
    <3> QED
      BY <1>c, <2>1, <3>1, <3>3
  <2>4. ASSUME NEW ptr \in Tracked(slots), SwitchTo(ptr)
        PROVE  current' \in Calls /\ core'[current'].st = "TERMINATED"
    <3>1. ptr \in Calls /\ core' = core /\ current' = ptr /\ CallState(ptr) = "TERMINATED"
      BY <1>b, <2>4, TrackedElim DEF SwitchTo, Tracked
    <3>2. core[ptr].st = "TERMINATED"
      BY <3>1 DEF CallState
    <3> QED
      BY <3>1, <3>2
  <2>5. CASE ConnectFails
    BY <1>b, <1>c, <2>1, <2>5 DEF ConnectFails
  <2>6. ASSUME NEW ptr \in Tracked(slots) \cup {NoCall}, Hold(ptr) \/ Resume(ptr)
        PROVE  current' \in Calls /\ core'[current'].st = "TERMINATED"
    BY <1>b, <1>c, <2>1, <2>6 DEF Hold, Resume
  <2>7. CASE Watchdog
    BY <1>b, <1>c, <2>1, <2>7, WatchdogIdles
  <2>8. CASE UNCHANGED vars
    BY <1>b, <1>c, <2>1, <2>8 DEF vars
  <2> QED
    BY <1>6, <2>2, <2>3, <2>4, <2>5, <2>6, <2>7, <2>8 DEF Quiet
<1> QED
  BY <1>1, <1>2, <1>3, <1>4, <1>5, <1>6, StepShapes

LEMMA FaithInit == Init => OrderOK /\ SlotIsFaithful /\ FreeIsUnheld /\ EndedIsCurrent
<1> SUFFICES ASSUME Init PROVE OrderOK /\ SlotIsFaithful /\ FreeIsUnheld /\ EndedIsCurrent
  OBVIOUS
<1>1. OrderOK
  BY DEF Init, OrderOK, OlderOK, HasOldest, FreeCall
<1>2. SlotIsFaithful
  BY DEF Init, SlotIsFaithful, Occupied, EmptySlot
<1>3. FreeIsUnheld /\ EndedIsCurrent
  BY DEF Init, FreeIsUnheld, EndedIsCurrent, FreeCall
<1> QED
  BY <1>1, <1>2, <1>3

LEMMA FaithInvariant ==
  ASSUME ~Silent, NumUAs = 1
  PROVE  Spec => []FaithInv
<1>1. Init => FaithInv
  BY TypeInit, UniqueInit, TrackedInit, FaithInit DEF FaithInv
<1>2. FaithInv /\ [Next]_vars => FaithInv'
  <2> SUFFICES ASSUME FaithInv, [Next]_vars PROVE FaithInv'
    OBVIOUS
  <2>1. TypeOK /\ OneSlotPerCall /\ TrackedInv /\ OrderOK /\ OlderOK /\ SlotIsFaithful
        /\ FreeIsUnheld /\ EndedIsCurrent
    BY DEF FaithInv, OrderOK
  <2>2. TypeOK'
    BY <2>1, TypeStep
  <2>3. OneSlotPerCall'
    BY <2>1, UniqueStep
  <2>4. TrackedInv'
    BY <2>1, <2>2, TrackedStep
  <2>5. OrderOK'
    BY <2>1, OrderStep
  <2>6. SlotIsFaithful'
    BY <2>1, <2>2, FaithStep
  <2>7. FreeIsUnheld'
    BY <2>1, UnheldStep
  <2>8. EndedIsCurrent'
    BY <2>1, EndedStep
  <2> QED
    BY <2>2, <2>3, <2>4, <2>5, <2>6, <2>7, <2>8 DEF FaithInv
<1> QED
  BY <1>1, <1>2, PTL DEF Spec

\* With one account, and a core that reports each call it frees, a slot says of
\* its call what the core says of it, with the call's own address, whatever was
\* hung up, rejected, recycled or answered in between.
THEOREM SlotsAreFaithful ==
  ASSUME ~Silent, NumUAs = 1
  PROVE  Spec => []SlotIsFaithful
<1>1. FaithInv => SlotIsFaithful
  BY DEF FaithInv
<1> QED
  BY <1>1, FaithInvariant, PTL

-----------------------------------------------------------------------------
(* What follows for a step.                                                *)

LEMMA FullStep ==
  ASSUME TypeOK, TrackedInv, OrderOK, ~Silent, NumUAs = 1, [Next]_vars,
         NEW c \in Calls, ~InCore(c), InCore(c)'
  PROVE  c \in Tracked(slots') \/ \A i \in Slots : slots'[i].state \notin DeadStates
<1>a. /\ TypeOK /\ TrackedInv /\ OlderOK /\ slots \in SlotTable
      /\ core[c].st = "FREE" /\ core'[c].st # "FREE"
  BY DEF OrderOK, TypeOK, SlotTable, SlotRecord, InCore
<1>1. ASSUME NEW d \in Calls, NEW s \in CallStates, Enters(d, s)
      PROVE  c \in Tracked(slots') \/ \A i \in Slots : slots'[i].state \notin DeadStates
  <2>1. d = c /\ slots' = AddOrUpdate(slots, c, s, c)
    BY <1>1, <1>a DEF Enters, Joins, OthersStay
  <2> QED
    BY <1>a, <2>1, UpdateMisses
<1>2. ASSUME NEW d \in Calls, NEW s \in CallStates, NEW t \in CallStates, Moves(d, s, t)
      PROVE  FALSE
  BY <1>2, <1>a DEF Moves, OthersStay
<1>3. ASSUME NEW d \in Calls, CallClosed(d)
      PROVE  FALSE
  <2>1. core'[d].st = "FREE" /\ (d # c => core'[c] = core[c])
    BY <1>3, <1>a, ReleaseType DEF CallClosed
  <2> QED
    BY <1>a, <2>1
<1>4. ASSUME NEW d \in Calls, Ends(d)
      PROVE  FALSE
  BY <1>4, <1>a DEF Ends, OthersStay
<1>5. CASE Quiet
  BY <1>5, <1>a, QuietStays DEF Stays
<1> QED
  BY <1>a, <1>1, <1>2, <1>3, <1>4, <1>5, StepShapes

\* With one account, and a core that reports each call it frees, a new call has
\* a slot unless each slot holds a live one.
THEOREM UntrackedMeansFull ==
  ASSUME ~Silent, NumUAs = 1
  PROVE  Spec => UntrackedOnlyWhenFull
<1>1. FaithInv /\ [Next]_vars
      => [\A c \in Calls : ~InCore(c) /\ InCore(c)' =>
            c \in Tracked(slots') \/ \A i \in Slots : slots'[i].state \notin DeadStates]_vars
  BY FullStep DEF FaithInv
<1> QED
  BY <1>1, FaithInvariant, PTL DEF Spec, UntrackedOnlyWhenFull

LEMMA OrphanStep ==
  ASSUME TypeOK, OneSlotPerCall, TrackedInv, OrderOK, SlotIsFaithful,
         ~Silent, ~SessConn, NumUAs = 1, [Next]_vars,
         current # NoCall, current' = NoCall, NEW i \in Occupied(slots')
  PROVE  slots'[i].state = "TERMINATED"
<1>a. /\ TypeOK /\ TrackedInv /\ OlderOK /\ HasOldest /\ SlotIsFaithful
      /\ slots \in SlotTable /\ Unique(slots) /\ slots' \in SlotTable
      /\ core \in [Calls -> CoreRecord]
  <2>1. TypeOK'
    BY TypeStep
  <2> QED
    BY <2>1 DEF OrderOK, TypeOK, SlotTable, SlotRecord, CoreRecord,
       OneSlotPerCall, Unique
<1>b. i \in Slots /\ slots'[i].call # NoCall
  BY DEF Occupied
<1>c. current \in Calls /\ core[current].st # "FREE"
  BY <1>a, TrackedElim
<1>1. ASSUME NEW c \in Calls, NEW s \in CallStates, Enters(c, s)
      PROVE  FALSE
  BY <1>1, CallManagerAssumption DEF Enters, Joins
<1>2. ASSUME NEW c \in Calls, NEW s \in CallStates, NEW t \in CallStates, Moves(c, s, t)
      PROVE  FALSE
  BY <1>2, CallManagerAssumption DEF Moves
<1>3. ASSUME NEW c \in Calls, CallClosed(c)
      PROVE  FALSE
  <2>1. FirstActive(slots').call = NoCall
    BY <1>3 DEF CallClosed
  <2>2. Occupied(slots') \in SUBSET Slots /\ Occupied(slots') # {}
    BY DEF Occupied
  <2>3. First(Occupied(slots')) \in Occupied(slots')
    BY <2>2, FirstExists
  <2>4. FirstActive(slots') = slots'[First(Occupied(slots'))]
    BY <2>2 DEF FirstActive
  <2> QED
    BY <2>1, <2>3, <2>4 DEF Occupied
<1>4. CASE Hangup
  <2> DEFINE others == {c \in Calls \ {current} : Alive(c)}
  <2>1. ScanCalls(core, older, others) = NoCall /\ slots' = MarkTerminated(slots, current)
    BY <1>4 DEF Hangup
  <2>2. others = {}
    <3>1. ASSUME others # {}
          PROVE  FALSE
      <4>1. others \in SUBSET Calls /\ \A d \in others : core[d].st # "FREE"
        BY DEF Alive
      <4>2. PICK m \in others : \A d \in others : <<d, m>> \notin older
        <5> HIDE DEF others
        <5> QED
          BY <1>a, <3>1, <4>1 DEF HasOldest
      <4>3. \A d \in others : core[d].ua = 1
        BY <1>a, <4>1 DEF CoreRecord, UAs
      <4> DEFINE best == {c \in others : \A d \in others : /\ core[c].ua <= core[d].ua
                                                        /\ <<d, c>> \notin older}
      <4>4. m \in best
        <5> HIDE DEF others
        <5> QED
          BY <4>2, <4>3
      <4>5. ScanCalls(core, older, others) \in best
        <5> HIDE DEF others
        <5> QED
          BY <4>4 DEF ScanCalls
      <4>6. best \subseteq Calls
        OBVIOUS
      <4> QED
        BY <2>1, <4>5, <4>6, CallManagerAssumption
    <3> QED
      BY <3>1
  <2>3. slots'[i].call = slots[i].call /\ (slots'[i] = slots[i] \/ slots[i].call = current)
    BY <1>a, <1>b, <2>1, MarkSlots
  <2>4. CASE slots[i].call = current
    BY <1>a, <1>b, <1>c, <2>1, <2>4, MarkHits
  <2>5. CASE slots[i].call # current
    <3>1. slots[i].call \in Calls /\ core[slots[i].call].st # "FREE"
      BY <1>a, <1>b, <2>3, TrackedElim
    <3>2. core[slots[i].call].st = "TERMINATED"
      BY <2>2, <2>5, <3>1 DEF Alive
    <3>3. Phase(slots[i].state) = "TERMINATED"
      BY <1>a, <1>b, <2>3, <3>2 DEF SlotIsFaithful, Occupied, CallState, Phase
    <3> QED
      BY <2>3, <2>5, <3>3 DEF Phase
  <2> QED
    BY <2>4, <2>5
<1>5. CASE UNCHANGED <<state, current>>
  BY <1>5
<1>6. CASE Quiet
  <2>1. CASE Answer
    BY <2>1 DEF Answer
  <2>2. ASSUME NEW ptr \in Tracked(slots), SwitchTo(ptr)
        PROVE  FALSE
    BY <2>2 DEF SwitchTo, Tracked
  <2>3. CASE Watchdog
    BY <1>a, <2>3, WatchdogIdles
  <2>4. CASE SipSessConn \/ ConnectFails \/ UNCHANGED vars
    BY <2>4 DEF SipSessConn, ConnectFails, vars
  <2>5. ASSUME NEW ptr \in Tracked(slots) \cup {NoCall}, Hold(ptr) \/ Resume(ptr)
        PROVE  FALSE
    BY <2>5 DEF Hold, Resume
  <2> QED
    BY <1>6, <2>1, <2>2, <2>3, <2>4, <2>5 DEF Quiet
<1> QED
  BY <1>a, <1>1, <1>2, <1>3, <1>4, <1>5, <1>6, StepShapes

\* With one account, a core that reports each call it frees and no INVITE before
\* its call, the manager is left without a current call only when each call of
\* the table is over.
THEOREM NoOrphanIsLeft ==
  ASSUME ~Silent, ~SessConn, NumUAs = 1
  PROVE  Spec => NoOrphan
<1>1. FaithInv /\ [Next]_vars
      => [current # NoCall /\ current' = NoCall =>
            \A i \in Occupied(slots') : slots'[i].state = "TERMINATED"]_vars
  BY OrphanStep DEF FaithInv
<1> QED
  BY <1>1, FaithInvariant, PTL DEF Spec, NoOrphan

LEMMA IdleStep ==
  ASSUME TypeOK, TypeOK', TrackedInv, TrackedInv', OlderOK, EndedIsCurrent,
         ~Silent, NumUAs = 1, [Next]_vars,
         state # "IDLE", state' = "IDLE", NEW c \in Calls, c = current'
  PROVE  core'[c].st \in {"FREE", "TERMINATED"}
<1>a. /\ TypeOK /\ TrackedInv /\ OlderOK /\ EndedIsCurrent /\ TypeOK' /\ TrackedInv'
      /\ slots' \in SlotTable /\ core \in [Calls -> CoreRecord] /\ NoCall \notin Calls
  BY CallManagerAssumption DEF TypeOK, SlotTable, SlotRecord, CoreRecord
<1>1. ASSUME NEW d \in Calls, NEW s \in CallStates, Enters(d, s)
      PROVE  FALSE
  BY <1>1 DEF Enters, Joins
<1>2. ASSUME NEW d \in Calls, NEW s \in CallStates, NEW t \in CallStates, Moves(d, s, t)
      PROVE  FALSE
  BY <1>2 DEF Moves
<1>3. ASSUME NEW d \in Calls, CallClosed(d)
      PROVE  core'[c].st \in {"FREE", "TERMINATED"}
  <2> DEFINE next == FirstActive(slots')
  <2>1. core'[d].st = "FREE" /\ \A e \in Calls : e # d => core'[e] = core[e]
    BY <1>3, <1>a, ReleaseType DEF CallClosed
  <2>2. \/ current' = next.call /\ (next.call = NoCall \/ Settle(next.state) = "IDLE")
        \/ current' = current /\ current # NoCall /\ Settle(state) = "IDLE"
        \/ current' = NoCall
    BY <1>3 DEF CallClosed
  <2>3. CASE current' = next.call /\ next.call # NoCall /\ Settle(next.state) = "IDLE"
    <3>1. Occupied(slots') \in SUBSET Slots /\ Occupied(slots') # {}
      BY <2>3 DEF FirstActive, EmptySlot, Occupied
    <3> DEFINE i == First(Occupied(slots'))
    <3>2. i \in Slots /\ next = slots'[i]
      <4>1. i \in Occupied(slots')
        BY <3>1, FirstExists
      <4> QED
        BY <3>1, <4>1 DEF FirstActive, Occupied
    <3> HIDE DEF i, next
    <3>3. next.state \in DeadStates
      BY <2>3 DEF Settle, DeadStates
    <3>4. \A j \in Slots : slots'[j].call # NoCall /\ slots'[j].state \in DeadStates
            => core'[slots'[j].call].st \in {"FREE", "TERMINATED"}
      BY <1>a DEF TrackedInv, DeadSlotsAreDead, Alive
    <3> QED
      BY <2>3, <3>2, <3>3, <3>4
  <2>4. CASE current' = current /\ Settle(state) = "IDLE"
    <3>1. state = "TERMINATED"
      BY <2>4 DEF Settle
    <3> QED
      BY <1>a, <2>1, <2>4, <3>1 DEF EndedIsCurrent
  <2> QED
    BY <1>a, <2>2, <2>3, <2>4
<1>4. CASE Hangup
  <2> DEFINE next == ScanCalls(core, older, {d \in Calls \ {current} : Alive(d)})
  <2>1. current' = next /\ state' = IF next = NoCall THEN "IDLE" ELSE CallState(next)
    BY <1>4 DEF Hangup
  <2>2. next = NoCall \/ (next \in Calls /\ Alive(next))
    BY ScanCallsFound
  <2> HIDE DEF next
  <2> QED
    BY <1>a, <2>1, <2>2, NextIsAlive
<1>5. CASE UNCHANGED <<state, current>>
  BY <1>5
<1>6. CASE Quiet
  <2>1. ASSUME NEW ptr \in Tracked(slots), SwitchTo(ptr)
        PROVE  FALSE
    <3>1. \A i \in Slots : slots[i].call # NoCall =>
            slots[i].call \in Calls /\ core[slots[i].call].st # "FREE"
      BY <1>a, TrackedElim
    <3>2. ptr \in Calls /\ core[ptr].st # "FREE"
      BY <3>1 DEF Tracked
    <3>3. CallState(ptr) = "IDLE"
      BY <2>1 DEF SwitchTo
    <3>4. core[ptr].st \in CoreStates
      BY <1>a, <3>2 DEF CoreRecord
    <3> QED
      BY <3>3, <3>4 DEF CallState, CoreStates, CallStates
  <2>2. CASE Watchdog
    BY <1>a, <2>2, WatchdogIdles
  <2>3. CASE SipSessConn \/ ConnectFails \/ Answer \/ UNCHANGED vars
    BY <2>3 DEF SipSessConn, ConnectFails, Answer, vars
  <2>4. ASSUME NEW ptr \in Tracked(slots) \cup {NoCall}, Hold(ptr) \/ Resume(ptr)
        PROVE  FALSE
    BY <2>4 DEF Hold, Resume
  <2> QED
    BY <1>6, <2>1, <2>2, <2>3, <2>4 DEF Quiet
<1> QED
  BY <1>a, <1>1, <1>2, <1>3, <1>4, <1>5, <1>6, StepShapes

\* What is left of the table when the manager's call goes and no other follows.
LEMMA TableIsQuiet ==
  ASSUME TypeOK', TrackedInv',
         \A i \in Occupied(slots') : slots'[i].state = "TERMINATED",
         NEW c \in Tracked(slots')
  PROVE  core'[c].st \in {"FREE", "TERMINATED"}
<1>1. PICK i \in Slots : slots'[i].call = c /\ c # NoCall
  BY DEF Tracked
<1>2. slots'[i].state \in DeadStates
  BY <1>1 DEF Occupied, DeadStates
<1>3. \A j \in Slots : slots'[j].call # NoCall /\ slots'[j].state \in DeadStates
        => core'[slots'[j].call].st \in {"FREE", "TERMINATED"}
  BY DEF TrackedInv, DeadSlotsAreDead, Alive
<1> QED
  BY <1>1, <1>2, <1>3

LEMMA QuietStep ==
  ASSUME FaithInv, FaithInv', ~Silent, ~SessConn, NumUAs = 1, [Next]_vars,
         current # NoCall, state # "IDLE", state' = "IDLE"
  PROVE  \/ \A c \in Tracked(slots') : core'[c].st \in {"FREE", "TERMINATED"}
         \/ \E c \in Calls : c = current' /\ core'[c].st \in {"FREE", "TERMINATED"}
<1>1. CASE current' = NoCall
  <2>1. \A i \in Occupied(slots') : slots'[i].state = "TERMINATED"
    BY <1>1, OrphanStep DEF FaithInv
  <2>2. TypeOK' /\ TrackedInv'
    BY DEF FaithInv
  <2> QED
    BY <2>1, <2>2, TableIsQuiet
<1>2. CASE current' # NoCall
  <2>1. current' \in Calls
    BY <1>2 DEF FaithInv, TypeOK, Pointers
  <2>2. core'[current'].st \in {"FREE", "TERMINATED"}
    BY <2>1, IdleStep DEF FaithInv, OrderOK
  <2> QED
    BY <2>1, <2>2
<1> QED
  BY <1>1, <1>2

\* With one account, a core that reports each call it frees and no INVITE before
\* its call, a manager that has a call becomes IDLE only when no call of the table
\* is alive, or when its call from then on was hung up before.
THEOREM IdleMeansQuiet ==
  ASSUME ~Silent, ~SessConn, NumUAs = 1
  PROVE  Spec => IdleIsQuiet
<1>1. FaithInv /\ FaithInv' /\ [Next]_vars
      => [current # NoCall /\ state # "IDLE" /\ state' = "IDLE" =>
            \/ \A c \in Tracked(slots') : ~Alive(c)'
            \/ \E c \in Calls : c = current' /\ ~Alive(c)']_vars
  BY QuietStep DEF Alive
<1> QED
  BY <1>1, FaithInvariant, PTL DEF Spec, IdleIsQuiet

\* The calls the answered one is spoken to instead of.
LEMMA AnswerHolds ==
  ASSUME TypeOK, TrackedInv, OrderOK, SlotIsFaithful, ~Silent, NumUAs = 1, [Next]_vars,
         NEW c \in Calls, core[c].st = "INCOMING", core'[c].st = "ANSWERED",
         NEW d \in Calls, d # c, d \in Tracked(slots), core[d].st = "ESTABLISHED"
  PROVE  core'[d].hold = TRUE
<1>a. /\ TypeOK /\ TrackedInv /\ OlderOK /\ SlotIsFaithful
      /\ slots \in SlotTable /\ core \in [Calls -> CoreRecord]
  BY DEF OrderOK, TypeOK, SlotTable, SlotRecord, CoreRecord
<1>1. ASSUME NEW e \in Calls, NEW s \in CallStates, Enters(e, s)
      PROVE  FALSE
  BY <1>1 DEF Enters, Joins, OthersStay
<1>2. ASSUME NEW e \in Calls, NEW s \in CallStates, NEW t \in CallStates, Moves(e, s, t)
      PROVE  FALSE
  BY <1>2 DEF Moves, OthersStay
<1>3. ASSUME NEW e \in Calls, CallClosed(e)
      PROVE  FALSE
  <2>1. core'[e].st = "FREE" /\ (e # c => core'[c] = core[c])
    BY <1>3, <1>a, ReleaseType DEF CallClosed
  <2> QED
    BY <2>1
<1>4. ASSUME NEW e \in Calls, Ends(e)
      PROVE  FALSE
  BY <1>4 DEF Ends, OthersStay
<1>5. CASE core' = core
  BY <1>5
<1>6. CASE Answer
  <2> DEFINE ringing == {e \in Calls : CallState(e) = "INCOMING"}
             call == IF current # NoCall THEN current ELSE ScanUas(core, older, ringing)
             held == SetHold(core, HoldTargets(call), TRUE)
  <2>1. core' = IF core[call].st = "INCOMING"
                  THEN [held EXCEPT ![call].st = "ANSWERED"] ELSE held
    BY <1>6 DEF Answer
  <2>2. held \in [Calls -> CoreRecord] /\ held[c].st = core[c].st
    BY <1>a, HoldType
  <2>3. call = c
    <3> HIDE DEF held, call
    <3> QED
      BY <2>1, <2>2
  <2>4. d \in HoldTargets(call)
    <3>1. PICK i \in Slots : slots[i].call = d /\ d # NoCall
      BY DEF Tracked
    <3>2. Phase(slots[i].state) = "ESTABLISHED"
      BY <1>a, <3>1 DEF SlotIsFaithful, Occupied, CallState, Phase
    <3>3. slots[i].state = "ESTABLISHED"
      BY <3>2 DEF Phase
    <3> HIDE DEF call
    <3> QED
      BY <2>3, <3>1, <3>3 DEF HoldTargets
  <2>5. held[d].hold = TRUE
    <3> HIDE DEF call
    <3> QED
      BY <1>a, <2>4 DEF SetHold, CoreRecord
  <2>6. core'[d].hold = held[d].hold
    <3> HIDE DEF held, call
    <3> QED
      BY <2>1, <2>2, <2>3
  <2> QED
    BY <2>5, <2>6
<1>7. CASE ConnectFails
  BY <1>7, <1>a, HoldType DEF ConnectFails
<1>8. ASSUME NEW ptr \in Tracked(slots) \cup {NoCall}, Hold(ptr)
      PROVE  FALSE
  <2>1. PICK S : core' = SetHold(core, S, TRUE)
    BY <1>8 DEF Hold
  <2>2. core'[c].st = core[c].st
    BY <1>a, <2>1, HoldType
  <2> QED
    BY <2>2
<1>9. ASSUME NEW ptr \in Tracked(slots) \cup {NoCall}, Resume(ptr)
      PROVE  FALSE
  BY <1>9, <1>a DEF Resume, SetHold, CoreRecord
<1>10. CASE Quiet
  <2>1. CASE SipSessConn \/ Watchdog \/ UNCHANGED vars
    BY <1>5, <2>1 DEF SipSessConn, Watchdog, vars
  <2>2. ASSUME NEW ptr \in Tracked(slots), SwitchTo(ptr)
        PROVE  core'[d].hold = TRUE
    BY <1>5, <2>2 DEF SwitchTo
  <2> QED
    BY <1>6, <1>7, <1>8, <1>9, <1>10, <2>1, <2>2 DEF Quiet
<1> QED
  BY <1>a, <1>1, <1>2, <1>3, <1>4, <1>10, StepShapes

\* The calls the resumed one is spoken to instead of.
LEMMA ResumeHolds ==
  ASSUME TypeOK, TrackedInv, OrderOK, FreeIsUnheld, ~Silent, NumUAs = 1, [Next]_vars,
         NEW c \in Calls, core[c].hold = TRUE, core'[c].hold = FALSE,
         core'[c].st # "FREE",
         NEW d \in Calls, d # c, d \in Tracked(slots), core[d].st \notin {"FREE", "TERMINATED"}
  PROVE  core'[d].hold = TRUE
<1>a. /\ TypeOK /\ TrackedInv /\ OlderOK /\ FreeIsUnheld
      /\ slots \in SlotTable /\ core \in [Calls -> CoreRecord]
  BY DEF OrderOK, TypeOK, SlotTable, SlotRecord, CoreRecord
<1>1. ASSUME NEW e \in Calls, NEW s \in CallStates, Enters(e, s)
      PROVE  FALSE
  <2>1. core[e].st = "FREE" /\ Holds(e)
    BY <1>1 DEF Enters, Joins
  <2>2. core[e].hold = FALSE
    BY <1>a, <2>1 DEF FreeIsUnheld
  <2> QED
    BY <2>1, <2>2 DEF Holds
<1>2. ASSUME NEW e \in Calls, NEW s \in CallStates, NEW t \in CallStates, Moves(e, s, t)
      PROVE  FALSE
  BY <1>2 DEF Moves, Holds
<1>3. ASSUME NEW e \in Calls, CallClosed(e)
      PROVE  FALSE
  <2>1. core'[e].st = "FREE" /\ (e # c => core'[c] = core[c])
    BY <1>3, <1>a, ReleaseType DEF CallClosed
  <2> QED
    BY <2>1
<1>4. ASSUME NEW e \in Calls, Ends(e)
      PROVE  FALSE
  BY <1>4 DEF Ends, Holds
<1>5. CASE core' = core
  BY <1>5
<1>6. CASE Answer
  <2> DEFINE ringing == {e \in Calls : CallState(e) = "INCOMING"}
             call == IF current # NoCall THEN current ELSE ScanUas(core, older, ringing)
             held == SetHold(core, HoldTargets(call), TRUE)
  <2>1. core' = IF core[call].st = "INCOMING"
                  THEN [held EXCEPT ![call].st = "ANSWERED"] ELSE held
    BY <1>6 DEF Answer
  <2>2. held \in [Calls -> CoreRecord] /\ held[c].hold = TRUE
    <3> HIDE DEF call
    <3> QED
      BY <1>a, HoldType, HoldMore
  <2>3. core'[c].hold = held[c].hold
    <3> HIDE DEF held, call
    <3> QED
      BY <2>1, <2>2 DEF CoreRecord
  <2> QED
    BY <2>2, <2>3
<1>7. CASE ConnectFails
  BY <1>7, <1>a, HoldMore DEF ConnectFails
<1>8. ASSUME NEW ptr \in Tracked(slots) \cup {NoCall}, Hold(ptr)
      PROVE  FALSE
  BY <1>8, <1>a, HoldMore DEF Hold
<1>9. ASSUME NEW ptr \in Tracked(slots) \cup {NoCall}, Resume(ptr)
      PROVE  core'[d].hold = TRUE
  <2> DEFINE call == IF ptr = NoCall THEN current ELSE ptr
             k == SetHold(core, Tracked(slots) \ {call}, TRUE)
  <2>1. core' = SetHold(k, {call}, FALSE)
    BY <1>9 DEF Resume
  <2>2. k \in [Calls -> CoreRecord] /\ k[c].hold = TRUE
    <3> HIDE DEF call
    <3> QED
      BY <1>a, HoldType, HoldMore
  <2>3. c = call
    <3> HIDE DEF k, call
    <3> QED
      BY <2>1, <2>2 DEF SetHold
  <2>4. k[d].hold = TRUE
    <3> HIDE DEF call
    <3> QED
      BY <1>a, <2>3 DEF SetHold, CoreRecord
  <2> HIDE DEF k, call
  <2>5. core'[d] = k[d]
    BY <2>1, <2>3 DEF SetHold
  <2> QED
    BY <2>4, <2>5
<1>10. CASE Quiet
  <2>1. CASE SipSessConn \/ Watchdog \/ UNCHANGED vars
    BY <1>5, <2>1 DEF SipSessConn, Watchdog, vars
  <2>2. ASSUME NEW ptr \in Tracked(slots), SwitchTo(ptr)
        PROVE  core'[d].hold = TRUE
    BY <1>5, <2>2 DEF SwitchTo
  <2> QED
    BY <1>6, <1>7, <1>8, <1>9, <1>10, <2>1, <2>2 DEF Quiet
<1> QED
  BY <1>a, <1>1, <1>2, <1>3, <1>4, <1>10, StepShapes

\* With one account, and a core that reports each call it frees, whoever is
\* answered or resumed has the microphone alone, as far as the table knows.
THEOREM OneHasTheMicrophone ==
  ASSUME ~Silent, NumUAs = 1
  PROVE  Spec => OthersAreHeld
<1> DEFINE Answered ==
             \A c, d \in Calls :
               /\ core[c].st = "INCOMING" /\ core'[c].st = "ANSWERED"
               /\ d # c /\ d \in Tracked(slots) /\ core[d].st = "ESTABLISHED"
               => core'[d].hold
           Resumed ==
             \A c, d \in Calls :
               /\ core[c].hold /\ ~core'[c].hold /\ Alive(c)'
               /\ d # c /\ d \in Tracked(slots) /\ Alive(d)
               => core'[d].hold
<1>1. FaithInv /\ FaithInv' /\ [Next]_vars => [Answered /\ Resumed]_vars
  <2> SUFFICES ASSUME FaithInv, FaithInv', [Next]_vars
               PROVE  Answered /\ Resumed
    OBVIOUS
  <2>1. \A c \in Calls : /\ core[c].hold \in BOOLEAN
                         /\ core'[c].hold \in BOOLEAN
    BY DEF FaithInv, TypeOK
  <2>2. Answered
    <3> SUFFICES ASSUME NEW c \in Calls, core[c].st = "INCOMING", core'[c].st = "ANSWERED",
                        NEW d \in Calls, d # c, d \in Tracked(slots),
                        core[d].st = "ESTABLISHED"
                 PROVE  core'[d].hold
      OBVIOUS
    <3>1. core'[d].hold = TRUE
      BY AnswerHolds DEF FaithInv
    <3> QED
      BY <3>1, Zenon
  <2>3. Resumed
    <3> SUFFICES ASSUME NEW c \in Calls, core[c].hold, ~core'[c].hold, Alive(c)',
                        NEW d \in Calls, d # c, d \in Tracked(slots), Alive(d)
                 PROVE  core'[d].hold
      OBVIOUS
    <3>1. core[c].hold = TRUE /\ core'[c].hold = FALSE
      BY <2>1, Zenon
    <3>2. core'[c].st # "FREE" /\ core[d].st \notin {"FREE", "TERMINATED"}
      BY DEF Alive
    <3>3. core'[d].hold = TRUE
      BY <3>1, <3>2, ResumeHolds DEF FaithInv
    <3> QED
      BY <3>3, Zenon
  <2> QED
    BY <2>2, <2>3
<1> QED
  BY <1>1, FaithInvariant, PTL DEF Spec, OthersAreHeld
=============================================================================
