------------------------------ MODULE ChatProofs ------------------------------
(***************************************************************************)
(* Proofs about the messages: the types, that nothing which comes in is    *)
(* missed, and that a deletion takes what was ticked or pressed.           *)
(*                                                                         *)
(* The types need an argument of their own: the threads are chosen by      *)
(* their rank, so each rank up to their number must be that of a row.      *)
(***************************************************************************)
EXTENDS Chat, FiniteSetTheorems, SequenceTheorems, TLAPS

\* No two rows have the same id.
UniqueIds(t) == \A r, s \in t : r.id = s.id => r = s

-----------------------------------------------------------------------------
(* The order of the threads.                                               *)

\* As many ids, as many rows.
LEMMA RowsAreFinite ==
  ASSUME NEW t \in SUBSET Rows, UniqueIds(t)
  PROVE  IsFiniteSet(t)
<1> DEFINE f == [r \in t |-> r.id]
<1>1. f \in Injection(t, 1..MaxAdded)
  <2>1. f \in [t -> 1..MaxAdded]
    BY DEF Rows
  <2>2. \A r, s \in t : f[r] = f[s] => r = s
    BY DEF UniqueIds
  <2> QED
    BY <2>1, <2>2 DEF Injection, IsInjective
<1>2. IsFiniteSet(1..MaxAdded)
  BY FS_Interval, ChatAssumption
<1> HIDE DEF f
<1> QED
  BY <1>1, <1>2, FS_Injection

\* Of two rows one comes before the other.
LEMMA NewerIsTotal ==
  ASSUME NEW t \in SUBSET Rows, UniqueIds(t), NEW r \in t, NEW s \in t, r # s
  PROVE  Newer(r, s) \/ Newer(s, r)
<1>1. r.time \in Int /\ s.time \in Int /\ r.id \in Int /\ s.id \in Int
  BY DEF Rows
<1>2. r.id # s.id
  BY DEF UniqueIds
<1> QED
  BY <1>1, <1>2 DEF Newer

\* A row before another has a smaller rank.
LEMMA RankGrows ==
  ASSUME NEW t \in SUBSET Rows, UniqueIds(t), NEW r \in t, NEW s \in t, Newer(r, s)
  PROVE  Rank(t, r) < Rank(t, s)
<1> DEFINE A == {x \in t : Newer(x, r)}
           B == {x \in t : Newer(x, s)}
<1>1. IsFiniteSet(B) /\ IsFiniteSet(B \ {r})
  BY RowsAreFinite, FS_Subset, FS_RemoveElement
<1>2. A \subseteq B \ {r}
  <2> SUFFICES ASSUME NEW x \in A
               PROVE  Newer(x, s) /\ x # r
    OBVIOUS
  <2>1. /\ x.time \in Int /\ r.time \in Int /\ s.time \in Int
        /\ x.id \in Int /\ r.id \in Int /\ s.id \in Int
    BY DEF Rows
  <2> QED
    BY <2>1 DEF Newer
<1>3. Cardinality(A) <= Cardinality(B \ {r}) /\ Cardinality(A) \in Nat /\ Cardinality(B) \in Nat
  BY <1>1, <1>2, FS_Subset, FS_CardinalityType
<1>4. Cardinality(B \ {r}) = Cardinality(B) - 1
  BY <1>1, FS_RemoveElement
<1>5. Rank(t, r) = Cardinality(A) + 1 /\ Rank(t, s) = Cardinality(B) + 1
  BY DEF Rank
<1> HIDE DEF A, B
<1> QED
  BY <1>3, <1>4, <1>5

\* Each rank up to the number of rows is that of a row.
LEMMA RankReaches ==
  ASSUME NEW t \in SUBSET Rows, UniqueIds(t), NEW i \in 1..Cardinality(t)
  PROVE  \E r \in t : Rank(t, r) = i
<1> DEFINE n == Cardinality(t)
           f == [r \in t |-> Rank(t, r)]
<1>1. IsFiniteSet(t) /\ n \in Nat
  BY RowsAreFinite, FS_CardinalityType
<1>2. ASSUME NEW r \in t
      PROVE  Rank(t, r) \in 1..n
  <2> DEFINE A == {x \in t : Newer(x, r)}
  <2>1. A \subseteq t \ {r}
    BY DEF Newer, Rows
  <2>2. Cardinality(t \ {r}) = n - 1 /\ IsFiniteSet(t \ {r})
    BY <1>1, FS_RemoveElement
  <2>3. Cardinality(A) <= n - 1 /\ Cardinality(A) \in Nat
    BY <2>1, <2>2, FS_Subset, FS_CardinalityType
  <2>4. Rank(t, r) = Cardinality(A) + 1
    BY DEF Rank
  <2> HIDE DEF A, n
  <2> QED
    BY <1>1, <2>3, <2>4
<1>3. f \in Injection(t, 1..n)
  <2>1. f \in [t -> 1..n]
    BY <1>2
  <2>2. ASSUME NEW r \in t, NEW s \in t, r # s
        PROVE  f[r] # f[s]
    <3>1. Rank(t, r) < Rank(t, s) \/ Rank(t, s) < Rank(t, r)
      BY <2>2, NewerIsTotal, RankGrows
    <3>2. Rank(t, r) \in 1..n /\ Rank(t, s) \in 1..n
      BY <1>2
    <3> HIDE DEF n
    <3> QED
      BY <3>1, <3>2, <1>1
  <2> QED
    BY <2>1, <2>2 DEF Injection, IsInjective
<1>4. IsFiniteSet(1..n) /\ Cardinality(1..n) = n
  BY <1>1, FS_Interval
<1>5. f \in Surjection(t, 1..n)
  BY <1>3, <1>4, FS_Injection
<1> QED
  BY <1>5 DEF Surjection

\* The threads are rows of the table, not more than the array can hold.
LEMMA ThreadsAreRows ==
  ASSUME NEW t \in SUBSET Rows, UniqueIds(t)
  PROVE  Threads(t) \in Seq(Rows) /\ Len(Threads(t)) <= MaxThreads
<1> DEFINE L == Latest(t)
           n == Cardinality(L)
           m == IF n < MaxThreads THEN n ELSE MaxThreads
           e(i) == CHOOSE r \in L : Rank(L, r) = i
<1>1. L \in SUBSET Rows /\ UniqueIds(L)
  BY DEF Latest, UniqueIds
<1>2. n \in Nat
  BY <1>1, RowsAreFinite, FS_CardinalityType
<1>3. m \in Nat /\ m <= MaxThreads /\ m <= n
  BY <1>2, ChatAssumption
<1>4. ASSUME NEW i \in 1..m
      PROVE  e(i) \in Rows
  <2>1. i \in 1..n
    BY <1>2, <1>3
  <2>2. \E r \in L : Rank(L, r) = i
    BY <2>1, <1>1, RankReaches
  <2> QED
    BY <2>2, <1>1
<1>5. Threads(t) = [i \in 1..m |-> e(i)]
  BY DEF Threads
<1> HIDE DEF m, e
<1> QED
  BY <1>3, <1>4, <1>5

-----------------------------------------------------------------------------
(* The types.                                                              *)

\* The conversation on the screen has a peer.
DetailHasPeer == view = "detail" => current.peer \in Written

TypeInv == TypeOK /\ DetailHasPeer

\* The rows of the table.
RowsOK ==
  /\ table \subseteq Rows
  /\ UniqueIds(table)
  /\ unread \subseteq {r.id : r \in {s \in table : ~s.out}}
  /\ added \in 0..MaxAdded
  /\ \A r \in table : r.id <= added
  /\ clock \in 0..MaxTime

\* The array of the threads and what is drawn of it.
ListOK ==
  /\ threads \in Seq(Rows) /\ Len(threads) <= MaxThreads
  /\ list \in Seq(Peers)

\* All the rest.
RestOK ==
  /\ queue \in Seq(Written) /\ Len(queue) <= QueueSize
  /\ opened \in BOOLEAN /\ shown \in BOOLEAN /\ selecting \in BOOLEAN
  /\ moved \in BOOLEAN /\ fab \in BOOLEAN /\ pressed \in BOOLEAN
  /\ view \in {"list", "detail", "compose"}
  /\ current \in [peer : Written, bubbles : SUBSET (1..MaxAdded)] \cup {NoConversation}
  /\ DetailHasPeer
  /\ marks \in UNION {[S -> Peers] : S \in SUBSET (1..MaxThreads)}
  /\ menu \in [peer : Peers, shown : Peers] \cup {NoMenu}

LEMMA TypeInvParts == TypeInv <=> RowsOK /\ ListOK /\ RestOK
BY DEF TypeInv, TypeOK, RowsOK, ListOK, RestOK, UniqueIds

\* db_chat_add() gives a new id.
LEMMA AddKeepsRows ==
  ASSUME RowsOK, NEW p \in Peers, NEW out \in BOOLEAN, Add(p, out)
  PROVE  RowsOK'
<1> DEFINE new == [id |-> added', peer |-> p, out |-> out, time |-> clock]
<1>1. /\ added < MaxAdded /\ added' = added + 1 /\ clock' = clock
      /\ table' = table \cup {new}
      /\ unread' = IF out THEN unread ELSE unread \cup {added'}
  BY DEF Add
<1>2. added' \in 1..MaxAdded /\ added' \in 0..MaxAdded
  BY <1>1, ChatAssumption DEF RowsOK
<1>3. new \in Rows
  BY <1>2 DEF Rows, RowsOK
<1>4. \A r \in table : r.id \in Int /\ r.id <= added /\ r.id # added'
  BY <1>1, <1>2 DEF RowsOK, Rows
<1>5. UniqueIds(table')
  BY <1>1, <1>4 DEF RowsOK, UniqueIds
<1>6. \A r \in table' : r.id <= added'
  BY <1>1, <1>2, <1>4 DEF RowsOK
<1>7. unread' \subseteq {r.id : r \in {s \in table' : ~s.out}}
  <2>1. CASE out
    BY <2>1, <1>1 DEF RowsOK
  <2>2. CASE ~out
    BY <2>2, <1>1 DEF RowsOK
  <2> QED
    BY <2>1, <2>2
<1> QED
  BY <1>1, <1>2, <1>3, <1>5, <1>6, <1>7 DEF RowsOK

\* db_chat_delete_thread() takes the unread messages with it.
LEMMA DeleteKeepsRows ==
  ASSUME RowsOK, NEW P, DeleteThreads(P)
  PROVE  RowsOK'
<1>1. /\ table' = {r \in table : r.peer \notin P}
      /\ unread' = unread \cap {r.id : r \in table'}
      /\ added' = added /\ clock' = clock
  BY DEF DeleteThreads
<1>2. unread' \subseteq {r.id : r \in {s \in table' : ~s.out}}
  <2> SUFFICES ASSUME NEW x \in unread'
               PROVE  \E r \in table' : ~r.out /\ r.id = x
    OBVIOUS
  <2>1. PICK r \in table : ~r.out /\ r.id = x
    BY <1>1 DEF RowsOK
  <2>2. PICK s \in table' : s.id = x
    BY <1>1
  <2>3. r = s
    BY <2>1, <2>2, <1>1 DEF RowsOK, UniqueIds
  <2> QED
    BY <2>1, <2>2, <2>3
<1> QED
  BY <1>1, <1>2 DEF RowsOK, UniqueIds

\* db_chat_bump_thread() changes times only.
LEMMA BumpKeepsRows ==
  ASSUME RowsOK, NEW p, table' = Bumped(table, p), UNCHANGED <<unread, added, clock>>
  PROVE  RowsOK'
<1> DEFINE b(r) == IF r \in Latest(table) /\ r.peer = p THEN [r EXCEPT !.time = clock] ELSE r
<1>1. table' = {b(r) : r \in table}
  BY DEF Bumped
<1>2. \A r \in table : b(r) \in Rows /\ b(r).id = r.id /\ b(r).out = r.out
  BY DEF RowsOK, Rows
<1> HIDE DEF b
<1>3. table' \subseteq Rows
  BY <1>1, <1>2
<1>4. UniqueIds(table')
  BY <1>1, <1>2 DEF RowsOK, UniqueIds
<1>5. \A r \in table' : r.id <= added'
  BY <1>1, <1>2 DEF RowsOK
<1>6. unread' \subseteq {r.id : r \in {s \in table' : ~s.out}}
  <2> SUFFICES ASSUME NEW x \in unread
               PROVE  \E r \in table' : ~r.out /\ r.id = x
    OBVIOUS
  <2>1. PICK r \in table : ~r.out /\ r.id = x
    BY DEF RowsOK
  <2> QED
    BY <2>1, <1>1, <1>2
<1> QED
  BY <1>3, <1>4, <1>5, <1>6 DEF RowsOK

\* populate_chat_list() shows a row for each thread.
LEMMA LoadKeepsList ==
  ASSUME RowsOK', LoadThreads
  PROVE  ListOK'
<1>1. threads' \in Seq(Rows) /\ Len(threads') <= MaxThreads
  BY ThreadsAreRows DEF LoadThreads, RowsOK
<1>2. DOMAIN threads' = 1..Len(threads') /\ Len(threads') \in Nat
  BY <1>1, LenProperties
<1>3. \A i \in 1..Len(threads') : threads'[i].peer \in Peers
  <2>1. \A i \in 1..Len(threads') : threads'[i] \in Rows
    BY <1>1, ElementOfSeq
  <2> QED
    BY <2>1 DEF Rows
<1>4. list' = [i \in 1..Len(threads') |-> threads'[i].peer]
  BY <1>2 DEF LoadThreads
<1>5. list' \in Seq(Peers)
  BY <1>2, <1>3, <1>4
<1> QED
  BY <1>1, <1>5 DEF ListOK

LEMMA NoneOK == NoMarks \in UNION {[S -> Peers] : S \in SUBSET (1..MaxThreads)}
<1>1. NoMarks \in [{} -> Peers]
  BY DEF NoMarks
<1> QED
  BY <1>1

\* cmd_enqueue() never holds more than it has room for.
LEMMA QueuedFits ==
  ASSUME NEW q \in Seq(Written), NEW to \in Seq(Written)
  PROVE  Queued(q, to) \in Seq(Written) /\ Len(Queued(q, to)) <= QueueSize
<1> DEFINE all == q \o to
           n == IF Len(all) < QueueSize THEN Len(all) ELSE QueueSize
<1>1. all \in Seq(Written)
  BY ConcatProperties
<1>2. Len(all) \in Nat
  BY <1>1, LenProperties
<1>3. n \in Nat /\ n <= QueueSize /\ n <= Len(all)
  BY <1>2, ChatAssumption
<1>4. \A i \in 1..n : all[i] \in Written
  BY <1>1, <1>2, <1>3, ElementOfSeq
<1>5. Queued(q, to) = SubSeq(all, 1, n)
  BY DEF Queued
<1> HIDE DEF all, n
<1>6. SubSeq(all, 1, n) \in Seq(Written) /\ Len(SubSeq(all, 1, n)) = IF 1 <= n THEN n - 1 + 1 ELSE 0
  BY <1>3, <1>4, SubSeqProperties
<1> QED
  BY <1>3, <1>5, <1>6

LEMMA InitTypeInv == Init => TypeInv
<1> SUFFICES ASSUME Init PROVE RowsOK /\ ListOK /\ RestOK
  BY TypeInvParts
<1>1. RowsOK
  BY ChatAssumption DEF Init, RowsOK, UniqueIds
<1>0. /\ <<>> \in Seq(Rows) /\ <<>> \in Seq(Peers) /\ <<>> \in Seq(Written)
      /\ Len(<<>>) = 0
  BY EmptySeq
<1>2. ListOK
  BY <1>0, ChatAssumption DEF Init, ListOK
<1>3. RestOK
  <2>1. queue \in Seq(Written) /\ Len(queue) <= QueueSize
    BY <1>0, ChatAssumption DEF Init
  <2>2. marks \in UNION {[S -> Peers] : S \in SUBSET (1..MaxThreads)}
    BY NoneOK DEF Init
  <2>3. current = NoConversation /\ menu = NoMenu /\ view = "list"
    BY DEF Init
  <2> QED
    BY <2>1, <2>2, <2>3 DEF Init, RestOK, DetailHasPeer
<1> QED
  BY <1>1, <1>2, <1>3

\* What show_detail_screen() leaves.
LEMMA DetailKeepsTypes ==
  ASSUME RowsOK, ListOK, RestOK, NEW w \in Written, ShowDetail(w),
         queue' \in Seq(Written), Len(queue') <= QueueSize,
         opened' \in BOOLEAN, shown' \in BOOLEAN, menu' = menu, pressed' = pressed
  PROVE  RowsOK' /\ ListOK' /\ RestOK'
<1>1. /\ view' = "detail"
      /\ current' = [peer |-> w, bubbles |-> {r.id : r \in History(table, w)}]
      /\ unread' = unread \ {r.id : r \in {s \in table : s.peer = w}}
      /\ UNCHANGED <<table, added, clock, listVars>>
  BY DEF ShowDetail
<1>2. {r.id : r \in History(table, w)} \subseteq 1..MaxAdded
  BY DEF History, RowsOK, Rows
<1>3. current' \in [peer : Written, bubbles : SUBSET (1..MaxAdded)] /\ current'.peer = w
  BY <1>1, <1>2
<1>4. RowsOK'
  BY <1>1 DEF RowsOK, UniqueIds
<1>5. ListOK'
  BY <1>1 DEF ListOK, listVars
<1>6. RestOK'
  BY <1>1, <1>3 DEF RestOK, listVars, DetailHasPeer
<1> QED
  BY <1>4, <1>5, <1>6

\* What show_list_screen() leaves.
LEMMA ListKeepsTypes ==
  ASSUME RowsOK', RestOK, ShowList, current' = current,
         queue' \in Seq(Written), Len(queue') <= QueueSize,
         opened' \in BOOLEAN, shown' \in BOOLEAN, menu' = menu, pressed' = pressed
  PROVE  ListOK' /\ RestOK'
<1>1. /\ view' = "list" /\ selecting' = FALSE /\ marks' = marks /\ moved' = moved
      /\ LoadThreads /\ fab' \in BOOLEAN
  BY DEF ShowList, UpdateTrash
<1>2. ListOK'
  BY <1>1, LoadKeepsList
<1>3. RestOK'
  BY <1>1 DEF RestOK, DetailHasPeer
<1> QED
  BY <1>2, <1>3

\* A thread of the array has a peer.
LEMMA ThreadHasPeer ==
  ASSUME ListOK, NEW i \in DOMAIN threads
  PROVE  threads[i].peer \in Peers
<1>1. i \in 1..Len(threads)
  BY LenProperties DEF ListOK
<1>2. threads[i] \in Rows
  BY <1>1, ElementOfSeq DEF ListOK
<1> QED
  BY <1>2 DEF Rows

LEMMA DrawnHasPeer ==
  ASSUME ListOK, NEW i \in DOMAIN list
  PROVE  list[i] \in Peers
<1>1. i \in 1..Len(list)
  BY LenProperties DEF ListOK
<1> QED
  BY <1>1, ElementOfSeq DEF ListOK

\* A state in which only what the handler names has changed keeps the rest.
LEMMA NextTypeInv == TypeInv /\ [Next]_vars => TypeInv'
<1> SUFFICES ASSUME RowsOK, ListOK, RestOK, [Next]_vars
             PROVE  RowsOK' /\ ListOK' /\ RestOK'
  BY DEF TypeInv, TypeOK, RowsOK, ListOK, RestOK, UniqueIds
<1>q. queue \in Seq(Written) /\ Len(queue) <= QueueSize
  BY DEF RestOK
<1>b. shown \in BOOLEAN /\ opened \in BOOLEAN
  BY DEF RestOK
<1>l. ASSUME UNCHANGED <<threads, list>>
      PROVE  ListOK'
  BY <1>l DEF ListOK
<1>r. ASSUME UNCHANGED dbVars
      PROVE  RowsOK'
  BY <1>r DEF RowsOK, UniqueIds, dbVars
<1>1. CASE Restart
  <2>1. RowsOK'
    BY <1>1, <1>r DEF Restart
  <2>2. /\ <<>> \in Seq(Rows) /\ <<>> \in Seq(Peers) /\ <<>> \in Seq(Written)
        /\ Len(<<>>) = 0
    BY EmptySeq
  <2>3. ListOK'
    BY <1>1, <2>2, ChatAssumption DEF Restart, ListOK
  <2>4. queue' \in Seq(Written) /\ Len(queue') <= QueueSize
    BY <1>1, <2>2, ChatAssumption DEF Restart
  <2>5. marks' \in UNION {[S -> Peers] : S \in SUBSET (1..MaxThreads)}
    BY <1>1, NoneOK DEF Restart
  <2>6. RestOK'
    BY <1>1, <2>4, <2>5 DEF Restart, RestOK, DetailHasPeer
  <2> QED
    BY <2>1, <2>3, <2>6
<1>2. CASE Second
  <2>1. RowsOK'
    BY <1>2, ChatAssumption DEF Second, RowsOK, UniqueIds
  <2> QED
    BY <1>2, <2>1, <1>l DEF Second, RestOK, DetailHasPeer, listVars
<1>3. ASSUME NEW p \in Peers, Receive(p)
      PROVE  RowsOK' /\ ListOK' /\ RestOK'
  <2>1. /\ Add(p, FALSE)
        /\ current' = IF opened THEN Bubbles(p) ELSE current
        /\ UNCHANGED <<queue, opened, shown, view, selecting, marks, fab, menu, pressed>>
        /\ \/ LoadThreads /\ moved' = TRUE
           \/ UNCHANGED <<threads, list, moved>>
    BY <1>3 DEF Receive
  <2>2. RowsOK'
    BY <2>1, AddKeepsRows
  <2>3. ListOK'
    BY <2>1, <2>2, <1>l, LoadKeepsList
  <2>4. added + 1 \in 1..MaxAdded
    BY <2>1, ChatAssumption DEF Add, RowsOK
  <2>5. current' = current
          \/ /\ view = "detail"
             /\ current' = [current EXCEPT !.bubbles = @ \cup {added + 1}]
    BY <2>1 DEF Bubbles
  <2>6. /\ current' \in [peer : Written, bubbles : SUBSET (1..MaxAdded)] \cup {NoConversation}
        /\ current'.peer = current.peer
    BY <2>4, <2>5 DEF RestOK, DetailHasPeer, NoConversation
  <2>7. moved' \in BOOLEAN
    BY <2>1 DEF RestOK
  <2> QED
    BY <2>1, <2>2, <2>3, <2>6, <2>7 DEF RestOK, DetailHasPeer
<1>4. CASE Execute
  <2>1. Head(queue) \in Written /\ Tail(queue) \in Seq(Written) /\ Len(Tail(queue)) = Len(queue) - 1
    BY <1>4, <1>q, HeadTailProperties DEF Execute
  <2>2. Stored[Head(queue)] \in Peers
    BY <2>1, ChatAssumption
  <2>3. RowsOK'
    BY <1>4, <1>r, <2>2, AddKeepsRows DEF Execute
  <2>4. queue' \in Seq(Written) /\ Len(queue') <= QueueSize
    <3>1. Len(queue) \in Nat
      BY <1>q, LenProperties
    <3> QED
      BY <1>4, <1>q, <2>1, <3>1, ChatAssumption DEF Execute
  <2> QED
    BY <1>4, <2>3, <2>4, <1>l DEF Execute, RestOK, DetailHasPeer, listVars
<1>5. CASE Enter
  <2>1. /\ shown' = TRUE /\ UNCHANGED <<queue, menu, pressed>>
        /\ \/ UNCHANGED <<dbVars, opened, view, current, listVars>>
           \/ FirstOpened
    BY <1>5 DEF Enter
  <2>2. CASE UNCHANGED <<dbVars, opened, view, current, listVars>>
    BY <2>1, <2>2, <1>l, <1>r DEF RestOK, DetailHasPeer, listVars
  <2>3. CASE FirstOpened
    <3>1. opened' = TRUE /\ UNCHANGED <<dbVars, current>> /\ ShowList
      BY <2>3 DEF FirstOpened
    <3>2. RowsOK'
      BY <3>1, <1>r
    <3> QED
      BY <2>1, <3>1, <3>2, <1>q, ListKeepsTypes
  <2> QED
    BY <2>1, <2>2, <2>3
<1>6. CASE Leave
  BY <1>6, <1>l, <1>r DEF Leave, RestOK, DetailHasPeer, listVars
<1>7. ASSUME NEW w \in Written, OpenPeer(w)
      PROVE  RowsOK' /\ ListOK' /\ RestOK'
  <2>1. /\ shown' = TRUE /\ UNCHANGED <<queue, menu, pressed>>
        /\ \/ FirstOpened
           \/ opened' = opened /\ ShowCompose
           \/ opened' = opened /\ \E i \in DOMAIN threads : ShowDetail(threads[i].peer)
    BY <1>7 DEF OpenPeer
  <2>2. CASE FirstOpened
    <3>1. opened' = TRUE /\ UNCHANGED <<dbVars, current>> /\ ShowList
      BY <2>2 DEF FirstOpened
    <3>2. RowsOK'
      BY <3>1, <1>r
    <3> QED
      BY <2>1, <3>1, <3>2, <1>q, ListKeepsTypes
  <2>3. CASE opened' = opened /\ ShowCompose
    BY <2>1, <2>3, <1>l, <1>r DEF ShowCompose, RestOK, DetailHasPeer, listVars
  <2>4. ASSUME NEW i \in DOMAIN threads, opened' = opened, ShowDetail(threads[i].peer)
        PROVE  RowsOK' /\ ListOK' /\ RestOK'
    <3>1. threads[i].peer \in Written
      BY ThreadHasPeer, ChatAssumption
    <3> QED
      BY <2>1, <2>4, <3>1, <1>q, <1>b, DetailKeepsTypes
  <2> QED
    BY <2>1, <2>2, <2>3, <2>4
<1>8. ASSUME NEW i \in 1..MaxThreads, OpenThread(i)
      PROVE  RowsOK' /\ ListOK' /\ RestOK'
  <2>1. i \in DOMAIN threads /\ ShowDetail(threads[i].peer)
        /\ UNCHANGED <<queue, opened, shown, menu, pressed>>
    BY <1>8 DEF OpenThread
  <2>2. threads[i].peer \in Written
    BY <2>1, ThreadHasPeer, ChatAssumption
  <2> QED
    BY <2>1, <2>2, <1>q, <1>b, DetailKeepsTypes
<1>9. CASE BackToList
  <2>1. ShowList /\ UNCHANGED <<dbVars, queue, opened, shown, current, menu, pressed>>
    BY <1>9 DEF BackToList
  <2>2. RowsOK'
    BY <2>1, <1>r
  <2> QED
    BY <2>1, <2>2, <1>q, <1>b, ListKeepsTypes
<1>10. CASE NewChat
  BY <1>10, <1>l, <1>r DEF NewChat, ShowCompose, RestOK, DetailHasPeer, listVars
<1>11. ASSUME NEW to \in Recipients, SendCompose(to)
       PROVE  RowsOK' /\ ListOK' /\ RestOK'
  <2>1. /\ queue' = Queued(queue, to)
        /\ UNCHANGED <<opened, shown, menu, pressed>>
        /\ \/ UNCHANGED <<dbVars, current>> /\ ShowList
           \/ to # <<>> /\ ShowDetail(to[Len(to)])
    BY <1>11 DEF SendCompose
  <2>2. to \in Seq(Written)
    <3>1. CASE to = <<>>
      BY <3>1, EmptySeq
    <3>2. CASE \E w \in Written : to = <<w>>
      BY <3>2
    <3>3. CASE \E v, w \in Written : to = <<v, w>>
      BY <3>3
    <3> QED
      BY <3>1, <3>2, <3>3 DEF Recipients
  <2>3. queue' \in Seq(Written) /\ Len(queue') <= QueueSize
    BY <2>1, <2>2, <1>q, QueuedFits
  <2>4. CASE UNCHANGED <<dbVars, current>> /\ ShowList
    <3>1. RowsOK'
      BY <2>4, <1>r
    <3> QED
      BY <2>1, <2>3, <2>4, <3>1, <1>b, ListKeepsTypes
  <2>5. CASE to # <<>> /\ ShowDetail(to[Len(to)])
    <3>1. Len(to) \in Nat \ {0}
      BY <2>2, <2>5, EmptySeq
    <3>2. to[Len(to)] \in Written
      BY <2>2, <3>1, ElementOfSeq
    <3> QED
      BY <2>1, <2>3, <2>5, <3>2, <1>b, DetailKeepsTypes
  <2> QED
    BY <2>1, <2>4, <2>5
<1>12. CASE Send
  <2>1. current.peer \in Written
    BY <1>12 DEF Send, Touched, RestOK, DetailHasPeer
  <2>2. <<current.peer>> \in Seq(Written)
    BY <2>1
  <2>3. queue' \in Seq(Written) /\ Len(queue') <= QueueSize
    BY <1>12, <2>2, <1>q, QueuedFits DEF Send
  <2> QED
    BY <1>12, <2>3, <1>l, <1>r DEF Send, RestOK, DetailHasPeer, listVars
<1>13. CASE ToggleSelection
  <2>1. list' = [i \in DOMAIN threads |-> threads[i].peer] /\ UNCHANGED <<dbVars, threads>>
    BY <1>13 DEF ToggleSelection
  <2>2. DOMAIN threads = 1..Len(threads) /\ Len(threads) \in Nat
    BY LenProperties DEF ListOK
  <2>3. list' \in Seq(Peers)
    BY <2>1, <2>2, ThreadHasPeer
  <2>4. marks' \in UNION {[S -> Peers] : S \in SUBSET (1..MaxThreads)}
    BY <1>13, NoneOK DEF ToggleSelection, RestOK
  <2>5. RestOK'
    BY <1>13, <2>4 DEF ToggleSelection, UpdateTrash, RestOK, DetailHasPeer
  <2> QED
    BY <2>1, <2>3, <2>5, <1>r DEF ListOK
<1>14. ASSUME NEW i \in 1..MaxThreads, Tick(i)
       PROVE  RowsOK' /\ ListOK' /\ RestOK'
  <2>1. /\ i \in DOMAIN list
        /\ marks' = IF i \in DOMAIN marks
                      THEN [j \in DOMAIN marks \ {i} |-> marks[j]]
                      ELSE [j \in DOMAIN marks \cup {i} |-> IF j = i THEN list[i] ELSE marks[j]]
        /\ UNCHANGED <<dbVars, queue, opened, shown, view, current, threads, list, selecting, moved,
                       menu, pressed>>
        /\ fab' \in BOOLEAN
    BY <1>14 DEF Tick, UpdateTrash
  <2>2. list[i] \in Peers
    BY <2>1, DrawnHasPeer
  <2>3. PICK S \in SUBSET (1..MaxThreads) : marks \in [S -> Peers]
    BY DEF RestOK
  <2>4. marks' \in [S \ {i} -> Peers] \/ marks' \in [S \cup {i} -> Peers]
    BY <2>1, <2>2, <2>3
  <2>5. marks' \in UNION {[T -> Peers] : T \in SUBSET (1..MaxThreads)}
    BY <2>3, <2>4
  <2> QED
    BY <2>1, <2>5, <1>l, <1>r DEF RestOK, DetailHasPeer
<1>15. CASE Trash
  <2>1. RowsOK'
    BY <1>15, DeleteKeepsRows DEF Trash
  <2>2. ListOK'
    BY <1>15, <2>1, LoadKeepsList DEF Trash
  <2>3. RestOK'
    BY <1>15 DEF Trash, UpdateTrash, RestOK, DetailHasPeer
  <2> QED
    BY <2>1, <2>2, <2>3
<1>16. ASSUME NEW i \in 1..MaxThreads, LongPress(i)
       PROVE  RowsOK' /\ ListOK' /\ RestOK'
  <2>1. /\ i \in DOMAIN list \cap DOMAIN threads
        /\ menu' = [peer |-> threads[i].peer, shown |-> list[i]] /\ pressed' = TRUE
        /\ UNCHANGED <<dbVars, queue, opened, shown, view, current, listVars>>
    BY <1>16 DEF LongPress
  <2>2. menu' \in [peer : Peers, shown : Peers]
    BY <2>1, ThreadHasPeer, DrawnHasPeer
  <2> QED
    BY <2>1, <2>2, <1>l, <1>r DEF RestOK, DetailHasPeer, listVars
<1>17. CASE Release
  BY <1>17, <1>l, <1>r DEF Release, RestOK, DetailHasPeer, listVars
<1>18. CASE MenuClosed
  <2>1. shown' \in BOOLEAN
    BY <1>18, <1>b DEF MenuClosed
  <2> QED
    BY <1>18, <2>1, <1>l, <1>r DEF MenuClosed, RestOK, DetailHasPeer, listVars
<1>19. CASE MenuTop
  <2>1. RowsOK'
    BY <1>19, BumpKeepsRows DEF MenuTop
  <2>2. ListOK'
    BY <1>19, <2>1, LoadKeepsList DEF MenuTop
  <2>3. RestOK'
    BY <1>19 DEF MenuTop, RestOK, DetailHasPeer
  <2> QED
    BY <2>1, <2>2, <2>3
<1>20. CASE MenuDelete
  <2>1. RowsOK'
    BY <1>20, DeleteKeepsRows DEF MenuDelete
  <2>2. ListOK'
    BY <1>20, <2>1, LoadKeepsList DEF MenuDelete
  <2>3. RestOK'
    BY <1>20 DEF MenuDelete, RestOK, DetailHasPeer
  <2> QED
    BY <2>1, <2>2, <2>3
<1>21. CASE UNCHANGED vars
  BY <1>21, <1>l, <1>r DEF vars, RestOK, DetailHasPeer, listVars
<1> QED
  BY <1>1, <1>2, <1>3, <1>4, <1>5, <1>6, <1>7, <1>8, <1>9, <1>10, <1>11, <1>12, <1>13, <1>14,
     <1>15, <1>16, <1>17, <1>18, <1>19, <1>20, <1>21 DEF Next

\* Each variable keeps its type, whatever arrives between two touches.
THEOREM TypeCorrect == Spec => []TypeOK
<1>1. TypeInv => TypeOK
  BY DEF TypeInv
<1> QED
  BY InitTypeInv, NextTypeInv, <1>1, PTL DEF Spec

-----------------------------------------------------------------------------
(* Nothing that comes in is missed.                                        *)

\* The handlers read the table, and the peer on the screen, as they are.
IncomingStep ==
  \A r \in table' :
    /\ r.id \in unread \ unread' =>
         r.id \in current'.bubbles \/ r \notin History(table', r.peer)
    /\ r \notin table /\ r.id > added /\ ~r.out /\ opened /\ view = "detail"
         /\ r.peer = Stored[current.peer] => r.id \in current'.bubbles

\* A conversation is marked read with what it draws.
LEMMA DetailShows ==
  ASSUME RowsOK, NEW w, ShowDetail(w)
  PROVE  IncomingStep
<1>1. /\ current'.bubbles = {r.id : r \in History(table, w)}
      /\ unread' = unread \ {r.id : r \in {s \in table : s.peer = w}}
      /\ table' = table
  BY DEF ShowDetail
<1>2. ASSUME NEW r \in table', r.id \in unread \ unread'
      PROVE  r.id \in current'.bubbles \/ r \notin History(table', r.peer)
  <2>1. PICK s \in table : s.peer = w /\ s.id = r.id
    BY <1>1, <1>2
  <2>2. r.peer = w
    BY <2>1, <1>1 DEF RowsOK, UniqueIds
  <2> QED
    BY <2>2, <1>1
<1> QED
  BY <1>1, <1>2 DEF IncomingStep

\* Without a new row nothing can be missed but what is no longer unread.
LEMMA QuietSteps ==
  ASSUME RowsOK, \A r \in table' : \E s \in table : r.id = s.id,
         \A r \in table' : r.id \in unread => r.id \in unread'
  PROVE  IncomingStep
<1>1. \A s \in table : ~(s.id > added)
  BY DEF RowsOK, Rows
<1> QED
  BY <1>1 DEF IncomingStep

\* A message for the conversation on the screen is drawn.
LEMMA ReceiveShows ==
  ASSUME RowsOK, RestOK, NEW p \in Peers, Receive(p)
  PROVE  IncomingStep
<1> DEFINE new == [id |-> added', peer |-> p, out |-> FALSE, time |-> clock]
<1>1. /\ added' = added + 1
      /\ table' = table \cup {new}
      /\ unread' = unread \cup {added'}
      /\ current' = IF opened THEN Bubbles(p) ELSE current
  BY DEF Receive, Add
<1>2. ASSUME NEW r \in table', r \notin table, opened, view = "detail",
             r.peer = Stored[current.peer]
      PROVE  r.id \in current'.bubbles
  <2>1. r.id = added + 1 /\ r.peer = p
    BY <1>1, <1>2
  <2>2. current.peer \in Written
    BY <1>2 DEF RestOK, DetailHasPeer
  <2>3. Alike(p, current.peer)
    BY <1>2, <2>1, <2>2, ChatAssumption
  <2>4. current' = [current EXCEPT !.bubbles = @ \cup {added + 1}]
    BY <1>1, <1>2, <2>3 DEF Bubbles
  <2>5. current \in [peer : Written, bubbles : SUBSET (1..MaxAdded)] \/ current = NoConversation
    BY DEF RestOK
  <2> QED
    BY <2>1, <2>4, <2>5 DEF NoConversation
<1> QED
  BY <1>1, <1>2 DEF IncomingStep

LEMMA StepsShow == TypeInv /\ [Next]_vars => [IncomingStep]_vars
<1> SUFFICES ASSUME RowsOK, RestOK, Next
             PROVE  IncomingStep
  BY DEF TypeInv, TypeOK, RowsOK, RestOK, UniqueIds
<1>d. ASSUME NEW P, DeleteThreads(P)
      PROVE  IncomingStep
  <2>1. \A r \in table' : r \in table
    BY <1>d DEF DeleteThreads
  <2>2. \A r \in table' : r.id \in unread => r.id \in unread'
    BY <1>d DEF DeleteThreads
  <2> QED
    BY <2>1, <2>2, QuietSteps
<1>q. ASSUME UNCHANGED <<table, unread>>
      PROVE  IncomingStep
  BY <1>q, QuietSteps
<1>1. ASSUME NEW p \in Peers, Receive(p)
      PROVE  IncomingStep
  BY <1>1, ReceiveShows
<1>2. CASE Execute
  <2>1. CASE UNCHANGED dbVars
    BY <2>1, <1>q DEF dbVars
  <2>2. CASE Add(Stored[Head(queue)], TRUE)
    <3>1. /\ added' = added + 1 /\ unread' = unread
          /\ table' = table \cup
               {[id |-> added', peer |-> Stored[Head(queue)], out |-> TRUE, time |-> clock]}
      BY <2>2 DEF Add
    <3> QED
      BY <3>1 DEF IncomingStep
  <2> QED
    BY <1>2, <2>1, <2>2 DEF Execute
<1>3. ASSUME NEW i \in 1..MaxThreads, OpenThread(i)
      PROVE  IncomingStep
  BY <1>3, DetailShows DEF OpenThread
<1>4. ASSUME NEW w \in Written, OpenPeer(w)
      PROVE  IncomingStep
  <2>1. \/ UNCHANGED <<table, unread>>
        \/ \E i \in DOMAIN threads : ShowDetail(threads[i].peer)
    BY <1>4 DEF OpenPeer, FirstOpened, ShowCompose, dbVars
  <2> QED
    BY <2>1, <1>q, DetailShows
<1>5. ASSUME NEW to \in Recipients, SendCompose(to)
      PROVE  IncomingStep
  <2>1. UNCHANGED dbVars \/ ShowDetail(to[Len(to)])
    BY <1>5 DEF SendCompose
  <2> QED
    BY <2>1, <1>q, DetailShows DEF dbVars
<1>6. CASE Trash
  BY <1>6, <1>d DEF Trash
<1>7. CASE MenuDelete
  BY <1>7, <1>d DEF MenuDelete
<1>8. CASE MenuTop
  <2>1. table' = Bumped(table, menu.peer) /\ unread' = unread
    BY <1>8 DEF MenuTop
  <2>2. \A r \in table' : \E s \in table : r.id = s.id
    BY <2>1 DEF Bumped, RowsOK, Rows
  <2> QED
    BY <2>1, <2>2, QuietSteps
<1>9. CASE Restart \/ Second \/ Enter \/ Leave \/ BackToList
  BY <1>9, <1>q DEF Restart, Second, Enter, FirstOpened, Leave, BackToList, dbVars
<1>10. CASE NewChat \/ Send \/ ToggleSelection \/ Release \/ MenuClosed
  BY <1>10, <1>q DEF NewChat, ShowCompose, Send, ToggleSelection, Release, MenuClosed, dbVars
<1>11. ASSUME NEW i \in 1..MaxThreads, Tick(i) \/ LongPress(i)
       PROVE  IncomingStep
  BY <1>11, <1>q DEF Tick, LongPress, dbVars
<1> QED
  BY <1>1, <1>2, <1>3, <1>4, <1>5, <1>6, <1>7, <1>8, <1>9, <1>10, <1>11 DEF Next

\* Whoever writes, and wherever the user is: a message leaves the unread ones
\* deleted, or drawn, or in a conversation longer than what is drawn.
THEOREM NothingIsMissed == Spec => IncomingIsShown
<1>1. [IncomingStep]_vars => [\A r \in table' :
       /\ r.id \in unread \ unread' =>
            r.id \in current'.bubbles \/ r \notin History(table', r.peer)
       /\ r \notin table /\ r.id > added /\ ~r.out /\ opened /\ view = "detail"
            /\ r.peer = Stored[current.peer] => r.id \in current'.bubbles]_vars
  BY DEF IncomingStep
<1> QED
  BY InitTypeInv, NextTypeInv, StepsShow, <1>1, PTL DEF Spec, IncomingIsShown

-----------------------------------------------------------------------------
(* A deletion takes what was ticked or pressed.                            *)

\* A row of the list stands for the thread at its position.
ListIsThreads == list = [i \in DOMAIN threads |-> threads[i].peer]

\* A tick is still on what it was put on.
TicksStand ==
  selecting /\ ~moved =>
    \A i \in DOMAIN marks : i \in DOMAIN threads /\ marks[i] = threads[i].peer

\* The menu keeps what was pressed, and lies over a list without a selection.
MenuStands == menu # NoMenu => menu.peer = menu.shown /\ ~selecting

\* The trash button is there for a selection only.
TrashSelects == fab => selecting

IInv == ListIsThreads /\ TicksStand /\ MenuStands /\ TrashSelects

LEMMA InitIInv == Init => IInv
<1> SUFFICES ASSUME Init PROVE IInv
  OBVIOUS
<1>1. ListIsThreads
  BY DEF Init, ListIsThreads
<1> QED
  BY <1>1 DEF Init, IInv, TicksStand, MenuStands, TrashSelects

LEMMA LoadIsThreads ==
  ASSUME LoadThreads
  PROVE  ListIsThreads'
BY DEF LoadThreads, ListIsThreads

\* The list without a selection.
LEMMA ShownList ==
  ASSUME IInv, ShowList, menu' = menu
  PROVE  IInv'
<1>1. selecting' = FALSE /\ fab' = FALSE /\ LoadThreads
  BY DEF ShowList, UpdateTrash
<1>2. ListIsThreads'
  BY <1>1, LoadIsThreads
<1> QED
  BY <1>1, <1>2 DEF IInv, TicksStand, MenuStands, TrashSelects

\* Whatever leaves the list alone leaves the invariant.
LEMMA ListUnchanged ==
  ASSUME IInv, UNCHANGED listVars, menu' = menu \/ menu' = NoMenu
  PROVE  IInv'
BY DEF listVars, IInv, ListIsThreads, TicksStand, MenuStands, TrashSelects

LEMMA NextIInv == IInv /\ [Next]_vars => IInv'
<1> SUFFICES ASSUME IInv, [Next]_vars
             PROVE  IInv'
  OBVIOUS
<1>1. CASE Restart
  <2>1. ListIsThreads'
    BY <1>1 DEF Restart, ListIsThreads
  <2> QED
    BY <1>1, <2>1 DEF Restart, IInv, TicksStand, MenuStands, TrashSelects
<1>2. CASE Second \/ Execute \/ Leave \/ NewChat \/ Send \/ Release \/ MenuClosed
  BY <1>2, ListUnchanged
     DEF Second, Execute, Leave, NewChat, ShowCompose, Send, Release, MenuClosed
<1>3. ASSUME NEW p \in Peers, Receive(p)
      PROVE  IInv'
  <2>1. UNCHANGED <<selecting, marks, fab, menu>>
    BY <1>3 DEF Receive
  <2>2. CASE LoadThreads /\ moved' = TRUE
    <3>1. ListIsThreads'
      BY <2>2, LoadIsThreads
    <3> QED
      BY <2>1, <2>2, <3>1 DEF IInv, TicksStand, MenuStands, TrashSelects
  <2>3. CASE UNCHANGED <<threads, list, moved>>
    BY <2>1, <2>3, ListUnchanged DEF listVars
  <2> QED
    BY <1>3, <2>2, <2>3 DEF Receive
<1>4. CASE Enter
  <2>1. menu' = menu /\ (UNCHANGED listVars \/ ShowList)
    BY <1>4 DEF Enter, FirstOpened
  <2> QED
    BY <2>1, ListUnchanged, ShownList
<1>5. ASSUME NEW w \in Written, OpenPeer(w)
      PROVE  IInv'
  <2>1. menu' = menu /\ (UNCHANGED listVars \/ ShowList)
    BY <1>5 DEF OpenPeer, FirstOpened, ShowCompose, ShowDetail
  <2> QED
    BY <2>1, ListUnchanged, ShownList
<1>6. ASSUME NEW i \in 1..MaxThreads, OpenThread(i)
      PROVE  IInv'
  BY <1>6, ListUnchanged DEF OpenThread, ShowDetail
<1>7. CASE BackToList
  BY <1>7, ShownList DEF BackToList
<1>8. ASSUME NEW to \in Recipients, SendCompose(to)
      PROVE  IInv'
  <2>1. menu' = menu /\ (UNCHANGED listVars \/ ShowList)
    BY <1>8 DEF SendCompose, ShowDetail
  <2> QED
    BY <2>1, ListUnchanged, ShownList
<1>9. CASE ToggleSelection
  <2>1. /\ menu = NoMenu /\ menu' = menu /\ threads' = threads
        /\ selecting' = ~selecting
        /\ marks' = IF selecting THEN marks ELSE NoMarks
        /\ list' = [i \in DOMAIN threads |-> threads[i].peer]
        /\ fab' = (selecting' /\ \E i \in DOMAIN marks' : i \in DOMAIN threads')
    BY <1>9 DEF ToggleSelection, InList, Touched, UpdateTrash
  <2>2. TicksStand'
    <3>1. CASE selecting
      BY <3>1, <2>1 DEF TicksStand
    <3>2. CASE ~selecting
      <4>1. DOMAIN marks' = {}
        BY <3>2, <2>1 DEF NoMarks
      <4> QED
        BY <4>1 DEF TicksStand
    <3> QED
      BY <3>1, <3>2
  <2> QED
    BY <2>1, <2>2 DEF IInv, ListIsThreads, MenuStands, TrashSelects
<1>10. ASSUME NEW i \in 1..MaxThreads, Tick(i)
       PROVE  IInv'
  <2>1. /\ menu = NoMenu /\ selecting
        /\ i \in DOMAIN list \cap DOMAIN threads
        /\ marks' = IF i \in DOMAIN marks
                      THEN [j \in DOMAIN marks \ {i} |-> marks[j]]
                      ELSE [j \in DOMAIN marks \cup {i} |-> IF j = i THEN list[i] ELSE marks[j]]
        /\ UNCHANGED <<threads, list, selecting, moved, menu>>
    BY <1>10 DEF Tick, InList, Touched
  <2>2. list[i] = threads[i].peer
    BY <2>1 DEF IInv, ListIsThreads
  <2>3. TicksStand'
    BY <2>1, <2>2 DEF IInv, TicksStand
  <2> QED
    BY <2>1, <2>3 DEF IInv, ListIsThreads, MenuStands, TrashSelects
<1>11. CASE Trash
  <2>1. selecting' = FALSE /\ fab' = FALSE /\ menu' = menu /\ LoadThreads
    BY <1>11 DEF Trash, UpdateTrash
  <2>2. ListIsThreads'
    BY <2>1, LoadIsThreads
  <2> QED
    BY <2>1, <2>2 DEF IInv, TicksStand, MenuStands, TrashSelects
<1>12. ASSUME NEW i \in 1..MaxThreads, LongPress(i)
       PROVE  IInv'
  <2>1. /\ ~selecting /\ i \in DOMAIN list \cap DOMAIN threads
        /\ menu' = [peer |-> threads[i].peer, shown |-> list[i]]
        /\ UNCHANGED listVars
    BY <1>12 DEF LongPress
  <2>2. list[i] = threads[i].peer
    BY <2>1 DEF IInv, ListIsThreads
  <2>3. MenuStands'
    BY <2>1, <2>2 DEF MenuStands, listVars
  <2> QED
    BY <2>1, <2>3 DEF listVars, IInv, ListIsThreads, TicksStand, TrashSelects
<1>13. CASE MenuTop \/ MenuDelete
  <2>1. /\ menu # NoMenu /\ menu' = NoMenu
        /\ UNCHANGED <<selecting, marks, moved, fab>> /\ LoadThreads
    BY <1>13 DEF MenuTop, MenuDelete
  <2>2. ListIsThreads'
    BY <2>1, LoadIsThreads
  <2> QED
    BY <2>1, <2>2 DEF IInv, TicksStand, MenuStands, TrashSelects
<1>14. CASE UNCHANGED vars
  BY <1>14, ListUnchanged DEF vars
<1> QED
  BY <1>1, <1>2, <1>3, <1>4, <1>5, <1>6, <1>7, <1>8, <1>9, <1>10, <1>11, <1>12, <1>13, <1>14
     DEF Next

\* Where the trash stands for the ticks, it deletes them.
LEMMA TrashTakesTicks ==
  IInv => (Trash /\ ~moved =>
             table \ table' = {r \in table : r.peer \in {marks[i] : i \in DOMAIN marks}})
<1> SUFFICES ASSUME IInv, Trash, ~moved
             PROVE  table \ table' = {r \in table : r.peer \in {marks[i] : i \in DOMAIN marks}}
  OBVIOUS
<1>1. table' = {r \in table : r.peer \notin {threads[i].peer : i \in DOMAIN marks \cap DOMAIN threads}}
  BY DEF Trash, DeleteThreads
<1>2. \A i \in DOMAIN marks : i \in DOMAIN threads /\ marks[i] = threads[i].peer
  BY DEF Trash, IInv, TrashSelects, TicksStand
<1>3. {threads[i].peer : i \in DOMAIN marks \cap DOMAIN threads} = {marks[i] : i \in DOMAIN marks}
  BY <1>2
<1> QED
  BY <1>1, <1>3

LEMMA MenuTakesPressed ==
  IInv => (MenuDelete => table \ table' = {r \in table : r.peer = menu.shown})
BY DEF MenuDelete, DeleteThreads, IInv, MenuStands

\* Positions and addresses stand for what the user saw, until the list is loaded
\* again under a selection.
THEOREM TickedIsDeleted == Spec => DeletesWhatIsTicked
<1>1. IInv =>
        /\ Trash /\ ~moved =>
             table \ table' = {r \in table : r.peer \in {marks[i] : i \in DOMAIN marks}}
        /\ MenuDelete => table \ table' = {r \in table : r.peer = menu.shown}
  BY TrashTakesTicks, MenuTakesPressed
<1> QED
  BY InitIInv, NextIInv, <1>1, PTL DEF Spec, DeletesWhatIsTicked
=============================================================================
