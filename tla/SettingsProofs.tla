---------------------------- MODULE SettingsProofs ----------------------------
(***************************************************************************)
(* Proofs about the accounts: the types, the table of the registrations,   *)
(* that no enabled account is lost, that the screens show what the files   *)
(* hold, and that a form saves the account it was opened on.               *)
(***************************************************************************)
EXTENDS Settings, FiniteSetTheorems, SequenceTheorems, TLAPS

-----------------------------------------------------------------------------
(* The lines of a file that are not passed over.                           *)

LEMMA SomePositions ==
  ASSUME NEW n \in Nat, NEW K \in SUBSET (1..n)
  PROVE  IsFiniteSet(K) /\ Cardinality(K) \in Nat /\ Cardinality(K) <= n
<1>1. IsFiniteSet(1..n) /\ Cardinality(1..n) = n
  BY FS_Interval
<1> QED
  BY <1>1, FS_Subset, FS_CardinalityType

\* How many of the positions K come up to i.
Upto(K, i) == Cardinality(K \cap (1..i))

LEMMA UptoInRange ==
  ASSUME NEW n \in Nat, NEW K \in SUBSET (1..n), NEW i \in K
  PROVE  Upto(K, i) \in 1..Cardinality(K)
<1> DEFINE A == K \cap (1..i)
<1>1. IsFiniteSet(K) /\ Cardinality(K) \in Nat
  BY SomePositions
<1>2. IsFiniteSet(A) /\ Cardinality(A) <= Cardinality(K) /\ Cardinality(A) \in Nat
  BY <1>1, FS_Subset, FS_CardinalityType
<1>3. i \in A
  OBVIOUS
<1>4. Cardinality(A) # 0
  BY <1>2, <1>3, FS_EmptySet
<1>5. Upto(K, i) = Cardinality(A)
  BY DEF Upto
<1> HIDE DEF A
<1> QED
  BY <1>1, <1>2, <1>4, <1>5

LEMMA UptoGrows ==
  ASSUME NEW n \in Nat, NEW K \in SUBSET (1..n), NEW i \in K, NEW j \in K, i < j
  PROVE  Upto(K, i) < Upto(K, j)
<1> DEFINE A == K \cap (1..i)
           B == K \cap (1..j)
<1>1. IsFiniteSet(K) /\ IsFiniteSet(B) /\ IsFiniteSet(B \ {j})
  BY SomePositions, FS_Intersection, FS_RemoveElement
<1>2. A \subseteq B \ {j} /\ j \in B
  OBVIOUS
<1>3. Cardinality(A) <= Cardinality(B \ {j}) /\ Cardinality(A) \in Nat /\ Cardinality(B) \in Nat
  BY <1>1, <1>2, FS_Subset, FS_CardinalityType
<1>4. Cardinality(B \ {j}) = Cardinality(B) - 1
  BY <1>1, <1>2, FS_RemoveElement
<1>5. Upto(K, i) = Cardinality(A) /\ Upto(K, j) = Cardinality(B)
  BY DEF Upto
<1> HIDE DEF A, B
<1> QED
  BY <1>3, <1>4, <1>5

LEMMA UptoReaches ==
  ASSUME NEW n \in Nat, NEW K \in SUBSET (1..n), NEW m \in 1..Cardinality(K)
  PROVE  \E i \in K : Upto(K, i) = m
<1> DEFINE c == Cardinality(K)
           f == [i \in K |-> Upto(K, i)]
<1>1. IsFiniteSet(K) /\ c \in Nat
  BY SomePositions
<1>2. f \in Injection(K, 1..c)
  <2>1. f \in [K -> 1..c]
    BY UptoInRange
  <2>2. ASSUME NEW i \in K, NEW j \in K, i # j
        PROVE  f[i] # f[j]
    <3>1. i < j \/ j < i
      BY <2>2
    <3>2. Upto(K, i) < Upto(K, j) \/ Upto(K, j) < Upto(K, i)
      BY <3>1, UptoGrows
    <3>3. Upto(K, i) \in 1..c /\ Upto(K, j) \in 1..c
      BY UptoInRange
    <3> HIDE DEF c
    <3> QED
      BY <3>2, <3>3, <1>1
  <2> QED
    BY <2>1, <2>2 DEF Injection, IsInjective
<1>3. IsFiniteSet(1..c) /\ Cardinality(1..c) = c
  BY <1>1, FS_Interval
<1>4. f \in Surjection(K, 1..c)
  BY <1>2, <1>3, FS_Injection
<1> QED
  BY <1>4 DEF Surjection

\* Picking keeps what is at the positions, no more and no less.
LEMMA PickedProperties ==
  ASSUME NEW l \in Seq(Accounts), NEW K \in SUBSET (1..Len(l))
  PROVE  /\ Picked(l, K) \in Seq(Accounts)
         /\ Len(Picked(l, K)) <= Len(l)
         /\ \A n \in 1..Len(Picked(l, K)) : \E i \in K : Picked(l, K)[n] = l[i]
         /\ \A i \in K : \E n \in 1..Len(Picked(l, K)) : Picked(l, K)[n] = l[i]
<1> DEFINE c == Cardinality(K)
           at(n) == CHOOSE i \in K : Upto(K, i) = n
           P == Picked(l, K)
<1>1. Len(l) \in Nat /\ \A i \in 1..Len(l) : l[i] \in Accounts
  BY LenProperties, ElementOfSeq
<1>0. \A i \in K : i \in Nat
  BY <1>1
<1>2. IsFiniteSet(K) /\ c \in Nat /\ c <= Len(l)
  BY <1>1, SomePositions
<1>3. \A n \in 1..c : at(n) \in K /\ Upto(K, at(n)) = n
  BY <1>1, UptoReaches
<1>4. P = [n \in 1..c |-> l[at(n)]]
  BY DEF Picked, Upto
<1>5. \A i \in K : Upto(K, i) \in 1..c
  BY <1>1, UptoInRange
<1>6. \A i \in K : at(Upto(K, i)) = i
  <2> SUFFICES ASSUME NEW i \in K, at(Upto(K, i)) # i
               PROVE  FALSE
    OBVIOUS
  <2>1. Upto(K, i) \in 1..c
    BY <1>5
  <2>2. at(Upto(K, i)) \in K /\ Upto(K, at(Upto(K, i))) = Upto(K, i)
    BY <2>1, <1>3
  <2> HIDE DEF at, c
  <2>3. at(Upto(K, i)) < i \/ i < at(Upto(K, i))
    <3>1. at(Upto(K, i)) \in Nat /\ i \in Nat
      BY <2>2, <1>0
    <3> QED
      BY <3>1
  <2>4. Upto(K, i) < Upto(K, i)
    BY <2>2, <2>3, <1>1, UptoGrows
  <2> QED
    BY <2>1, <2>4, <1>2
<1> HIDE DEF at, c, P
<1>7. P \in Seq(Accounts) /\ Len(P) = c
  <2>1. \A n \in 1..c : l[at(n)] \in Accounts
    BY <1>1, <1>3
  <2> QED
    BY <1>2, <1>4, <2>1
<1>8. \A n \in 1..c : P[n] = l[at(n)]
  BY <1>4
<1>9. \A n \in 1..Len(P) : \E i \in K : P[n] = l[i]
  BY <1>3, <1>7, <1>8
<1>10. \A i \in K : \E n \in 1..Len(P) : P[n] = l[i]
  BY <1>5, <1>6, <1>7, <1>8
<1> QED
  BY <1>2, <1>7, <1>9, <1>10 DEF P

\* What config_load_accounts() returns.
LEMMA LoadedProperties ==
  ASSUME NEW l \in Seq(Accounts)
  PROVE  /\ Loaded(l) \in Seq(Accounts)
         /\ Len(Loaded(l)) <= Len(l)
         /\ \A n \in 1..Len(Loaded(l)) : \E i \in 1..Len(l) : Loaded(l)[n] = l[i]
<1> DEFINE K == {i \in DOMAIN l : Complete(l[i])}
<1>1. K \in SUBSET (1..Len(l))
  BY LenProperties
<1>2. Loaded(l) = Picked(l, K)
  BY DEF Loaded
<1> HIDE DEF K
<1>3. /\ Picked(l, K) \in Seq(Accounts)
      /\ Len(Picked(l, K)) <= Len(l)
      /\ \A n \in 1..Len(Picked(l, K)) : \E i \in K : Picked(l, K)[n] = l[i]
  BY <1>1, PickedProperties
<1>4. \A n \in 1..Len(Loaded(l)) : \E i \in K : Loaded(l)[n] = l[i]
  BY ONLY <1>2, <1>3
<1> QED
  BY <1>1, <1>2, <1>3, <1>4

\* What is added at the start.
LEMMA AtStartProperties ==
  ASSUME NEW l \in Seq(Accounts)
  PROVE  /\ AtStart(l) \in Seq(Accounts)
         /\ \A i \in 1..Len(l) : Complete(l[i]) /\ l[i].enabled =>
              \E n \in 1..Len(AtStart(l)) : AtStart(l)[n] = l[i]
<1> DEFINE K == {i \in DOMAIN l : Complete(l[i]) /\ l[i].enabled}
<1>1. K \in SUBSET (1..Len(l))
  BY LenProperties
<1>2. AtStart(l) = Picked(l, K)
  BY DEF AtStart
<1>3. \A i \in 1..Len(l) : Complete(l[i]) /\ l[i].enabled => i \in K
  BY LenProperties
<1> HIDE DEF K
<1>4. /\ Picked(l, K) \in Seq(Accounts)
      /\ \A i \in K : \E n \in 1..Len(Picked(l, K)) : Picked(l, K)[n] = l[i]
  BY <1>1, PickedProperties
<1> QED
  BY <1>2, <1>3, <1>4

-----------------------------------------------------------------------------
(* The queue of commands.                                                  *)

\* What is added to the queue is in it, or has been dropped.
LEMMA EnqueuedProperties ==
  ASSUME NEW q \in Seq(Accounts), Len(q) <= QueueSize, NEW l \in Seq(Accounts)
  PROVE  /\ Enqueued(q, l) \in Seq(Accounts)
         /\ Len(Enqueued(q, l)) <= QueueSize
         /\ \A n \in 1..Len(q) : q[n] \in Range(Enqueued(q, l))
         /\ \A n \in 1..Len(l) : l[n] \in Range(Enqueued(q, l)) \/ l[n].aor \in Dropped(q, l)
<1> DEFINE m == IF Len(q) + Len(l) <= QueueSize THEN Len(l) ELSE QueueSize - Len(q)
           t == SubSeq(l, 1, m)
           all == q \o t
<1>1. Len(q) \in Nat /\ Len(l) \in Nat /\ QueueSize \in Nat
  BY LenProperties, RegistrationAssumption
<1>2. m \in Nat /\ m <= Len(l) /\ Len(q) + m <= QueueSize
  BY <1>1
<1>3. \A n \in 1..m : l[n] \in Accounts
  BY <1>1, <1>2, ElementOfSeq
<1>4. /\ t \in Seq(Accounts)
      /\ Len(t) = m
      /\ \A n \in 1..m : t[n] = l[n]
  <2>1. /\ t \in Seq(Accounts)
        /\ Len(t) = IF 1 <= m THEN m - 1 + 1 ELSE 0
        /\ \A n \in 1..(m - 1 + 1) : t[n] = l[1 + n - 1]
    <3> HIDE DEF m
    <3> QED
      BY <1>2, <1>3, SubSeqProperties
  <2>2. m - 1 + 1 = m /\ \A n \in 1..m : 1 + n - 1 = n
    BY <1>2
  <2> HIDE DEF m, t
  <2> QED
    BY <2>1, <2>2, <1>2
<1> HIDE DEF m, t
<1>5. /\ all \in Seq(Accounts)
      /\ Len(all) = Len(q) + m
      /\ \A n \in 1..(Len(q) + m) : all[n] = IF n <= Len(q) THEN q[n] ELSE t[n - Len(q)]
  BY <1>4, ConcatProperties
<1>6. Enqueued(q, l) = all
  BY DEF Enqueued, m, t
<1>7. DOMAIN all = 1..(Len(q) + m)
  BY <1>5, LenProperties
<1> HIDE DEF all
<1>8. \A n \in 1..Len(q) : q[n] \in Range(all)
  <2>1. \A n \in 1..Len(q) : n \in 1..(Len(q) + m) /\ n <= Len(q)
    BY <1>1, <1>2
  <2> QED
    BY <2>1, <1>5, <1>7 DEF Range
<1>9. \A n \in 1..m : l[n] \in Range(all)
  <2> SUFFICES ASSUME NEW n \in 1..m
               PROVE  l[n] \in Range(all)
    OBVIOUS
  <2>1. Len(q) + n \in 1..(Len(q) + m) /\ ~(Len(q) + n <= Len(q)) /\ Len(q) + n - Len(q) = n
    BY <1>1, <1>2
  <2>2. all[Len(q) + n] = l[n]
    BY <2>1, <1>4, <1>5
  <2> QED
    BY <2>1, <2>2, <1>7 DEF Range
<1>10. ASSUME NEW n \in 1..Len(l), n \notin 1..m
       PROVE  l[n].aor \in Dropped(q, l)
  <2>1. n \in DOMAIN l /\ Len(q) + n > QueueSize
    BY <1>1, <1>2, <1>10, LenProperties DEF m
  <2> QED
    BY <2>1 DEF Dropped
<1> QED
  BY <1>2, <1>5, <1>6, <1>8, <1>9, <1>10

LEMMA DroppedAreAors ==
  ASSUME NEW q, NEW l \in Seq(Accounts)
  PROVE  Dropped(q, l) \subseteq Aors
<1>1. \A n \in DOMAIN l : l[n] \in Accounts
  BY LenProperties, ElementOfSeq
<1>2. \A n \in DOMAIN l : l[n].aor \in Aors
  BY <1>1 DEF Accounts
<1> QED
  BY <1>2 DEF Dropped

\* A command that is taken is the first; the others stay.
LEMMA TakenProperties ==
  ASSUME NEW q \in Seq(Accounts), q # <<>>
  PROVE  /\ Head(q) \in Accounts /\ Tail(q) \in Seq(Accounts)
         /\ Len(Tail(q)) = Len(q) - 1 /\ Len(q) \in Nat
         /\ \A a \in Range(q) : a = Head(q) \/ a \in Range(Tail(q))
<1>1. /\ Head(q) \in Accounts /\ Tail(q) \in Seq(Accounts)
      /\ Len(Tail(q)) = Len(q) - 1 /\ Len(q) \in Nat
      /\ \A i \in 1..Len(Tail(q)) : Tail(q)[i] = q[i + 1]
      /\ Head(q) = q[1]
  BY HeadTailProperties, LenProperties
<1>2. DOMAIN q = 1..Len(q) /\ DOMAIN Tail(q) = 1..(Len(q) - 1)
  BY <1>1, LenProperties
<1>3. ASSUME NEW i \in 1..Len(q)
      PROVE  q[i] = Head(q) \/ q[i] \in Range(Tail(q))
  <2>1. CASE i = 1
    BY <2>1, <1>1
  <2>2. CASE i # 1
    <3>1. i - 1 \in 1..(Len(q) - 1) /\ i - 1 + 1 = i
      BY <2>2, <1>1
    <3>2. Tail(q)[i - 1] = q[i]
      BY <3>1, <1>1
    <3> QED
      BY <3>1, <3>2, <1>2 DEF Range
  <2> QED
    BY <2>1, <2>2
<1> QED
  BY <1>1, <1>2, <1>3 DEF Range

-----------------------------------------------------------------------------
(* The table of the registrations.                                         *)

StatusTable == UNION {[S -> Statuses] : S \in SUBSET Aors}

\* The table never grows beyond its places.
StatusOK(t) ==
  /\ t \in StatusTable
  /\ IsFiniteSet(DOMAIN t)
  /\ Cardinality(DOMAIN t) <= MaxAccounts

LEMMA UpdatedProperties ==
  ASSUME NEW t, StatusOK(t), NEW a \in Aors, NEW s \in Statuses
  PROVE  /\ StatusOK(Updated(t, a, s))
         /\ DOMAIN t \subseteq DOMAIN Updated(t, a, s)
         /\ DOMAIN Updated(t, a, s) \subseteq DOMAIN t \cup {a}
         /\ \A b \in DOMAIN t \ {a} : Updated(t, a, s)[b] = t[b]
         /\ a \in DOMAIN Updated(t, a, s) => Updated(t, a, s)[a] = s
         /\ a \notin DOMAIN Updated(t, a, s) => Cardinality(DOMAIN t) = MaxAccounts
         /\ Cardinality(DOMAIN t) = MaxAccounts => DOMAIN Updated(t, a, s) = DOMAIN t
<1> DEFINE u == [b \in DOMAIN t \cup {a} |-> IF b = a THEN s ELSE t[b]]
<1>1. PICK S \in SUBSET Aors : t \in [S -> Statuses]
  BY DEF StatusOK, StatusTable
<1>2. Cardinality(DOMAIN t) \in Nat /\ MaxAccounts \in Nat
  BY FS_CardinalityType, RegistrationAssumption DEF StatusOK
<1>3. CASE HasPlace(t, a)
  <2>1. Updated(t, a, s) = u
    BY <1>3 DEF Updated
  <2>2. u \in [S \cup {a} -> Statuses] /\ DOMAIN u = DOMAIN t \cup {a}
    BY <1>1
  <2>3. /\ IsFiniteSet(DOMAIN u)
        /\ Cardinality(DOMAIN u) = IF a \in DOMAIN t THEN Cardinality(DOMAIN t)
                                                     ELSE Cardinality(DOMAIN t) + 1
    BY <2>2, FS_AddElement DEF StatusOK
  <2>4. a \in DOMAIN t \/ Cardinality(DOMAIN t) < MaxAccounts
    BY <1>3 DEF HasPlace
  <2>5. Cardinality(DOMAIN u) <= MaxAccounts
    BY <1>2, <2>3, <2>4 DEF StatusOK
  <2>6. StatusOK(u)
    BY <1>1, <2>2, <2>3, <2>5 DEF StatusOK, StatusTable
  <2>7. Cardinality(DOMAIN t) = MaxAccounts => DOMAIN u = DOMAIN t
    BY <1>2, <2>2, <2>4
  <2>8. u[a] = s /\ \A b \in DOMAIN t \ {a} : u[b] = t[b]
    OBVIOUS
  <2> HIDE DEF u
  <2> QED
    BY <2>1, <2>2, <2>6, <2>7, <2>8
<1>4. CASE ~HasPlace(t, a)
  <2>1. Updated(t, a, s) = t /\ a \notin DOMAIN t /\ ~(Cardinality(DOMAIN t) < MaxAccounts)
    BY <1>4 DEF Updated, HasPlace
  <2>2. Cardinality(DOMAIN t) = MaxAccounts
    BY <1>2, <2>1 DEF StatusOK
  <2> QED
    BY <2>1, <2>2
<1> QED
  BY <1>3, <1>4

\* The types of the module Registration, and a finite table.
RegInv == RegTypeOK /\ StatusOK(status)

LEMMA EnqueueKeeps ==
  ASSUME RegInv, NEW l \in Seq(Accounts), Enqueue(l)
  PROVE  RegInv'
<1>1. /\ queue' = Enqueued(queue, l)
      /\ refused' = refused \cup Dropped(queue, l)
      /\ UNCHANGED <<uas, status>>
  BY DEF Enqueue
<1>2. queue' \in Seq(Accounts) /\ Len(queue') <= QueueSize
  BY <1>1, EnqueuedProperties DEF RegInv, RegTypeOK
<1>3. Dropped(queue, l) \subseteq Aors
  BY DroppedAreAors
<1>4. refused' \subseteq Aors
  BY <1>1, <1>3 DEF RegInv, RegTypeOK
<1>5. RegTypeOK'
  BY <1>1, <1>2, <1>4 DEF RegInv, RegTypeOK
<1>6. StatusOK(status')
  BY <1>1 DEF RegInv
<1> QED
  BY <1>5, <1>6 DEF RegInv

\* The values when the program starts.
LEMMA StartValues ==
  ASSUME NEW l \in Seq(Accounts)
  PROVE  /\ Enqueued(<<>>, AtStart(l)) \in Seq(Accounts)
         /\ Len(Enqueued(<<>>, AtStart(l))) <= QueueSize
         /\ Dropped(<<>>, AtStart(l)) \subseteq Aors
         /\ <<>> \in Seq(Uas) /\ Len(<<>>) <= MaxUas
         /\ StatusOK([a \in {} |-> "NONE"])
         /\ [a \in {} |-> "NONE"] \in UNION {[S -> Statuses] : S \in SUBSET Aors}
         /\ Cardinality(DOMAIN [a \in {} |-> "NONE"]) <= MaxAccounts
<1> DEFINE none == [a \in {} |-> "NONE"]
<1>1. /\ <<>> \in Seq(Accounts) /\ <<>> \in Seq(Uas) /\ Len(<<>>) = 0
      /\ MaxUas \in Nat /\ QueueSize \in Nat /\ MaxAccounts \in Nat
  BY EmptySeq, RegistrationAssumption
<1>2. AtStart(l) \in Seq(Accounts)
  BY AtStartProperties
<1>3. Len(<<>>) <= QueueSize /\ Len(<<>>) <= MaxUas
  BY <1>1
<1>4. /\ Enqueued(<<>>, AtStart(l)) \in Seq(Accounts)
      /\ Len(Enqueued(<<>>, AtStart(l))) <= QueueSize
  BY <1>1, <1>2, <1>3, EnqueuedProperties, Zenon
<1>5. Dropped(<<>>, AtStart(l)) \subseteq Aors
  BY <1>2, DroppedAreAors
<1>6. none \in [{} -> Statuses] /\ DOMAIN none = {}
  OBVIOUS
<1> HIDE DEF none
<1>7. none \in StatusTable
  BY <1>6 DEF StatusTable
<1>8. IsFiniteSet({}) /\ Cardinality({}) = 0
  BY FS_EmptySet
<1>9. IsFiniteSet(DOMAIN none) /\ Cardinality(DOMAIN none) <= MaxAccounts
  BY <1>1, <1>6, <1>8
<1>10. StatusOK(none)
  BY <1>7, <1>9 DEF StatusOK
<1> QED
  BY <1>1, <1>3, <1>4, <1>5, <1>7, <1>9, <1>10 DEF none, StatusTable

LEMMA InitReg == ASSUME Init PROVE RegInv
<1>1. accountsFile \in Seq(Accounts)
  BY SettingsAssumption DEF Init
<1>2. /\ queue = Enqueued(<<>>, AtStart(accountsFile))
      /\ refused = Dropped(<<>>, AtStart(accountsFile))
      /\ uas = <<>> /\ status = [a \in {} |-> "NONE"]
  BY DEF Init
<1>3. RegTypeOK
  BY <1>1, <1>2, StartValues DEF RegTypeOK
<1>4. StatusOK(status)
  BY <1>1, <1>2, StartValues
<1> QED
  BY <1>3, <1>4 DEF RegInv

LEMMA StartKeeps == ASSUME accountsFile' \in Seq(Accounts), Started PROVE RegInv'
<1>2. /\ queue' = Enqueued(<<>>, AtStart(accountsFile'))
      /\ refused' = Dropped(<<>>, AtStart(accountsFile'))
      /\ uas' = <<>> /\ status' = [a \in {} |-> "NONE"]
  BY DEF Started
<1>3. RegTypeOK'
  BY <1>2, StartValues DEF RegTypeOK
<1>4. StatusOK(status')
  BY <1>2, StartValues
<1> QED
  BY <1>3, <1>4 DEF RegInv

LEMMA AgentHasAor ==
  ASSUME RegInv, NEW i \in DOMAIN uas
  PROVE  uas[i] \in Uas /\ uas[i].aor \in Aors /\ i \in 1..Len(uas)
<1>1. i \in 1..Len(uas)
  BY LenProperties DEF RegInv, RegTypeOK
<1>2. uas[i] \in Uas
  BY <1>1, ElementOfSeq DEF RegInv, RegTypeOK
<1> QED
  BY <1>1, <1>2 DEF Uas

\* An agent that reports keeps its place and its address.
LEMMA ReportedProperties ==
  ASSUME RegInv, NEW i \in DOMAIN uas, NEW s \in Statuses, uas' = [uas EXCEPT ![i].last = s]
  PROVE  /\ uas' \in Seq(Uas) /\ Len(uas') = Len(uas) /\ DOMAIN uas' = DOMAIN uas
         /\ uas'[i].aor = uas[i].aor /\ uas'[i].last = s
         /\ \A j \in DOMAIN uas \ {i} : uas'[j] = uas[j]
<1>1. uas[i] \in Uas /\ i \in 1..Len(uas)
  BY AgentHasAor
<1> DEFINE e == [uas[i] EXCEPT !.last = s]
<1>2. e \in Uas /\ e.aor = uas[i].aor /\ e.last = s
  BY <1>1 DEF Uas
<1>3. uas' = [uas EXCEPT ![i] = e]
  OBVIOUS
<1> HIDE DEF e
<1>4. uas \in Seq(Uas) /\ DOMAIN uas = 1..Len(uas)
  BY LenProperties DEF RegInv, RegTypeOK
<1>5. uas' \in Seq(Uas) /\ Len(uas') = Len(uas)
  BY <1>1, <1>2, <1>3, <1>4, ExceptSeq
<1>6. DOMAIN uas' = DOMAIN uas /\ uas'[i] = e /\ \A j \in DOMAIN uas \ {i} : uas'[j] = uas[j]
  BY <1>3
<1> QED
  BY <1>2, <1>5, <1>6

\* One more agent.
LEMMA MadeProperties ==
  ASSUME RegInv, NEW a \in Aors, NEW last \in Statuses,
         uas' = Append(uas, [aor |-> a, last |-> last])
  PROVE  /\ uas' \in Seq(Uas) /\ Len(uas') = Len(uas) + 1 /\ Len(uas) \in Nat
         /\ DOMAIN uas' = DOMAIN uas \cup {Len(uas) + 1}
         /\ uas'[Len(uas) + 1] = [aor |-> a, last |-> last]
         /\ \A j \in DOMAIN uas : uas'[j] = uas[j]
<1>1. [aor |-> a, last |-> last] \in Uas
  BY DEF Uas
<1>2. uas \in Seq(Uas) /\ Len(uas) \in Nat /\ DOMAIN uas = 1..Len(uas)
  BY LenProperties DEF RegInv, RegTypeOK
<1>3. /\ uas' \in Seq(Uas) /\ Len(uas') = Len(uas) + 1
      /\ \A j \in 1..Len(uas) : uas'[j] = uas[j]
      /\ uas'[Len(uas) + 1] = [aor |-> a, last |-> last]
  BY <1>1, <1>2
<1>4. DOMAIN uas' = 1..(Len(uas) + 1)
  BY <1>3, LenProperties
<1> QED
  BY <1>2, <1>3, <1>4

\* What an answer makes of the table.
LEMMA AnsweredProperties ==
  ASSUME NEW t, StatusOK(t), NEW a \in Aors, NEW s \in Statuses
  PROVE  Answered(t, a, s) = Updated(t, a, s) \/ (Answered(t, a, s) = t /\ a \notin DOMAIN t)
BY DEF Answered

\* The steps of the manager keep the types.
LEMMA RegKeeps == ASSUME RegInv, RegNext PROVE RegInv'
<1> USE DEF RegInv, RegTypeOK
<1>t. ASSUME StatusOK(status')
      PROVE  status' \in UNION {[S -> Statuses] : S \in SUBSET Aors}
  BY <1>t DEF StatusOK, StatusTable
<1>1. CASE AddRefused
  <2>1. queue \in Seq(Accounts) /\ queue # <<>>
    BY <1>1 DEF AddRefused
  <2>2. /\ Head(queue) \in Accounts /\ Tail(queue) \in Seq(Accounts)
        /\ Len(Tail(queue)) = Len(queue) - 1 /\ Len(queue) \in Nat
    BY <2>1, TakenProperties
  <2>3. Head(queue).aor \in Aors
    BY <2>2 DEF Accounts
  <2>4. Len(Tail(queue)) <= QueueSize
    BY <2>2, RegistrationAssumption
  <2> QED
    BY <1>1, <2>2, <2>3, <2>4 DEF AddRefused
<1>2. ASSUME NEW last \in {"NONE", "REGISTERING"}, AddUa(last)
      PROVE  RegInv'
  <2> DEFINE a == Head(queue).aor
  <2>1. queue \in Seq(Accounts) /\ queue # <<>> /\ Len(uas) < MaxUas
    BY <1>2 DEF AddUa
  <2>2. /\ Head(queue) \in Accounts /\ Tail(queue) \in Seq(Accounts)
        /\ Len(Tail(queue)) = Len(queue) - 1 /\ Len(queue) \in Nat
    BY <2>1, TakenProperties
  <2>3. a \in Aors /\ last \in Statuses /\ "NONE" \in Statuses
    BY <2>2 DEF Accounts, Statuses
  <2>4. Len(Tail(queue)) <= QueueSize
    BY <2>2, RegistrationAssumption
  <2>5. uas' = Append(uas, [aor |-> a, last |-> last]) /\ queue' = Tail(queue) /\ refused' = refused
    BY <1>2 DEF AddUa
  <2>6. status' = Updated(Updated(status, a, last), a, "NONE")
    BY <1>2 DEF AddUa
  <2> HIDE DEF a
  <2>7. uas' \in Seq(Uas) /\ Len(uas') = Len(uas) + 1 /\ Len(uas) \in Nat
    BY <2>3, <2>5, MadeProperties
  <2>8. Len(uas') <= MaxUas
    BY <2>1, <2>7, RegistrationAssumption
  <2>9. StatusOK(status')
    BY <2>3, <2>6, UpdatedProperties
  <2>10. Cardinality(DOMAIN status') <= MaxAccounts
    BY <2>9 DEF StatusOK
  <2> QED
    BY <2>2, <2>4, <2>5, <2>7, <2>8, <2>9, <2>10, <1>t
\* An agent that reports.
<1>a. ASSUME NEW i \in DOMAIN uas, NEW s \in Statuses, uas' = [uas EXCEPT ![i].last = s],
             status' = Updated(status, uas[i].aor, s) \/ status' = status,
             UNCHANGED <<queue, refused>>
      PROVE  RegInv'
  <2>1. uas' \in Seq(Uas) /\ Len(uas') = Len(uas)
    BY <1>a, ReportedProperties
  <2>2. uas[i].aor \in Aors
    BY AgentHasAor
  <2>3. StatusOK(status')
    BY <1>a, <2>2, UpdatedProperties
  <2>4. Cardinality(DOMAIN status') <= MaxAccounts
    BY <2>3 DEF StatusOK
  <2> QED
    BY <1>a, <2>1, <2>3, <2>4, <1>t
<1>3. ASSUME NEW i \in DOMAIN uas, NEW s \in Answers, Answer(i, s)
      PROVE  RegInv'
  <2>1. s \in Statuses
    BY RegistrationAssumption DEF Answers, Statuses
  <2> QED
    BY <1>3, <1>a, <2>1 DEF Answer, Answered
<1>4. ASSUME NEW i \in DOMAIN uas, RegisterAgain(i)
      PROVE  RegInv'
  <2>1. "REGISTERING" \in Statuses
    BY DEF Statuses
  <2> QED
    BY <1>4, <1>a, <2>1 DEF RegisterAgain
<1> QED
  BY <1>1, <1>2, <1>3, <1>4 DEF RegNext

-----------------------------------------------------------------------------
(* The types of the applet.                                                *)

FilesOK ==
  /\ accountsFile \in Seq(Accounts) /\ Len(accountsFile) <= MaxAccounts
  /\ defaultFile \in Absent..(MaxAccounts - 1)

ListOK ==
  /\ accounts \in Seq(Accounts) /\ Len(accounts) <= MaxAccounts
  /\ default \in -1..(MaxAccounts - 1)
  /\ short \in BOOLEAN /\ drawn \in BOOLEAN
  /\ editing \in -1..(MaxAccounts - 1)
  /\ selected \in 0..MaxAccounts
  /\ saves \in 0..MaxSaves
  /\ form \in [at : -1..(MaxAccounts - 1), was : Accounts]

ScreensOK ==
  /\ opened \in BOOLEAN /\ inFront \in BOOLEAN /\ deepLinked \in BOOLEAN
  /\ visible \subseteq Screens

TypeInv == RegInv /\ FilesOK /\ ListOK /\ ScreensOK

LEMMA Numbers == MaxAccounts \in Nat \ {0} /\ MaxSaves \in Nat /\ Absent = -2
BY RegistrationAssumption, SettingsAssumption DEF Absent

LEMMA NewFormOK == NewForm \in [at : -1..(MaxAccounts - 1), was : Accounts]
BY Numbers DEF NewForm, NewAccount, Accounts, Aors

\* What the program has before the applet is opened.
LEMMA StartedTypes ==
  ASSUME FilesOK', saves' \in 0..MaxSaves, Started
  PROVE  TypeInv'
<1>1. RegInv'
  BY StartKeeps DEF FilesOK
<1>2. <<>> \in Seq(Accounts) /\ Len(<<>>) = 0
  BY EmptySeq
<1>3. accounts' \in Seq(Accounts) /\ Len(accounts') <= MaxAccounts
  BY <1>2, Numbers DEF Started
<1>4. ListOK'
  <2>1. -1 \in -1..(MaxAccounts - 1) /\ 0 \in 0..MaxAccounts
    BY Numbers
  <2>2. /\ default' = -1 /\ editing' = -1 /\ selected' = 0
        /\ short' = FALSE /\ drawn' = FALSE /\ form' = NewForm
    BY DEF Started
  <2>3. form' \in [at : -1..(MaxAccounts - 1), was : Accounts]
    BY <2>2, NewFormOK
  <2> QED
    BY <1>3, <2>1, <2>2, <2>3 DEF ListOK
<1>5. ScreensOK'
  BY DEF Started, ScreensOK, Screens
<1> QED
  BY <1>1, <1>4, <1>5 DEF TypeInv

LEMMA InitTypeInv == Init => TypeInv
<1> SUFFICES ASSUME Init PROVE TypeInv
  OBVIOUS
<1>1. FilesOK
  BY SettingsAssumption DEF Init, FilesOK
<1>2. <<>> \in Seq(Accounts) /\ Len(<<>>) = 0
  BY EmptySeq
<1>3. accounts \in Seq(Accounts) /\ Len(accounts) <= MaxAccounts
  BY <1>2, Numbers DEF Init
<1>4. ListOK
  <2>1. -1 \in -1..(MaxAccounts - 1) /\ 0 \in 0..MaxAccounts /\ 0 \in 0..MaxSaves
    BY Numbers
  <2>2. /\ default = -1 /\ editing = -1 /\ selected = 0 /\ saves = 0
        /\ short = FALSE /\ drawn = FALSE /\ form = NewForm
    BY DEF Init
  <2>3. form \in [at : -1..(MaxAccounts - 1), was : Accounts]
    BY <2>2, NewFormOK
  <2> QED
    BY <1>3, <2>1, <2>2, <2>3 DEF ListOK
<1>5. ScreensOK
  BY DEF Init, ScreensOK, Screens
<1> QED
  BY <1>1, <1>4, <1>5, InitReg DEF TypeInv

\* The count of the accounts, and the indices that it makes of others.
LEMMA CountOK ==
  ASSUME ListOK
  PROVE  count \in -1..MaxAccounts /\ (~short => count = Len(accounts)) /\ Len(accounts) \in Nat
BY LenProperties, Numbers DEF ListOK, count

LEMMA EffectiveOK ==
  ASSUME NEW n \in -1..MaxAccounts, NEW d \in -1..MaxAccounts
  PROVE  Effective(d, n) \in -1..(MaxAccounts - 1)
BY Numbers DEF Effective

LEMMA SelectionOK ==
  ASSUME NEW n \in -1..MaxAccounts, NEW d \in -1..(MaxAccounts - 1)
  PROVE  Selection(d, n) \in 0..MaxAccounts
BY Numbers DEF Selection

\* A form changes an account or adds one.
LEMMA EditedOK ==
  ASSUME ListOK, NEW a \in Accounts, editing = -1 => Len(accounts) < MaxAccounts
  PROVE  Edited(a) \in Seq(Accounts) /\ Len(Edited(a)) <= MaxAccounts
<1>1. Len(accounts) \in Nat /\ DOMAIN accounts = 1..Len(accounts)
  BY LenProperties DEF ListOK
<1>2. CASE editing = -1
  <2>1. Append(accounts, a) \in Seq(Accounts) /\ Len(Append(accounts, a)) = Len(accounts) + 1
    BY AppendProperties DEF ListOK
  <2> QED
    BY <1>1, <1>2, <2>1, Numbers DEF Edited
<1>3. CASE editing # -1 /\ editing + 1 \in 1..Len(accounts)
  BY <1>3, ExceptSeq DEF Edited, ListOK
<1>4. CASE editing # -1 /\ editing + 1 \notin 1..Len(accounts)
  <2> DEFINE e == editing + 1
  <2>1. e \notin DOMAIN accounts
    BY <1>1, <1>4
  <2> HIDE DEF e
  <2>2. accounts = [k \in DOMAIN accounts |-> accounts[k]]
    BY SeqDef DEF ListOK
  <2>3. [accounts EXCEPT ![e] = a] = [k \in DOMAIN accounts |-> accounts[k]]
    BY <2>1, <2>2
  <2>4. [accounts EXCEPT ![editing + 1] = a] = accounts
    BY <2>2, <2>3 DEF e
  <2> QED
    BY <1>4, <2>4 DEF Edited, ListOK
<1> QED
  BY <1>2, <1>3, <1>4

\* Two accounts less.
LEMMA DeletedOK ==
  ASSUME ListOK, NEW i \in DOMAIN accounts
  PROVE  /\ Deleted(accounts, i) \in Seq(Accounts)
         /\ Len(Deleted(accounts, i)) = IF Len(accounts) = 1 THEN 0 ELSE Len(accounts) - 2
         /\ \A n \in 1..Len(Deleted(accounts, i)) : \E j \in DOMAIN accounts :
              Deleted(accounts, i)[n] = accounts[j]
<1> DEFINE n == Len(accounts)
           before == SubSeq(accounts, 1, i - 1)
           after == SubSeq(accounts, i + 1, n)
           r == before \o after
<1>1. n \in Nat /\ DOMAIN accounts = 1..n /\ i \in 1..n /\ n # 0
  BY LenProperties DEF ListOK
<1>2. \A k \in 1..n : accounts[k] \in Accounts
  BY <1>1, ElementOfSeq DEF ListOK
<1> HIDE DEF n
<1>3. /\ before \in Seq(Accounts)
      /\ Len(before) = i - 1
      /\ \A k \in 1..(i - 1) : before[k] = accounts[k]
  <2>1. i - 1 \in Int /\ 1 \in Int /\ \A k \in 1..(i - 1) : accounts[k] \in Accounts
    BY <1>1, <1>2
  <2>2. /\ before \in Seq(Accounts)
        /\ Len(before) = IF 1 <= i - 1 THEN i - 1 - 1 + 1 ELSE 0
        /\ \A k \in 1..(i - 1 - 1 + 1) : before[k] = accounts[1 + k - 1]
    BY <2>1, SubSeqProperties
  <2> HIDE DEF before
  <2> QED
    BY <2>2, <1>1
<1>4. /\ after \in Seq(Accounts)
      /\ Len(after) = n - i
      /\ \A k \in 1..(n - i) : after[k] = accounts[i + k]
  <2>1. i + 1 \in Int /\ n \in Int /\ \A k \in (i + 1)..n : accounts[k] \in Accounts
    BY <1>1, <1>2
  <2>2. /\ after \in Seq(Accounts)
        /\ Len(after) = IF i + 1 <= n THEN n - (i + 1) + 1 ELSE 0
        /\ \A k \in 1..(n - (i + 1) + 1) : after[k] = accounts[i + 1 + k - 1]
    BY <2>1, SubSeqProperties
  <2> HIDE DEF after
  <2>3. /\ n - (i + 1) + 1 = n - i
        /\ (IF i + 1 <= n THEN n - (i + 1) + 1 ELSE 0) = n - i
    BY <1>1
  <2>4. ASSUME NEW k \in 1..(n - i)
        PROVE  after[k] = accounts[i + k]
    <3>1. i + 1 + k - 1 = i + k
      BY <1>1
    <3>2. k \in 1..(n - (i + 1) + 1)
      BY <2>3
    <3> QED
      BY <2>2, <3>1, <3>2
  <2> QED
    BY <2>2, <2>3, <2>4
<1> HIDE DEF before, after
<1>5. /\ r \in Seq(Accounts) /\ Len(r) = Len(before) + Len(after)
      /\ \A k \in 1..(Len(before) + Len(after)) :
           r[k] = IF k <= Len(before) THEN before[k] ELSE after[k - Len(before)]
  BY <1>3, <1>4, ConcatProperties
<1>6. Len(r) = n - 1
  BY <1>1, <1>3, <1>4, <1>5
<1>7. \A k \in 1..(n - 1) : r[k] = IF k < i THEN accounts[k] ELSE accounts[k + 1]
  <2> SUFFICES ASSUME NEW k \in 1..(n - 1)
               PROVE  r[k] = IF k < i THEN accounts[k] ELSE accounts[k + 1]
    OBVIOUS
  <2>1. k \in 1..(Len(before) + Len(after))
    BY <1>1, <1>3, <1>4
  <2>2. CASE k < i
    <3>1. k <= Len(before) /\ k \in 1..(i - 1)
      BY <1>1, <1>3, <2>2
    <3> QED
      BY <2>1, <2>2, <3>1, <1>3, <1>5
  <2>3. CASE ~(k < i)
    <3>1. ~(k <= Len(before)) /\ k - Len(before) \in 1..(n - i) /\ i + (k - Len(before)) = k + 1
      BY <1>1, <1>3, <2>3
    <3> QED
      BY <2>1, <2>3, <3>1, <1>4, <1>5
  <2> QED
    BY <2>2, <2>3
<1>8. RemoveAt(accounts, i) = r
  BY DEF RemoveAt, before, after, n
<1> HIDE DEF r
<1>9. /\ SubSeq(r, 1, n - 2) \in Seq(Accounts)
      /\ Len(SubSeq(r, 1, n - 2)) = IF n = 1 THEN 0 ELSE n - 2
      /\ \A k \in 1..(n - 2) : SubSeq(r, 1, n - 2)[k] = r[k]
  <2>1. n - 2 \in Int /\ 1 \in Int /\ \A k \in 1..(n - 2) : r[k] \in Accounts
    <3>1. \A k \in 1..(n - 2) : k \in 1..Len(r)
      BY <1>1, <1>6
    <3> QED
      BY <3>1, <1>1, <1>5, ElementOfSeq
  <2>2. /\ SubSeq(r, 1, n - 2) \in Seq(Accounts)
        /\ Len(SubSeq(r, 1, n - 2)) = IF 1 <= n - 2 THEN n - 2 - 1 + 1 ELSE 0
        /\ \A k \in 1..(n - 2 - 1 + 1) : SubSeq(r, 1, n - 2)[k] = r[1 + k - 1]
    BY <2>1, SubSeqProperties
  <2> DEFINE d == SubSeq(r, 1, n - 2)
  <2> HIDE DEF d
  <2>3. /\ d \in Seq(Accounts)
        /\ Len(d) = IF 1 <= n - 2 THEN n - 2 - 1 + 1 ELSE 0
        /\ \A k \in 1..(n - 2 - 1 + 1) : d[k] = r[1 + k - 1]
    BY <2>2 DEF d
  <2>4. d \in Seq(Accounts) /\ Len(d) = (IF n = 1 THEN 0 ELSE n - 2) /\ \A k \in 1..(n - 2) : d[k] = r[k]
    BY <2>3, <1>1
  <2> QED
    BY <2>4 DEF d
<1>10. Deleted(accounts, i) = SubSeq(r, 1, n - 2)
  BY <1>8 DEF Deleted, n
<1>11. ASSUME NEW k \in 1..(n - 2)
       PROVE  \E j \in DOMAIN accounts : r[k] = accounts[j]
  <2>1. k \in 1..(n - 1) /\ k \in 1..n /\ k + 1 \in 1..n
    BY <1>1
  <2> QED
    BY <2>1, <1>1, <1>7
<1>12. \A k \in 1..Len(SubSeq(r, 1, n - 2)) : k \in 1..(n - 2)
  BY <1>1, <1>9
<1> QED
  BY <1>9, <1>10, <1>11, <1>12 DEF n

\* The accounts of a list that is cut.
LEMMA CutOK ==
  ASSUME ListOK, NEW k \in 0..Len(accounts)
  PROVE  /\ SubSeq(accounts, 1, k) \in Seq(Accounts) /\ Len(SubSeq(accounts, 1, k)) = k
         /\ \A n \in 1..k : SubSeq(accounts, 1, k)[n] = accounts[n]
<1>1. Len(accounts) \in Nat /\ k \in Int /\ 1 \in Int /\ k <= Len(accounts) /\ k >= 0
  BY LenProperties DEF ListOK
<1>2. \A n \in 1..k : n \in 1..Len(accounts)
  BY <1>1
<1>3. \A n \in 1..k : accounts[n] \in Accounts
  BY <1>2, ElementOfSeq DEF ListOK
<1> DEFINE c == SubSeq(accounts, 1, k)
<1>4. /\ c \in Seq(Accounts)
      /\ Len(c) = IF 1 <= k THEN k - 1 + 1 ELSE 0
      /\ \A n \in 1..(k - 1 + 1) : c[n] = accounts[1 + n - 1]
  BY <1>1, <1>3, SubSeqProperties
<1> HIDE DEF c
<1>5. Len(c) = k /\ \A n \in 1..k : c[n] = accounts[n]
  BY <1>1, <1>4
<1> QED
  BY <1>4, <1>5 DEF c

\* What the applet has once it is opened.
LEMMA EnterTypes ==
  ASSUME TypeInv, NEW request \in {"main", "list", "call"}, Enter(request)
  PROVE  TypeInv'
<1>1. RegInv' /\ FilesOK' /\ UNCHANGED <<short, editing, saves>>
  BY DEF Enter, TypeInv, RegInv, RegTypeOK, regVars, fileVars, FilesOK
<1>2. accounts' \in Seq(Accounts) /\ Len(accounts') \in Nat /\ Len(accounts') <= MaxAccounts
  <2>1. /\ Loaded(accountsFile) \in Seq(Accounts) /\ Len(Loaded(accountsFile)) <= Len(accountsFile)
        /\ Len(accountsFile) \in Nat /\ Len(Loaded(accountsFile)) \in Nat
    BY LoadedProperties, LenProperties DEF TypeInv, FilesOK
  <2>2. Len(Loaded(accountsFile)) <= MaxAccounts
    BY <2>1, Numbers DEF TypeInv, FilesOK
  <2>3. accounts' = accounts \/ accounts' = Loaded(accountsFile)
    BY DEF Enter
  <2> QED
    BY <2>1, <2>2, <2>3, LenProperties DEF TypeInv, ListOK
<1>3. default' \in -1..(MaxAccounts - 1)
  <2>1. CASE opened
    BY <2>1 DEF Enter, TypeInv, ListOK
  <2>2. CASE ~opened
    <3> DEFINE d == IF defaultFile = Absent THEN 0 ELSE defaultFile
    <3>1. d \in -1..MaxAccounts
      BY Numbers DEF TypeInv, FilesOK
    <3>2. Len(accounts') \in -1..MaxAccounts
      BY <1>2, Numbers
    <3>3. default' = Effective(d, Len(accounts'))
      BY <2>2 DEF Enter, LoadDefault
    <3> HIDE DEF d
    <3> QED
      BY <3>1, <3>2, <3>3, EffectiveOK
  <2> QED
    BY <2>1, <2>2
<1>4. selected' \in 0..MaxAccounts /\ drawn' \in BOOLEAN
  <2> DEFINE n == IF short THEN -1 ELSE Len(accounts')
  <2>1. n \in -1..MaxAccounts
    BY <1>2, Numbers
  <2> HIDE DEF n
  <2>2. Selection(default', n) \in 0..MaxAccounts
    BY <1>3, <2>1, SelectionOK
  <2> QED
    BY <2>2 DEF Enter, Draw, n, TypeInv, ListOK
<1>5. form' \in [at : -1..(MaxAccounts - 1), was : Accounts]
  BY NewFormOK DEF Enter, TypeInv, ListOK
<1>6. ListOK'
  BY <1>1, <1>2, <1>3, <1>4, <1>5 DEF ListOK, TypeInv
<1>7. ScreensOK'
  BY DEF Enter, TypeInv, ScreensOK, Showing, Screens
<1> QED
  BY <1>1, <1>6, <1>7 DEF TypeInv

\* What a form that is saved leaves behind.
LEMMA SaveTypes == ASSUME TypeInv, NEW a \in Accounts, SaveAccount(a) PROVE TypeInv'
<1>1. /\ accounts' = Edited(a) /\ accountsFile' = accounts' /\ defaultFile' = default
      /\ saves < MaxSaves /\ saves' = saves + 1
      /\ selected' = Selection(default, Len(accounts')) /\ drawn' = TRUE
      /\ form' = NewForm /\ visible' = Showing("list")
      /\ UNCHANGED <<opened, inFront, deepLinked, short, default, editing>>
      /\ editing = -1 => Len(accounts) < MaxAccounts
  BY DEF SaveAccount, Save, Draw
<1>2. accounts' \in Seq(Accounts) /\ Len(accounts') <= MaxAccounts
  BY <1>1, EditedOK DEF TypeInv
<1>3. Len(accounts') \in Nat
  BY <1>2, LenProperties
<1>4. RegInv'
  <2>1. <<a>> \in Seq(Accounts)
    BY SeqDef
  <2>2. CASE Enqueue(<<a>>)
    BY <2>1, <2>2, EnqueueKeeps DEF TypeInv
  <2>3. CASE UNCHANGED regVars
    BY <2>3 DEF TypeInv, RegInv, RegTypeOK, regVars
  <2> QED
    BY <2>2, <2>3 DEF SaveAccount
<1>5. FilesOK'
  <2>1. defaultFile' \in Absent..(MaxAccounts - 1)
    BY <1>1, Numbers DEF TypeInv, ListOK
  <2> QED
    BY <1>1, <1>2, <2>1 DEF FilesOK
<1>6. ListOK'
  <2>1. Len(accounts') \in -1..MaxAccounts
    BY <1>2, <1>3, Numbers
  <2>2. selected' \in 0..MaxAccounts
    BY <1>1, <2>1, SelectionOK DEF TypeInv, ListOK
  <2>3. saves' \in 0..MaxSaves
    BY <1>1, Numbers DEF TypeInv, ListOK
  <2>4. form' \in [at : -1..(MaxAccounts - 1), was : Accounts]
    BY <1>1, NewFormOK
  <2> QED
    BY <1>1, <1>2, <2>2, <2>3, <2>4 DEF TypeInv, ListOK
<1>7. ScreensOK'
  BY <1>1 DEF TypeInv, ScreensOK, Showing, Screens
<1> QED
  BY <1>4, <1>5, <1>6, <1>7 DEF TypeInv

\* What is left of a list whose row i was deleted.
LEMMA DeleteTypes ==
  ASSUME TypeInv, NEW i \in DOMAIN accounts, DeleteAccount(i)
  PROVE  TypeInv'
<1>1. /\ short' = (Len(accounts) = 1) /\ accounts' = Deleted(accounts, i)
      /\ defaultFile' = default
      /\ accountsFile' = IF short' THEN accountsFile ELSE accounts'
      /\ selected' = Selection(default, Len(accounts) - 2) /\ drawn' = TRUE
      /\ UNCHANGED <<regVars, screenVars, default, editing, saves, form>>
  BY DEF DeleteAccount, DeletedShort, Save, Draw
<1>2. Len(accounts) \in Nat /\ i \in 1..Len(accounts) /\ Len(accounts) <= MaxAccounts
  BY LenProperties DEF TypeInv, ListOK
<1>3. /\ accounts' \in Seq(Accounts)
      /\ Len(accounts') = IF Len(accounts) = 1 THEN 0 ELSE Len(accounts) - 2
  BY <1>1, DeletedOK DEF TypeInv
<1>4. Len(accounts') <= MaxAccounts
  BY <1>2, <1>3, Numbers
<1>5. RegInv'
  BY <1>1 DEF TypeInv, RegInv, RegTypeOK, regVars
<1>6. FilesOK'
  <2>1. defaultFile' \in Absent..(MaxAccounts - 1)
    BY <1>1, Numbers DEF TypeInv, ListOK
  <2> QED
    BY <1>1, <1>3, <1>4, <2>1 DEF TypeInv, FilesOK
<1>7. ListOK'
  <2>1. Len(accounts) - 2 \in -1..MaxAccounts
    BY <1>2, Numbers
  <2>2. selected' \in 0..MaxAccounts
    BY <1>1, <2>1, SelectionOK DEF TypeInv, ListOK
  <2>3. short' \in BOOLEAN
    BY <1>1
  <2> QED
    BY <1>1, <1>3, <1>4, <2>2, <2>3 DEF TypeInv, ListOK
<1>8. ScreensOK'
  BY <1>1 DEF TypeInv, ScreensOK, screenVars
<1> QED
  BY <1>5, <1>6, <1>7, <1>8 DEF TypeInv

\* The default account that is chosen, in the list or by the other screen.
LEMMA ChosenOK ==
  ASSUME TypeInv, NEW s \in 0..MaxAccounts
  PROVE  Effective(s, count) \in -1..(MaxAccounts - 1)
<1>1. count \in -1..MaxAccounts /\ s \in -1..MaxAccounts
  BY CountOK, Numbers DEF TypeInv
<1> QED
  BY <1>1, EffectiveOK

\* The steps that only change what is shown, and the file and the default account.
LEMMA ShowTypes ==
  ASSUME TypeInv,
         UNCHANGED <<regVars, accounts, short, editing, saves>>, FilesOK',
         default' \in -1..(MaxAccounts - 1), selected' \in 0..MaxAccounts, drawn' \in BOOLEAN,
         form' \in [at : -1..(MaxAccounts - 1), was : Accounts],
         opened' \in BOOLEAN, inFront' \in BOOLEAN, deepLinked' \in BOOLEAN,
         visible' \subseteq Screens
  PROVE  TypeInv'
<1>1. RegInv'
  BY DEF TypeInv, RegInv, RegTypeOK, regVars
<1>2. ListOK'
  BY DEF TypeInv, ListOK
<1>3. ScreensOK'
  BY DEF ScreensOK
<1> QED
  BY <1>1, <1>2, <1>3 DEF TypeInv

\* Row i of the list is one that an account may have.
LEMMA OpenTypes ==
  ASSUME TypeInv, NEW i \in {-1} \cup 0..(Len(accounts) - 1), OpenForm(i)
  PROVE  TypeInv'
<1>1. Len(accounts) \in Nat /\ Len(accounts) <= MaxAccounts
  BY LenProperties DEF TypeInv, ListOK
<1>2. i \in -1..(MaxAccounts - 1)
  BY <1>1, Numbers
<1>3. form' \in [at : -1..(MaxAccounts - 1), was : Accounts]
  <2>1. CASE i = -1
    BY <2>1, NewFormOK DEF OpenForm
  <2>2. CASE i # -1
    <3>1. i + 1 \in 1..Len(accounts)
      BY <1>1, <2>2
    <3>2. accounts[i + 1] \in Accounts
      BY <3>1, ElementOfSeq DEF TypeInv, ListOK
    <3>3. form' = [at |-> i, was |-> accounts[i + 1]]
      BY <2>2 DEF OpenForm
    <3> QED
      BY <1>2, <3>2, <3>3
  <2> QED
    BY <2>1, <2>2
<1>4. /\ editing' = i /\ visible' = Showing("form")
      /\ UNCHANGED <<regVars, fileVars, opened, inFront, deepLinked, accounts, short,
                     default, selected, saves, drawn>>
  BY DEF OpenForm
<1>5. RegInv' /\ FilesOK'
  BY <1>4 DEF TypeInv, RegInv, RegTypeOK, FilesOK, regVars, fileVars
<1>6. ListOK'
  BY <1>2, <1>3, <1>4 DEF TypeInv, ListOK
<1>7. ScreensOK'
  BY <1>4 DEF TypeInv, ScreensOK, Showing, Screens
<1> QED
  BY <1>5, <1>6, <1>7 DEF TypeInv

\* The screens that a step shows.
LEMMA ShowingOK ==
  ASSUME ScreensOK, NEW screen \in Screens
  PROVE  Showing(screen) \subseteq Screens /\ (visible \ {"form"}) \cup {"codec"} \subseteq Screens
BY DEF ScreensOK, Showing, Screens

LEMMA NextTypeInv == TypeInv /\ [Next]_vars => TypeInv'
<1> SUFFICES ASSUME TypeInv, [Next]_vars PROVE TypeInv'
  OBVIOUS
<1>t. /\ default \in -1..(MaxAccounts - 1) /\ selected \in 0..MaxAccounts /\ drawn \in BOOLEAN
      /\ form \in [at : -1..(MaxAccounts - 1), was : Accounts]
      /\ opened \in BOOLEAN /\ inFront \in BOOLEAN /\ deepLinked \in BOOLEAN
      /\ visible \subseteq Screens /\ FilesOK /\ RegInv /\ saves \in 0..MaxSaves
      /\ short \in BOOLEAN /\ accounts \in Seq(Accounts) /\ Len(accounts) <= MaxAccounts
      /\ Len(accounts) \in Nat
  BY LenProperties DEF TypeInv, ListOK, ScreensOK
<1>f. ASSUME UNCHANGED fileVars PROVE FilesOK'
  BY <1>t, <1>f DEF fileVars, FilesOK
<1>s. \A screen \in Screens : Showing(screen) \subseteq Screens
  BY ShowingOK DEF TypeInv
<1>d. Selection(default, count) \in 0..MaxAccounts
  BY <1>t, CountOK, SelectionOK DEF TypeInv
<1>1. CASE ManagerNext
  <2>1. RegNext /\ UNCHANGED <<fileVars, screenVars, listVars>>
    BY <1>1 DEF ManagerNext
  <2>2. RegInv'
    BY <1>t, <2>1, RegKeeps
  <2> QED
    BY <2>1, <2>2, <1>f DEF TypeInv, ListOK, ScreensOK, screenVars, listVars
<1>2. CASE Restart
  BY <1>2, <1>t, <1>f, StartedTypes DEF Restart
<1>3. ASSUME NEW request \in {"main", "list", "call"}, Enter(request) PROVE TypeInv'
  BY <1>3, EnterTypes
<1>4. CASE Leave
  BY <1>4, <1>t, <1>f, ShowTypes DEF Leave, listVars
<1>5. CASE ShowList
  BY <1>5, <1>t, <1>f, <1>s, <1>d, ShowTypes, NewFormOK DEF ShowList, Draw, Screens
<1>6. CASE ShowCall
  BY <1>6, <1>t, <1>f, <1>s, ShowTypes DEF ShowCall, listVars, Screens
<1>7. CASE BackToMain
  <2>1. /\ inFront' \in BOOLEAN /\ visible' \subseteq Screens
        /\ UNCHANGED <<regVars, fileVars, opened, deepLinked, listVars>>
    BY <1>7, <1>t, <1>s DEF BackToMain, Screens
  <2> QED
    BY <2>1, <1>t, <1>f, ShowTypes DEF listVars
<1>8. ASSUME NEW i \in {-1} \cup 0..(Len(accounts) - 1), OpenForm(i) PROVE TypeInv'
  BY <1>8, OpenTypes
<1>9. CASE OpenCodecs
  <2>1. visible' \subseteq Screens
    BY <1>9, <1>t DEF OpenCodecs, Screens
  <2> QED
    BY <1>9, <2>1, <1>t, <1>f, ShowTypes DEF OpenCodecs, listVars
<1>10. CASE CodecBack
  BY <1>10, <1>t, <1>f, <1>s, ShowTypes DEF CodecBack, listVars, Screens
<1>11. ASSUME NEW a \in Accounts, SaveAccount(a) PROVE TypeInv'
  BY <1>11, SaveTypes
<1>12. CASE SaveOutOfBounds
  <2>1. saves' \in 0..MaxSaves
    BY <1>12, <1>t, Numbers DEF SaveOutOfBounds
  <2>2. FilesOK'
    <3>1. CASE UNCHANGED fileVars
      BY <3>1, <1>f
    <3>2. CASE Save(<<>>, FALSE, default)
      <4>1. accountsFile' = <<>> /\ defaultFile' = default
        BY <3>2 DEF Save
      <4>2. <<>> \in Seq(Accounts) /\ Len(<<>>) <= MaxAccounts
        BY EmptySeq, Numbers
      <4>3. defaultFile' \in Absent..(MaxAccounts - 1)
        BY <4>1, <1>t, Numbers
      <4> QED
        BY <4>1, <4>2, <4>3 DEF FilesOK
    <3> QED
      BY <1>12, <3>1, <3>2 DEF SaveOutOfBounds
  <2> QED
    BY <1>12, <2>1, <2>2, StartedTypes DEF SaveOutOfBounds
<1>13. ASSUME NEW i \in DOMAIN accounts, DeleteAccount(i) PROVE TypeInv'
  BY <1>13, DeleteTypes
<1>14. ASSUME NEW s \in 0..MaxAccounts, DefaultChanged(s) PROVE TypeInv'
  <2>1. /\ default' = Effective(s, count) /\ selected' = s /\ defaultFile' = default'
        /\ accountsFile' = IF short THEN accountsFile ELSE accounts
        /\ UNCHANGED <<regVars, screenVars, accounts, short, editing, saves, drawn, form>>
    BY <1>14 DEF DefaultChanged, Save
  <2>2. default' \in -1..(MaxAccounts - 1)
    BY <2>1, ChosenOK
  <2>3. defaultFile' \in Absent..(MaxAccounts - 1)
    BY <2>1, <2>2, Numbers
  <2>4. FilesOK'
    BY <2>1, <2>3, <1>t DEF FilesOK
  <2> QED
    BY <2>1, <2>2, <2>4, <1>t, ShowTypes DEF screenVars
<1>15. CASE SaveSystem
  <2>1. /\ default' = Effective(selected, count) /\ defaultFile' = default'
        /\ visible' = Showing("main")
        /\ UNCHANGED <<regVars, accountsFile, opened, inFront, deepLinked, accounts, short,
                       editing, selected, saves, drawn, form>>
    BY <1>15 DEF SaveSystem
  <2>2. default' \in -1..(MaxAccounts - 1)
    BY <2>1, <1>t, ChosenOK
  <2>3. defaultFile' \in Absent..(MaxAccounts - 1)
    BY <2>1, <2>2, Numbers
  <2>4. FilesOK'
    BY <2>1, <2>3, <1>t DEF FilesOK
  <2> QED
    BY <2>1, <2>2, <2>4, <1>t, <1>s, ShowTypes DEF Screens
<1>16. ASSUME NEW k \in 0..MaxAccounts, CrashInSave(k) PROVE TypeInv'
  <2>1. /\ k \in 0..Len(accounts) /\ defaultFile' \in -1..(Len(accounts) - 1)
        /\ accountsFile' = SubSeq(accounts, 1, k) /\ saves' = saves /\ Started
    BY <1>16 DEF CrashInSave
  <2>2. accountsFile' \in Seq(Accounts) /\ Len(accountsFile') = k
    BY <2>1, CutOK DEF TypeInv
  <2>3. Len(accountsFile') <= MaxAccounts /\ defaultFile' \in Absent..(MaxAccounts - 1)
    BY <2>1, <2>2, <1>t, Numbers
  <2>4. FilesOK'
    BY <2>2, <2>3 DEF FilesOK
  <2> QED
    BY <2>1, <2>4, <1>t, StartedTypes
<1>17. CASE UNCHANGED vars
  <2>1. UNCHANGED <<regVars, fileVars, screenVars, listVars>>
    BY <1>17 DEF vars
  <2> QED
    BY <2>1, <1>t, <1>f, ShowTypes DEF screenVars, listVars
<1> QED
  BY <1>1, <1>2, <1>3, <1>4, <1>5, <1>6, <1>7, <1>8, <1>9, <1>10, <1>11, <1>12, <1>13,
     <1>14, <1>15, <1>16, <1>17 DEF Next

LEMMA AlwaysTypeInv == Spec => []TypeInv
BY InitTypeInv, NextTypeInv, PTL DEF Spec

LEMMA TypeInvTypeOK == TypeInv => TypeOK
BY DEF TypeInv, RegInv, FilesOK, ListOK, ScreensOK, TypeOK

\* The state of the applet and of the manager has its types: no index, count or
\* list leaves its range, with the count of -1 kept apart.
THEOREM TypeCorrect == Spec => []TypeOK
BY AlwaysTypeInv, TypeInvTypeOK, PTL

-----------------------------------------------------------------------------
(* The table of the manager says what the user agents have reported.       *)

\* What status s in the table says of user agent u.
Says(s, u) == s = u.last \/ (s = "NONE" /\ u.last = "REGISTERING")

\* An agent that reports, and what is made of it in the table.
LEMMA ReportIsFaithful ==
  ASSUME RegInv, StatusIsFaithful, NEW i \in DOMAIN uas, NEW s \in Statuses,
         uas' = [uas EXCEPT ![i].last = s],
         \/ status' = Updated(status, uas[i].aor, s)
         \/ status' = status /\ uas[i].aor \notin DOMAIN status
  PROVE  StatusIsFaithful'
<1> DEFINE a == uas[i].aor
<1>1. /\ DOMAIN uas' = DOMAIN uas /\ uas'[i].aor = a /\ uas'[i].last = s
      /\ \A j \in DOMAIN uas \ {i} : uas'[j] = uas[j]
  BY ReportedProperties
<1>2. a \in Aors
  BY AgentHasAor
<1>3. /\ DOMAIN status \subseteq DOMAIN status'
      /\ DOMAIN status' \subseteq DOMAIN status \cup {a}
      /\ \A b \in DOMAIN status \ {a} : status'[b] = status[b]
      /\ a \in DOMAIN status' => status'[a] = s
      /\ Cardinality(DOMAIN status) = MaxAccounts => DOMAIN status' = DOMAIN status
      /\ a \in DOMAIN status' \/ Cardinality(DOMAIN status) = MaxAccounts
  <2>1. StatusOK(status)
    BY DEF RegInv
  <2>2. CASE status' = Updated(status, a, s)
    BY <2>1, <2>2, <1>2, UpdatedProperties
  <2>3. CASE status' = status /\ a \notin DOMAIN status
    <3>1. a \in DOMAIN status \/ Cardinality(DOMAIN status) = MaxAccounts
      BY DEF StatusIsFaithful
    <3> QED
      BY <2>3, <3>1
  <2> QED
    BY <2>2, <2>3
<1>4. \A j \in DOMAIN uas : uas'[j].aor = uas[j].aor
  BY <1>1
<1> HIDE DEF a
<1>5. ASSUME NEW b \in DOMAIN status'
      PROVE  \E j \in DOMAIN uas' : uas'[j].aor = b /\ Says(status'[b], uas'[j])
  <2>1. CASE b = a
    <3>1. status'[b] = uas'[i].last /\ uas'[i].aor = b /\ i \in DOMAIN uas'
      BY <1>1, <1>3, <2>1, <1>5
    <3> QED
      BY <3>1 DEF Says
  <2>2. CASE b # a
    <3>1. b \in DOMAIN status /\ status'[b] = status[b]
      BY <1>3, <2>2, <1>5
    <3>2. PICK j \in DOMAIN uas : uas[j].aor = b /\ Says(status[b], uas[j])
      BY <3>1 DEF StatusIsFaithful, Says
    <3>3. j # i
      BY <3>2, <2>2 DEF a
    <3>4. uas'[j] = uas[j] /\ j \in DOMAIN uas'
      BY <1>1, <3>3
    <3> QED
      BY <3>1, <3>2, <3>4
  <2> QED
    BY <2>1, <2>2
<1>6. ASSUME NEW j \in DOMAIN uas'
      PROVE  uas'[j].aor \in DOMAIN status' \/ Cardinality(DOMAIN status') = MaxAccounts
  <2>1. j \in DOMAIN uas /\ uas'[j].aor = uas[j].aor
    BY <1>1, <1>4, <1>6
  <2>2. CASE Cardinality(DOMAIN status) = MaxAccounts
    BY <1>3, <2>2
  <2>3. CASE Cardinality(DOMAIN status) # MaxAccounts
    <3>1. uas[j].aor \in DOMAIN status
      BY <2>1, <2>3 DEF StatusIsFaithful
    <3> QED
      BY <2>1, <3>1, <1>3
  <2> QED
    BY <2>2, <2>3
<1> QED
  BY <1>5, <1>6 DEF StatusIsFaithful, Says

\* A user agent that is made, and what is made of it in the table.
LEMMA MakingIsFaithful ==
  ASSUME RegInv, StatusIsFaithful, NEW last \in {"NONE", "REGISTERING"}, AddUa(last)
  PROVE  StatusIsFaithful'
<1> DEFINE a == Head(queue).aor
           mid == Updated(status, a, last)
           n == Len(uas) + 1
<1>1. queue \in Seq(Accounts) /\ queue # <<>>
  BY DEF AddUa, RegInv, RegTypeOK
<1>2. Head(queue) \in Accounts
  BY <1>1, TakenProperties
<1>3. a \in Aors /\ last \in Statuses /\ "NONE" \in Statuses
  BY <1>2 DEF Accounts, Statuses
<1>4. uas' = Append(uas, [aor |-> a, last |-> last]) /\ status' = Updated(mid, a, "NONE")
  BY DEF AddUa
<1> HIDE DEF a
<1>5. /\ DOMAIN uas' = DOMAIN uas \cup {n}
      /\ uas'[n] = [aor |-> a, last |-> last]
      /\ \A j \in DOMAIN uas : uas'[j] = uas[j]
  BY <1>3, <1>4, MadeProperties
<1>6. StatusOK(status)
  BY DEF RegInv
<1>7. /\ StatusOK(mid)
      /\ DOMAIN status \subseteq DOMAIN mid /\ DOMAIN mid \subseteq DOMAIN status \cup {a}
      /\ \A b \in DOMAIN status \ {a} : mid[b] = status[b]
      /\ a \notin DOMAIN mid => Cardinality(DOMAIN status) = MaxAccounts
      /\ Cardinality(DOMAIN status) = MaxAccounts => DOMAIN mid = DOMAIN status
  BY <1>3, <1>6, UpdatedProperties
<1> HIDE DEF mid
<1>8. /\ DOMAIN mid \subseteq DOMAIN status' /\ DOMAIN status' \subseteq DOMAIN mid \cup {a}
      /\ \A b \in DOMAIN mid \ {a} : status'[b] = mid[b]
      /\ a \in DOMAIN status' => status'[a] = "NONE"
      /\ a \notin DOMAIN status' => Cardinality(DOMAIN mid) = MaxAccounts
      /\ Cardinality(DOMAIN mid) = MaxAccounts => DOMAIN status' = DOMAIN mid
  BY <1>3, <1>4, <1>7, UpdatedProperties
<1> HIDE DEF n
<1>9. ASSUME NEW b \in DOMAIN status'
      PROVE  \E j \in DOMAIN uas' : uas'[j].aor = b /\ Says(status'[b], uas'[j])
  <2>1. CASE b = a
    <3>1. status'[b] = "NONE"
      BY <1>8, <2>1, <1>9
    <3>2. uas'[n].aor = b /\ uas'[n].last = last /\ n \in DOMAIN uas'
      BY <1>5, <2>1
    <3> QED
      BY <3>1, <3>2 DEF Says
  <2>2. CASE b # a
    <3>1. b \in DOMAIN status /\ status'[b] = status[b]
      BY <1>7, <1>8, <2>2, <1>9
    <3>2. PICK j \in DOMAIN uas : uas[j].aor = b /\ Says(status[b], uas[j])
      BY <3>1 DEF StatusIsFaithful, Says
    <3>3. uas'[j] = uas[j] /\ j \in DOMAIN uas'
      BY <1>5
    <3> QED
      BY <3>1, <3>2, <3>3
  <2> QED
    BY <2>1, <2>2
<1>10. ASSUME NEW j \in DOMAIN uas'
       PROVE  uas'[j].aor \in DOMAIN status' \/ Cardinality(DOMAIN status') = MaxAccounts
  <2>1. CASE Cardinality(DOMAIN status) = MaxAccounts
    <3>1. DOMAIN mid = DOMAIN status
      BY <1>7, <2>1
    <3> QED
      BY <1>8, <2>1, <3>1
  <2>2. CASE Cardinality(DOMAIN status) # MaxAccounts
    <3>1. a \in DOMAIN status'
      BY <1>7, <1>8, <2>2
    <3>2. CASE j = n
      BY <3>1, <3>2, <1>5
    <3>3. CASE j \in DOMAIN uas
      <4>1. uas[j].aor \in DOMAIN status /\ uas'[j] = uas[j]
        BY <2>2, <3>3, <1>5 DEF StatusIsFaithful
      <4> QED
        BY <4>1, <1>7, <1>8
    <3> QED
      BY <3>2, <3>3, <1>5, <1>10
  <2> QED
    BY <2>1, <2>2
<1> QED
  BY <1>9, <1>10 DEF StatusIsFaithful, Says

\* No user agent yet, and nothing in the table.
LEMMA NothingIsFaithful ==
  ASSUME NEW t, NEW u, t = [a \in {} |-> "NONE"], u = <<>>
  PROVE  DOMAIN t = {} /\ DOMAIN u = {}
<1>1. <<>> \in Seq(Uas) /\ Len(<<>>) = 0
  BY EmptySeq
<1>2. DOMAIN <<>> = 1..0
  BY <1>1, LenProperties
<1> QED
  BY <1>2

LEMMA InitFaithful == Init => StatusIsFaithful
<1> SUFFICES ASSUME Init PROVE StatusIsFaithful
  OBVIOUS
<1>1. DOMAIN status = {} /\ DOMAIN uas = {}
  BY NothingIsFaithful DEF Init
<1> QED
  BY <1>1 DEF StatusIsFaithful

LEMMA StartedFaithful == ASSUME Started PROVE StatusIsFaithful'
<1>1. DOMAIN status' = {} /\ DOMAIN uas' = {}
  BY NothingIsFaithful DEF Started
<1> QED
  BY <1>1 DEF StatusIsFaithful

LEMMA NextFaithful == TypeInv /\ StatusIsFaithful /\ [Next]_vars => StatusIsFaithful'
<1> SUFFICES ASSUME TypeInv, StatusIsFaithful, [Next]_vars PROVE StatusIsFaithful'
  OBVIOUS
<1>t. RegInv
  BY DEF TypeInv
\* Most steps leave the manager alone, or only put accounts into its queue.
<1>u. ASSUME UNCHANGED <<uas, status>> PROVE StatusIsFaithful'
  BY <1>u DEF StatusIsFaithful
<1>1. CASE ManagerNext
  <2>1. CASE AddRefused
    BY <2>1, <1>u DEF AddRefused
  <2>2. ASSUME NEW last \in {"NONE", "REGISTERING"}, AddUa(last) PROVE StatusIsFaithful'
    BY <2>2, <1>t, MakingIsFaithful
  <2>3. ASSUME NEW i \in DOMAIN uas, NEW s \in Answers, Answer(i, s) PROVE StatusIsFaithful'
    <3>1. s \in Statuses
      BY RegistrationAssumption DEF Answers, Statuses
    <3>2. StatusOK(status) /\ uas[i].aor \in Aors
      BY <1>t, AgentHasAor DEF RegInv
    <3>3. \/ Answered(status, uas[i].aor, s) = Updated(status, uas[i].aor, s)
          \/ Answered(status, uas[i].aor, s) = status /\ uas[i].aor \notin DOMAIN status
      BY <3>1, <3>2, AnsweredProperties
    <3> QED
      BY <1>t, <2>3, <3>1, <3>3, ReportIsFaithful DEF Answer
  <2>4. ASSUME NEW i \in DOMAIN uas, RegisterAgain(i) PROVE StatusIsFaithful'
    <3>1. "REGISTERING" \in Statuses
      BY DEF Statuses
    <3> QED
      BY <1>t, <2>4, <3>1, ReportIsFaithful DEF RegisterAgain
  <2> QED
    BY <1>1, <2>1, <2>2, <2>3, <2>4 DEF ManagerNext, RegNext
<1>2. ASSUME NEW a \in Accounts, SaveAccount(a) PROVE StatusIsFaithful'
  BY <1>2, <1>u DEF SaveAccount, Enqueue, regVars
<1>3. CASE Started
  BY <1>3, StartedFaithful
<1>4. CASE UNCHANGED regVars
  BY <1>4, <1>u DEF regVars
<1> QED
  BY <1>1, <1>2, <1>3, <1>4
  DEF Next, vars, Restart, Enter, Leave, ShowList, ShowCall, BackToMain, OpenForm, OpenCodecs,
      CodecBack, SaveOutOfBounds, DeleteAccount, DefaultChanged, SaveSystem, CrashInSave

FaithfulInv == TypeInv /\ StatusIsFaithful

LEMMA AlwaysFaithful == Spec => []FaithfulInv
<1>1. Init => FaithfulInv
  BY InitTypeInv, InitFaithful DEF FaithfulInv
<1>2. FaithfulInv /\ [Next]_vars => FaithfulInv'
  BY NextTypeInv, NextFaithful DEF FaithfulInv
<1> QED
  BY <1>1, <1>2, PTL DEF Spec

\* g_call_state.accounts says of an address what a user agent with that address
\* has reported last, or NONE before its first answer, and only a full table
\* leaves a user agent out, whatever order the answers and commands come in.
THEOREM StatusCorrect == Spec => []StatusIsFaithful
<1>1. FaithfulInv => StatusIsFaithful
  BY DEF FaithfulInv
<1> QED
  BY AlwaysFaithful, <1>1, PTL

-----------------------------------------------------------------------------
(* What the applet shows is what the files hold.                           *)

\* Before the applet is opened it is not in front, and no list was drawn.
ScreenInv == ScreenIsFile /\ (drawn => opened) /\ (inFront => opened)

\* A default account is the one that the dropdown and the file make of it.
LEMMA EffectiveTwice ==
  ASSUME NEW n \in Nat, NEW d \in Int
  PROVE  Effective(Effective(d, n), n) = Effective(d, n)
BY DEF Effective

LEMMA EffectiveSelection ==
  ASSUME NEW n \in Nat, NEW d \in Int, d >= -1
  PROVE  Effective(Selection(d, n), n) = Effective(d, n)
BY DEF Effective, Selection

\* What the list of accounts shows when it is drawn from what the files hold.
LEMMA EnterShowsFile ==
  ASSUME TypeInv, ScreenInv, NEW request \in {"main", "list", "call"}, Enter(request)
  PROVE  ScreenInv'
<1> DEFINE n == Len(accounts')
<1>t. TypeInv'
  BY EnterTypes
<1>1. n \in Nat /\ default' \in Int /\ default' >= -1
  BY <1>t, Numbers, LenProperties DEF TypeInv, ListOK
<1>2. opened' = TRUE /\ UNCHANGED <<short, accountsFile, defaultFile>>
  BY DEF Enter, fileVars
<1> SUFFICES ASSUME ~short' PROVE ScreenInv'
  BY <1>2 DEF ScreenInv, ScreenIsFile
<1>3. count' = n
  BY DEF count
<1>4. request = "list" => Effective(selected', n) = Effective(default', n)
  <2>1. ASSUME request = "list" PROVE selected' = Selection(default', n)
    BY <1>2, <2>1 DEF Enter, Draw
  <2> QED
    BY <2>1, <1>1, EffectiveSelection
<1>5. request # "list" => UNCHANGED <<selected, drawn>>
  BY DEF Enter
<1>6. CASE opened
  <2>1. UNCHANGED <<accounts, default>> /\ count = n
    BY <1>6, <1>2 DEF Enter, count
  <2>2. /\ accountsFile = accounts \/ Loaded(accountsFile) = accounts
        /\ defaultFile # Absent => Effective(defaultFile, n) = Effective(default, n)
        /\ drawn => Effective(selected, n) = Effective(default, n)
    BY <1>2, <1>6, <2>1 DEF ScreenInv, ScreenIsFile
  <2>3. Effective(selected', n) = Effective(default', n) \/ ~drawn'
    BY <1>4, <1>5, <2>1, <2>2
  <2> HIDE DEF n
  <2> QED
    BY <1>2, <1>3, <2>1, <2>2, <2>3 DEF ScreenInv, ScreenIsFile
<1>7. CASE ~opened
  <2> DEFINE d == IF defaultFile = Absent THEN 0 ELSE defaultFile
  <2>1. accounts' = Loaded(accountsFile) /\ default' = Effective(d, n)
    BY <1>7 DEF Enter, LoadDefault
  <2>2. d \in Int
    BY Numbers DEF TypeInv, FilesOK
  <2>3. ~drawn
    BY <1>7 DEF ScreenInv
  <2>4. Effective(default', n) = Effective(d, n)
    BY <2>1, <2>2, <1>1, EffectiveTwice
  <2>5. Effective(selected', n) = Effective(default', n) \/ ~drawn'
    BY <1>4, <1>5, <2>3
  <2> HIDE DEF n
  <2> QED
    BY <1>2, <1>3, <2>1, <2>4, <2>5 DEF ScreenInv, ScreenIsFile
<1> QED
  BY <1>6, <1>7

LEMMA NextScreen == TypeInv /\ ScreenInv /\ [Next]_vars => ScreenInv'
<1> SUFFICES ASSUME TypeInv, ScreenInv, [Next]_vars PROVE ScreenInv'
  OBVIOUS
<1>t. /\ Len(accounts) \in Nat /\ default \in Int /\ default >= -1 /\ selected \in Int
      /\ (~short => count = Len(accounts))
  BY LenProperties, Numbers DEF TypeInv, ListOK, count
<1>1. ASSUME NEW request \in {"main", "list", "call"}, Enter(request) PROVE ScreenInv'
  BY <1>1, EnterShowsFile
<1>2. CASE Started
  BY <1>2 DEF Started, ScreenInv, ScreenIsFile
<1>3. CASE ShowList
  <2>1. /\ opened' = opened /\ selected' = Selection(default, count) /\ drawn' = TRUE
        /\ UNCHANGED <<accountsFile, defaultFile, accounts, short, default, inFront>>
    BY <1>3 DEF ShowList, Draw, fileVars
  <2>2. opened /\ count' = count
    BY <1>3, <2>1 DEF ShowList, On, ScreenInv, count
  <2>3. ~short => Effective(selected', count) = Effective(default, count)
    BY <2>1, <1>t, EffectiveSelection
  <2> QED
    BY <2>1, <2>2, <2>3 DEF ScreenInv, ScreenIsFile
<1>4. ASSUME NEW a \in Accounts, SaveAccount(a) PROVE ScreenInv'
  <2>1. /\ accountsFile' = accounts' /\ defaultFile' = default /\ default' = default
        /\ selected' = Selection(default, Len(accounts')) /\ ~short'
        /\ opened' = opened /\ inFront' = inFront /\ inFront
    BY <1>4 DEF SaveAccount, Save, Draw, On
  <2>2. TypeInv'
    BY <1>4, SaveTypes
  <2>3. count' = Len(accounts') /\ Len(accounts') \in Nat
    BY <2>1, <2>2, LenProperties DEF count, TypeInv, ListOK
  <2>4. Effective(selected', count') = Effective(default', count')
    BY <2>1, <2>3, <1>t, EffectiveSelection
  <2> QED
    BY <2>1, <2>4 DEF ScreenInv, ScreenIsFile
<1>5. ASSUME NEW i \in DOMAIN accounts, DeleteAccount(i) PROVE ScreenInv'
  <2>1. /\ short' = (Len(accounts) = 1) /\ accounts' = Deleted(accounts, i)
        /\ defaultFile' = default /\ default' = default
        /\ accountsFile' = IF short' THEN accountsFile ELSE accounts'
        /\ selected' = Selection(default, Len(accounts) - 2)
        /\ opened' = opened /\ inFront' = inFront /\ inFront
    BY <1>5 DEF DeleteAccount, DeletedShort, Save, Draw, On, screenVars
  <2>2. i \in 1..Len(accounts)
    BY LenProperties DEF TypeInv, ListOK
  <2>3. ASSUME ~short'
        PROVE  count' = Len(accounts) - 2 /\ Len(accounts) - 2 \in Nat
    <3> DEFINE n == Len(accounts)
    <3>a. n \in Nat /\ n # 1 /\ i \in 1..n
      BY <2>1, <2>2, <2>3, <1>t
    <3> HIDE DEF n
    <3>b. n - 2 \in Nat
      BY <3>a
    <3>1. Len(accounts) - 2 \in Nat
      BY <3>b DEF n
    <3>2. Len(accounts') = Len(accounts) - 2
      BY <2>1, <2>3, DeletedOK DEF TypeInv
    <3> QED
      BY <3>1, <3>2, <2>3 DEF count
  <2>4. ~short' => Effective(selected', count') = Effective(default', count')
    BY <2>1, <2>3, <1>t, EffectiveSelection
  <2> QED
    BY <2>1, <2>4 DEF ScreenInv, ScreenIsFile
<1>6. ASSUME NEW s \in 0..MaxAccounts, DefaultChanged(s) PROVE ScreenInv'
  <2>1. /\ default' = Effective(s, count) /\ selected' = s /\ defaultFile' = default'
        /\ accountsFile' = IF short THEN accountsFile ELSE accounts
        /\ UNCHANGED <<opened, inFront, accounts, short, drawn>>
    BY <1>6 DEF DefaultChanged, Save, screenVars
  <2>2. count' = count
    BY <2>1 DEF count
  <2>3. ~short => Effective(selected', count) = Effective(default', count)
    BY <2>1, <1>t, EffectiveTwice
  <2> QED
    BY <2>1, <2>2, <2>3 DEF ScreenInv, ScreenIsFile
<1>7. CASE SaveSystem
  <2>1. /\ default' = Effective(selected, count) /\ defaultFile' = default'
        /\ UNCHANGED <<accountsFile, opened, inFront, accounts, short, selected, drawn>>
    BY <1>7 DEF SaveSystem
  <2>2. count' = count
    BY <2>1 DEF count
  <2>3. ~short => Effective(selected', count) = Effective(default', count)
    BY <2>1, <1>t, EffectiveTwice
  <2> QED
    BY <2>1, <2>2, <2>3 DEF ScreenInv, ScreenIsFile
\* Nothing that the property reads changes, and the applet does not come to the front.
<1>8. ASSUME UNCHANGED <<accountsFile, defaultFile, accounts, short, default, selected,
                         drawn, opened>>,
             inFront' = inFront \/ inFront' = FALSE
      PROVE  ScreenInv'
  BY <1>8 DEF ScreenInv, ScreenIsFile, count
<1>9. CASE ManagerNext
  BY <1>9, <1>8 DEF ManagerNext, fileVars, screenVars, listVars
<1>10. CASE Leave
  BY <1>10, <1>8 DEF Leave, fileVars, listVars
<1>11. CASE ShowCall
  BY <1>11, <1>8 DEF ShowCall, fileVars, listVars
<1>12. CASE BackToMain
  BY <1>12, <1>8 DEF BackToMain, fileVars, listVars
<1>13. ASSUME NEW i \in {-1} \cup 0..(Len(accounts) - 1), OpenForm(i) PROVE ScreenInv'
  BY <1>13, <1>8 DEF OpenForm, fileVars
<1>14. CASE OpenCodecs
  BY <1>14, <1>8 DEF OpenCodecs, fileVars, listVars
<1>15. CASE CodecBack
  BY <1>15, <1>8 DEF CodecBack, fileVars, listVars
<1>16. CASE UNCHANGED vars
  BY <1>16, <1>8 DEF vars, fileVars, screenVars, listVars
<1> QED
  BY <1>1, <1>2, <1>3, <1>4, <1>5, <1>6, <1>7, <1>9, <1>10, <1>11, <1>12, <1>13, <1>14,
     <1>15, <1>16 DEF Next, Restart, SaveOutOfBounds, CrashInSave

ScreenStrong == TypeInv /\ ScreenInv

LEMMA AlwaysScreen == Spec => []ScreenStrong
<1>1. Init => ScreenStrong
  <2>1. Init => ScreenInv
    BY DEF Init, ScreenInv, ScreenIsFile
  <2> QED
    BY <2>1, InitTypeInv DEF ScreenStrong
<1>2. ScreenStrong /\ [Next]_vars => ScreenStrong'
  BY NextTypeInv, NextScreen DEF ScreenStrong
<1> QED
  BY <1>1, <1>2, PTL DEF Spec

\* While the applet's count is right, its list of accounts is the file's, without
\* the lines it passes over, its default account is the one in settings.conf, and
\* the dropdown that the System Settings save from stands on that account.
THEOREM ScreenShowsFile == Spec => []ScreenIsFile
<1>1. ScreenStrong => ScreenIsFile
  BY DEF ScreenStrong, ScreenInv
<1> QED
  BY AlwaysScreen, <1>1, PTL

-----------------------------------------------------------------------------
(* Every enabled account of the file has an agent, or its fate is known.   *)

Covered(a) ==
  Complete(a) /\ a.enabled =>
    \/ \E j \in DOMAIN uas : uas[j].aor = a.aor
    \/ a \in Range(queue)
    \/ a.aor \in refused

\* The accounts of the list are as good: the list may become the file.
CoverInv ==
  /\ \A i \in DOMAIN accountsFile : Covered(accountsFile[i])
  /\ \A i \in DOMAIN accounts : Covered(accounts[i])

\* What the manager does never takes an account's agent or place away.
LEMMA CoverStays ==
  ASSUME RegInv, RegNext \/ UNCHANGED regVars, NEW a \in Accounts, Covered(a)
  PROVE  Covered(a)'
<1> SUFFICES ASSUME Complete(a), a.enabled
             PROVE  \/ \E j \in DOMAIN uas' : uas'[j].aor = a.aor
                    \/ a \in Range(queue')
                    \/ a.aor \in refused'
  BY DEF Covered
<1>c. \/ \E j \in DOMAIN uas : uas[j].aor = a.aor
      \/ a \in Range(queue)
      \/ a.aor \in refused
  BY DEF Covered
<1>q. queue \in Seq(Accounts)
  BY DEF RegInv, RegTypeOK
<1>h. queue # <<>> => (a \in Range(queue) => a = Head(queue) \/ a \in Range(Tail(queue)))
  BY <1>q, TakenProperties
<1>1. CASE AddRefused
  BY <1>1, <1>c, <1>h DEF AddRefused
<1>2. ASSUME NEW last \in {"NONE", "REGISTERING"}, AddUa(last)
      PROVE  \/ \E j \in DOMAIN uas' : uas'[j].aor = a.aor
             \/ a \in Range(queue')
             \/ a.aor \in refused'
  <2> DEFINE h == Head(queue).aor
             n == Len(uas) + 1
  <2>1. /\ queue # <<>> /\ queue' = Tail(queue) /\ refused' = refused
        /\ uas' = Append(uas, [aor |-> h, last |-> last])
    BY <1>2 DEF AddUa
  <2>2. Head(queue) \in Accounts /\ last \in Statuses
    BY <1>q, <2>1, TakenProperties DEF Statuses
  <2>3. h \in Aors
    BY <2>2 DEF Accounts
  <2> HIDE DEF h
  <2>4. /\ DOMAIN uas' = DOMAIN uas \cup {n}
        /\ uas'[n] = [aor |-> h, last |-> last]
        /\ \A j \in DOMAIN uas : uas'[j] = uas[j]
    BY <2>1, <2>2, <2>3, MadeProperties
  <2> HIDE DEF n
  <2>5. CASE \E j \in DOMAIN uas : uas[j].aor = a.aor
    BY <2>4, <2>5
  <2>6. CASE a = Head(queue)
    <3>1. uas'[n].aor = a.aor /\ n \in DOMAIN uas'
      BY <2>4, <2>6 DEF h
    <3> QED
      BY <3>1
  <2> QED
    BY <1>c, <1>h, <2>1, <2>5, <2>6
<1>3. ASSUME NEW i \in DOMAIN uas, NEW s \in Statuses, uas' = [uas EXCEPT ![i].last = s],
             UNCHANGED <<queue, refused>>
      PROVE  \/ \E j \in DOMAIN uas' : uas'[j].aor = a.aor
             \/ a \in Range(queue')
             \/ a.aor \in refused'
  <2>1. /\ DOMAIN uas' = DOMAIN uas
        /\ uas'[i].aor = uas[i].aor
        /\ \A j \in DOMAIN uas \ {i} : uas'[j] = uas[j]
    BY <1>3, ReportedProperties
  <2>2. \A j \in DOMAIN uas : uas'[j].aor = uas[j].aor
    BY <2>1
  <2> QED
    BY <1>c, <1>3, <2>1, <2>2
<1>4. ASSUME NEW i \in DOMAIN uas, NEW s \in Answers, Answer(i, s)
      PROVE  \/ \E j \in DOMAIN uas' : uas'[j].aor = a.aor
             \/ a \in Range(queue')
             \/ a.aor \in refused'
  <2>1. s \in Statuses
    BY RegistrationAssumption DEF Answers, Statuses
  <2> QED
    BY <1>4, <1>3, <2>1 DEF Answer
<1>5. ASSUME NEW i \in DOMAIN uas, RegisterAgain(i)
      PROVE  \/ \E j \in DOMAIN uas' : uas'[j].aor = a.aor
             \/ a \in Range(queue')
             \/ a.aor \in refused'
  <2>1. "REGISTERING" \in Statuses
    BY DEF Statuses
  <2> QED
    BY <1>5, <1>3, <2>1 DEF RegisterAgain
<1>6. CASE UNCHANGED regVars
  BY <1>6, <1>c DEF regVars
<1> QED
  BY <1>1, <1>2, <1>4, <1>5, <1>6 DEF RegNext

\* An account that is saved takes its place in the queue.
LEMMA CoverGrows ==
  ASSUME RegInv, NEW b \in Accounts, Enqueue(<<b>>), NEW a \in Accounts,
         Covered(a) \/ a = b
  PROVE  Covered(a)'
<1>1. <<b>> \in Seq(Accounts) /\ Len(<<b>>) = 1 /\ <<b>>[1] = b
  BY SeqDef
<1>2. queue \in Seq(Accounts) /\ Len(queue) <= QueueSize
  BY DEF RegInv, RegTypeOK
<1> DEFINE l == <<b>>
<1>3. /\ queue' = Enqueued(queue, l) /\ refused' = refused \cup Dropped(queue, l)
      /\ uas' = uas
  BY DEF Enqueue
<1>4. l \in Seq(Accounts) /\ 1 \in 1..Len(l) /\ l[1] = b
  BY <1>1
<1> HIDE DEF l
<1>5. /\ \A n \in 1..Len(queue) : queue[n] \in Range(queue')
      /\ \A n \in 1..Len(l) : l[n] \in Range(queue') \/ l[n].aor \in Dropped(queue, l)
  BY <1>2, <1>3, <1>4, EnqueuedProperties
<1>6. DOMAIN queue = 1..Len(queue)
  BY <1>2, LenProperties
<1>7. a \in Range(queue) => a \in Range(queue')
  BY <1>5, <1>6 DEF Range
<1>8. b \in Range(queue') \/ b.aor \in refused'
  BY <1>3, <1>4, <1>5
<1> QED
  BY <1>3, <1>7, <1>8 DEF Covered

\* What the program adds when it starts covers the file.
LEMMA StartCovers ==
  ASSUME NEW l \in Seq(Accounts), NEW i \in DOMAIN l, Complete(l[i]), l[i].enabled
  PROVE  \/ l[i] \in Range(Enqueued(<<>>, AtStart(l)))
         \/ l[i].aor \in Dropped(<<>>, AtStart(l))
<1>1. i \in 1..Len(l)
  BY LenProperties
<1>2. AtStart(l) \in Seq(Accounts)
  BY AtStartProperties
<1>3. PICK n \in 1..Len(AtStart(l)) : AtStart(l)[n] = l[i]
  BY <1>1, AtStartProperties
<1>4. <<>> \in Seq(Accounts) /\ Len(<<>>) <= QueueSize
  BY EmptySeq, RegistrationAssumption
<1>5. \A k \in 1..Len(AtStart(l)) :
         AtStart(l)[k] \in Range(Enqueued(<<>>, AtStart(l)))
           \/ AtStart(l)[k].aor \in Dropped(<<>>, AtStart(l))
  BY <1>2, <1>4, EnqueuedProperties
<1> QED
  BY <1>3, <1>5

LEMMA InitCovers == Init => CoverInv
<1> SUFFICES ASSUME Init PROVE CoverInv
  OBVIOUS
<1>1. /\ accountsFile \in Seq(Accounts) /\ accounts = <<>>
      /\ queue = Enqueued(<<>>, AtStart(accountsFile))
      /\ refused = Dropped(<<>>, AtStart(accountsFile))
  BY SettingsAssumption DEF Init
<1>2. DOMAIN accounts = {}
  <2>1. <<>> \in Seq(Accounts) /\ Len(<<>>) = 0
    BY EmptySeq
  <2>2. DOMAIN <<>> = 1..0
    BY <2>1, LenProperties
  <2> QED
    BY <1>1, <2>2
<1>3. \A i \in DOMAIN accountsFile : Covered(accountsFile[i])
  BY <1>1, StartCovers DEF Covered
<1> QED
  BY <1>2, <1>3 DEF CoverInv

LEMMA StartedCovers == ASSUME accountsFile' \in Seq(Accounts), Started PROVE CoverInv'
<1>1. /\ accounts' = <<>>
      /\ queue' = Enqueued(<<>>, AtStart(accountsFile'))
      /\ refused' = Dropped(<<>>, AtStart(accountsFile'))
  BY DEF Started
<1>2. DOMAIN accounts' = {}
  <2>1. <<>> \in Seq(Accounts) /\ Len(<<>>) = 0
    BY EmptySeq
  <2>2. DOMAIN <<>> = 1..0
    BY <2>1, LenProperties
  <2> QED
    BY <1>1, <2>2
<1>3. \A i \in DOMAIN accountsFile' : Covered(accountsFile[i])'
  BY <1>1, StartCovers DEF Covered
<1> QED
  BY <1>2, <1>3 DEF CoverInv

LEMMA NextCovers == TypeInv /\ CoverInv /\ [Next]_vars => CoverInv'
<1> SUFFICES ASSUME TypeInv, CoverInv, [Next]_vars PROVE CoverInv'
  OBVIOUS
<1>t. /\ RegInv /\ accountsFile \in Seq(Accounts) /\ accounts \in Seq(Accounts)
      /\ DOMAIN accountsFile = 1..Len(accountsFile) /\ DOMAIN accounts = 1..Len(accounts)
      /\ \A i \in DOMAIN accountsFile : accountsFile[i] \in Accounts
      /\ \A i \in DOMAIN accounts : accounts[i] \in Accounts
  BY LenProperties, ElementOfSeq DEF TypeInv, FilesOK, ListOK
<1>n. TypeInv'
  BY NextTypeInv
\* The account is in the file or in the list before the step.
<1> DEFINE Known(a) == \/ \E i \in DOMAIN accountsFile : a = accountsFile[i]
                       \/ \E i \in DOMAIN accounts : a = accounts[i]
<1>k. \A a : Known(a) => a \in Accounts /\ Covered(a)
  BY <1>t DEF CoverInv
<1>c. ASSUME RegNext \/ UNCHANGED regVars,
             \A i \in DOMAIN accountsFile' : Known(accountsFile'[i]),
             \A i \in DOMAIN accounts' : Known(accounts'[i])
      PROVE  CoverInv'
  <2> HIDE DEF Known
  <2>1. \A a : Known(a) => Covered(a)'
    BY <1>c, <1>k, <1>t, CoverStays
  <2>2. \A i \in DOMAIN accountsFile' : Covered(accountsFile[i])'
    BY <1>c, <2>1 DEF Covered
  <2>3. \A i \in DOMAIN accounts' : Covered(accounts[i])'
    BY <1>c, <2>1 DEF Covered
  <2> QED
    BY <2>2, <2>3 DEF CoverInv
<1>u. ASSUME RegNext \/ UNCHANGED regVars, UNCHANGED <<accountsFile, accounts>>
      PROVE  CoverInv'
  BY <1>u, <1>c
<1>1. CASE ManagerNext
  BY <1>1, <1>u DEF ManagerNext, fileVars, listVars
<1>2. CASE Started
  BY <1>2, <1>n, StartedCovers DEF TypeInv, FilesOK
<1>3. ASSUME NEW request \in {"main", "list", "call"}, Enter(request) PROVE CoverInv'
  <2>1. UNCHANGED regVars /\ accountsFile' = accountsFile
    BY <1>3 DEF Enter, fileVars
  <2>2. accounts' = accounts \/ accounts' = Loaded(accountsFile)
    BY <1>3 DEF Enter
  <2>3. CASE accounts' = accounts
    BY <2>1, <2>3, <1>u
  <2>4. CASE accounts' = Loaded(accountsFile)
    <3>1. /\ Loaded(accountsFile) \in Seq(Accounts)
          /\ \A n \in 1..Len(Loaded(accountsFile)) : \E i \in 1..Len(accountsFile) :
               Loaded(accountsFile)[n] = accountsFile[i]
      BY <1>t, LoadedProperties
    <3>2. DOMAIN accounts' = 1..Len(Loaded(accountsFile))
      BY <2>4, <3>1, LenProperties
    <3>3. \A n \in DOMAIN accounts' : Known(accounts'[n])
      BY <2>4, <3>1, <3>2, <1>t
    <3>4. \A i \in DOMAIN accountsFile' : Known(accountsFile'[i])
      BY <2>1
    <3> HIDE DEF Known
    <3> QED
      BY <2>1, <3>3, <3>4, <1>c
  <2> QED
    BY <2>2, <2>3, <2>4
<1>4. ASSUME NEW a \in Accounts, SaveAccount(a) PROVE CoverInv'
  <2>1. /\ accounts' = Edited(a) /\ accountsFile' = accounts'
        /\ IF a.enabled THEN Enqueue(<<a>>) ELSE UNCHANGED regVars
    BY <1>4 DEF SaveAccount, Save
  <2>2. \A b \in Accounts : Covered(b) \/ b = a => Covered(b)'
    <3>1. CASE a.enabled
      BY <2>1, <3>1, <1>t, CoverGrows
    <3>2. CASE ~a.enabled
      <4>1. Covered(a)'
        BY <3>2 DEF Covered
      <4>2. \A b \in Accounts : Covered(b) => Covered(b)'
        BY <2>1, <3>2, <1>t, CoverStays
      <4> QED
        BY <4>1, <4>2
    <3> QED
      BY <3>1, <3>2
  <2>3. \A n \in DOMAIN accounts' : accounts'[n] = a \/ Known(accounts'[n])
    <3>1. CASE editing = -1
      <4> DEFINE l == Append(accounts, a)
      <4>1. accounts' = l
        BY <2>1, <3>1 DEF Edited
      <4>2. /\ l \in Seq(Accounts) /\ Len(l) = Len(accounts) + 1
            /\ \A n \in 1..Len(accounts) : l[n] = accounts[n]
            /\ l[Len(accounts) + 1] = a
        BY <1>t, AppendProperties
      <4> HIDE DEF l
      <4>3. DOMAIN l = 1..(Len(accounts) + 1) /\ Len(accounts) \in Nat
        BY <4>2, <1>t, LenProperties
      <4>4. \A n \in DOMAIN l : n \in DOMAIN accounts \/ n = Len(accounts) + 1
        BY <4>3, <1>t
      <4>5. \A n \in DOMAIN l : l[n] = a \/ Known(l[n])
        BY <4>2, <4>4, <1>t
      <4> QED
        BY <4>1, <4>5
    <3>2. CASE editing # -1
      BY <2>1, <3>2 DEF Edited
    <3> QED
      BY <3>1, <3>2
  <2> HIDE DEF Known
  <2> DEFINE After(b) == Complete(b) /\ b.enabled =>
                           \/ \E j \in DOMAIN uas' : uas'[j].aor = b.aor
                           \/ b \in Range(queue')
                           \/ b.aor \in refused'
  <2>4. \A b \in Accounts : Covered(b) \/ b = a => After(b)
    BY <2>2 DEF Covered
  <2>5. \A n \in DOMAIN accounts' :
          accounts'[n] \in Accounts /\ (Covered(accounts'[n]) \/ accounts'[n] = a)
    BY <2>3, <1>k
  <2> HIDE DEF After
  <2>6. \A n \in DOMAIN accounts' : After(accounts'[n])
    BY <2>4, <2>5
  <2>7. \A n \in DOMAIN accounts' : Covered(accounts[n])'
    BY <2>6 DEF After, Covered
  <2> QED
    BY <2>1, <2>7 DEF CoverInv, Covered
<1>5. ASSUME NEW i \in DOMAIN accounts, DeleteAccount(i) PROVE CoverInv'
  <2>1. /\ UNCHANGED regVars /\ accounts' = Deleted(accounts, i)
        /\ accountsFile' = accountsFile \/ accountsFile' = accounts'
    BY <1>5 DEF DeleteAccount, Save
  <2>2. /\ Deleted(accounts, i) \in Seq(Accounts)
        /\ \A n \in 1..Len(Deleted(accounts, i)) : \E j \in DOMAIN accounts :
              Deleted(accounts, i)[n] = accounts[j]
    BY DeletedOK DEF TypeInv
  <2>3. DOMAIN accounts' = 1..Len(Deleted(accounts, i))
    BY <2>1, <2>2, LenProperties
  <2>4. \A n \in DOMAIN accounts' : Known(accounts'[n])
    BY <2>1, <2>2, <2>3
  <2>5. \A n \in DOMAIN accountsFile' : Known(accountsFile'[n])
    BY <2>1, <2>4
  <2> HIDE DEF Known
  <2> QED
    BY <2>1, <2>4, <2>5, <1>c
<1>6. ASSUME NEW s \in 0..MaxAccounts, DefaultChanged(s) PROVE CoverInv'
  <2>1. /\ UNCHANGED regVars /\ accounts' = accounts
        /\ accountsFile' = accountsFile \/ accountsFile' = accounts
    BY <1>6 DEF DefaultChanged, Save
  <2> QED
    BY <2>1, <1>c
<1>7. CASE UNCHANGED <<regVars, accountsFile, accounts>>
  BY <1>7, <1>u
<1> QED
  BY <1>1, <1>2, <1>3, <1>4, <1>5, <1>6, <1>7
  DEF Next, vars, fileVars, listVars, Restart, Leave, ShowList, ShowCall, BackToMain,
      OpenForm, OpenCodecs, CodecBack, SaveOutOfBounds, SaveSystem, CrashInSave

CoverStrong == TypeInv /\ CoverInv

LEMMA AlwaysCovered == Spec => []CoverStrong
<1>1. Init => CoverStrong
  BY InitTypeInv, InitCovers DEF CoverStrong
<1>2. CoverStrong /\ [Next]_vars => CoverStrong'
  BY NextTypeInv, NextCovers DEF CoverStrong
<1> QED
  BY <1>1, <1>2, PTL DEF Spec

\* Each account that accounts.conf enables has a user agent, or its command is in
\* the queue, or it was dropped or refused since the program started: saving,
\* deleting, restarting and a cut file never lose a registration without a trace.
THEOREM EnabledAreRegistered == Spec => []EnabledHaveUa
<1>1. CoverStrong => EnabledHaveUa
  BY DEF CoverStrong, CoverInv, EnabledHaveUa, Covered
<1> QED
  BY AlwaysCovered, <1>1, PTL

-----------------------------------------------------------------------------
(* A form changes the account it was opened on.                            *)

\* The form on the display, or under the screen of the codecs, is of the account
\* that the applet edits.
FormShown == "form" \in visible \/ "codec" \in visible

FormInv ==
  /\ ~opened => visible = {"main"}
  /\ inFront => opened
  /\ FormShown =>
       /\ form.at = editing
       /\ editing # -1 => editing + 1 \in DOMAIN accounts /\ accounts[editing + 1] = form.was

LEMMA TopCases ==
  ASSUME NEW V
  PROVE  /\ Top(V) = "codec" => "codec" \in V
         /\ Top(V) = "form" => "form" \in V /\ "codec" \notin V
         /\ Top(V) \in {"main", "list", "call"} => "form" \notin V /\ "codec" \notin V
<1>1. CASE "codec" \in V
  <2>1. Top(V) = "codec"
    BY <1>1 DEF Top
  <2> QED
    BY <1>1, <2>1
<1>2. CASE "codec" \notin V /\ "form" \in V
  <2>1. Top(V) = "form"
    BY <1>2 DEF Top
  <2> QED
    BY <1>2, <2>1
<1>3. CASE "codec" \notin V /\ "form" \notin V
  <2>1. Top(V) \in {"main", "list", "call"}
    BY <1>3 DEF Top
  <2> QED
    BY <1>3, <2>1
<1> QED
  BY <1>1, <1>2, <1>3

\* What is on the display, and what is under it.
LEMMA OnCases ==
  /\ On("codec") => "codec" \in visible /\ inFront
  /\ On("form") => "form" \in visible /\ "codec" \notin visible /\ inFront
  /\ \A screen \in {"main", "list", "call"} :
       On(screen) => "form" \notin visible /\ "codec" \notin visible /\ inFront
BY TopCases DEF On

LEMMA NextForm == TypeInv /\ FormInv /\ [Next]_vars => FormInv'
<1> SUFFICES ASSUME TypeInv, FormInv, [Next]_vars PROVE FormInv'
  OBVIOUS
\* The form is closed.
<1>c. ASSUME opened' = opened, inFront, inFront' = inFront \/ inFront' = FALSE,
             "form" \notin visible', "codec" \notin visible'
      PROVE  FormInv'
  BY <1>c DEF FormInv, FormShown
\* The form stays as it is, open or not.
<1>s. ASSUME UNCHANGED <<opened, accounts, editing, form>>, opened \/ visible' = visible,
             inFront' = inFront \/ inFront' = FALSE, FormShown' => FormShown
      PROVE  FormInv'
  BY <1>s DEF FormInv
<1>1. CASE Started
  BY <1>1 DEF Started, FormInv, FormShown
<1>2. ASSUME NEW request \in {"main", "list", "call"}, Enter(request) PROVE FormInv'
  <2>1. /\ inFront' = TRUE /\ opened' = TRUE /\ editing' = editing
        /\ visible' = Showing(request)
        /\ form' = IF "codec" \in visible THEN form ELSE NewForm
        /\ opened => accounts' = accounts
    BY <1>2 DEF Enter
  <2>2. FormShown' => "codec" \in visible
    BY <2>1 DEF FormShown, Showing
  <2>3. "codec" \in visible => opened
    BY DEF FormInv
  <2> QED
    BY <2>1, <2>2, <2>3 DEF FormInv, FormShown
<1>3. CASE Leave
  BY <1>3, <1>s DEF Leave, listVars, FormShown
<1>4. CASE ShowList
  BY <1>4, <1>c, OnCases DEF ShowList, Showing
<1>5. CASE ShowCall
  BY <1>5, <1>c, OnCases DEF ShowCall, Showing
<1>6. CASE BackToMain
  <2>1. /\ "form" \notin visible /\ "codec" \notin visible /\ inFront
        /\ opened' = opened /\ (inFront' = inFront \/ inFront' = FALSE)
    BY <1>6, OnCases DEF BackToMain
  <2>2. visible' = visible \/ visible' = Showing("main")
    BY <1>6 DEF BackToMain
  <2> QED
    BY <2>1, <2>2, <1>c DEF Showing
<1>7. ASSUME NEW i \in {-1} \cup 0..(Len(accounts) - 1), OpenForm(i) PROVE FormInv'
  <2>1. /\ editing' = i /\ UNCHANGED <<opened, inFront, accounts>> /\ inFront
        /\ form' = IF i = -1 THEN NewForm ELSE [at |-> i, was |-> accounts[i + 1]]
    BY <1>7 DEF OpenForm, On
  <2>2. form'.at = editing'
    BY <2>1 DEF NewForm
  <2>3. i # -1 => form'.was = accounts[i + 1]
    BY <2>1
  <2>4. i # -1 => i + 1 \in DOMAIN accounts
    BY LenProperties DEF TypeInv, ListOK
  <2> QED
    BY <2>1, <2>2, <2>3, <2>4 DEF FormInv
<1>8. CASE OpenCodecs
  BY <1>8, <1>s, OnCases DEF OpenCodecs, listVars, FormShown, FormInv
<1>9. CASE CodecBack
  BY <1>9, <1>s, OnCases DEF CodecBack, listVars, FormShown, FormInv
<1>10. ASSUME NEW a \in Accounts, SaveAccount(a) PROVE FormInv'
  BY <1>10, <1>c, OnCases DEF SaveAccount, Showing
<1>11. ASSUME NEW i \in DOMAIN accounts, DeleteAccount(i) PROVE FormInv'
  BY <1>11, <1>c, OnCases DEF DeleteAccount, screenVars
<1>12. ASSUME NEW s \in 0..MaxAccounts, DefaultChanged(s) PROVE FormInv'
  BY <1>12, <1>c, OnCases DEF DefaultChanged, screenVars
<1>13. CASE SaveSystem
  BY <1>13, <1>c, OnCases DEF SaveSystem, Showing
<1>14. CASE ManagerNext
  BY <1>14, <1>s DEF ManagerNext, screenVars, listVars, FormShown
<1>15. CASE UNCHANGED vars
  BY <1>15, <1>s DEF vars, screenVars, listVars, FormShown
<1> QED
  BY <1>1, <1>2, <1>3, <1>4, <1>5, <1>6, <1>7, <1>8, <1>9, <1>10, <1>11, <1>12, <1>13,
     <1>14, <1>15 DEF Next, Restart, SaveOutOfBounds, CrashInSave

\* The list without the account that is added to it.
LEMMA FrontOfAppend ==
  ASSUME NEW l \in Seq(Accounts), NEW a \in Accounts
  PROVE  Front(Append(l, a)) = l
<1> DEFINE m == Append(l, a)
           n == Len(l)
<1>1. n \in Nat
  BY LenProperties
<1>2. m \in Seq(Accounts) /\ Len(m) = n + 1 /\ \A i \in 1..n : m[i] = l[i]
  BY AppendProperties
<1>3. Front(m) = SubSeq(m, 1, Len(m) - 1)
  BY DEF Front
<1> HIDE DEF m
<1>4. \A i \in 1..n : l[i] \in Accounts
  BY ElementOfSeq
<1> HIDE DEF n
<1>5. Len(m) - 1 = n
  BY <1>1, <1>2
<1>6. 1 \in Int /\ n \in Int /\ \A i \in 1..n : m[i] \in Accounts
  BY <1>1, <1>2, <1>4
<1> DEFINE c == SubSeq(m, 1, n)
<1>7. /\ c \in Seq(Accounts)
      /\ Len(c) = IF 1 <= n THEN n - 1 + 1 ELSE 0
      /\ \A i \in 1..(n - 1 + 1) : c[i] = m[1 + i - 1]
  BY <1>6, SubSeqProperties
<1>8. Front(m) = c
  BY <1>3, <1>5
<1> HIDE DEF c
<1>9. Len(c) = n /\ \A i \in 1..n : c[i] = l[i]
  BY <1>1, <1>2, <1>7
<1>10. c = l
  BY <1>7, <1>9, SeqEqual DEF n
<1> QED
  BY <1>8, <1>10 DEF m

EditStep ==
  saves' # saves /\ opened' =>
    IF form.at = -1
      THEN Front(accountsFile') = accounts
      ELSE /\ accounts[form.at + 1] = form.was
           /\ Len(accountsFile') = Len(accounts)
           /\ \A i \in DOMAIN accounts \ {form.at + 1} :
                accountsFile'[i] = accounts[i]

LEMMA NextEdits == TypeInv /\ FormInv /\ [Next]_vars => [EditStep]_vars
<1> SUFFICES ASSUME TypeInv, FormInv, Next, saves' # saves, opened'
             PROVE  IF form.at = -1
                      THEN Front(accountsFile') = accounts
                      ELSE /\ accounts[form.at + 1] = form.was
                           /\ Len(accountsFile') = Len(accounts)
                           /\ \A i \in DOMAIN accounts \ {form.at + 1} :
                                accountsFile'[i] = accounts[i]
  BY DEF EditStep
<1>1. PICK a \in Accounts : SaveAccount(a)
  BY DEF Next, Restart, Enter, Leave, ShowList, ShowCall, BackToMain, OpenForm, OpenCodecs,
     CodecBack, SaveOutOfBounds, DeleteAccount, DefaultChanged, SaveSystem, CrashInSave,
     ManagerNext, listVars, Started
<1>2. accountsFile' = Edited(a) /\ On("form")
  BY <1>1 DEF SaveAccount, Save
<1>3. /\ form.at = editing
      /\ editing # -1 => editing + 1 \in DOMAIN accounts /\ accounts[editing + 1] = form.was
  BY <1>2, OnCases DEF FormInv, FormShown
<1>4. accounts \in Seq(Accounts)
  BY DEF TypeInv, ListOK
<1>5. CASE editing = -1
  BY <1>2, <1>3, <1>4, <1>5, FrontOfAppend DEF Edited
<1>6. CASE editing # -1
  <2> DEFINE e == editing + 1
  <2>1. e \in 1..Len(accounts) /\ e \in DOMAIN accounts
    BY <1>3, <1>4, <1>6, LenProperties
  <2>2. accountsFile' = [accounts EXCEPT ![e] = a] /\ form.at + 1 = e
    BY <1>2, <1>3, <1>6 DEF Edited
  <2> HIDE DEF e
  <2>3. Len([accounts EXCEPT ![e] = a]) = Len(accounts)
    BY <1>4, <2>1, ExceptSeq
  <2>4. \A i \in DOMAIN accounts \ {e} : accountsFile'[i] = accounts[i]
    BY <2>2
  <2> QED
    BY <1>3, <1>6, <2>2, <2>3, <2>4
<1> QED
  BY <1>5, <1>6

FormStrong == TypeInv /\ FormInv

LEMMA AlwaysForm == Spec => []FormStrong
<1>1. Init => FormStrong
  <2>1. Init => FormInv
    BY DEF Init, FormInv, FormShown
  <2> QED
    BY <2>1, InitTypeInv DEF FormStrong
<1>2. FormStrong /\ [Next]_vars => FormStrong'
  BY NextTypeInv, NextForm DEF FormStrong
<1> QED
  BY <1>1, <1>2, PTL DEF Spec

\* save_account_clicked() changes in accounts.conf the account its form was opened
\* on, or appends one, and leaves the others as they were, whatever was shown and
\* closed since the form was opened.
THEOREM SavesTheOpened == Spec => EditsTheOpened
<1>1. FormStrong /\ [Next]_vars => [EditStep]_vars
  BY NextEdits DEF FormStrong
<1>2. Spec => [][EditStep]_vars
  BY AlwaysForm, <1>1, PTL DEF Spec
<1> QED
  BY <1>2 DEF EditsTheOpened, EditStep
=============================================================================
