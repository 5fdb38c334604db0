---------------------------- MODULE ContactsProofs ----------------------------
(***************************************************************************)
(* Proofs about the contacts: the types, that every copy of a contact is   *)
(* as the table has it, and that the trash deletes what is shown ticked.   *)
(*                                                                         *)
(* The last needs what the loop over the ticks computes.  The induction is *)
(* done by hand, with a least number for which the claim fails.            *)
(***************************************************************************)
EXTENDS Contacts, FiniteSetTheorems, SequenceTheorems, WellFoundedInduction, TLAPS

\* No two rows have the same id.
UniqueIds(t) == \A r, s \in t : r.id = s.id => r = s

Table(t) == t \subseteq Contact /\ UniqueIds(t)

-----------------------------------------------------------------------------
(* Induction over the numbers of a set.                                    *)

LEMMA LeastNumber ==
  ASSUME NEW S \in SUBSET Nat, S # {}
  PROVE  \E i \in S : \A j \in S : i <= j
<1>1. S \subseteq Nat
  OBVIOUS
<1>2. \A j, k \in Nat : <<j, k>> \in OpToRel(<, Nat) <=> j < k
  BY DEF OpToRel
<1>3. \E R : IsWellFoundedOn(R, Nat) /\ \A j, k \in Nat : <<j, k>> \in R <=> j < k
  BY <1>2, NatLessThanWellFounded, Zenon
<1>4. PICK R : IsWellFoundedOn(R, Nat) /\ \A j, k \in Nat : <<j, k>> \in R <=> j < k
  BY <1>3
<1>5. IsWellFoundedOn(R, Nat)
  BY <1>4
<1>6. \E i \in S : \A j \in S : ~(<<j, i>> \in R)
  <2>1. S # {}
    OBVIOUS
  <2> QED
    BY ONLY <1>1, <1>5, <2>1, WFMin, Zenon
<1>7. PICK i \in S : \A j \in S : ~(<<j, i>> \in R)
  BY <1>6
<1>8. i \in Nat /\ \A j \in S : j \in Nat
  BY <1>1
<1>9. \A j \in S : ~(j < i)
  BY <1>4, <1>7, <1>8
<1> QED
  BY <1>8, <1>9

LEMMA Numbers ==
  ASSUME NEW S, 0 \in S, \A n \in Nat : n \in S => n + 1 \in S
  PROVE  Nat \subseteq S
<1> SUFFICES ASSUME Nat \ S # {}
             PROVE  FALSE
  OBVIOUS
<1>1. PICK i \in Nat \ S : \A j \in Nat \ S : i <= j
  BY LeastNumber
<1>2. i - 1 \in Nat /\ i - 1 + 1 = i /\ ~(i <= i - 1)
  BY <1>1
<1>3. i - 1 \in S
  BY <1>1, <1>2
<1> QED
  BY <1>1, <1>2, <1>3

-----------------------------------------------------------------------------
(* The order of the rows.                                                  *)

\* As many ids, as many rows.
LEMMA RowsAreFinite ==
  ASSUME NEW t, Table(t)
  PROVE  IsFiniteSet(t)
<1> DEFINE f == [r \in t |-> r.id]
<1>1. f \in Injection(t, 1..MaxAdded)
  <2>1. f \in [t -> 1..MaxAdded]
    BY DEF Table, Contact
  <2>2. \A r, s \in t : f[r] = f[s] => r = s
    BY DEF Table, UniqueIds
  <2> QED
    BY <2>1, <2>2 DEF Injection, IsInjective
<1>2. IsFiniteSet(1..MaxAdded)
  BY FS_Interval, ContactsAssumption
<1> HIDE DEF f
<1> QED
  BY <1>1, <1>2, FS_Injection

LEMMA IdsAreNumbers ==
  ASSUME NEW t, Table(t), NEW r \in t
  PROVE  r.id \in Int
BY DEF Table, Contact

\* A row has a place.
LEMMA PlaceInTable ==
  ASSUME NEW t, Table(t), NEW r \in t
  PROVE  Place(t, r) \in 1..Cardinality(t)
<1> DEFINE A == {s \in t : s.id <= r.id}
<1>1. IsFiniteSet(t) /\ Cardinality(t) \in Nat
  BY RowsAreFinite, FS_CardinalityType
<1>2. IsFiniteSet(A) /\ Cardinality(A) <= Cardinality(t) /\ Cardinality(A) \in Nat
  BY <1>1, FS_Subset, FS_CardinalityType
<1>3. r \in A
  BY IdsAreNumbers
<1>4. Cardinality(A) # 0
  BY <1>2, <1>3, FS_EmptySet
<1>5. Place(t, r) = Cardinality(A)
  BY DEF Place
<1> HIDE DEF A
<1> QED
  BY <1>1, <1>2, <1>4, <1>5

\* The places are in the order of the ids.
LEMMA PlaceGrows ==
  ASSUME NEW t, Table(t), NEW r \in t, NEW s \in t, r.id < s.id
  PROVE  Place(t, r) < Place(t, s)
<1> DEFINE A == {x \in t : x.id <= r.id}
           B == {x \in t : x.id <= s.id}
<1>1. IsFiniteSet(B) /\ IsFiniteSet(B \ {s})
  BY RowsAreFinite, FS_Subset, FS_RemoveElement
<1>2. \A x \in t : x.id \in Int
  BY IdsAreNumbers
<1>3. A \subseteq B \ {s} /\ s \in B
  BY <1>2
<1>4. Cardinality(A) <= Cardinality(B \ {s}) /\ Cardinality(A) \in Nat /\ Cardinality(B) \in Nat
  BY <1>1, <1>3, FS_Subset, FS_CardinalityType
<1>5. Cardinality(B \ {s}) = Cardinality(B) - 1
  BY <1>1, <1>3, FS_RemoveElement
<1>6. Place(t, r) = Cardinality(A) /\ Place(t, s) = Cardinality(B)
  BY DEF Place
<1> HIDE DEF A, B
<1> QED
  BY <1>4, <1>5, <1>6

LEMMA PlaceIsOne ==
  ASSUME NEW t, Table(t), NEW r \in t, NEW s \in t, Place(t, r) = Place(t, s)
  PROVE  r = s
<1>1. r.id \in Int /\ s.id \in Int
  BY IdsAreNumbers
<1>2. Place(t, r) \in Int /\ Place(t, s) \in Int
  BY PlaceInTable, RowsAreFinite, FS_CardinalityType
<1>3. ~(r.id < s.id) /\ ~(s.id < r.id)
  BY <1>2, PlaceGrows
<1> QED
  BY <1>1, <1>3 DEF Table, UniqueIds

\* Each place up to the number of rows is that of a row.
LEMMA PlaceReaches ==
  ASSUME NEW t, Table(t), NEW i \in 1..Cardinality(t)
  PROVE  \E r \in t : Place(t, r) = i
<1> DEFINE n == Cardinality(t)
           f == [r \in t |-> Place(t, r)]
<1>1. IsFiniteSet(t) /\ n \in Nat
  BY RowsAreFinite, FS_CardinalityType
<1>2. f \in Injection(t, 1..n)
  <2>1. f \in [t -> 1..n]
    BY PlaceInTable
  <2>2. \A r, s \in t : f[r] = f[s] => r = s
    BY PlaceIsOne
  <2> QED
    BY <2>1, <2>2 DEF Injection, IsInjective
<1>3. IsFiniteSet(1..n) /\ Cardinality(1..n) = n
  BY <1>1, FS_Interval
<1>4. f \in Surjection(t, 1..n)
  BY <1>2, <1>3, FS_Injection
<1> QED
  BY <1>4 DEF Surjection

\* The query returns the rows of the first places.
LEMMA FirstRows ==
  ASSUME NEW t, Table(t), NEW n \in Nat
  PROVE  /\ First(t, n) \in Seq(Contact)
         /\ Len(First(t, n)) = IF Cardinality(t) < n THEN Cardinality(t) ELSE n
         /\ \A i \in 1..Len(First(t, n)) :
              First(t, n)[i] \in t /\ Place(t, First(t, n)[i]) = i
<1> DEFINE m == IF Cardinality(t) < n THEN Cardinality(t) ELSE n
           e(i) == CHOOSE r \in t : Place(t, r) = i
<1>1. Cardinality(t) \in Nat
  BY RowsAreFinite, FS_CardinalityType
<1>2. m \in Nat /\ m <= Cardinality(t)
  BY <1>1
<1>3. ASSUME NEW i \in 1..m
      PROVE  e(i) \in t /\ Place(t, e(i)) = i
  <2>1. i \in 1..Cardinality(t)
    BY <1>1, <1>2
  <2>2. \E r \in t : Place(t, r) = i
    BY <2>1, PlaceReaches
  <2> QED
    BY <2>2
<1>4. First(t, n) = [i \in 1..m |-> e(i)]
  BY DEF First
<1> HIDE DEF m, e
<1>5. \A i \in 1..m : e(i) \in Contact
  BY <1>3 DEF Table
<1>6. First(t, n) \in Seq(Contact) /\ Len(First(t, n)) = m
  BY <1>2, <1>4, <1>5
<1>7. \A i \in 1..m : First(t, n)[i] = e(i)
  BY <1>4
<1>8. \A i \in 1..m : First(t, n)[i] \in t /\ Place(t, First(t, n)[i]) = i
  BY <1>3, <1>7
<1> QED
  BY <1>6, <1>8 DEF m

LEMMA LoadedRows ==
  ASSUME NEW t, Table(t)
  PROVE  /\ Loaded(t) \in Seq(Contact)
         /\ Len(Loaded(t)) \in Nat /\ Len(Loaded(t)) <= MaxContacts
         /\ Len(Loaded(t)) =
              IF Cardinality(t) < MaxContacts THEN Cardinality(t) ELSE MaxContacts
         /\ DOMAIN Loaded(t) = 1..Len(Loaded(t))
         /\ \A i \in 1..Len(Loaded(t)) : Loaded(t)[i] \in t /\ Place(t, Loaded(t)[i]) = i
<1>1. MaxContacts \in Nat /\ Cardinality(t) \in Nat
  BY ContactsAssumption, RowsAreFinite, FS_CardinalityType
<1>2. Loaded(t) = First(t, MaxContacts)
  BY DEF Loaded
<1>3. /\ Loaded(t) \in Seq(Contact)
      /\ Len(Loaded(t)) = IF Cardinality(t) < MaxContacts THEN Cardinality(t) ELSE MaxContacts
      /\ \A i \in 1..Len(Loaded(t)) : Loaded(t)[i] \in t /\ Place(t, Loaded(t)[i]) = i
  BY <1>1, <1>2, FirstRows
<1>4. Len(Loaded(t)) \in Nat /\ DOMAIN Loaded(t) = 1..Len(Loaded(t))
  BY <1>3, LenProperties
<1> QED
  BY <1>1, <1>3, <1>4

\* A row with the place of a position of the array is at that position.
LEMMA LoadedAt ==
  ASSUME NEW t, Table(t), NEW r \in t, NEW k \in 1..MaxContacts, Place(t, r) = k
  PROVE  k \in 1..Len(Loaded(t)) /\ Loaded(t)[k] = r
<1>1. Cardinality(t) \in Nat /\ MaxContacts \in Nat
  BY ContactsAssumption, RowsAreFinite, FS_CardinalityType
<1>2. k \in 1..Cardinality(t)
  BY PlaceInTable
<1>3. k \in 1..Len(Loaded(t))
  BY <1>1, <1>2, LoadedRows
<1> QED
  BY <1>3, LoadedRows, PlaceIsOne

-----------------------------------------------------------------------------
(* The loop over the ticks.                                                *)

\* What is ticked at the last i positions.
Last(t, marks, i) ==
  {Loaded(t)[j] : j \in {k \in marks : k \in 1..Len(Loaded(t)) /\ k > Len(Loaded(t)) - i}}

\* Deleting from the end leaves the positions before as they were.
LEMMA RoundTakesOne ==
  ASSUME NEW t, Table(t), NEW marks, NEW i \in Nat, i < Len(Loaded(t))
  PROVE  Round(t \ Last(t, marks, i), marks, Len(Loaded(t)) - i) = t \ Last(t, marks, i + 1)
<1> DEFINE n == Len(Loaded(t))
           k == n - i
           T == t \ Last(t, marks, i)
           r == Loaded(t)[k]
<1>1. n \in Nat /\ n <= MaxContacts /\ MaxContacts \in Nat
  BY LoadedRows, ContactsAssumption
<1>2. k \in 1..n /\ k \in 1..MaxContacts /\ n - (i + 1) = k - 1
  BY <1>1
<1>3. r \in t /\ Place(t, r) = k
  BY <1>2, LoadedRows
<1>4. ASSUME NEW s \in Last(t, marks, i)
      PROVE  s \in t /\ Place(t, s) \in 1..n /\ Place(t, s) > k
  <2>1. PICK j \in marks : j \in 1..n /\ j > n - i /\ s = Loaded(t)[j]
    BY <1>4 DEF Last
  <2> QED
    BY <2>1, LoadedRows
<1>5. r \in T
  BY <1>2, <1>3, <1>4
<1>6. Table(T)
  BY DEF Table, UniqueIds
<1>7. ASSUME NEW s \in Last(t, marks, i)
      PROVE  ~(s.id <= r.id)
  <2>1. s \in t /\ Place(t, s) \in 1..n /\ Place(t, s) > k
    BY <1>4, <1>7
  <2>2. s.id \in Int /\ r.id \in Int
    BY <2>1, <1>3, IdsAreNumbers
  <2>3. ~(s.id < r.id)
    <3>1. s.id < r.id => Place(t, s) < Place(t, r)
      BY <2>1, <1>3, PlaceGrows
    <3> QED
      BY <3>1, <2>1, <1>2, <1>3
  <2>4. s # r
    BY <2>1, <1>2, <1>3
  <2>5. s.id # r.id
    BY <2>1, <2>4, <1>3 DEF Table, UniqueIds
  <2> QED
    BY <2>2, <2>3, <2>5
<1>8. {s \in T : s.id <= r.id} = {s \in t : s.id <= r.id}
  BY <1>7
<1>9. Place(T, r) = k
  BY <1>3, <1>8 DEF Place
<1>10. k \in 1..Len(Loaded(T)) /\ Loaded(T)[k] = r
  BY <1>2, <1>5, <1>6, <1>9, LoadedAt
<1>11. Len(Loaded(T)) \in Nat
  BY <1>6, LoadedRows
<1>12. Deleted(T, r.id) = T \ {r}
  BY <1>3 DEF Deleted, Table, UniqueIds
<1>13. Round(T, marks, k) = IF k \in marks THEN T \ {r} ELSE T
  <2>1. k <= Len(Loaded(T))
    BY <1>10, <1>11
  <2> HIDE DEF T, r, k
  <2> QED
    BY <1>10, <1>12, <2>1 DEF Round
<1>14. \A j \in 1..n : j > n - (i + 1) <=> (j > n - i \/ j = k)
  <2>1. n \in Nat /\ k = n - i
    BY <1>1
  <2> HIDE DEF n, k
  <2> QED
    BY ONLY <2>1, i \in Nat
<1>15. Last(t, marks, i + 1) = Last(t, marks, i) \cup (IF k \in marks THEN {r} ELSE {})
  <2>1. ASSUME NEW s \in Last(t, marks, i + 1)
        PROVE  s \in Last(t, marks, i) \/ (k \in marks /\ s = r)
    <3>1. PICK j \in marks : j \in 1..n /\ j > n - (i + 1) /\ s = Loaded(t)[j]
      BY <2>1 DEF Last
    <3>2. j > n - i \/ j = k
      BY <3>1, <1>14
    <3> QED
      BY <3>1, <3>2 DEF Last
  <2>2. ASSUME NEW s \in Last(t, marks, i)
        PROVE  s \in Last(t, marks, i + 1)
    <3>1. PICK j \in marks : j \in 1..n /\ j > n - i /\ s = Loaded(t)[j]
      BY <2>2 DEF Last
    <3>2. j > n - (i + 1)
      BY <3>1, <1>14
    <3> QED
      BY <3>1, <3>2 DEF Last
  <2>3. k \in marks => r \in Last(t, marks, i + 1)
    BY <1>2, <1>14 DEF Last
  <2> QED
    BY <2>1, <2>2, <2>3
<1> QED
  BY <1>13, <1>15

\* One round of the loop, as the recursive function has it.
Rounds(t, marks, n, f, i) == IF i = 0 THEN t ELSE Round(f[i - 1], marks, n + 1 - i)

\* The function of a recursive definition exists: it is t without what was ticked
\* at the last positions.
LEMMA LoopIsDefined ==
  ASSUME NEW t, Table(t), NEW marks, NEW n, n = Len(Loaded(t))
  PROVE  LET f == [i \in 0..n |-> t \ Last(t, marks, i)]
         IN  f = [i \in 0..n |-> Rounds(t, marks, n, f, i)]
<1> DEFINE f == [i \in 0..n |-> t \ Last(t, marks, i)]
<1>1. n \in Nat
  BY LoadedRows
<1>2. ASSUME NEW i \in 0..n
      PROVE  Rounds(t, marks, n, f, i) = t \ Last(t, marks, i)
  <2>1. CASE i = 0
    <3>1. Last(t, marks, 0) = {}
      BY <1>1 DEF Last
    <3> QED
      BY <2>1, <3>1 DEF Rounds
  <2>2. CASE i # 0
    <3>1. i - 1 \in Nat /\ i - 1 \in 0..n /\ i - 1 < n /\ n + 1 - i = n - (i - 1) /\ i - 1 + 1 = i
      BY <1>1, <2>2
    <3>2. f[i - 1] = t \ Last(t, marks, i - 1)
      BY <3>1
    <3>3. Round(t \ Last(t, marks, i - 1), marks, n - (i - 1)) = t \ Last(t, marks, i - 1 + 1)
      BY <3>1, RoundTakesOne
    <3> QED
      BY <2>2, <3>1, <3>2, <3>3 DEF Rounds
  <2> QED
    BY <2>1, <2>2
<1> QED
  BY <1>2

\* A function with that equation is that one.
LEMMA LoopComputes ==
  ASSUME NEW t, Table(t), NEW marks, NEW n, n = Len(Loaded(t)),
         NEW f, f = [i \in 0..n |-> Rounds(t, marks, n, f, i)]
  PROVE  f[n] = t \ Last(t, marks, n)
<1>1. n \in Nat
  BY LoadedRows
<1> DEFINE S == {i \in Nat : i <= n => f[i] = t \ Last(t, marks, i)}
<1>2. 0 \in S
  <2>1. Last(t, marks, 0) = {}
    BY <1>1 DEF Last
  <2>2. f[0] = Rounds(t, marks, n, f, 0)
    BY <1>1
  <2> QED
    BY <2>1, <2>2 DEF Rounds
<1>3. ASSUME NEW i \in Nat, i \in S
      PROVE  i + 1 \in S
  <2> SUFFICES ASSUME i + 1 <= n
               PROVE  f[i + 1] = t \ Last(t, marks, i + 1)
    OBVIOUS
  <2>1. i + 1 \in 0..n /\ i + 1 # 0 /\ i + 1 - 1 = i /\ n + 1 - (i + 1) = n - i /\ i < n /\ i <= n
    BY <1>1
  <2>2. f[i] = t \ Last(t, marks, i)
    BY <1>3, <2>1
  <2>3. f[i + 1] = Rounds(t, marks, n, f, i + 1)
    BY <2>1
  <2>4. f[i + 1] = Round(f[i], marks, n - i)
    BY <2>1, <2>3 DEF Rounds
  <2>5. Round(t \ Last(t, marks, i), marks, n - i) = t \ Last(t, marks, i + 1)
    BY <2>1, RoundTakesOne
  <2> QED
    BY <2>2, <2>4, <2>5
<1> HIDE DEF S
<1>4. Nat \subseteq S
  BY <1>2, <1>3, Numbers
<1>5. n \in S
  BY <1>1, <1>4
<1> QED
  BY <1>1, <1>5 DEF S

\* contacts_delete_selected_clicked() deletes what is at the ticked positions.
LEMMA MarkedAreDeleted ==
  ASSUME NEW t, Table(t), NEW marks
  PROVE  DeletedMarked(t, marks) = t \ {Loaded(t)[j] : j \in marks \cap DOMAIN Loaded(t)}
<1> DEFINE n == Len(Loaded(t))
           g == CHOOSE f : f = [i \in 0..n |-> Rounds(t, marks, n, f, i)]
           h == [i \in 0..n |-> t \ Last(t, marks, i)]
<1>0. h = [i \in 0..n |-> Rounds(t, marks, n, h, i)]
  BY LoopIsDefined
<1> HIDE DEF h
<1>1. \E f : f = [i \in 0..n |-> Rounds(t, marks, n, f, i)]
  BY <1>0
<1>2. g = [i \in 0..n |-> Rounds(t, marks, n, g, i)]
  BY <1>1
<1>3. DeletedMarked(t, marks) = g[n]
  BY DEF DeletedMarked, Rounds
<1> HIDE DEF g
<1>4. g[n] = t \ Last(t, marks, n)
  BY <1>2, LoopComputes
<1>5. n \in Nat /\ DOMAIN Loaded(t) = 1..n
  BY LoadedRows
<1>6. Last(t, marks, n) = {Loaded(t)[j] : j \in marks \cap DOMAIN Loaded(t)}
  <2>1. \A j : j \in marks \cap (1..n) <=> j \in {k \in marks : k \in 1..n /\ k > n - n}
    BY <1>5
  <2> QED
    BY <2>1, <1>5 DEF Last
<1> QED
  BY <1>3, <1>4, <1>6

-----------------------------------------------------------------------------
(* The types and the copies.  Each needs the other: what is drawn has a     *)
(* type because it is what the table holds.                                *)

\* The table of the database.
RowsOK ==
  /\ Table(table)
  /\ added \in 0..MaxAdded
  /\ \A r \in table : r.id <= added

\* The flags and the screens.
FlagsOK ==
  /\ front \in {"Home", "Contacts", "other"}
  /\ opened \in BOOLEAN /\ editor \in BOOLEAN /\ isNew \in BOOLEAN
  /\ toCaller \in BOOLEAN /\ selecting \in BOOLEAN /\ pressed \in BOOLEAN
  /\ ticked \subseteq 1..MaxContacts
  /\ picker \in {"closed", "open", "lost"}

\* The arrays of contacts.
ArraysOK ==
  /\ contacts \in Seq(Contact) /\ Len(contacts) <= MaxContacts
  /\ dock \in Seq(Contact)
  /\ drawn \in Seq(Contact)

\* The copies of one contact.
CopiesOK == edited \in Contact \cup {NoContact} /\ menu \in Contact \cup {NoContact}

\* The array and the list are loaded from the table.
ListFresh ==
  /\ opened => contacts = Loaded(table)
  /\ opened /\ ~editor => drawn = contacts

\* The editor and the menu hold rows of the table; the menu was opened on the
\* list, and the home screen does not come back below it.
CopiesFresh ==
  /\ editor /\ ~isNew => edited \in table
  /\ menu # NoContact => menu \in table /\ ~editor /\ front # "Home"

DockFresh == front = "Home" => dock \in {<<>>, Favourites(table)}

OpenedFirst == front = "Contacts" => opened

IInv == /\ RowsOK /\ FlagsOK /\ ArraysOK /\ CopiesOK
        /\ ListFresh /\ CopiesFresh /\ DockFresh /\ OpenedFirst

LEMMA NoneOK ==
  /\ <<>> \in Seq(Contact) /\ Len(<<>>) = 0
BY EmptySeq

LEMMA InitIInv == Init => IInv
<1> SUFFICES ASSUME Init PROVE IInv
  OBVIOUS
<1>1. RowsOK
  BY ContactsAssumption DEF Init, RowsOK, Table, UniqueIds
<1>2. ArraysOK
  BY NoneOK, ContactsAssumption DEF Init, ArraysOK
<1>3. FlagsOK /\ CopiesOK
  BY DEF Init, FlagsOK, CopiesOK
<1>4. ListFresh /\ CopiesFresh /\ DockFresh /\ OpenedFirst
  BY DEF Init, ListFresh, CopiesFresh, DockFresh, OpenedFirst
<1> QED
  BY <1>1, <1>2, <1>3, <1>4 DEF IInv

\* The array is loaded from a table of the right type.
LEMMA LoadedIsArray ==
  ASSUME NEW t, Table(t)
  PROVE  Loaded(t) \in Seq(Contact) /\ Len(Loaded(t)) <= MaxContacts
BY LoadedRows

\* The favourites are rows of the table.
LEMMA FavouritesAreRows ==
  ASSUME NEW t, Table(t)
  PROVE  Favourites(t) \in Seq(Contact)
<1>1. Table({r \in t : r.fav})
  BY DEF Table, UniqueIds
<1> QED
  BY <1>1, FirstRows, ContactsAssumption DEF Favourites

\* Another applet comes to the front.
LEMMA ShowKeeps ==
  ASSUME IInv, NEW applet \in {"Home", "other"}, Show(applet), UNCHANGED table
  PROVE  front' = applet /\ dock' \in Seq(Contact) /\ DockFresh' /\ OpenedFirst'
<1>1. front' = applet /\ OpenedFirst'
  BY DEF Show, OpenedFirst
<1>2. CASE applet = "Home"
  <2>1. dock' \in {<<>>, Favourites(table)}
    BY <1>2 DEF Show, DrawDock
  <2>2. dock' \in Seq(Contact)
    BY <2>1, NoneOK, FavouritesAreRows DEF IInv, RowsOK
  <2> QED
    BY <1>1, <2>1, <2>2 DEF DockFresh
<1>3. CASE applet # "Home"
  BY <1>1, <1>3 DEF Show, IInv, ArraysOK, DockFresh
<1> QED
  BY <1>2, <1>3

\* Where the screen is drawn without a change of the table.
LEMMA RedrawKeeps ==
  ASSUME IInv, Redraw, UNCHANGED table, opened' \in BOOLEAN, editor' \in BOOLEAN,
         opened' /\ editor' => opened
  PROVE  /\ contacts' \in Seq(Contact) /\ Len(contacts') <= MaxContacts
         /\ drawn' \in Seq(Contact) /\ picker' \in {"closed", "open", "lost"}
         /\ ListFresh'
<1>1. Loaded(table) \in Seq(Contact) /\ Len(Loaded(table)) <= MaxContacts
  BY LoadedIsArray DEF IInv, RowsOK
<1>2. picker' \in {"closed", "open", "lost"}
  BY DEF Redraw, IInv, FlagsOK
<1>3. CASE editor'
  BY <1>2, <1>3, NoneOK DEF Redraw, IInv, ArraysOK, ListFresh
<1>4. CASE ~editor'
  BY <1>1, <1>2, <1>4 DEF Redraw, ListFresh
<1> QED
  BY <1>3, <1>4

\* And with one.
LEMMA RedrawChangedKeeps ==
  ASSUME IInv, RedrawChanged, RowsOK', editor' \in BOOLEAN
  PROVE  /\ contacts' \in Seq(Contact) /\ Len(contacts') <= MaxContacts
         /\ drawn' \in Seq(Contact) /\ picker' \in {"closed", "open", "lost"}
         /\ ListFresh'
<1>1. contacts' = Loaded(table') /\ drawn' = IF editor' THEN <<>> ELSE contacts'
  BY DEF RedrawChanged
<1>2. Loaded(table') \in Seq(Contact) /\ Len(Loaded(table')) <= MaxContacts
  BY LoadedIsArray DEF RowsOK
<1>3. picker' \in {"closed", "open", "lost"}
  BY DEF RedrawChanged, IInv, FlagsOK
<1>4. drawn' \in Seq(Contact)
  BY <1>1, <1>2, NoneOK
<1>5. ListFresh'
  BY <1>1 DEF ListFresh
<1> QED
  BY <1>1, <1>2, <1>3, <1>4, <1>5

\* cm_add(), cm_update() and cm_delete() keep the ids apart.
LEMMA AddedKeepsRows ==
  ASSUME RowsOK, added < MaxAdded, added' = added + 1, NEW text \in Texts, NEW fav \in BOOLEAN,
         table' = table \cup {[id |-> added', text |-> text, fav |-> fav]}
  PROVE  RowsOK'
<1> DEFINE new == [id |-> added', text |-> text, fav |-> fav]
<1>1. added' \in 1..MaxAdded /\ added' \in 0..MaxAdded
  BY ContactsAssumption DEF RowsOK
<1>2. new \in Contact
  BY <1>1 DEF Contact
<1>3. \A r \in table : r.id \in Int /\ r.id <= added /\ r.id # added'
  BY <1>1 DEF RowsOK, Table, Contact
<1>4. UniqueIds(table')
  BY <1>3 DEF RowsOK, Table, UniqueIds
<1>5. \A r \in table' : r.id <= added'
  BY <1>1, <1>3 DEF RowsOK
<1> QED
  BY <1>1, <1>2, <1>4, <1>5 DEF RowsOK, Table

LEMMA UpdatedKeepsRows ==
  ASSUME RowsOK, NEW id, NEW text \in Texts, NEW fav \in BOOLEAN,
         table' = Updated(table, id, text, fav), UNCHANGED added
  PROVE  RowsOK'
<1> DEFINE u(r) == IF r.id = id THEN [id |-> id, text |-> text, fav |-> fav] ELSE r
<1>1. table' = {u(r) : r \in table}
  BY DEF Updated
<1>2. \A r \in table : u(r) \in Contact /\ u(r).id = r.id
  BY DEF RowsOK, Table, Contact
<1> HIDE DEF u
<1>3. table' \subseteq Contact
  BY <1>1, <1>2
<1>4. UniqueIds(table')
  BY <1>1, <1>2 DEF RowsOK, Table, UniqueIds
<1>5. \A r \in table' : r.id <= added
  BY <1>1, <1>2 DEF RowsOK
<1> QED
  BY <1>3, <1>4, <1>5 DEF RowsOK, Table

LEMMA FewerKeepRows ==
  ASSUME RowsOK, table' \subseteq table, UNCHANGED added
  PROVE  RowsOK'
BY DEF RowsOK, Table, UniqueIds

\* What is drawn or in the array is in the table.
LEMMA InArray ==
  ASSUME IInv, opened, NEW i \in DOMAIN contacts
  PROVE  contacts[i] \in table /\ contacts[i] \in Contact /\ contacts[i] # NoContact
<1>1. contacts = Loaded(table)
  BY DEF IInv, ListFresh
<1>2. contacts[i] \in table
  BY <1>1, LoadedRows DEF IInv, RowsOK
<1>3. contacts[i] \in Contact
  BY <1>2 DEF IInv, RowsOK, Table
<1> QED
  BY <1>2, <1>3 DEF Contact, NoContact

LEMMA NextIInv == IInv /\ [Next]_vars => IInv'
<1> SUFFICES ASSUME IInv, [Next]_vars
             PROVE  IInv'
  OBVIOUS
<1> USE DEF IInv
\* The parts that a handler leaves alone.
<1>r. ASSUME UNCHANGED <<table, added>>
      PROVE  RowsOK'
  BY <1>r DEF RowsOK
<1>a. ASSUME UNCHANGED <<contacts, dock, drawn>>
      PROVE  ArraysOK'
  BY <1>a DEF ArraysOK
<1>l. ASSUME UNCHANGED <<table, contacts, opened, editor, drawn>>
      PROVE  ListFresh'
  BY <1>l DEF ListFresh
<1>d. ASSUME UNCHANGED <<table, dock>>, front' = front \/ front' # "Home"
      PROVE  DockFresh'
  BY <1>d DEF DockFresh
<1>1. CASE Restart
  <2>1. Show("Home") /\ UNCHANGED <<table, added>>
    BY <1>1 DEF Restart
  <2>2. dock' \in Seq(Contact) /\ DockFresh' /\ OpenedFirst'
    BY <2>1, ShowKeeps
  <2>3. ArraysOK'
    BY <1>1, <2>2, NoneOK, ContactsAssumption DEF Restart, ArraysOK
  <2>4. FlagsOK' /\ CopiesOK'
    BY <1>1 DEF Restart, Show, FlagsOK, CopiesOK
  <2>5. ListFresh' /\ CopiesFresh'
    BY <1>1 DEF Restart, ListFresh, CopiesFresh
  <2> QED
    BY <2>1, <2>2, <2>3, <2>4, <2>5, <1>r
<1>2. CASE Elsewhere
  <2>1. PICK applet \in {"Home", "other"} :
          /\ menu # NoContact => applet = "other"
          /\ Show(applet)
          /\ UNCHANGED <<dbVars, opened, editVars, listVars, drawn, menu, pressed, picker>>
    BY <1>2 DEF Elsewhere
  <2>2. front' = applet /\ dock' \in Seq(Contact) /\ DockFresh' /\ OpenedFirst'
    BY <2>1, ShowKeeps DEF dbVars
  <2>3. RowsOK' /\ ArraysOK' /\ ListFresh'
    BY <2>1, <2>2, <1>r, <1>l DEF dbVars, editVars, ArraysOK
  <2>4. FlagsOK' /\ CopiesOK' /\ CopiesFresh'
    BY <2>1, <2>2 DEF dbVars, editVars, listVars, FlagsOK, CopiesOK, CopiesFresh
  <2> QED
    BY <2>2, <2>3, <2>4
<1>f. ASSUME FirstOpened
      PROVE  IInv'
  <2>1. /\ front' = "Contacts" /\ opened' = TRUE /\ editor' = FALSE /\ Redraw
        /\ UNCHANGED <<table, added, dock, isNew, edited, toCaller, listVars, menu, pressed>>
    BY <1>f DEF FirstOpened
  <2>2. /\ contacts' \in Seq(Contact) /\ Len(contacts') <= MaxContacts
        /\ drawn' \in Seq(Contact) /\ picker' \in {"closed", "open", "lost"}
        /\ ListFresh'
    BY <2>1, RedrawKeeps
  <2>3. FlagsOK' /\ CopiesOK' /\ CopiesFresh' /\ OpenedFirst'
    BY <2>1, <2>2 DEF listVars, FlagsOK, CopiesOK, CopiesFresh, OpenedFirst
  <2>4. ArraysOK'
    BY <2>1, <2>2 DEF ArraysOK
  <2>5. DockFresh'
    BY <2>1 DEF DockFresh
  <2> QED
    BY <2>1, <2>2, <2>3, <2>4, <2>5, <1>r
<1>3. CASE Enter
  <2>1. CASE FirstOpened
    BY <2>1, <1>f
  <2>2. CASE opened /\ Resumed
    <3>1. /\ front' = "Contacts" /\ editor' = FALSE
          /\ UNCHANGED <<table, added, dock, opened, isNew, edited, toCaller, listVars, menu, pressed>>
          /\ IF editor THEN Redraw ELSE UNCHANGED <<contacts, drawn, picker>>
      BY <2>2 DEF Resumed
    <3>2. /\ contacts' \in Seq(Contact) /\ Len(contacts') <= MaxContacts
          /\ drawn' \in Seq(Contact) /\ picker' \in {"closed", "open", "lost"}
          /\ ListFresh'
      <4>1. CASE editor
        <5>1. Redraw /\ opened' \in BOOLEAN
          BY <4>1, <3>1, <2>2 DEF FlagsOK
        <5> QED
          BY <5>1, <3>1, <2>2, RedrawKeeps
      <4>2. CASE ~editor
        BY <4>2, <3>1 DEF ArraysOK, FlagsOK, ListFresh
      <4> QED
        BY <4>1, <4>2
    <3>3. FlagsOK' /\ CopiesOK' /\ CopiesFresh' /\ OpenedFirst'
      BY <2>2, <3>1, <3>2 DEF listVars, FlagsOK, CopiesOK, CopiesFresh, OpenedFirst
    <3>4. ArraysOK' /\ DockFresh'
      BY <3>1, <3>2 DEF ArraysOK, DockFresh
    <3> QED
      BY <3>1, <3>2, <3>3, <3>4, <1>r
  <2> QED
    BY <1>3, <2>1, <2>2 DEF Enter
<1>4. CASE OpenNew
  <2>1. CASE ~opened
    BY <2>1, <1>4, <1>f DEF OpenNew
  <2>2. CASE opened
    <3>1. /\ menu = NoContact /\ front' = "Contacts" /\ editor' = TRUE /\ isNew' = TRUE
          /\ edited' = NoContact /\ toCaller' = TRUE /\ contacts' = Loaded(table) /\ drawn' = <<>>
          /\ picker' = IF picker = "open" THEN "lost" ELSE picker
          /\ UNCHANGED <<table, added, dock, opened, listVars, menu, pressed>>
      BY <1>4, <2>2 DEF OpenNew
    <3>2. Loaded(table) \in Seq(Contact) /\ Len(Loaded(table)) <= MaxContacts
      BY LoadedIsArray DEF RowsOK
    <3>3. ArraysOK' /\ ListFresh'
      BY <3>1, <3>2, NoneOK DEF ArraysOK, ListFresh
    <3>4. FlagsOK' /\ CopiesOK' /\ CopiesFresh' /\ OpenedFirst'
      BY <2>2, <3>1 DEF listVars, FlagsOK, CopiesOK, CopiesFresh, OpenedFirst
    <3>5. DockFresh'
      BY <3>1 DEF DockFresh
    <3> QED
      BY <3>1, <3>3, <3>4, <3>5, <1>r
  <2> QED
    BY <2>1, <2>2
\* A handler that draws the screen again, with no change of the table.
<1>w. ASSUME Redraw, UNCHANGED <<table, added, dock, front, opened, menu, pressed>>,
             front = "Contacts", menu = NoContact,
             editor' \in BOOLEAN, isNew' \in BOOLEAN, toCaller' \in BOOLEAN,
             selecting' \in BOOLEAN, ticked' \subseteq 1..MaxContacts,
             edited' \in Contact \cup {NoContact}, editor' /\ ~isNew' => edited' \in table
      PROVE  IInv'
  <2>1. opened /\ opened' \in BOOLEAN
    BY <1>w DEF OpenedFirst, FlagsOK
  <2>2. /\ contacts' \in Seq(Contact) /\ Len(contacts') <= MaxContacts
        /\ drawn' \in Seq(Contact) /\ picker' \in {"closed", "open", "lost"}
        /\ ListFresh'
    BY <1>w, <2>1, RedrawKeeps
  <2>3. FlagsOK' /\ OpenedFirst'
    BY <1>w, <2>1, <2>2 DEF FlagsOK, OpenedFirst
  <2>4. CopiesOK' /\ CopiesFresh'
    BY <1>w DEF CopiesOK, CopiesFresh
  <2>5. ArraysOK'
    BY <1>w, <2>2 DEF ArraysOK
  <2> QED
    BY <1>w, <2>2, <2>3, <2>4, <2>5, <1>r, <1>d
\* And with one; the editor is closed.
<1>c. ASSUME RedrawChanged, RowsOK', UNCHANGED <<dock, front, opened, isNew, edited, toCaller>>,
             ticked' \subseteq 1..MaxContacts, pressed' = pressed,
             front # "Home", menu' = NoContact, editor' = FALSE, selecting' \in BOOLEAN
      PROVE  IInv'
  <2>1. /\ contacts' \in Seq(Contact) /\ Len(contacts') <= MaxContacts
        /\ drawn' \in Seq(Contact) /\ picker' \in {"closed", "open", "lost"}
        /\ ListFresh'
    <3>1. editor' \in BOOLEAN
      BY <1>c
    <3> QED
      BY <1>c, <3>1, RedrawChangedKeeps
  <2>2. FlagsOK' /\ OpenedFirst'
    BY <1>c, <2>1 DEF FlagsOK, OpenedFirst
  <2>3. CopiesOK' /\ CopiesFresh'
    BY <1>c DEF CopiesOK, CopiesFresh
  <2>4. ArraysOK'
    BY <1>c, <2>1 DEF ArraysOK
  <2>5. DockFresh'
    BY <1>c DEF DockFresh
  <2> QED
    BY <1>c, <2>1, <2>2, <2>3, <2>4, <2>5
<1>5. CASE BackToList
  BY <1>5, <1>w DEF BackToList, InEditor, Touched, listVars, FlagsOK, CopiesOK
<1>6. CASE BackToCaller
  <2>1. PICK applet \in {"Home", "other"} : Show(applet)
    BY <1>6 DEF BackToCaller
  <2>2. /\ menu = NoContact /\ toCaller' \in BOOLEAN
        /\ UNCHANGED <<dbVars, opened, editor, isNew, edited, listVars, drawn, menu, pressed, picker>>
    BY <1>6 DEF BackToCaller, Touched, FlagsOK
  <2>3. front' = applet /\ dock' \in Seq(Contact) /\ DockFresh' /\ OpenedFirst'
    BY <2>1, <2>2, ShowKeeps DEF dbVars
  <2>4. RowsOK' /\ ArraysOK' /\ ListFresh'
    BY <2>2, <2>3, <1>r, <1>l DEF dbVars, ArraysOK
  <2>5. FlagsOK' /\ CopiesOK' /\ CopiesFresh'
    BY <2>2, <2>3 DEF dbVars, listVars, FlagsOK, CopiesOK, CopiesFresh
  <2> QED
    BY <2>3, <2>4, <2>5
<1>7. CASE Add
  BY <1>7, <1>w DEF Add, OpenEditor, InList, Touched, listVars, FlagsOK
<1>8. ASSUME NEW i \in 1..MaxContacts, Edit(i)
      PROVE  IInv'
  <2>1. i \in DOMAIN drawn /\ OpenEditor(FALSE, contacts[i]) /\ front = "Contacts" /\ ~editor
    BY <1>8 DEF Edit, OpenEditor, InList, Touched
  <2>2. opened /\ i \in DOMAIN contacts
    BY <2>1 DEF OpenedFirst, ListFresh
  <2>3. contacts[i] \in table /\ contacts[i] \in Contact
    BY <2>2, InArray
  <2> QED
    BY <2>1, <2>3, <1>w DEF OpenEditor, InList, Touched, listVars, FlagsOK
<1>9. ASSUME NEW text \in Texts, NEW fav \in BOOLEAN, Save(text, fav)
      PROVE  IInv'
  <2>1. RowsOK'
    BY <1>9, AddedKeepsRows, UpdatedKeepsRows DEF Save
  <2> QED
    BY <1>9, <2>1, <1>c DEF Save, InEditor, Touched, listVars, FlagsOK
<1>10. CASE Delete
  <2>1. RowsOK'
    BY <1>10, FewerKeepRows DEF Delete, Deleted
  <2> QED
    BY <1>10, <2>1, <1>c DEF Delete, InEditor, Touched, listVars, FlagsOK
<1>11. CASE Dial \/ Pick
  <2>1. /\ menu = NoContact /\ front' \in {"Contacts", "other"} /\ front = "Contacts"
        /\ picker' \in {"closed", "open", "lost"}
        /\ UNCHANGED <<dbVars, dock, opened, editVars, listVars, drawn, menu, pressed>>
    BY <1>11 DEF Dial, Pick, Touched, FlagsOK
  <2>2. RowsOK' /\ ArraysOK' /\ ListFresh'
    BY <2>1, <1>r, <1>a, <1>l DEF dbVars, editVars
  <2>3. FlagsOK' /\ CopiesOK' /\ CopiesFresh'
    BY <2>1 DEF dbVars, editVars, listVars, FlagsOK, CopiesOK, CopiesFresh
  <2>4. DockFresh' /\ OpenedFirst'
    BY <2>1 DEF dbVars, DockFresh, OpenedFirst
  <2> QED
    BY <2>2, <2>3, <2>4
<1>12. CASE ToggleEdit
  BY <1>12, <1>w DEF ToggleEdit, InList, Touched, editVars, FlagsOK, CopiesOK, CopiesFresh
<1>13. ASSUME NEW i \in 1..MaxContacts, Tick(i)
       PROVE  IInv'
  BY <1>13, <1>w DEF Tick, InList, Touched, editVars, FlagsOK, CopiesOK, CopiesFresh
<1>14. CASE Trash
  <2>1. table' \subseteq table /\ UNCHANGED added
    BY <1>14, MarkedAreDeleted DEF Trash, RowsOK
  <2>2. RowsOK'
    BY <2>1, FewerKeepRows
  <2> QED
    BY <1>14, <2>2, <1>c DEF Trash, InList, Touched, editVars, FlagsOK
<1>15. ASSUME NEW i \in 1..MaxContacts, LongPress(i)
       PROVE  IInv'
  <2>1. /\ i \in DOMAIN drawn /\ front = "Contacts" /\ ~editor
        /\ pressed' = TRUE /\ menu' = contacts[i]
        /\ UNCHANGED <<dbVars, dock, front, opened, editVars, listVars, drawn, picker>>
    BY <1>15 DEF LongPress, InList, Touched
  <2>2. opened /\ i \in DOMAIN contacts
    BY <2>1 DEF OpenedFirst, ListFresh
  <2>3. contacts[i] \in table /\ contacts[i] \in Contact
    BY <2>2, InArray
  <2>4. RowsOK' /\ ArraysOK' /\ ListFresh' /\ DockFresh'
    BY <2>1, <1>r, <1>a, <1>l, <1>d DEF dbVars, editVars
  <2>5. FlagsOK' /\ CopiesOK' /\ CopiesFresh' /\ OpenedFirst'
    BY <2>1, <2>3 DEF dbVars, editVars, listVars, FlagsOK, CopiesOK, CopiesFresh, OpenedFirst
  <2> QED
    BY <2>4, <2>5
<1>16. CASE Release \/ MenuCancel
  <2>1. /\ pressed' \in BOOLEAN /\ menu' \in {menu, NoContact}
        /\ UNCHANGED <<dbVars, dock, front, opened, editVars, listVars, drawn, picker>>
    BY <1>16 DEF Release, MenuCancel, FlagsOK
  <2>2. RowsOK' /\ ArraysOK' /\ ListFresh' /\ DockFresh'
    BY <2>1, <1>r, <1>a, <1>l, <1>d DEF dbVars, editVars
  <2>3. FlagsOK' /\ CopiesOK' /\ CopiesFresh' /\ OpenedFirst'
    BY <2>1 DEF dbVars, editVars, listVars, FlagsOK, CopiesOK, CopiesFresh, OpenedFirst
  <2> QED
    BY <2>2, <2>3
<1>17. CASE MenuChoice
  <2>0. menu \in table /\ ~editor /\ front # "Home"
    BY <1>17 DEF MenuChoice, CopiesFresh
  <2>1. /\ menu \in table /\ menu \in Contact /\ ~editor /\ front # "Home"
    BY <2>0 DEF RowsOK, Table
  <2>2. menu.text \in Texts /\ (~menu.fav) \in BOOLEAN
    BY <2>1 DEF Contact
  <2>3. RowsOK'
    <3>1. CASE table' = Deleted(table, menu.id)
      BY <3>1, <1>17, FewerKeepRows DEF MenuChoice, Deleted
    <3>2. CASE table' = Updated(table, menu.id, menu.text, ~menu.fav)
      BY <3>2, <1>17, <2>2, UpdatedKeepsRows DEF MenuChoice
    <3> QED
      BY <3>1, <3>2, <1>17 DEF MenuChoice
  <2>4. editor' = FALSE
    BY <1>17, <2>1 DEF MenuChoice, editVars, FlagsOK
  <2> QED
    BY <1>17, <2>1, <2>3, <2>4, <1>c DEF MenuChoice, editVars, listVars, FlagsOK
<1>18. CASE UNCHANGED vars
  <2>1. RowsOK' /\ ArraysOK' /\ ListFresh' /\ DockFresh'
    BY <1>18, <1>r, <1>a, <1>l, <1>d DEF vars, dbVars, editVars
  <2> QED
    BY <1>18, <2>1 DEF vars, dbVars, editVars, listVars, FlagsOK, CopiesOK, CopiesFresh, OpenedFirst
<1> QED
  BY <1>1, <1>2, <1>3, <1>4, <1>5, <1>6, <1>7, <1>8, <1>9, <1>10, <1>11, <1>12, <1>13, <1>14,
     <1>15, <1>16, <1>17, <1>18 DEF Next

\* Each variable keeps its type.
THEOREM TypeCorrect == Spec => []TypeOK
<1>1. IInv => TypeOK
  BY DEF IInv, RowsOK, Table, UniqueIds, FlagsOK, ArraysOK, CopiesOK, TypeOK
<1> QED
  BY InitIInv, NextIInv, <1>1, PTL DEF Spec

\* No screen, no copy and no favourite is older than the table.
THEOREM NothingIsStale == Spec => []CopiesAreFresh
<1>1. IInv => CopiesAreFresh
  BY DEF IInv, ListFresh, CopiesFresh, DockFresh, CopiesAreFresh
<1> QED
  BY InitIInv, NextIInv, <1>1, PTL DEF Spec

\* The loop over the ticks, on the list as it is drawn.
LEMMA TrashTakesTicks ==
  IInv => (Trash => table \ table' = {drawn[i] : i \in ticked \cap DOMAIN drawn})
<1> SUFFICES ASSUME IInv, Trash
             PROVE  table \ table' = {drawn[i] : i \in ticked \cap DOMAIN drawn}
  OBVIOUS
<1>1. drawn = Loaded(table)
  BY DEF Trash, InList, Touched, IInv, OpenedFirst, ListFresh
<1>2. Table(table)
  BY DEF IInv, RowsOK
<1>3. table' = table \ {Loaded(table)[j] : j \in ticked \cap DOMAIN Loaded(table)}
  BY <1>2, MarkedAreDeleted DEF Trash
<1>4. \A j \in DOMAIN Loaded(table) : Loaded(table)[j] \in table
  BY <1>2, LoadedRows
<1> QED
  BY <1>1, <1>3, <1>4

\* However many contacts there are, and wherever those beyond the array move.
THEOREM TickedAreDeleted == Spec => DeletesWhatIsTicked
BY InitIInv, NextIInv, TrashTakesTicks, PTL DEF Spec, DeletesWhatIsTicked
=============================================================================
