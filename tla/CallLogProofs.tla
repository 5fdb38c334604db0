---------------------------- MODULE CallLogProofs ----------------------------
(***************************************************************************)
(* Proofs about the call history.  Deletions: what the user saw when       *)
(* ticking rows, or when opening the context menu, is what the positions   *)
(* still stand for, until the array is loaded again.  The array: each rank *)
(* up to the number of rows is that of one row, so that the cells hold the *)
(* newest rows, and a missed call that is not among them has enough rows   *)
(* before it.                                                              *)
(***************************************************************************)
EXTENDS CallLog, FiniteSetTheorems, TLAPS

\* While the array is that of the selection, the screen shows it.
RowsCurrent == steady => \A i \in DOMAIN list : list[i] = cells[i]

\* Each tick is on the entry that is still at its position.
TicksCurrent == steady => \A i \in DOMAIN ticked : ticked[i] = cells[i]

\* The context menu stands for a full cell, which holds what was pressed.
MenuCurrent ==
  /\ "steady" \in DOMAIN menu
  /\ menu.steady => menu.index <= count /\ menu.entry = cells[menu.index]

IInv == RowsCurrent /\ TicksCurrent /\ MenuCurrent

-----------------------------------------------------------------------------
\* What a DELETE takes away: the rows that match one of the entries.
LEMMA WithoutDeletesTwins ==
  ASSUME NEW E, table' = Without(table, E)
  PROVE  table \ table' = Twins(E)
BY DEF Without, Twins, Matches

\* A drawn row shows the cell it stands for.
LEMMA DrawnShowsCells ==
  ASSUME NEW c, NEW n, NEW m, NEW i \in DOMAIN Drawn(c, n, m)
  PROVE  Drawn(c, n, m)[i] = c[i]
BY DEF Drawn

\* After a redraw the screen shows the array as it is.
LEMMA RedrawIsCurrent ==
  ASSUME Redraw
  PROVE  RowsCurrent'
<1>1. list' = Drawn(cells', count', filter')
  BY DEF Redraw
<1> QED
  BY <1>1, DrawnShowsCells DEF RowsCurrent

\* A tick is put on the row that is on the screen, or taken off.
LEMMA ToggledTicks ==
  ASSUME NEW i, NEW j \in DOMAIN Toggled(i)
  PROVE  \/ Toggled(i)[j] = ticked[j] /\ j \in DOMAIN ticked
         \/ Toggled(i)[j] = list[i] /\ j = i
BY DEF Toggled

-----------------------------------------------------------------------------
\* No selection has begun, and no menu is open, when the program starts.
LEMMA InitIInv == Init => IInv
BY DEF Init, NoMenu, IInv, RowsCurrent, TicksCurrent, MenuCurrent

\* Ticks stay current when one is toggled: the screen is that of the selection.
LEMMA ToggleKeepsTicks ==
  ASSUME IInv, NEW i \in DOMAIN list,
         ticked' = Toggled(i), UNCHANGED <<cells, steady>>
  PROVE  TicksCurrent'
<1> SUFFICES ASSUME steady, NEW j \in DOMAIN ticked'
             PROVE  ticked'[j] = cells[j]
  BY DEF TicksCurrent
<1>1. \A k \in DOMAIN list : list[k] = cells[k]
  BY DEF IInv, RowsCurrent
<1>2. \A k \in DOMAIN ticked : ticked[k] = cells[k]
  BY DEF IInv, TicksCurrent
<1> QED
  BY <1>1, <1>2, ToggledTicks

\* Every handler keeps the positions and what they stand for together.
LEMMA NextIInv == IInv /\ [Next]_vars => IInv'
<1> SUFFICES ASSUME IInv, [Next]_vars
             PROVE  IInv'
  OBVIOUS
<1>1. CASE Second
  BY <1>1 DEF Second, uiVars, IInv, RowsCurrent, TicksCurrent, MenuCurrent
<1>2. ASSUME NEW n \in Numbers, NEW missed \in BOOLEAN, CallEnds(n, missed)
      PROVE  IInv'
  <2>1. ~steady' /\ menu' = [menu EXCEPT !.steady = FALSE]
    BY <1>2 DEF CallEnds
  <2>2. MenuCurrent'
    BY <2>1 DEF IInv, MenuCurrent
  <2> QED
    BY <2>1, <2>2 DEF IInv, RowsCurrent, TicksCurrent
<1>3. CASE Restart
  BY <1>3 DEF Restart, NoMenu, IInv, RowsCurrent, TicksCurrent, MenuCurrent
<1>4. ASSUME Open \/ \E missedOnly \in BOOLEAN : SetFilter(missedOnly)
      PROVE  IInv'
  <2>1. Redraw /\ UNCHANGED <<cells, count, ticked, steady, menu>>
    BY <1>4 DEF Open, SetFilter, dbVars
  <2> QED
    BY <2>1, RedrawIsCurrent DEF IInv, TicksCurrent, MenuCurrent
<1>5. CASE Leave
  BY <1>5 DEF Leave, dbVars, IInv, RowsCurrent, TicksCurrent, MenuCurrent
<1>6. CASE ToggleEdit
  <2>1. /\ Redraw
        /\ ticked' = IF selecting THEN ticked ELSE NoRows
        /\ steady' = (selecting => steady)
        /\ UNCHANGED <<cells, count, menu>>
    BY <1>6 DEF ToggleEdit, dbVars
  <2>2. TicksCurrent'
    BY <2>1 DEF IInv, TicksCurrent, NoRows
  <2> QED
    BY <2>1, <2>2, RedrawIsCurrent DEF IInv, MenuCurrent
<1>7. ASSUME NEW i \in Cells, ClickBox(i)
      PROVE  IInv'
  <2>1. /\ i \in DOMAIN list /\ ticked' = Toggled(i)
        /\ UNCHANGED <<cells, count, list, steady, menu>>
    BY <1>7 DEF ClickBox, dbVars
  <2>2. TicksCurrent'
    BY <2>1, ToggleKeepsTicks
  <2> QED
    BY <2>1, <2>2 DEF IInv, RowsCurrent, MenuCurrent
<1>8. ASSUME NEW i \in Cells, ClickRow(i)
      PROVE  IInv'
  <2>1. /\ i \in DOMAIN list /\ ticked' = Toggled(i) /\ Redraw
        /\ UNCHANGED <<cells, count, steady, menu>>
    BY <1>8 DEF ClickRow, dbVars
  <2>2. TicksCurrent'
    BY <2>1, ToggleKeepsTicks
  <2> QED
    BY <2>1, <2>2, RedrawIsCurrent DEF IInv, MenuCurrent
<1>9. CASE DeleteSelected
  <2>1. menu = NoMenu /\ menu' = menu /\ ~steady'
    BY <1>9 DEF DeleteSelected, Touched
  <2> QED
    BY <2>1 DEF IInv, RowsCurrent, TicksCurrent, MenuCurrent, NoMenu
<1>10. ASSUME NEW i \in Cells, LongPress(i)
       PROVE  IInv'
  <2>1. /\ i <= count
        /\ menu' = [index |-> i, entry |-> cells[i], steady |-> TRUE]
        /\ UNCHANGED <<cells, count, list, ticked, steady>>
    BY <1>10 DEF LongPress, dbVars
  <2>2. MenuCurrent'
    BY <2>1 DEF MenuCurrent
  <2> QED
    BY <2>1, <2>2 DEF IInv, RowsCurrent, TicksCurrent
<1>11. CASE MenuCancel
  BY <1>11 DEF MenuCancel, dbVars, NoMenu, IInv, RowsCurrent, TicksCurrent, MenuCurrent
<1>12. CASE MenuDelete
  BY <1>12 DEF MenuDelete, NoMenu, IInv, RowsCurrent, TicksCurrent, MenuCurrent
<1>13. CASE UNCHANGED vars
  BY <1>13 DEF vars, dbVars, uiVars, IInv, RowsCurrent, TicksCurrent, MenuCurrent
<1> QED
  BY <1>1, <1>2, <1>3, <1>4, <1>5, <1>6, <1>7, <1>8, <1>9, <1>10, <1>11, <1>12, <1>13
     DEF Next

-----------------------------------------------------------------------------
\* While the positions stand for what was shown, a delete takes that away.
LEMMA DeletesCurrent ==
  IInv => /\ DeleteSelected /\ steady =>
               table \ table' = Twins({ticked[i] : i \in DOMAIN ticked})
          /\ MenuDelete /\ menu.steady => table \ table' = Twins({menu.entry})
<1> SUFFICES ASSUME IInv
             PROVE  /\ DeleteSelected /\ steady =>
                         table \ table' = Twins({ticked[i] : i \in DOMAIN ticked})
                    /\ MenuDelete /\ menu.steady =>
                         table \ table' = Twins({menu.entry})
  OBVIOUS
<1>1. ASSUME DeleteSelected, steady
      PROVE  table \ table' = Twins({ticked[i] : i \in DOMAIN ticked})
  <2>1. table' = Without(table, {cells[i] : i \in DOMAIN ticked})
    BY <1>1 DEF DeleteSelected
  <2>2. \A i \in DOMAIN ticked : ticked[i] = cells[i]
    BY <1>1 DEF IInv, TicksCurrent
  <2>3. {cells[i] : i \in DOMAIN ticked} = {ticked[i] : i \in DOMAIN ticked}
    BY <2>2
  <2> QED
    BY <2>1, <2>3, WithoutDeletesTwins
<1>2. ASSUME MenuDelete, menu.steady
      PROVE  table \ table' = Twins({menu.entry})
  <2>1. menu.index <= count /\ menu.entry = cells[menu.index]
    BY <1>2 DEF MenuDelete, IInv, MenuCurrent
  <2>2. table' = Without(table, {menu.entry})
    BY <1>2, <2>1 DEF MenuDelete
  <2> QED
    BY <2>2, WithoutDeletesTwins
<1> QED
  BY <1>1, <1>2

\* For every array size, and every number of calls and seconds: as long as the
\* array is not loaded again, the trash button deletes exactly the entries that were
\* ticked, in edit mode or after it, and the menu the entry it was opened on
\* (history_delete_mask() and history_remove() get positions only).
THEOREM DeletesWhatIsShownThm == Spec => DeletesWhatIsShown
<1>1. Init => IInv
  BY InitIInv
<1>2. IInv /\ [Next]_vars => IInv'
  BY NextIInv
<1>3. IInv =>
        [/\ DeleteSelected /\ steady =>
               table \ table' = Twins({ticked[i] : i \in DOMAIN ticked})
         /\ MenuDelete /\ menu.steady =>
               table \ table' = Twins({menu.entry})]_vars
  BY DeletesCurrent
<1> QED
  BY <1>1, <1>2, <1>3, PTL DEF Spec, DeletesWhatIsShown

-----------------------------------------------------------------------------
(* The order of the rows.                                                  *)

\* No two rows have the same id.
UniqueIds(t) == \A r, s \in t : r.id = s.id => r = s

\* As many ids, as many rows.
LEMMA RowsAreFinite ==
  ASSUME NEW t \in SUBSET Rows, UniqueIds(t)
  PROVE  IsFiniteSet(t)
<1> DEFINE f == [r \in t |-> r.id]
<1>1. f \in Injection(t, 1..MaxAdded)
  <2>1. f \in [t -> 1..MaxAdded]
    BY DEF Rows
  <2>2. \A r, s \in t : f[r] = f[s] => r = s
    BY DEF UniqueIds
  <2> QED
    BY <2>1, <2>2 DEF Injection, IsInjective
<1>2. IsFiniteSet(1..MaxAdded)
  BY FS_Interval, CallLogAssumption
<1> HIDE DEF f
<1> QED
  BY <1>1, <1>2, FS_Injection

\* Of two rows one comes before the other.
LEMMA NewerIsTotal ==
  ASSUME NEW t \in SUBSET Rows, UniqueIds(t), NEW r \in t, NEW s \in t, r # s
  PROVE  Newer(r, s) \/ Newer(s, r)
<1>1. r.time \in Int /\ s.time \in Int /\ r.id \in Int /\ s.id \in Int
  BY DEF Rows
<1>2. r.id # s.id
  BY DEF UniqueIds
<1> QED
  BY <1>1, <1>2 DEF Newer

\* A row before another has a smaller rank.
LEMMA RankGrows ==
  ASSUME NEW t \in SUBSET Rows, UniqueIds(t), NEW r \in t, NEW s \in t, Newer(r, s)
  PROVE  Rank(t, r) < Rank(t, s)
<1> DEFINE A == {x \in t : Newer(x, r)}
           B == {x \in t : Newer(x, s)}
<1>1. IsFiniteSet(B) /\ IsFiniteSet(B \ {r})
  BY RowsAreFinite, FS_Subset, FS_RemoveElement
<1>2. A \subseteq B \ {r}
  <2> SUFFICES ASSUME NEW x \in A
               PROVE  Newer(x, s) /\ x # r
    OBVIOUS
  <2>1. /\ x.time \in Int /\ r.time \in Int /\ s.time \in Int
        /\ x.id \in Int /\ r.id \in Int /\ s.id \in Int
    BY DEF Rows
  <2> QED
    BY <2>1 DEF Newer
<1>3. Cardinality(A) <= Cardinality(B \ {r}) /\ Cardinality(A) \in Nat /\ Cardinality(B) \in Nat
  BY <1>1, <1>2, FS_Subset, FS_CardinalityType
<1>4. Cardinality(B \ {r}) = Cardinality(B) - 1
  BY <1>1, FS_RemoveElement
<1>5. Rank(t, r) = Cardinality(A) + 1 /\ Rank(t, s) = Cardinality(B) + 1
  BY DEF Rank
<1> HIDE DEF A, B
<1> QED
  BY <1>3, <1>4, <1>5

\* Each rank up to the number of rows is that of a row.
LEMMA RankReaches ==
  ASSUME NEW t \in SUBSET Rows, UniqueIds(t), NEW i \in 1..Cardinality(t)
  PROVE  \E r \in t : Rank(t, r) = i
<1> DEFINE n == Cardinality(t)
           f == [r \in t |-> Rank(t, r)]
<1>1. IsFiniteSet(t) /\ n \in Nat
  BY RowsAreFinite, FS_CardinalityType
<1>2. ASSUME NEW r \in t
      PROVE  Rank(t, r) \in 1..n
  <2> DEFINE A == {x \in t : Newer(x, r)}
  <2>1. A \subseteq t \ {r}
    BY DEF Newer, Rows
  <2>2. Cardinality(t \ {r}) = n - 1 /\ IsFiniteSet(t \ {r})
    BY <1>1, FS_RemoveElement
  <2>3. Cardinality(A) <= n - 1 /\ Cardinality(A) \in Nat
    BY <2>1, <2>2, FS_Subset, FS_CardinalityType
  <2>4. Rank(t, r) = Cardinality(A) + 1
    BY DEF Rank
  <2> HIDE DEF A, n
  <2> QED
    BY <1>1, <2>3, <2>4
<1>3. f \in Injection(t, 1..n)
  <2>1. f \in [t -> 1..n]
    BY <1>2
  <2>2. ASSUME NEW r \in t, NEW s \in t, r # s
        PROVE  f[r] # f[s]
    <3>1. Rank(t, r) < Rank(t, s) \/ Rank(t, s) < Rank(t, r)
      BY <2>2, NewerIsTotal, RankGrows
    <3>2. Rank(t, r) \in 1..n /\ Rank(t, s) \in 1..n
      BY <1>2
    <3> HIDE DEF n
    <3> QED
      BY <3>1, <3>2, <1>1
  <2> QED
    BY <2>1, <2>2 DEF Injection, IsInjective
<1>4. IsFiniteSet(1..n) /\ Cardinality(1..n) = n
  BY <1>1, FS_Interval
<1>5. f \in Surjection(t, 1..n)
  BY <1>3, <1>4, FS_Injection
<1> QED
  BY <1>5 DEF Surjection

\* The array that history_load() fills: each full cell holds the row of its rank.
HoldsRanks(c, n, t) ==
  /\ n = LoadedCount(t)
  /\ \A i \in 1..n : \E r \in t : Rank(t, r) = i /\ c[i] = Entry(r)

LEMMA LoadedHoldsRanks ==
  ASSUME NEW t \in SUBSET Rows, UniqueIds(t), NEW old
  PROVE  HoldsRanks(Loaded(old, t), LoadedCount(t), t)
<1> DEFINE n == LoadedCount(t)
<1>1. Cardinality(t) \in Nat
  BY RowsAreFinite, FS_CardinalityType
<1>2. n \in Nat /\ n <= MaxHistory /\ n <= Cardinality(t)
  BY <1>1, CallLogAssumption DEF LoadedCount
<1> HIDE DEF n
<1>3. ASSUME NEW i \in 1..n
      PROVE  \E r \in t : Rank(t, r) = i /\ Loaded(old, t)[i] = Entry(r)
  <2>1. i \in 1..Cardinality(t) /\ i \in Cells
    BY <1>1, <1>2, CallLogAssumption DEF Cells
  <2>2. \E r \in t : Rank(t, r) = i
    BY <2>1, RankReaches
  <2>3. Ranked(t, i) # {}
    BY <2>2 DEF Ranked
  <2> DEFINE q == CHOOSE r \in Ranked(t, i) : TRUE
  <2>4. q \in Ranked(t, i)
    BY <2>3
  <2>5. Loaded(old, t)[i] = Entry(q)
    BY <2>1, <2>3 DEF Loaded
  <2> HIDE DEF q
  <2> QED
    BY <2>4, <2>5 DEF Ranked
<1> QED
  BY <1>3 DEF HoldsRanks, n

\* A rank says how many rows are at least as new, and how many are newer.
LEMMA RankCounts ==
  ASSUME NEW t \in SUBSET Rows, UniqueIds(t), NEW r \in t
  PROVE  /\ Rank(t, r) \in Nat
         /\ Cardinality({s \in t : s.time > r.time}) < Rank(t, r)
         /\ Cardinality({s \in t : s.time >= r.time}) >= Rank(t, r)
<1> DEFINE A == {s \in t : Newer(s, r)}
           B == {s \in t : s.time > r.time}
           C == {s \in t : s.time >= r.time}
<1>0. /\ r.time \in Int /\ r.id \in Int
      /\ \A s \in t : s.time \in Int /\ s.id \in Int
  BY DEF Rows
<1>1. IsFiniteSet(t) /\ IsFiniteSet(A) /\ IsFiniteSet(B) /\ IsFiniteSet(C)
  BY RowsAreFinite, FS_Subset
<1>2. B \subseteq A
  BY DEF Newer
<1>3. A \cup {r} \subseteq C
  BY <1>0 DEF Newer
<1>4. r \notin A
  BY <1>0 DEF Newer
<1>5. Rank(t, r) = Cardinality(A) + 1
  BY DEF Rank
<1> HIDE DEF A, B, C
<1>6. Cardinality(A \cup {r}) = Cardinality(A) + 1 /\ Cardinality(A) \in Nat
  BY <1>1, <1>4, FS_AddElement, FS_CardinalityType
<1>7. Cardinality(B) <= Cardinality(A) /\ Cardinality(B) \in Nat
  BY <1>1, <1>2, FS_Subset, FS_CardinalityType
<1>8. Cardinality(A \cup {r}) <= Cardinality(C) /\ Cardinality(C) \in Nat
  BY <1>1, <1>3, FS_Subset, FS_CardinalityType
<1>9. Cardinality(B) < Rank(t, r) /\ Cardinality(C) >= Rank(t, r) /\ Rank(t, r) \in Nat
  BY <1>5, <1>6, <1>7, <1>8
<1> QED
  BY <1>9 DEF B, C

\* No two rows have one rank.
LEMMA RankIsOne ==
  ASSUME NEW t \in SUBSET Rows, UniqueIds(t), NEW r \in t, NEW s \in t,
         Rank(t, r) = Rank(t, s)
  PROVE  r = s
<1> SUFFICES ASSUME r # s
             PROVE  FALSE
  OBVIOUS
<1>1. Rank(t, r) < Rank(t, s) \/ Rank(t, s) < Rank(t, r)
  BY NewerIsTotal, RankGrows
<1>2. Rank(t, r) \in Nat /\ Rank(t, s) \in Nat
  BY RankCounts
<1> QED
  BY <1>1, <1>2

-----------------------------------------------------------------------------
(* The types.                                                              *)

CellValues == Entries \cup {NoEntry}

\* Each row has an id of its own, and the next one is still free.
IdsOK == UniqueIds(table) /\ \A r \in table : r.id <= added

TypeInv == TypeOK /\ IdsOK

\* The database and the array.
DbOK ==
  /\ table \subseteq Rows
  /\ read \subseteq 1..MaxAdded
  /\ cells \in [Cells -> CellValues]
  /\ count \in 0..MaxHistory
  /\ clock \in 0..MaxTime
  /\ added \in 0..MaxAdded
  /\ IdsOK

\* The applet.
UiOK ==
  /\ shown \in BOOLEAN /\ filter \in BOOLEAN /\ selecting \in BOOLEAN /\ fab \in BOOLEAN
  /\ steady \in BOOLEAN
  /\ list \in PartialLists
  /\ ticked \in PartialLists
  /\ menu \in [index : 0..MaxHistory, entry : CellValues, steady : BOOLEAN]

LEMMA TypeInvParts == TypeInv <=> DbOK /\ UiOK
BY DEF TypeInv, TypeOK, DbOK, UiOK, CellValues

\* A list is a function from some of the positions to values of cells.
LEMMA ListIntro ==
  ASSUME NEW S \in SUBSET Cells, NEW f, f \in [S -> CellValues]
  PROVE  f \in PartialLists
BY DEF PartialLists, CellValues

LEMMA ListElim ==
  ASSUME NEW f \in PartialLists
  PROVE  DOMAIN f \subseteq Cells /\ \A i \in DOMAIN f : f[i] \in CellValues
BY DEF PartialLists, CellValues

LEMMA NoRowsOK == NoRows \in PartialLists
<1>1. NoRows \in [{} -> CellValues]
  BY DEF NoRows
<1> QED
  BY <1>1, ListIntro

LEMMA NoMenuOK == NoMenu \in [index : 0..MaxHistory, entry : CellValues, steady : BOOLEAN]
BY CallLogAssumption DEF NoMenu, CellValues

\* What is drawn are values of cells at their positions.
LEMMA DrawnOK ==
  ASSUME NEW c \in [Cells -> CellValues], NEW n \in 0..MaxHistory, NEW m
  PROVE  Drawn(c, n, m) \in PartialLists
<1> DEFINE S == {j \in 1..n : m => c[j].missed}
<1>1. S \subseteq Cells
  BY CallLogAssumption DEF Cells
<1>2. Drawn(c, n, m) = [i \in S |-> c[i]]
  BY DEF Drawn
<1> HIDE DEF S
<1>3. Drawn(c, n, m) \in [S -> CellValues]
  BY <1>1, <1>2
<1> QED
  BY <1>1, <1>3, ListIntro

LEMMA RedrawOK ==
  ASSUME Redraw, cells' \in [Cells -> CellValues], count' \in 0..MaxHistory
  PROVE  list' \in PartialLists
<1>1. Drawn(cells', count', filter') \in PartialLists
  BY DrawnOK
<1> QED
  BY <1>1 DEF Redraw

LEMMA ToggledOK ==
  ASSUME UiOK, NEW i \in DOMAIN list
  PROVE  Toggled(i) \in PartialLists
<1>1. list \in PartialLists /\ ticked \in PartialLists
  BY DEF UiOK
<1>2. /\ i \in Cells /\ list[i] \in CellValues
      /\ DOMAIN ticked \subseteq Cells /\ \A j \in DOMAIN ticked : ticked[j] \in CellValues
  BY <1>1, ListElim
<1>3. CASE i \in DOMAIN ticked
  <2>1. Toggled(i) \in [DOMAIN ticked \ {i} -> CellValues]
    BY <1>2, <1>3 DEF Toggled
  <2> QED
    BY <2>1, <1>2, ListIntro
<1>4. CASE i \notin DOMAIN ticked
  <2>1. Toggled(i) \in [DOMAIN ticked \cup {i} -> CellValues]
    BY <1>2, <1>4 DEF Toggled
  <2> QED
    BY <2>1, <1>2, ListIntro
<1> QED
  BY <1>3, <1>4

\* What history_load() leaves in the array, whatever was in it.
LEMMA LoadOK ==
  ASSUME NEW t \in SUBSET Rows, UniqueIds(t), NEW old \in [Cells -> CellValues], Load(old, t)
  PROVE  cells' \in [Cells -> CellValues] /\ count' \in 0..MaxHistory
<1>1. ASSUME NEW i \in Cells
      PROVE  Loaded(old, t)[i] \in CellValues
  <2>1. CASE Ranked(t, i) # {}
    <3> DEFINE q == CHOOSE r \in Ranked(t, i) : TRUE
    <3>1. q \in Rows
      BY <2>1 DEF Ranked
    <3>2. Loaded(old, t)[i] = Entry(q)
      BY <2>1 DEF Loaded
    <3> HIDE DEF q
    <3> QED
      BY <3>1, <3>2 DEF Entry, Rows, Entries, CellValues
  <2>2. CASE Ranked(t, i) = {}
    BY <2>2 DEF Loaded
  <2> QED
    BY <2>1, <2>2
<1>2. Loaded(old, t) = [i \in Cells |-> Loaded(old, t)[i]]
  BY DEF Loaded
<1>3. Loaded(old, t) \in [Cells -> CellValues]
  BY <1>1, <1>2
<1>4. Cardinality(t) \in Nat
  BY RowsAreFinite, FS_CardinalityType
<1>5. LoadedCount(t) \in 0..MaxHistory
  BY <1>4, CallLogAssumption DEF LoadedCount
<1> QED
  BY <1>3, <1>5 DEF Load

\* history_add() gives a new id.
LEMMA AddedOK ==
  ASSUME DbOK, NEW n \in Numbers, NEW missed \in BOOLEAN, CallEnds(n, missed)
  PROVE  table' \subseteq Rows /\ IdsOK' /\ added' \in 0..MaxAdded
<1> DEFINE new == [id |-> added', number |-> n, missed |-> missed, time |-> clock]
<1>1. table' = table \cup {new} /\ added' = added + 1 /\ added < MaxAdded
  BY DEF CallEnds
<1>2. added \in Nat /\ MaxAdded \in Nat
  BY CallLogAssumption DEF DbOK
<1>3. added' \in 1..MaxAdded /\ added' \in 0..MaxAdded
  BY <1>1, <1>2
<1>4. new \in Rows /\ new.id = added'
  BY <1>3 DEF DbOK, Rows
<1> HIDE DEF new
<1>5. \A r \in table : r.id \in Int /\ r.id <= added
  BY DEF DbOK, IdsOK, Rows
<1>6. \A r \in table : r.id < added'
  BY <1>1, <1>2, <1>5
<1>7. UniqueIds(table')
  BY <1>1, <1>3, <1>4, <1>5, <1>6 DEF UniqueIds, DbOK, IdsOK
<1>8. \A r \in table' : r.id <= added'
  BY <1>1, <1>3, <1>4, <1>5, <1>6
<1> QED
  BY <1>1, <1>3, <1>4, <1>7, <1>8 DEF IdsOK, DbOK

\* DELETE leaves some of the rows.
LEMMA WithoutOK ==
  ASSUME DbOK, NEW E, table' = Without(table, E), added' = added
  PROVE  table' \subseteq Rows /\ IdsOK'
BY DEF DbOK, IdsOK, UniqueIds, Without

\* Nothing is stored when the program is started for the first time.
LEMMA InitTypeInv == Init => TypeInv
<1> SUFFICES ASSUME Init
             PROVE  DbOK /\ UiOK
  BY TypeInvParts
<1>1. cells \in [Cells -> CellValues]
  BY DEF Init, CellValues
<1>2. table = {} /\ read = {} /\ count = 0 /\ clock = 0 /\ added = 0
  BY DEF Init
<1>3. DbOK
  <2>1. count \in 0..MaxHistory /\ clock \in 0..MaxTime /\ added \in 0..MaxAdded
    BY <1>2, CallLogAssumption
  <2>2. IdsOK
    BY <1>2 DEF IdsOK, UniqueIds
  <2> QED
    BY <1>1, <1>2, <2>1, <2>2 DEF DbOK
<1>4. UiOK
  <2>1. list = NoRows /\ ticked = NoRows /\ menu = NoMenu
    BY DEF Init
  <2>2. /\ shown \in BOOLEAN /\ filter \in BOOLEAN /\ selecting \in BOOLEAN
        /\ steady \in BOOLEAN /\ fab \in BOOLEAN
    BY DEF Init
  <2> QED
    BY <2>1, <2>2, NoRowsOK, NoMenuOK DEF UiOK
<1> QED
  BY <1>3, <1>4

\* What a handler does to the database and the array that is not a query.
LEMMA SameDb ==
  ASSUME DbOK, UNCHANGED <<table, cells, count, added>>,
         read' \subseteq 1..MaxAdded, clock' \in 0..MaxTime
  PROVE  DbOK'
BY DEF DbOK, IdsOK, UniqueIds

\* Every handler keeps the types, and the ids of the rows apart.
LEMMA NextTypeInv == TypeInv /\ [Next]_vars => TypeInv'
<1> SUFFICES ASSUME TypeInv, [Next]_vars
             PROVE  TypeInv'
  OBVIOUS
<1>0. DbOK /\ UiOK
  BY TypeInvParts
<1>a. ASSUME DbOK', UiOK'
      PROVE  TypeInv'
  BY <1>a DEF TypeInv, TypeOK, DbOK, UiOK, CellValues
<1>b. /\ read \subseteq 1..MaxAdded /\ clock \in 0..MaxTime /\ added \in 0..MaxAdded
      /\ cells \in [Cells -> CellValues] /\ count \in 0..MaxHistory
      /\ table \in SUBSET Rows /\ UniqueIds(table)
  BY <1>0 DEF DbOK, IdsOK
<1>1. CASE Second
  <2>1. clock' \in 0..MaxTime
    BY <1>1, <1>b, CallLogAssumption DEF Second
  <2>2. DbOK'
    BY <1>0, <1>1, <1>b, <2>1, SameDb DEF Second
  <2>3. UiOK'
    BY <1>0, <1>1 DEF Second, uiVars, UiOK
  <2> QED
    BY <2>2, <2>3, <1>a
<1>2. ASSUME NEW n \in Numbers, NEW missed \in BOOLEAN, CallEnds(n, missed)
      PROVE  TypeInv'
  <2>1. table' \subseteq Rows /\ IdsOK' /\ added' \in 0..MaxAdded
    BY <1>0, <1>2, AddedOK
  <2>2. UniqueIds(table')
    BY <2>1 DEF IdsOK
  <2>3. /\ Load(cells, table') /\ steady' = FALSE
        /\ menu' = [menu EXCEPT !.steady = FALSE]
        /\ UNCHANGED <<read, clock, shown, filter, list, selecting, ticked, fab>>
    BY <1>2 DEF CallEnds
  <2>4. cells' \in [Cells -> CellValues] /\ count' \in 0..MaxHistory
    BY <2>1, <2>2, <2>3, <1>b, LoadOK
  <2>5. DbOK'
    BY <2>1, <2>3, <2>4, <1>b DEF DbOK
  <2>6. UiOK'
    BY <1>0, <2>3 DEF UiOK
  <2> QED
    BY <2>5, <2>6, <1>a
<1>3. CASE Restart
  <2> DEFINE old == [i \in Cells |-> NoEntry]
  <2>1. Load(old, table) /\ UNCHANGED <<table, read, clock, added>>
    BY <1>3 DEF Restart
  <2>2. old \in [Cells -> CellValues]
    BY DEF CellValues
  <2> HIDE DEF old
  <2>3. cells' \in [Cells -> CellValues] /\ count' \in 0..MaxHistory
    BY <2>1, <2>2, <1>b, LoadOK
  <2>4. DbOK'
    BY <1>0, <2>1, <2>3 DEF DbOK, IdsOK, UniqueIds
  <2>5. UiOK'
    <3>1. list' = NoRows /\ ticked' = NoRows /\ menu' = NoMenu
      BY <1>3 DEF Restart
    <3>2. /\ shown' \in BOOLEAN /\ filter' \in BOOLEAN /\ selecting' \in BOOLEAN
          /\ steady' \in BOOLEAN /\ fab' \in BOOLEAN
      BY <1>3 DEF Restart
    <3> QED
      BY <3>1, <3>2, NoRowsOK, NoMenuOK DEF UiOK
  <2> QED
    BY <2>4, <2>5, <1>a
<1>4. CASE Open
  <2>1. /\ read' = read \cup {r.id : r \in {s \in table : s.missed}}
        /\ Redraw /\ shown' = TRUE
        /\ UNCHANGED <<table, cells, count, clock, added, filter, selecting, ticked, steady, fab, menu>>
    BY <1>4 DEF Open
  <2>2. read' \subseteq 1..MaxAdded
    BY <2>1, <1>b DEF Rows
  <2>3. DbOK'
    BY <1>0, <1>b, <2>1, <2>2, SameDb
  <2>4. list' \in PartialLists
    BY <2>1, <1>b, RedrawOK
  <2> QED
    BY <1>0, <2>1, <2>3, <2>4, <1>a DEF UiOK
<1>5. CASE Leave
  <2>1. DbOK'
    BY <1>0, <1>5, <1>b, SameDb DEF Leave, dbVars
  <2> QED
    BY <1>0, <1>5, <2>1, <1>a DEF Leave, UiOK
<1>6. ASSUME NEW missedOnly \in BOOLEAN, SetFilter(missedOnly)
      PROVE  TypeInv'
  <2>1. /\ Redraw /\ filter' = missedOnly
        /\ UNCHANGED <<dbVars, shown, selecting, ticked, steady, fab, menu>>
    BY <1>6 DEF SetFilter
  <2>2. DbOK'
    BY <1>0, <2>1, <1>b, SameDb DEF dbVars
  <2>3. list' \in PartialLists
    BY <2>1, <1>b, RedrawOK DEF dbVars
  <2> QED
    BY <1>0, <2>1, <2>2, <2>3, <1>a DEF UiOK
<1>7. CASE ToggleEdit
  <2>1. /\ Redraw /\ selecting' = ~selecting
        /\ UNCHANGED <<dbVars, shown, filter, fab, menu>>
    BY <1>7 DEF ToggleEdit
  <2>2. ticked' \in PartialLists
    BY <1>0, <1>7, NoRowsOK DEF ToggleEdit, UiOK
  <2>3. steady' \in BOOLEAN
    BY <1>7 DEF ToggleEdit
  <2>4. DbOK'
    BY <1>0, <2>1, <1>b, SameDb DEF dbVars
  <2>5. list' \in PartialLists
    BY <2>1, <1>b, RedrawOK DEF dbVars
  <2>6. selecting' \in BOOLEAN
    BY <2>1, <1>0 DEF UiOK
  <2> QED
    BY <1>0, <2>1, <2>2, <2>3, <2>4, <2>5, <2>6, <1>a DEF UiOK
<1>8. ASSUME NEW i \in Cells, ClickBox(i)
      PROVE  TypeInv'
  <2>1. /\ ticked' = Toggled(i) /\ i \in DOMAIN list
        /\ fab' = (DOMAIN ticked' # {})
        /\ UNCHANGED <<dbVars, shown, filter, list, selecting, steady, menu>>
    BY <1>8 DEF ClickBox
  <2>2. ticked' \in PartialLists
    BY <1>0, <2>1, ToggledOK
  <2>3. DbOK'
    BY <1>0, <2>1, <1>b, SameDb DEF dbVars
  <2>4. fab' \in BOOLEAN
    BY <2>1
  <2> QED
    BY <1>0, <2>1, <2>2, <2>3, <2>4, <1>a DEF UiOK
<1>9. ASSUME NEW i \in Cells, ClickRow(i)
      PROVE  TypeInv'
  <2>1. /\ ticked' = Toggled(i) /\ i \in DOMAIN list /\ Redraw
        /\ UNCHANGED <<dbVars, shown, filter, selecting, steady, fab, menu>>
    BY <1>9 DEF ClickRow
  <2>2. ticked' \in PartialLists
    BY <1>0, <2>1, ToggledOK
  <2>3. DbOK'
    BY <1>0, <2>1, <1>b, SameDb DEF dbVars
  <2>4. list' \in PartialLists
    BY <2>1, <1>b, RedrawOK DEF dbVars
  <2> QED
    BY <1>0, <2>1, <2>2, <2>3, <2>4, <1>a DEF UiOK
<1>10. CASE DeleteSelected
  <2> DEFINE E == {cells[i] : i \in DOMAIN ticked}
  <2>1. /\ table' = Without(table, E) /\ Load(cells, table') /\ selecting' = FALSE /\ Redraw
        /\ steady' = FALSE
        /\ UNCHANGED <<read, clock, added, shown, filter, ticked, fab, menu>>
    BY <1>10 DEF DeleteSelected
  <2> HIDE DEF E
  <2>2. table' \subseteq Rows /\ IdsOK' /\ UniqueIds(table')
    BY <1>0, <2>1, WithoutOK DEF IdsOK
  <2>3. cells' \in [Cells -> CellValues] /\ count' \in 0..MaxHistory
    BY <2>1, <2>2, <1>b, LoadOK
  <2>4. DbOK'
    BY <1>b, <2>1, <2>2, <2>3 DEF DbOK
  <2>5. list' \in PartialLists
    BY <2>1, <2>3, <1>b, RedrawOK
  <2> QED
    BY <1>0, <2>1, <2>4, <2>5, <1>a DEF UiOK
<1>11. ASSUME NEW i \in Cells, LongPress(i)
       PROVE  TypeInv'
  <2>1. /\ menu' = [index |-> i, entry |-> cells[i], steady |-> TRUE]
        /\ UNCHANGED <<dbVars, shown, filter, list, selecting, ticked, steady, fab>>
    BY <1>11 DEF LongPress
  <2>2. i \in 0..MaxHistory /\ cells[i] \in CellValues
    BY <1>b, CallLogAssumption DEF Cells
  <2>3. menu' \in [index : 0..MaxHistory, entry : CellValues, steady : BOOLEAN]
    BY <2>1, <2>2, <1>b
  <2>4. DbOK'
    BY <1>0, <2>1, <1>b, SameDb DEF dbVars
  <2> QED
    BY <1>0, <2>1, <2>3, <2>4, <1>a DEF UiOK
<1>12. CASE MenuCancel
  <2>1. DbOK'
    BY <1>0, <1>12, <1>b, SameDb DEF MenuCancel, dbVars
  <2> QED
    BY <1>0, <1>12, <2>1, <1>a, NoMenuOK DEF MenuCancel, UiOK
<1>13. CASE MenuDelete
  <2>1. /\ menu' = NoMenu /\ Redraw /\ steady' = FALSE
        /\ UNCHANGED <<read, clock, added, shown, filter, selecting, ticked, fab>>
    BY <1>13 DEF MenuDelete
  <2>2. /\ table' \subseteq Rows /\ IdsOK'
        /\ cells' \in [Cells -> CellValues] /\ count' \in 0..MaxHistory
    <3>1. CASE menu.index <= count
      <4> DEFINE E == {cells[menu.index]}
      <4>1. table' = Without(table, E) /\ Load(cells, table')
        BY <1>13, <3>1 DEF MenuDelete
      <4> HIDE DEF E
      <4>2. table' \subseteq Rows /\ IdsOK' /\ UniqueIds(table')
        BY <1>0, <2>1, <4>1, WithoutOK DEF IdsOK
      <4> QED
        BY <4>1, <4>2, <1>b, LoadOK
    <3>2. CASE ~(menu.index <= count)
      BY <1>0, <1>13, <2>1, <3>2 DEF MenuDelete, DbOK, IdsOK, UniqueIds
    <3> QED
      BY <3>1, <3>2
  <2>3. DbOK'
    BY <1>b, <2>1, <2>2 DEF DbOK
  <2>4. list' \in PartialLists
    BY <2>1, <2>2, <1>b, RedrawOK
  <2> QED
    BY <1>0, <2>1, <2>3, <2>4, <1>a, NoMenuOK DEF UiOK
<1>14. CASE UNCHANGED vars
  BY <1>14 DEF vars, dbVars, uiVars, TypeInv, TypeOK, IdsOK, UniqueIds
<1> QED
  BY <1>1, <1>2, <1>3, <1>4, <1>5, <1>6, <1>7, <1>8, <1>9, <1>10, <1>11, <1>12, <1>13, <1>14
     DEF Next

\* For every array size, and every number of calls and seconds: what is in the
\* table, the array, the list, the selection and the menu has its type.
THEOREM TypeCorrect == Spec => []TypeOK
<1>1. TypeInv => TypeOK
  BY DEF TypeInv
<1> QED
  BY <1>1, InitTypeInv, NextTypeInv, PTL DEF Spec

-----------------------------------------------------------------------------
(* The array is the newest rows of the table.                              *)

CacheInv == HoldsRanks(cells, count, table)

LEMMA InitCache == Init => CacheInv
<1> SUFFICES ASSUME Init
             PROVE  CacheInv
  OBVIOUS
<1>1. table = {} /\ count = 0
  BY DEF Init
<1>2. Cardinality(table) = 0
  BY <1>1, FS_EmptySet
<1>3. LoadedCount(table) = 0
  BY <1>2, CallLogAssumption DEF LoadedCount
<1> QED
  BY <1>1, <1>3 DEF CacheInv, HoldsRanks

\* Every handler that changes the rows loads the array before it returns.
LEMMA NextCache == TypeInv /\ TypeInv' /\ CacheInv /\ [Next]_vars => CacheInv'
<1> SUFFICES ASSUME TypeInv, TypeInv', CacheInv, [Next]_vars
             PROVE  CacheInv'
  OBVIOUS
<1>1. table' \in SUBSET Rows /\ UniqueIds(table')
  BY DEF TypeInv, TypeOK, IdsOK, UniqueIds
<1>2. ASSUME NEW old, Load(old, table')
      PROVE  CacheInv'
  <2>1. HoldsRanks(Loaded(old, table'), LoadedCount(table'), table')
    BY <1>1, LoadedHoldsRanks
  <2>2. cells' = Loaded(old, table') /\ count' = LoadedCount(table')
    BY <1>2 DEF Load
  <2> QED
    BY <2>1, <2>2 DEF CacheInv
<1>3. \/ UNCHANGED <<table, cells, count>>
      \/ \E old : Load(old, table')
  <2>1. ASSUME NEW n \in Numbers, NEW missed \in BOOLEAN, CallEnds(n, missed)
        PROVE  \E old : Load(old, table')
    BY <2>1 DEF CallEnds
  <2>2. CASE Restart
    <3>1. \E old : Load(old, table) /\ table' = table
      BY <2>2 DEF Restart
    <3> QED
      BY <3>1
  <2>3. CASE DeleteSelected
    BY <2>3 DEF DeleteSelected
  <2>4. CASE MenuDelete
    BY <2>4 DEF MenuDelete
  <2>5. CASE \/ Second \/ Leave \/ ToggleEdit \/ MenuCancel
             \/ \E missedOnly \in BOOLEAN : SetFilter(missedOnly)
             \/ \E i \in Cells : ClickBox(i) \/ ClickRow(i) \/ LongPress(i)
    BY <2>5 DEF Second, Leave, ToggleEdit, MenuCancel, SetFilter, ClickBox, ClickRow,
                LongPress, dbVars
  <2>6. CASE Open
    BY <2>6 DEF Open
  <2>7. CASE UNCHANGED vars
    BY <2>7 DEF vars, dbVars
  <2> QED
    BY <2>1, <2>2, <2>3, <2>4, <2>5, <2>6, <2>7 DEF Next
<1>4. CASE UNCHANGED <<table, cells, count>>
  BY <1>4 DEF CacheInv
<1> QED
  BY <1>2, <1>3, <1>4

CacheStrong == TypeInv /\ CacheInv

LEMMA AlwaysCached == Spec => []CacheStrong
<1>1. Init => CacheStrong
  BY InitTypeInv, InitCache DEF CacheStrong
<1>2. CacheStrong /\ [Next]_vars => CacheStrong'
  BY NextTypeInv, NextCache DEF CacheStrong
<1> QED
  BY <1>1, <1>2, PTL DEF Spec

LEMMA RanksAreNewest == TypeInv /\ CacheInv => CacheIsNewest
<1> SUFFICES ASSUME TypeInv, CacheInv
             PROVE  CacheIsNewest
  OBVIOUS
<1>1. table \in SUBSET Rows /\ UniqueIds(table)
  BY DEF TypeInv, TypeOK, IdsOK
<1>2. ASSUME NEW i \in 1..count
      PROVE  \E r \in table : /\ cells[i] = Entry(r)
                              /\ Cardinality({s \in table : s.time > r.time}) < i
                              /\ Cardinality({s \in table : s.time >= r.time}) >= i
  <2>1. PICK r \in table : Rank(table, r) = i /\ cells[i] = Entry(r)
    BY DEF CacheInv, HoldsRanks
  <2> QED
    BY <1>1, <2>1, RankCounts
<1> QED
  BY <1>2 DEF CacheIsNewest, CacheInv, HoldsRanks

\* For every size of the array, and any number of calls: after each handler the
\* array of history_manager.c holds the newest rows of call_log, newest first.
THEOREM ArrayIsNewest == Spec => []CacheIsNewest
BY AlwaysCached, RanksAreNewest, PTL DEF CacheStrong

-----------------------------------------------------------------------------
(* Missed calls are shown before they leave the badge.                     *)

ReadStep ==
  \A r \in table : r.id \in read' \ read =>
    \/ \E i \in DOMAIN list' : list'[i] = Entry(r)
    \/ Cardinality({s \in table : s.time >= r.time}) > MaxHistory

\* A row has a cell, or as many rows as there are cells come before it.
LEMMA HasCell ==
  ASSUME TypeInv, CacheInv, NEW r \in table
  PROVE  \/ \E i \in 1..count : cells[i] = Entry(r)
         \/ Cardinality({s \in table : s.time >= r.time}) > MaxHistory
<1> DEFINE n == Rank(table, r)
           C == Cardinality({s \in table : s.time >= r.time})
<1>1. table \in SUBSET Rows /\ UniqueIds(table) /\ count \in Nat
  BY DEF TypeInv, TypeOK, IdsOK
<1>2. n \in Nat /\ C >= n
  BY <1>1, RankCounts
<1>3. n >= 1
  <2>1. IsFiniteSet(table) /\ IsFiniteSet({s \in table : Newer(s, r)})
    BY <1>1, RowsAreFinite, FS_Subset
  <2>2. Cardinality({s \in table : Newer(s, r)}) \in Nat
    BY <2>1, FS_CardinalityType
  <2> QED
    BY <2>2 DEF Rank
<1>4. IsFiniteSet(table) /\ IsFiniteSet({s \in table : s.time >= r.time})
  BY <1>1, RowsAreFinite, FS_Subset
<1>5. Cardinality(table) \in Nat /\ C \in Nat /\ C <= Cardinality(table)
  BY <1>4, FS_CardinalityType, FS_Subset
<1>6. count = LoadedCount(table)
  BY DEF CacheInv, HoldsRanks
<1>7. CASE n <= count
  <2> HIDE DEF n
  <2>1. n \in 1..count
    BY <1>1, <1>2, <1>3, <1>7
  <2>2. PICK s \in table : Rank(table, s) = n /\ cells[n] = Entry(s)
    BY <2>1 DEF CacheInv, HoldsRanks
  <2>3. s = r
    BY <1>1, <2>2, RankIsOne DEF n
  <2> QED
    BY <2>1, <2>2, <2>3
<1>8. CASE ~(n <= count)
  <2> HIDE DEF n, C
  <2>1. C > MaxHistory
    BY <1>1, <1>2, <1>5, <1>6, <1>8, CallLogAssumption DEF LoadedCount
  <2> QED
    BY <2>1 DEF C
<1> QED
  BY <1>7, <1>8

\* Opening the call log draws each missed call of the array.
LEMMA OpenShows == TypeInv /\ CacheInv /\ Open => ReadStep
<1> SUFFICES ASSUME TypeInv, CacheInv, Open, NEW r \in table, r.id \in read' \ read
             PROVE  \/ \E i \in DOMAIN list' : list'[i] = Entry(r)
                    \/ Cardinality({s \in table : s.time >= r.time}) > MaxHistory
  BY DEF ReadStep
<1>1. read' = read \cup {s.id : s \in {q \in table : q.missed}}
  BY DEF Open
<1>2. PICK s \in table : s.missed /\ s.id = r.id
  BY <1>1
<1>3. s = r
  BY <1>2 DEF TypeInv, IdsOK, UniqueIds
<1>4. r.missed
  BY <1>2, <1>3
<1>5. CASE \E i \in 1..count : cells[i] = Entry(r)
  <2>1. PICK i \in 1..count : cells[i] = Entry(r)
    BY <1>5
  <2>2. cells[i].missed
    BY <1>4, <2>1 DEF Entry
  <2>3. list' = Drawn(cells, count, filter)
    BY DEF Open, Redraw
  <2>4. i \in DOMAIN Drawn(cells, count, filter) /\ Drawn(cells, count, filter)[i] = cells[i]
    BY <2>2 DEF Drawn
  <2> QED
    BY <2>1, <2>3, <2>4
<1> QED
  BY <1>5, HasCell

\* Nothing else marks a call as read.
LEMMA NextReads == TypeInv /\ CacheInv /\ [Next]_vars => [ReadStep]_vars
<1> SUFFICES ASSUME TypeInv, CacheInv, [Next]_vars
             PROVE  ReadStep
  OBVIOUS
<1>1. CASE Open
  BY <1>1, OpenShows
<1>2. ASSUME read' = read
      PROVE  ReadStep
  BY <1>2 DEF ReadStep
<1>3. ASSUME NEW n \in Numbers, NEW missed \in BOOLEAN, CallEnds(n, missed)
      PROVE  read' = read
  BY <1>3 DEF CallEnds
<1>4. CASE \/ Second \/ Restart \/ DeleteSelected \/ MenuDelete
           \/ Leave \/ ToggleEdit \/ MenuCancel
           \/ \E missedOnly \in BOOLEAN : SetFilter(missedOnly)
           \/ \E i \in Cells : ClickBox(i) \/ ClickRow(i) \/ LongPress(i)
  <2>1. read' = read
    BY <1>4 DEF Second, Restart, DeleteSelected, MenuDelete, Leave, ToggleEdit, MenuCancel,
                SetFilter, ClickBox, ClickRow, LongPress, dbVars
  <2> QED
    BY <2>1, <1>2
<1>5. CASE UNCHANGED vars
  BY <1>5, <1>2 DEF vars, dbVars
<1> QED
  BY <1>1, <1>2, <1>3, <1>4, <1>5 DEF Next

\* For every size of the array, and any number of calls: call_log_start() and
\* call_log_resume() mark a missed call as read only when its row is drawn, or
\* when enough newer rows leave no cell for it.
THEOREM MissedAreShown == Spec => ReadWasShown
<1>1. CacheStrong /\ [Next]_vars => [ReadStep]_vars
  BY NextReads DEF CacheStrong
<1> QED
  BY <1>1, AlwaysCached, PTL DEF Spec, ReadWasShown, ReadStep
=============================================================================
