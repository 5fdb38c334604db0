------------------------------- MODULE CallLog -------------------------------
(***************************************************************************)
(* The call history: the table call_log of the database, the array of      *)
(* history_manager.c that is loaded from it, and the screen of             *)
(* call_log_applet.c that shows the array and deletes from it.             *)
(*                                                                         *)
(* The widgets keep positions in the array.  Calls end at any time and     *)
(* reload it, also while rows are ticked or the context menu is open.      *)
(*                                                                         *)
(* A definition named ...Slip is not part of the model: it is a variant of *)
(* the one after it, with a mistake that a property below detects.         *)
(***************************************************************************)
EXTENDS Integers, FiniteSets

CONSTANTS
  Numbers,     \* the numbers of the peers
  NoNumber,    \* the number of a cell that was never loaded
  MaxHistory,  \* MAX_HISTORY, and the LIMIT of the query
  MaxAdded,    \* bound of the model: rows written in one behaviour
  MaxTime      \* bound of the model: seconds that pass

ASSUME CallLogAssumption ==
  /\ NoNumber \notin Numbers
  /\ MaxHistory \in Nat \ {0}
  /\ MaxAdded \in Nat
  /\ MaxTime \in Nat

VARIABLES
  table,      \* the rows of call_log
  read,       \* the ids of the rows with is_read
  cells,      \* g_history
  count,      \* g_history_count
  clock,      \* time(NULL)
  added,      \* the last id given out
  shown,      \* is the call log on the display?
  filter,     \* g_filter_missed_only
  list,       \* the rows on the screen
  selecting,  \* g_selection_mode
  ticked,     \* its domain is g_selected_items; history: what each tick was on
  steady,     \* history: is the array the one the selection was begun on?
  fab,        \* is the trash button visible?
  menu        \* the context menu, and history: is the array the one it was opened on?

dbVars == <<table, read, cells, count, clock, added>>
uiVars == <<shown, filter, list, selecting, ticked, steady, fab, menu>>
vars == <<dbVars, uiVars>>

Cells == 1..MaxHistory
Entries == [number : Numbers, missed : BOOLEAN, time : 0..MaxTime]
NoEntry == [number |-> NoNumber, missed |-> FALSE, time |-> 0]
Rows == [id : 1..MaxAdded, number : Numbers, missed : BOOLEAN, time : 0..MaxTime]
NoRows == [i \in {} |-> NoEntry]
NoMenu == [index |-> 0, entry |-> NoEntry, steady |-> FALSE]

\* A function from positions to entries.
PartialLists == UNION {[S -> Entries \cup {NoEntry}] : S \in SUBSET Cells}

TypeOK ==
  /\ table \subseteq Rows
  /\ read \subseteq 1..MaxAdded
  /\ cells \in [Cells -> Entries \cup {NoEntry}]
  /\ count \in 0..MaxHistory
  /\ clock \in 0..MaxTime
  /\ added \in 0..MaxAdded
  /\ {shown, filter, selecting, steady, fab} \subseteq BOOLEAN
  /\ {list, ticked} \subseteq PartialLists
  /\ menu \in [index : 0..MaxHistory, entry : Entries \cup {NoEntry}, steady : BOOLEAN]

-----------------------------------------------------------------------------
(* The query "ORDER BY timestamp DESC LIMIT 100"; rows of one second come  *)
(* in the order of their ids.                                              *)

Entry(r) == [number |-> r.number, missed |-> r.missed, time |-> r.time]

NewerSlip(r, s) == r.id < s.id

Newer(r, s) == r.time > s.time \/ (r.time = s.time /\ r.id < s.id)

Rank(t, r) == Cardinality({s \in t : Newer(s, r)}) + 1
Ranked(t, i) == {r \in t : Rank(t, r) = i}

LoadedCountSlip(t) == Cardinality(t)

LoadedCount(t) == IF Cardinality(t) < MaxHistory THEN Cardinality(t) ELSE MaxHistory

\* history_load(): the cells after the last row keep what they held.
Loaded(old, t) ==
  [i \in Cells |-> IF Ranked(t, i) # {} THEN Entry(CHOOSE r \in Ranked(t, i) : TRUE)
                                        ELSE old[i]]

Load(old, t) ==
  /\ cells' = Loaded(old, t)
  /\ count' = LoadedCount(t)

\* "DELETE FROM call_log WHERE timestamp=? AND number=?"
MatchesSlip(r, e) == r.time = e.time

Matches(r, e) == r.time = e.time /\ r.number = e.number

Without(t, E) == {r \in t : \A e \in E : ~Matches(r, e)}

\* populate_log_list(): what is drawn of the array c, of which n cells are full.
DrawnSlip(c, n, missedOnly) == [i \in {j \in 1..n : missedOnly => ~c[j].missed} |-> c[i]]

Drawn(c, n, missedOnly) == [i \in {j \in 1..n : missedOnly => c[j].missed} |-> c[i]]

\* Its last step in every handler: what it reads is then settled.
Redraw == list' = Drawn(cells', count', filter')

-----------------------------------------------------------------------------
Init ==
  /\ table = {}
  /\ read = {}
  /\ cells = [i \in Cells |-> NoEntry]
  /\ count = 0
  /\ clock = 0
  /\ added = 0
  /\ shown = FALSE
  /\ filter = FALSE
  /\ list = NoRows
  /\ selecting = FALSE
  /\ ticked = NoRows
  /\ steady = FALSE
  /\ fab = FALSE
  /\ menu = NoMenu

\* A second passes.
Second ==
  /\ clock < MaxTime
  /\ clock' = clock + 1
  /\ UNCHANGED <<table, read, cells, count, added, uiVars>>

\* history_add(), called when a call ends.
CallEnds(n, missed) ==
  /\ added < MaxAdded
  /\ added' = added + 1
  /\ table' = table \cup {[id |-> added', number |-> n, missed |-> missed, time |-> clock]}
  /\ Load(cells, table')
  /\ steady' = FALSE
  /\ menu' = [menu EXCEPT !.steady = FALSE]
  /\ UNCHANGED <<read, clock, shown, filter, list, selecting, ticked, fab>>

\* The program ends or crashes, and is started again: history_manager_init().
Restart ==
  /\ Load([i \in Cells |-> NoEntry], table)
  /\ shown' = FALSE
  /\ filter' = FALSE
  /\ list' = NoRows
  /\ selecting' = FALSE
  /\ ticked' = NoRows
  /\ steady' = FALSE
  /\ fab' = FALSE
  /\ menu' = NoMenu
  /\ UNCHANGED <<table, read, clock, added>>

-----------------------------------------------------------------------------
(* The call log comes and goes, also by a call that takes the display and  *)
(* gives it back.  The context menu stays open above whatever is shown.    *)

\* call_log_start() and call_log_resume()
Open ==
  /\ ~shown
  /\ shown' = TRUE
  /\ read' = read \cup {r.id : r \in {s \in table : s.missed}}
  /\ UNCHANGED <<table, cells, count, clock, added, filter, selecting, ticked,
                 steady, fab, menu>>
  /\ Redraw

Leave ==
  /\ shown
  /\ shown' = FALSE
  /\ UNCHANGED <<dbVars, filter, list, selecting, ticked, steady, fab, menu>>

Touched == shown /\ menu = NoMenu

\* filter_all_clicked() and filter_missed_clicked()
SetFilter(missedOnly) ==
  /\ Touched
  /\ filter' = missedOnly
  /\ UNCHANGED <<dbVars, shown, selecting, ticked, steady, fab, menu>>
  /\ Redraw

\* toggle_edit_mode_clicked()
ToggleEdit ==
  /\ Touched
  /\ selecting' = ~selecting
  /\ ticked' = IF selecting THEN ticked ELSE NoRows
  /\ steady' = (selecting => steady)
  /\ UNCHANGED <<dbVars, shown, filter, fab, menu>>
  /\ Redraw

Toggled(i) ==
  IF i \in DOMAIN ticked
    THEN [j \in DOMAIN ticked \ {i} |-> ticked[j]]
    ELSE [j \in DOMAIN ticked \cup {i} |-> IF j = i THEN list[i] ELSE ticked[j]]

\* list_checkbox_cb()
ClickBox(i) ==
  /\ Touched /\ selecting /\ i \in DOMAIN list
  /\ ticked' = Toggled(i)
  /\ fab' = (DOMAIN ticked' # {})
  /\ UNCHANGED <<dbVars, shown, filter, list, selecting, steady, menu>>

\* log_item_toggle_select(), which leaves the trash button as it is.
ClickRow(i) ==
  /\ Touched /\ selecting /\ i \in DOMAIN list
  /\ ticked' = Toggled(i)
  /\ UNCHANGED <<dbVars, shown, filter, selecting, steady, fab, menu>>
  /\ Redraw

\* delete_selected_logs_clicked() and history_delete_mask(): the mask and the
\* button stay as they are.
DeleteSelected ==
  /\ Touched /\ fab
  /\ table' = Without(table, {cells[i] : i \in DOMAIN ticked})
  /\ Load(cells, table')
  /\ selecting' = FALSE
  /\ steady' = FALSE
  /\ UNCHANGED <<read, clock, added, shown, filter, ticked, fab, menu>>
  /\ Redraw

\* log_long_press_handler()
LongPress(i) ==
  /\ Touched /\ ~selecting /\ i \in DOMAIN list /\ i <= count
  /\ menu' = [index |-> i, entry |-> cells[i], steady |-> TRUE]
  /\ UNCHANGED <<dbVars, shown, filter, list, selecting, ticked, steady, fab>>

\* context_menu_cancel(), and the choices that only close the menu here.
MenuCancel ==
  /\ menu # NoMenu
  /\ menu' = NoMenu
  /\ UNCHANGED <<dbVars, shown, filter, list, selecting, ticked, steady, fab>>

\* context_menu_delete_log_refresh() and history_remove()
MenuDelete ==
  /\ menu # NoMenu
  /\ IF menu.index <= count
       THEN /\ table' = Without(table, {cells[menu.index]})
            /\ Load(cells, table')
       ELSE UNCHANGED <<table, cells, count>>
  /\ menu' = NoMenu
  /\ steady' = FALSE
  /\ UNCHANGED <<read, clock, added, shown, filter, selecting, ticked, fab>>
  /\ Redraw

Next ==
  \/ Second
  \/ \E n \in Numbers, missed \in BOOLEAN : CallEnds(n, missed)
  \/ Restart
  \/ Open
  \/ Leave
  \/ \E missedOnly \in BOOLEAN : SetFilter(missedOnly)
  \/ ToggleEdit
  \/ \E i \in Cells : ClickBox(i)
  \/ \E i \in Cells : ClickRow(i)
  \/ DeleteSelected
  \/ \E i \in Cells : LongPress(i)
  \/ MenuCancel
  \/ MenuDelete

Spec == Init /\ [][Next]_vars

-----------------------------------------------------------------------------
(* Properties                                                              *)

\* The array holds the newest rows of the table, newest first: whatever is
\* written or deleted, no handler returns with an array that is out of date.
CacheIsNewest ==
  /\ count = LoadedCount(table)
  /\ \A i \in 1..count : \E r \in table :
       /\ cells[i] = Entry(r)
       /\ Cardinality({s \in table : s.time > r.time}) < i
       /\ Cardinality({s \in table : s.time >= r.time}) >= i

\* The rows of the calls that the user saw when choosing them: the query cannot
\* tell calls of one number in one second apart.
Twins(E) == {r \in table : \E e \in E : r.time = e.time /\ r.number = e.number}

\* As long as the array is the one that the selection was begun on, that is, until
\* a call ends or rows are deleted, the trash button deletes exactly the entries
\* that were ticked, also after edit mode was left; and as long as it is the one that
\* the context menu was opened on, the menu deletes its entry.  Entries of one
\* number in one second go together.
DeletesWhatIsShown ==
  [][/\ DeleteSelected /\ steady =>
          table \ table' = Twins({ticked[i] : i \in DOMAIN ticked})
     /\ MenuDelete /\ menu.steady => table \ table' = Twins({menu.entry})]_vars

\* A missed call leaves the badge only by being shown: it is marked read when
\* it is drawn in the list, or has fallen out of the newest MaxHistory rows.
ReadWasShown ==
  [][\A r \in table : r.id \in read' \ read =>
       \/ \E i \in DOMAIN list' : list'[i] = Entry(r)
       \/ Cardinality({s \in table : s.time >= r.time}) > MaxHistory]_vars

-----------------------------------------------------------------------------
(* What a comment says, and the code does otherwise: checked by a run that *)
(* expects TLC to refute it.                                               *)

\* "Since we delete by ID/Timestamp, order doesn't matter provided g_history hasn't
\* changed": whatever changed in between, the trash button deletes no entry but
\* the ticked ones.
DeletesOnlyTicked ==
  [][DeleteSelected => table \ table' \subseteq Twins({ticked[i] : i \in DOMAIN ticked})]_vars
=============================================================================
