--------------------------------- MODULE Chat ---------------------------------
(***************************************************************************)
(* The messages: the table chat_messages of the database, the manager that *)
(* stores what is received and what is sent, and the list of threads, the  *)
(* conversation and the form for a new message of chat_applet.c.           *)
(*                                                                         *)
(* The widgets of a thread keep its position in the array of threads, and  *)
(* so do the ticks.  Messages arrive at any time, also while the applet is *)
(* in the background; what is sent waits in the queue of commands.         *)
(*                                                                         *)
(* The text of a message is left out.  A definition named ...Slip is not   *)
(* part of the model: it is a variant of the one after it, with a mistake  *)
(* that a property below detects.                                          *)
(***************************************************************************)
EXTENDS Integers, FiniteSets, Sequences

CONSTANTS
  Peers,       \* the addresses of the peers, as the table stores them
  Written,     \* what is written as a recipient: an address, or less, or more
  Stored,      \* the address that a message to a written recipient is stored with
  Contains,    \* the pairs of written texts, of which the first contains the second
  MaxThreads,  \* MAX_CHAT_THREADS
  MaxShown,    \* the messages that a conversation asks for, the oldest ones
  QueueSize,   \* the commands that the queue can hold
  MaxAdded,    \* bound of the model: messages stored in one behaviour
  MaxTime      \* bound of the model: seconds that pass

Alike(p, w) == <<p, w>> \in Contains \/ <<w, p>> \in Contains

ASSUME ChatAssumption ==
  /\ Peers \subseteq Written
  /\ Stored \in [Written -> Peers]
  /\ \A p \in Peers : Stored[p] = p
  /\ Contains \subseteq Written \X Written
  /\ \A w \in Written : Alike(Stored[w], w)
  /\ {MaxThreads, MaxShown, QueueSize} \subseteq Nat \ {0}
  /\ {MaxAdded, MaxTime} \subseteq Nat

VARIABLES
  table,      \* the rows of chat_messages
  unread,     \* the ids of the incoming rows with the status 0
  added,      \* the last id given out
  clock,      \* time(NULL)
  queue,      \* the recipients of the messages in the queue of commands
  opened,     \* has chat_init() run: g_data and the callback of the manager
  shown,      \* is the applet on the display?
  view,       \* the view without the flag HIDDEN
  current,    \* current_peer, and the messages drawn as bubbles with their ids
  threads,    \* g_chat_threads, as far as g_chat_thread_count
  list,       \* the peers of the threads on the screen
  selecting,  \* g_chat_selection_mode
  marks,      \* its domain is g_chat_selected_mask; history: what each tick was on
  moved,      \* history: was the list loaded again since the selection began?
  fab,        \* is the trash button visible?
  menu,       \* g_context_menu_peer, and history: what was pressed
  pressed     \* g_chat_long_pressed

dbVars == <<table, unread, added, clock>>
listVars == <<threads, list, selecting, marks, moved, fab>>
vars == <<dbVars, queue, opened, shown, view, current, listVars, menu, pressed>>

Rows == [id : 1..MaxAdded, peer : Peers, out : BOOLEAN, time : 0..MaxTime]
NoConversation == [peer |-> <<>>, bubbles |-> {}]
NoMarks == [i \in {} |-> <<>>]
NoMenu == [peer |-> <<>>, shown |-> <<>>]

TypeOK ==
  /\ table \subseteq Rows
  /\ \A r, s \in table : r.id = s.id => r = s
  /\ unread \subseteq {r.id : r \in {s \in table : ~s.out}}
  /\ added \in 0..MaxAdded
  /\ \A r \in table : r.id <= added
  /\ clock \in 0..MaxTime
  /\ queue \in Seq(Written) /\ Len(queue) <= QueueSize
  /\ {opened, shown, selecting, moved, fab, pressed} \subseteq BOOLEAN
  /\ view \in {"list", "detail", "compose"}
  /\ current \in [peer : Written, bubbles : SUBSET (1..MaxAdded)] \cup {NoConversation}
  /\ threads \in Seq(Rows) /\ Len(threads) <= MaxThreads
  /\ list \in Seq(Peers)
  /\ marks \in UNION {[S -> Peers] : S \in SUBSET (1..MaxThreads)}
  /\ menu \in [peer : Peers, shown : Peers] \cup {NoMenu}

-----------------------------------------------------------------------------
(* The table.                                                              *)

\* "WHERE id IN (SELECT MAX(id) ... GROUP BY peer_uri)"
Latest(t) == {r \in t : \A s \in t : s.peer = r.peer => s.id <= r.id}

\* "ORDER BY timestamp DESC"; rows of one second come in the order of their ids.
Newer(r, s) == r.time > s.time \/ (r.time = s.time /\ r.id < s.id)

Rank(t, r) == Cardinality({s \in t : Newer(s, r)}) + 1

\* db_chat_get_threads()
Threads(t) ==
  LET n == Cardinality(Latest(t))
  IN [i \in 1..(IF n < MaxThreads THEN n ELSE MaxThreads) |->
        CHOOSE r \in Latest(t) : Rank(Latest(t), r) = i]

\* db_chat_get_history(): the oldest messages with the peer.
History(t, w) ==
  {r \in t : r.peer = w /\ Cardinality({s \in t : s.peer = w /\ s.id < r.id}) < MaxShown}

\* db_chat_add(), which cuts the address to the form that is stored
Add(p, out) ==
  /\ added < MaxAdded
  /\ added' = added + 1
  /\ table' = table \cup {[id |-> added', peer |-> p, out |-> out, time |-> clock]}
  /\ unread' = IF out THEN unread ELSE unread \cup {added'}
  /\ UNCHANGED clock

\* db_chat_delete_thread(), for each of the peers
DeleteThreads(P) ==
  /\ table' = {r \in table : r.peer \notin P}
  /\ unread' = unread \cap {r.id : r \in table'}
  /\ UNCHANGED <<added, clock>>

\* db_chat_bump_thread(): the last message becomes one of now.
Bumped(t, p) == {IF r \in Latest(t) /\ r.peer = p THEN [r EXCEPT !.time = clock] ELSE r : r \in t}

QueuedSlip(q, to) == q \o to

\* cmd_enqueue(): what finds no place is dropped, and nobody looks at the result.
Queued(q, to) ==
  LET all == q \o to
  IN SubSeq(all, 1, IF Len(all) < QueueSize THEN Len(all) ELSE QueueSize)

-----------------------------------------------------------------------------
(* The views.  The operators read what the handler has settled before.     *)

LoadThreadsSlip ==
  /\ threads' = Threads(table')
  /\ UNCHANGED list

\* db_chat_get_threads() and populate_chat_list()
LoadThreads ==
  /\ threads' = Threads(table')
  /\ list' = [i \in DOMAIN threads' |-> threads'[i].peer]

\* update_trash_visibility()
UpdateTrash == fab' = (selecting' /\ \E i \in DOMAIN marks' : i \in DOMAIN threads')

\* show_list_screen()
ShowList ==
  /\ view' = "list"
  /\ selecting' = FALSE
  /\ UNCHANGED <<marks, moved>>
  /\ LoadThreads
  /\ UpdateTrash

\* show_detail_screen() and db_mark_chat_read(): both by the very text w.
ShowDetail(w) ==
  /\ view' = "detail"
  /\ current' = [peer |-> w, bubbles |-> {r.id : r \in History(table, w)}]
  /\ unread' = unread \ {r.id : r \in {s \in table : s.peer = w}}
  /\ UNCHANGED <<table, added, clock, listVars>>

\* show_compose_screen()
ShowCompose ==
  /\ view' = "compose"
  /\ UNCHANGED <<dbVars, current, listVars>>

-----------------------------------------------------------------------------
Init ==
  /\ table = {}
  /\ unread = {}
  /\ added = 0
  /\ clock = 0
  /\ queue = <<>>
  /\ opened = FALSE
  /\ shown = FALSE
  /\ view = "list"
  /\ current = NoConversation
  /\ threads = <<>>
  /\ list = <<>>
  /\ selecting = FALSE
  /\ marks = NoMarks
  /\ moved = FALSE
  /\ fab = FALSE
  /\ menu = NoMenu
  /\ pressed = FALSE

\* The program ends or crashes, and is started again.
Restart ==
  /\ UNCHANGED dbVars
  /\ queue' = <<>>
  /\ opened' = FALSE
  /\ shown' = FALSE
  /\ view' = "list"
  /\ current' = NoConversation
  /\ threads' = <<>>
  /\ list' = <<>>
  /\ selecting' = FALSE
  /\ marks' = NoMarks
  /\ moved' = FALSE
  /\ fab' = FALSE
  /\ menu' = NoMenu
  /\ pressed' = FALSE

Second ==
  /\ clock < MaxTime
  /\ clock' = clock + 1
  /\ UNCHANGED <<table, unread, added, queue, opened, shown, view, current, listVars, menu, pressed>>

BubblesSlip(p) ==
  IF view = "detail" /\ p = current.peer
    THEN [current EXCEPT !.bubbles = @ \cup {added + 1}]
    ELSE current

\* A message is appended to the conversation with a peer alike.
Bubbles(p) ==
  IF view = "detail" /\ Alike(p, current.peer)
    THEN [current EXCEPT !.bubbles = @ \cup {added + 1}]
    ELSE current

\* message_handler() and, once the applet is initialised, chat_msg_handler():
\* a list that is not hidden is loaded again, the marks and the trash stay.
Receive(p) ==
  /\ Add(p, FALSE)
  /\ current' = IF opened THEN Bubbles(p) ELSE current
  /\ UNCHANGED <<queue, opened, shown, view, selecting, marks, fab, menu, pressed>>
  /\ IF opened /\ view = "list"
       THEN LoadThreads /\ moved' = TRUE
       ELSE UNCHANGED <<threads, list, moved>>

\* internal_send_message(), for the next command: without an account, or when
\* message_send() fails, nothing is stored.
Execute ==
  /\ queue # <<>>
  /\ queue' = Tail(queue)
  /\ \/ Add(Stored[Head(queue)], TRUE)
     \/ UNCHANGED dbVars
  /\ UNCHANGED <<opened, shown, view, current, listVars, menu, pressed>>

-----------------------------------------------------------------------------
(* The applet comes and goes.  The context menu covers every applet.       *)

\* chat_init() and chat_start(): the first launch.
FirstOpened ==
  /\ opened' = TRUE
  /\ UNCHANGED <<dbVars, current>>
  /\ ShowList

\* A launch, or the way back; there is no chat_resume().
Enter ==
  /\ ~shown
  /\ shown' = TRUE
  /\ UNCHANGED <<queue, menu, pressed>>
  /\ IF opened THEN UNCHANGED <<dbVars, opened, view, current, listVars>> ELSE FirstOpened

Leave ==
  /\ shown
  /\ shown' = FALSE
  /\ UNCHANGED <<dbVars, queue, opened, view, current, listVars, menu, pressed>>

\* chat_applet_open_peer() and the launch after it, by the call log: the first
\* thread of the array, which may be old, whose peer contains the number.
OpenPeer(w) ==
  LET found == {i \in DOMAIN threads : <<threads[i].peer, w>> \in Contains}
  IN /\ ~shown /\ menu = NoMenu
     /\ shown' = TRUE
     /\ UNCHANGED <<queue, menu, pressed>>
     /\ IF ~opened
          THEN FirstOpened
          ELSE /\ UNCHANGED opened
               /\ IF found = {} THEN ShowCompose
                  ELSE \E i \in found : /\ \A j \in found : i <= j
                                        /\ ShowDetail(threads[i].peer)

-----------------------------------------------------------------------------
(* The handlers of the applet.                                             *)

Touched == shown /\ menu = NoMenu
InList == Touched /\ view = "list"

\* list_item_clicked(), outside the selection
OpenThread(i) ==
  /\ InList /\ ~selecting /\ ~pressed /\ i \in DOMAIN list \cap DOMAIN threads
  /\ ShowDetail(threads[i].peer)
  /\ UNCHANGED <<queue, opened, shown, menu, pressed>>

\* back_to_list_clicked() and compose_back_clicked()
BackToList ==
  /\ Touched /\ view # "list"
  /\ UNCHANGED <<dbVars, queue, opened, shown, current, menu, pressed>>
  /\ ShowList

\* new_chat_clicked(), hidden in the selection
NewChat ==
  /\ InList /\ ~selecting
  /\ ShowCompose
  /\ UNCHANGED <<queue, opened, shown, menu, pressed>>

\* send_compose_clicked(), with the recipients that are left of the field.
SendCompose(to) ==
  /\ Touched /\ view = "compose"
  /\ queue' = Queued(queue, to)
  /\ UNCHANGED <<opened, shown, menu, pressed>>
  /\ IF to = <<>> THEN UNCHANGED <<dbVars, current>> /\ ShowList
     ELSE ShowDetail(to[Len(to)])

\* send_clicked(); its bubble has no id.
Send ==
  /\ Touched /\ view = "detail"
  /\ queue' = Queued(queue, <<current.peer>>)
  /\ UNCHANGED <<dbVars, opened, shown, view, current, listVars, menu, pressed>>

\* toggle_selection_clicked()
ToggleSelection ==
  /\ InList
  /\ selecting' = ~selecting
  /\ marks' = IF selecting THEN marks ELSE NoMarks
  /\ moved' = (selecting /\ moved)
  /\ UNCHANGED <<dbVars, queue, opened, shown, view, current, threads, menu, pressed>>
  /\ list' = [i \in DOMAIN threads |-> threads[i].peer]
  /\ UpdateTrash

\* list_item_clicked() in the selection
Tick(i) ==
  /\ InList /\ selecting /\ ~pressed /\ i \in DOMAIN list \cap DOMAIN threads
  /\ marks' = IF i \in DOMAIN marks
                THEN [j \in DOMAIN marks \ {i} |-> marks[j]]
                ELSE [j \in DOMAIN marks \cup {i} |-> IF j = i THEN list[i] ELSE marks[j]]
  /\ UNCHANGED <<dbVars, queue, opened, shown, view, current, threads, list, selecting, moved, menu,
                 pressed>>
  /\ UpdateTrash

\* delete_selected_clicked()
Trash ==
  /\ InList /\ fab
  /\ DeleteThreads({threads[i].peer : i \in DOMAIN marks \cap DOMAIN threads})
  /\ selecting' = FALSE
  /\ UNCHANGED <<queue, opened, shown, view, current, marks, moved, menu, pressed>>
  /\ LoadThreads
  /\ UpdateTrash

\* list_item_clicked() for a long press
LongPress(i) ==
  /\ InList /\ ~selecting /\ i \in DOMAIN list \cap DOMAIN threads
  /\ pressed' = TRUE
  /\ menu' = [peer |-> threads[i].peer, shown |-> list[i]]
  /\ UNCHANGED <<dbVars, queue, opened, shown, view, current, listVars>>

\* list_item_clicked() when the finger is lifted, or else on the next click
Release ==
  /\ shown /\ view = "list" /\ pressed
  /\ pressed' = FALSE
  /\ UNCHANGED <<dbVars, queue, opened, shown, view, current, listVars, menu>>

\* context_bg_clicked(), and menu_add_contact_clicked(), which goes to the
\* contacts.
MenuClosed ==
  /\ menu # NoMenu
  /\ menu' = NoMenu
  /\ shown' \in {shown, FALSE}
  /\ UNCHANGED <<dbVars, queue, opened, view, current, listVars, pressed>>

\* menu_move_top_clicked()
MenuTop ==
  /\ menu # NoMenu
  /\ menu' = NoMenu
  /\ table' = Bumped(table, menu.peer)
  /\ UNCHANGED <<unread, added, clock, queue, opened, shown, view, current, selecting, marks, moved,
                 fab, pressed>>
  /\ LoadThreads

\* menu_delete_clicked()
MenuDelete ==
  /\ menu # NoMenu
  /\ menu' = NoMenu
  /\ DeleteThreads({menu.peer})
  /\ UNCHANGED <<queue, opened, shown, view, current, selecting, marks, moved, fab, pressed>>
  /\ LoadThreads

\* The field of the recipients, which also the contact picker writes into,
\* holds none, one or two of them.
Recipients == {<<>>} \cup {<<w>> : w \in Written} \cup {<<v, w>> : v, w \in Written}

Next ==
  \/ Restart
  \/ Second
  \/ \E p \in Peers : Receive(p)
  \/ Execute
  \/ Enter
  \/ Leave
  \/ \E w \in Written : OpenPeer(w)
  \/ \E i \in 1..MaxThreads : OpenThread(i)
  \/ BackToList
  \/ NewChat
  \/ \E to \in Recipients : SendCompose(to)
  \/ Send
  \/ ToggleSelection
  \/ \E i \in 1..MaxThreads : Tick(i)
  \/ Trash
  \/ \E i \in 1..MaxThreads : LongPress(i)
  \/ Release
  \/ MenuClosed
  \/ MenuTop
  \/ MenuDelete

Spec == Init /\ [][Next]_vars

-----------------------------------------------------------------------------
(* Properties                                                              *)

\* Unless the list was loaded again since the selection began, the trash button
\* deletes exactly the conversations that were ticked, although only positions
\* are kept; and the menu, which keeps the address, deletes the one that was
\* pressed, whatever has arrived in between.
DeletesWhatIsTicked ==
  [][/\ Trash /\ ~moved =>
          table \ table' = {r \in table : r.peer \in {marks[i] : i \in DOMAIN marks}}
     /\ MenuDelete => table \ table' = {r \in table : r.peer = menu.shown}]_vars

\* What comes in is not missed: it leaves the unread messages only by being
\* deleted or drawn in its conversation, if that is not longer than what a
\* conversation draws; and what comes in for the conversation on the screen,
\* in the background too, is drawn, however its recipient was written.
IncomingIsShown ==
  [][\A r \in table' :
       /\ r.id \in unread \ unread' =>
            r.id \in current'.bubbles \/ r \notin History(table', r.peer)
       /\ r \notin table /\ r.id > added /\ ~r.out /\ opened /\ view = "detail"
            /\ r.peer = Stored[current.peer] => r.id \in current'.bubbles]_vars
=============================================================================
