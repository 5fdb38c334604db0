------------------------------- MODULE Contacts -------------------------------
(***************************************************************************)
(* The contacts: the table of the database, the array of contact_manager.c *)
(* that is loaded from it, the list and the editor of contacts_applet.c,   *)
(* and the dock of favourites of home_applet.c.                            *)
(*                                                                         *)
(* The widgets of a row keep the address of its cell in the array, the     *)
(* ticks keep positions, and the editor and the context menu keep copies.  *)
(* The editor is also opened by other applets, for a number of theirs, and *)
(* calls take the display at any time and give it back.                    *)
(*                                                                         *)
(* A definition named ...Slip is not part of the model: it is a variant of *)
(* the one after it, with a mistake that a property below detects.         *)
(***************************************************************************)
EXTENDS Integers, FiniteSets, Sequences

CONSTANTS
  Texts,        \* the names and numbers that a contact can have
  Blank,        \* the empty name and number
  MaxContacts,  \* MAX_CONTACTS, and the LIMIT of the query
  DockSize,     \* the favourites that the home screen asks for
  MaxAdded      \* bound of the model: contacts added in one behaviour

ASSUME ContactsAssumption ==
  /\ Blank \notin Texts
  /\ MaxContacts \in Nat \ {0}
  /\ DockSize \in Nat \ {0}
  /\ MaxAdded \in Nat

VARIABLES
  table,      \* the rows of contacts
  added,      \* the last id given out
  contacts,   \* g_contacts, as far as g_count
  dock,       \* the favourites on the home screen
  front,      \* the applet on the display
  opened,     \* has contacts_init() run?
  editor,     \* is_editor_mode
  isNew,      \* is_new_contact
  edited,     \* current_edit_contact
  toCaller,   \* g_return_to_caller
  selecting,  \* g_contacts_selection_mode
  ticked,     \* the positions in g_contacts_selected_mask
  drawn,      \* the rows of the list on the screen of the applet
  menu,       \* g_context_menu_contact, while the menu is open
  pressed,    \* g_long_press_handled
  picker      \* the account picker: lost when it is deleted with the screen

dbVars == <<table, added, contacts>>
editVars == <<editor, isNew, edited, toCaller>>
listVars == <<selecting, ticked>>
vars == <<dbVars, dock, front, opened, editVars, listVars, drawn, menu, pressed, picker>>

Contact == [id : 1..MaxAdded, text : Texts, fav : BOOLEAN]
NoContact == [id |-> 0, text |-> Blank, fav |-> FALSE]

TypeOK ==
  /\ table \subseteq Contact
  /\ \A r, s \in table : r.id = s.id => r = s
  /\ added \in 0..MaxAdded
  /\ \A r \in table : r.id <= added
  /\ {contacts, dock, drawn} \subseteq Seq(Contact)
  /\ Len(contacts) <= MaxContacts
  /\ front \in {"Home", "Contacts", "other"}
  /\ {opened, editor, isNew, toCaller, selecting, pressed} \subseteq BOOLEAN
  /\ {edited, menu} \subseteq Contact \cup {NoContact}
  /\ ticked \subseteq 1..MaxContacts
  /\ picker \in {"closed", "open", "lost"}

-----------------------------------------------------------------------------
(* The table and the array.                                                *)

Place(t, r) == Cardinality({s \in t : s.id <= r.id})

FirstSlip(t, n) == [i \in 1..Cardinality(t) |-> CHOOSE r \in t : Place(t, r) = i]

\* "SELECT ... LIMIT n": the first rows, in the order of their ids.
First(t, n) ==
  [i \in 1..(IF Cardinality(t) < n THEN Cardinality(t) ELSE n) |->
     CHOOSE r \in t : Place(t, r) = i]

\* cm_load()
Loaded(t) == First(t, MaxContacts)

\* db_get_favorite_contacts()
Favourites(t) == First({r \in t : r.fav}, DockSize)

\* cm_update(): no row has an id that was deleted.
Updated(t, id, text, fav) ==
  {IF r.id = id THEN [id |-> id, text |-> text, fav |-> fav] ELSE r : r \in t}

\* cm_delete()
Deleted(t, id) == {r \in t : r.id # id}

\* One round of the loop below.
Round(t, marks, i) ==
  IF i \in marks /\ i <= Len(Loaded(t)) THEN Deleted(t, Loaded(t)[i].id) ELSE t

DeletedMarkedSlip(t, marks) ==
  LET n == Len(Loaded(t))
      after[i \in 0..n] == IF i = 0 THEN t ELSE Round(after[i - 1], marks, i)
  IN after[n]

\* contacts_delete_selected_clicked(): from the last position to the first,
\* reading the array that each deletion has loaded again.
DeletedMarked(t, marks) ==
  LET n == Len(Loaded(t))
      after[i \in 0..n] == IF i = 0 THEN t ELSE Round(after[i - 1], marks, n + 1 - i)
  IN after[n]

-----------------------------------------------------------------------------
(* The screens.  The operators read what the handler has settled before.   *)

\* refresh_ui(): the screen is emptied, and an open picker with it; the list,
\* unlike the editor, loads the array.
Redraw ==
  /\ contacts' = IF editor' THEN contacts ELSE Loaded(table')
  /\ drawn' = IF editor' THEN <<>> ELSE contacts'
  /\ picker' = IF picker = "open" THEN "lost" ELSE picker

RedrawChangedSlip ==
  /\ contacts' = Loaded(table')
  /\ UNCHANGED <<drawn, picker>>

\* The same after cm_add(), cm_update() or cm_delete(), which load it too.
RedrawChanged ==
  /\ contacts' = Loaded(table')
  /\ drawn' = IF editor' THEN <<>> ELSE contacts'
  /\ picker' = IF picker = "open" THEN "lost" ELSE picker

\* populate_favorites(), which obeys the setting "Show Favorite Contacts".
DrawDock(t) ==
  \E show \in BOOLEAN : dock' = IF show THEN Favourites(t) ELSE <<>>

\* Another applet takes the place of the one on the display: home_resume()
\* draws the dock again.
Show(applet) ==
  /\ front' = applet
  /\ IF applet = "Home" THEN DrawDock(table) ELSE UNCHANGED dock

\* The program starts: home_init().
Init ==
  /\ table = {}
  /\ added = 0
  /\ contacts = <<>>
  /\ dock = <<>>
  /\ front = "Home"
  /\ opened = FALSE
  /\ editor = FALSE
  /\ isNew = FALSE
  /\ edited = NoContact
  /\ toCaller = FALSE
  /\ selecting = FALSE
  /\ ticked = {}
  /\ drawn = <<>>
  /\ menu = NoContact
  /\ pressed = FALSE
  /\ picker = "closed"

\* It ends or crashes, and is started again.
Restart ==
  /\ UNCHANGED <<table, added>>
  /\ contacts' = <<>>
  /\ Show("Home")
  /\ opened' = FALSE
  /\ editor' = FALSE
  /\ isNew' = FALSE
  /\ edited' = NoContact
  /\ toCaller' = FALSE
  /\ selecting' = FALSE
  /\ ticked' = {}
  /\ drawn' = <<>>
  /\ menu' = NoContact
  /\ pressed' = FALSE
  /\ picker' = "closed"

\* The display goes from one applet to another, by a touch, a swipe or a call.
\* The context menu covers all of them: then only calls move what is below it,
\* and come back to where they came from.
Elsewhere ==
  \E applet \in {"Home", "other"} :
    /\ applet # front
    /\ menu # NoContact => applet = "other"
    /\ Show(applet)
    /\ UNCHANGED <<dbVars, opened, editVars, listVars, drawn, menu, pressed, picker>>

\* contacts_init() and contacts_start(): the first launch.
FirstOpened ==
  /\ front' = "Contacts"
  /\ opened' = TRUE
  /\ editor' = FALSE
  /\ UNCHANGED <<table, added, dock, isNew, edited, toCaller, listVars, menu, pressed>>
  /\ Redraw

\* contacts_resume(), where g_preserve_view is not set.
Resumed ==
  /\ front' = "Contacts"
  /\ editor' = FALSE
  /\ UNCHANGED <<table, added, dock, opened, isNew, edited, toCaller, listVars, menu, pressed>>
  /\ IF editor THEN Redraw ELSE UNCHANGED <<contacts, drawn, picker>>

Enter ==
  /\ front # "Contacts"
  /\ menu # NoContact => front = "other"
  /\ IF opened THEN Resumed ELSE FirstOpened

\* contacts_applet_open_new() and the launch after it, by the home screen, the
\* call log or the chat.  The first one does nothing before contacts_init();
\* later, g_preserve_view makes contacts_resume() keep the editor.
OpenNew ==
  /\ front # "Contacts" /\ menu = NoContact
  /\ IF ~opened
       THEN FirstOpened
       ELSE /\ front' = "Contacts"
            /\ editor' = TRUE
            /\ isNew' = TRUE
            /\ edited' = NoContact
            /\ toCaller' = TRUE
            /\ contacts' = Loaded(table)
            /\ drawn' = <<>>
            /\ picker' = IF picker = "open" THEN "lost" ELSE picker
            /\ UNCHANGED <<table, added, dock, opened, listVars, menu, pressed>>

-----------------------------------------------------------------------------
(* The handlers of the applet.  The account picker is laid out in the flow *)
(* of the screen and does not keep touches from the rest.                  *)

Touched == front = "Contacts" /\ menu = NoContact
InList == Touched /\ ~editor
InEditor == Touched /\ editor

\* back_btn_clicked()
BackToList ==
  /\ InEditor /\ ~toCaller
  /\ editor' = FALSE
  /\ UNCHANGED <<table, added, dock, front, opened, isNew, edited, toCaller, listVars, menu, pressed>>
  /\ Redraw

BackToCaller ==
  /\ Touched /\ (editor => toCaller)
  /\ toCaller' = (toCaller /\ ~editor)
  /\ \E applet \in {"Home", "other"} : Show(applet)
  /\ UNCHANGED <<dbVars, opened, editor, isNew, edited, listVars, drawn, menu, pressed, picker>>

OpenEditor(new, contact) ==
  /\ InList /\ ~selecting
  /\ editor' = TRUE
  /\ isNew' = new
  /\ edited' = contact
  /\ UNCHANGED <<table, added, dock, front, opened, toCaller, listVars, menu, pressed>>
  /\ Redraw

\* add_btn_clicked() and edit_btn_clicked()
Add == OpenEditor(TRUE, NoContact)
Edit(i) == i \in DOMAIN drawn /\ OpenEditor(FALSE, contacts[i])

\* save_btn_clicked(), with a name and a number; without, it does nothing.
Save(text, fav) ==
  /\ InEditor
  /\ IF isNew
       THEN /\ added < MaxAdded
            /\ added' = added + 1
            /\ table' = table \cup {[id |-> added', text |-> text, fav |-> fav]}
       ELSE /\ table' = Updated(table, edited.id, text, fav)
            /\ UNCHANGED added
  /\ editor' = FALSE
  /\ UNCHANGED <<dock, front, opened, isNew, edited, toCaller, listVars, menu, pressed>>
  /\ RedrawChanged

\* delete_btn_clicked()
Delete ==
  /\ InEditor /\ ~isNew
  /\ table' = Deleted(table, edited.id)
  /\ editor' = FALSE
  /\ UNCHANGED <<added, dock, front, opened, isNew, edited, toCaller, listVars, menu, pressed>>
  /\ RedrawChanged

\* contact_item_clicked() and contact_video_clicked(), outside the selection:
\* the call is made with the default account, or the picker asks for one.
Dial ==
  /\ Touched
  /\ IF editor THEN ~isNew ELSE ~selecting /\ drawn # <<>>
  /\ \/ /\ front' = "other"
        /\ UNCHANGED picker
     \/ /\ picker' = IF picker = "closed" THEN "open" ELSE picker
        /\ UNCHANGED front
  /\ UNCHANGED <<dbVars, dock, opened, editVars, listVars, drawn, menu, pressed>>

\* account_picker_item_clicked(), where the call is placed, and
\* account_picker_cancel().
Pick ==
  /\ Touched /\ picker = "open"
  /\ picker' = "closed"
  /\ front' \in {"Contacts", "other"}
  /\ UNCHANGED <<dbVars, dock, opened, editVars, listVars, drawn, menu, pressed>>

\* contacts_toggle_edit_clicked()
ToggleEdit ==
  /\ InList
  /\ selecting' = ~selecting
  /\ ticked' = IF selecting THEN ticked ELSE {}
  /\ UNCHANGED <<table, added, dock, front, opened, editVars, menu, pressed>>
  /\ Redraw

\* contact_item_clicked() in the selection
Tick(i) ==
  /\ InList /\ selecting /\ ~pressed /\ i \in DOMAIN drawn
  /\ ticked' = IF i \in ticked THEN ticked \ {i} ELSE ticked \cup {i}
  /\ UNCHANGED <<table, added, dock, front, opened, editVars, selecting, menu, pressed>>
  /\ Redraw

\* contacts_delete_selected_clicked(): the button is drawn with the list, if a
\* row of it is ticked.
Trash ==
  /\ InList /\ selecting /\ ticked \cap DOMAIN drawn # {}
  /\ table' = DeletedMarked(table, ticked)
  /\ selecting' = FALSE
  /\ UNCHANGED <<added, dock, front, opened, editVars, ticked, menu, pressed>>
  /\ RedrawChanged

\* contact_long_press_handler()
LongPress(i) ==
  /\ InList /\ i \in DOMAIN drawn
  /\ pressed' = TRUE
  /\ menu' = contacts[i]
  /\ UNCHANGED <<dbVars, dock, front, opened, editVars, listVars, drawn, picker>>

\* contact_item_clicked() when the finger is lifted, or else on the next click
Release ==
  /\ front = "Contacts" /\ pressed
  /\ pressed' = FALSE
  /\ UNCHANGED <<dbVars, dock, front, opened, editVars, listVars, drawn, menu, picker>>

\* context_menu_cancel()
MenuCancel ==
  /\ menu # NoContact
  /\ menu' = NoContact
  /\ UNCHANGED <<dbVars, dock, front, opened, editVars, listVars, drawn, pressed, picker>>

\* context_menu_delete() and context_menu_toggle_fav()
MenuChoice ==
  /\ menu # NoContact
  /\ table' \in {Deleted(table, menu.id), Updated(table, menu.id, menu.text, ~menu.fav)}
  /\ menu' = NoContact
  /\ UNCHANGED <<added, dock, front, opened, editVars, listVars, pressed>>
  /\ RedrawChanged

Next ==
  \/ Restart
  \/ Elsewhere
  \/ Enter
  \/ OpenNew
  \/ BackToList
  \/ BackToCaller
  \/ Add
  \/ \E i \in 1..MaxContacts : Edit(i)
  \/ \E text \in Texts, fav \in BOOLEAN : Save(text, fav)
  \/ Delete
  \/ Dial
  \/ Pick
  \/ ToggleEdit
  \/ \E i \in 1..MaxContacts : Tick(i)
  \/ Trash
  \/ \E i \in 1..MaxContacts : LongPress(i)
  \/ Release
  \/ MenuCancel
  \/ MenuChoice

Spec == Init /\ [][Next]_vars

-----------------------------------------------------------------------------
(* Properties                                                              *)

\* Every copy of a contact is as the table has it, when it is used: the array,
\* the rows whose widgets point into it, the contact in the editor, the one in
\* the context menu, whose name and number "Favorite" writes back, and the
\* favourites on the home screen.
CopiesAreFresh ==
  /\ opened => contacts = Loaded(table)
  /\ opened /\ ~editor => drawn = contacts
  /\ editor /\ ~isNew => edited \in table
  /\ menu # NoContact => menu \in table
  /\ front = "Home" => dock \in {<<>>, Favourites(table)}

\* The trash button deletes exactly the contacts whose boxes are shown ticked,
\* although only positions are kept and each deletion moves the rows, and
\* although rows that found no place in the array move into it.
DeletesWhatIsTicked ==
  [][Trash => table \ table' = {drawn[i] : i \in ticked \cap DOMAIN drawn}]_vars
=============================================================================
