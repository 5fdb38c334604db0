------------------------------- MODULE Settings -------------------------------
(***************************************************************************)
(* The settings applet: its list of accounts and its default account, the  *)
(* two files they are saved in, and the screens that edit them, above the  *)
(* manager of the module Registration, which is told of each account that  *)
(* is saved and, when the program starts, of each account in the file.     *)
(*                                                                         *)
(* An account is known by its address: the user and the server.  What else *)
(* the form holds is left out, except the switch that enables it.          *)
(***************************************************************************)
EXTENDS Registration, SequencesExt

CONSTANTS
  EarlierFiles,  \* the accounts that an earlier run of the program has saved
  MaxSaves       \* bound of the model: accounts saved in one behaviour

ASSUME SettingsAssumption ==
  /\ \A l \in EarlierFiles : l \in Seq(Accounts) /\ Len(l) <= MaxAccounts
  /\ MaxSaves \in Nat

Absent == -2  \* the default account of a settings.conf that does not exist

VARIABLES
  accountsFile,  \* accounts.conf
  defaultFile,   \* DefaultAccount in settings.conf
  opened,        \* has settings_init() run?
  inFront,       \* is the applet on the display?
  accounts,      \* data->accounts, as far as account_count
  short,         \* is account_count -1?
  default,       \* data->config.default_account_index
  editing,       \* data->editing_account_index
  selected,      \* the selection of default_account_dropdown
  visible,       \* the screens without the flag HIDDEN
  deepLinked,    \* data->is_deep_linked
  saves,         \* history: how many forms were saved
  drawn,         \* history: was the list of accounts ever drawn?
  form           \* history: the row, and its account, that the open form is of

fileVars == <<accountsFile, defaultFile>>
screenVars == <<opened, inFront, visible, deepLinked>>
listVars == <<accounts, short, default, editing, selected, saves, drawn, form>>
vars == <<regVars, fileVars, screenVars, listVars>>

Screens == {"main", "list", "call", "form", "codec"}
NewAccount == [aor |-> Blank, enabled |-> TRUE]
NewForm == [at |-> -1, was |-> NewAccount]

TypeOK ==
  /\ RegTypeOK
  /\ accountsFile \in Seq(Accounts) /\ Len(accountsFile) <= MaxAccounts
  /\ accounts \in Seq(Accounts) /\ Len(accounts) <= MaxAccounts
  /\ defaultFile \in Absent..(MaxAccounts - 1)
  /\ default \in -1..(MaxAccounts - 1)
  /\ {opened, inFront, short, deepLinked, drawn} \subseteq BOOLEAN
  /\ editing \in -1..(MaxAccounts - 1)
  /\ selected \in 0..MaxAccounts
  /\ visible \subseteq Screens
  /\ saves \in 0..MaxSaves
  /\ form \in [at : -1..(MaxAccounts - 1), was : Accounts]

-----------------------------------------------------------------------------
\* The accounts at the positions K of l, in their order.
Picked(l, K) ==
  [n \in 1..Cardinality(K) |-> l[CHOOSE i \in K : Cardinality(K \cap (1..i)) = n]]

\* config_load_accounts(): lines without a user or a server are passed over.
Complete(a) == a.aor # Blank

Loaded(l) == Picked(l, {i \in DOMAIN l : Complete(l[i])})

\* The accounts that are added when the program starts.
AtStart(l) == Picked(l, {i \in DOMAIN l : Complete(l[i]) /\ l[i].enabled})

count == IF short THEN -1 ELSE Len(accounts)

\* The default account that index d stands for in a list of n accounts.
Effective(d, n) == IF d >= n THEN -1 ELSE d

\* The screen that was made last covers the others.
Top(V) ==
  IF "codec" \in V THEN "codec"
  ELSE IF "form" \in V THEN "form"
  ELSE IF "call" \in V THEN "call"
  ELSE IF "list" \in V THEN "list" ELSE "main"

On(screen) == inFront /\ Top(visible) = screen

\* Only the form hides the screen of the codecs.
Showing(screen) == {screen} \cup (IF screen = "form" THEN {} ELSE visible \cap {"codec"})

\* update_account_dropdowns(), after new options have set the selection to 0.
Selection(d, n) == IF 0 <= d /\ d < n THEN d ELSE IF n > 0 THEN n ELSE 0

\* show_account_settings(), refresh_account_list(): the list l of n accounts.
Draw(d, n) ==
  /\ selected' = Selection(d, n)
  /\ drawn' = TRUE

\* load_settings()
LoadDefault(d, n) == Effective(IF d = Absent THEN 0 ELSE d, n)

\* save_settings(): a count of -1 leaves the file of the accounts alone.
Save(l, isShort, d) ==
  /\ defaultFile' = d
  /\ accountsFile' = IF isShort THEN accountsFile ELSE l

-----------------------------------------------------------------------------
\* The files are those of an earlier run; call_init(), which main() runs, adds the
\* enabled accounts of the file.
Init ==
  /\ accountsFile \in EarlierFiles
  /\ defaultFile \in Absent..(MaxAccounts - 1)
  /\ queue = Enqueued(<<>>, AtStart(accountsFile))
  /\ refused = Dropped(<<>>, AtStart(accountsFile))
  /\ uas = <<>>
  /\ status = [a \in {} |-> "NONE"]
  /\ opened = FALSE
  /\ inFront = FALSE
  /\ accounts = <<>>
  /\ short = FALSE
  /\ default = -1
  /\ editing = -1
  /\ selected = 0
  /\ visible = {"main"}
  /\ deepLinked = FALSE
  /\ saves = 0
  /\ drawn = FALSE
  /\ form = NewForm

\* The same after the program has ended.
Started ==
  /\ queue' = Enqueued(<<>>, AtStart(accountsFile'))
  /\ refused' = Dropped(<<>>, AtStart(accountsFile'))
  /\ uas' = <<>>
  /\ status' = [a \in {} |-> "NONE"]
  /\ opened' = FALSE
  /\ inFront' = FALSE
  /\ accounts' = <<>>
  /\ short' = FALSE
  /\ default' = -1
  /\ editing' = -1
  /\ selected' = 0
  /\ visible' = {"main"}
  /\ deepLinked' = FALSE
  /\ drawn' = FALSE
  /\ form' = NewForm

\* The program ends or crashes, and is started again.
Restart ==
  /\ UNCHANGED <<fileVars, saves>>
  /\ Started

\* settings_init() on the first launch; then apply_launch_request(), with the
\* request that settings_open_accounts() and its like left, if any.
Enter(request) ==
  /\ ~inFront
  /\ inFront' = TRUE
  /\ opened' = TRUE
  /\ IF opened THEN UNCHANGED <<accounts, default>>
               ELSE /\ accounts' = Loaded(accountsFile)
                    /\ default' = LoadDefault(defaultFile, Len(accounts'))
  /\ deepLinked' = (request # "main")
  /\ visible' = Showing(request)
  /\ IF request = "list"
       THEN Draw(default', IF short THEN -1 ELSE Len(accounts'))
       ELSE UNCHANGED <<selected, drawn>>
  /\ form' = IF "codec" \in visible THEN form ELSE NewForm
  /\ UNCHANGED <<regVars, fileVars, short, editing, saves>>

\* applet_manager_back(), or a call that takes the display.
Leave ==
  /\ inFront
  /\ inFront' = FALSE
  /\ UNCHANGED <<regVars, fileVars, listVars, opened, visible, deepLinked>>

\* account_settings_clicked(), from the main screen or back from the form.
ShowList ==
  /\ On("main") \/ On("form")
  /\ visible' = Showing("list")
  /\ Draw(default, count)
  /\ form' = NewForm
  /\ UNCHANGED <<regVars, fileVars, opened, inFront, deepLinked, accounts, short,
                 default, editing, saves>>

\* call_settings_clicked()
ShowCall ==
  /\ On("main")
  /\ visible' = Showing("call")
  /\ UNCHANGED <<regVars, fileVars, opened, inFront, deepLinked, listVars>>

\* back_to_main()
BackToMain ==
  /\ On("list") \/ On("call")
  /\ IF deepLinked THEN inFront' = FALSE /\ UNCHANGED visible
                   ELSE visible' = Showing("main") /\ UNCHANGED inFront
  /\ UNCHANGED <<regVars, fileVars, opened, deepLinked, listVars>>

\* add_account_btn_clicked() with i = -1, edit_account_clicked() of row i
OpenForm(i) ==
  /\ On("list")
  /\ editing' = i
  /\ visible' = Showing("form")
  /\ form' = IF i = -1 THEN NewForm ELSE [at |-> i, was |-> accounts[i + 1]]
  /\ UNCHANGED <<regVars, fileVars, opened, inFront, deepLinked, accounts, short,
                 default, selected, saves, drawn>>

\* open_audio_codecs_clicked(), open_video_codecs_clicked()
OpenCodecs ==
  /\ On("form")
  /\ visible' = (visible \ {"form"}) \cup {"codec"}
  /\ UNCHANGED <<regVars, fileVars, opened, inFront, deepLinked, listVars>>

\* codec_back_clicked(); the form goes on with the account it was opened on.
CodecBackSlip ==
  /\ On("codec")
  /\ visible' = Showing("form")
  /\ editing' = -1
  /\ UNCHANGED <<regVars, fileVars, opened, inFront, deepLinked, accounts, short,
                 default, selected, saves, drawn, form>>

CodecBack ==
  /\ On("codec")
  /\ visible' = Showing("form")
  /\ UNCHANGED <<regVars, fileVars, opened, inFront, deepLinked, listVars>>

\* save_account_clicked() with what the form holds: a new account or the one
\* that is edited.  Nothing is checked, and nothing is done when the list is full.
Edited(a) == IF editing = -1 THEN Append(accounts, a) ELSE [accounts EXCEPT ![editing + 1] = a]

SaveAccountSlip(a) ==
  /\ On("form") /\ saves < MaxSaves /\ ~short
  /\ editing = -1 => Len(accounts) < MaxAccounts
  /\ saves' = saves + 1
  /\ accounts' = Edited(a)
  /\ Save(accounts', FALSE, default)
  /\ IF a.enabled /\ editing = -1 THEN Enqueue(<<a>>) ELSE UNCHANGED regVars
  /\ visible' = Showing("list")
  /\ Draw(default, Len(accounts'))
  /\ form' = NewForm
  /\ UNCHANGED <<opened, inFront, deepLinked, short, default, editing>>

SaveAccount(a) ==
  /\ On("form") /\ saves < MaxSaves /\ ~short
  /\ editing = -1 => Len(accounts) < MaxAccounts
  /\ saves' = saves + 1
  /\ accounts' = Edited(a)
  /\ Save(accounts', FALSE, default)
  /\ IF a.enabled THEN Enqueue(<<a>>) ELSE UNCHANGED regVars
  /\ visible' = Showing("list")
  /\ Draw(default, Len(accounts'))
  /\ form' = NewForm
  /\ UNCHANGED <<opened, inFront, deepLinked, short, default, editing>>

\* The same with a count of -1: accounts[-1], the memory before the array, is
\* overwritten, the pointers to the screens with it, and the file is emptied
\* unless the program has ended before.
SaveOutOfBounds ==
  /\ On("form") /\ saves < MaxSaves /\ short
  /\ saves' = saves + 1
  /\ \/ Save(<<>>, FALSE, default)
     \/ UNCHANGED fileVars
  /\ Started

\* delete_account_clicked(): the counter goes down by two, the default account
\* and the user agent stay.
DeletedShort(n) == n = 1

Deleted(l, i) == SubSeq(RemoveAt(l, i), 1, Len(l) - 2)

DeleteAccount(i) ==
  /\ On("list") /\ i \in DOMAIN accounts
  /\ short' = DeletedShort(Len(accounts))
  /\ accounts' = Deleted(accounts, i)
  /\ Save(accounts', short', default)
  /\ Draw(default, Len(accounts) - 2)
  /\ UNCHANGED <<regVars, screenVars, default, editing, saves, form>>

\* default_account_changed() to option s of the dropdown
DefaultChangedSlip(s) ==
  /\ On("list") /\ s <= count /\ s <= Len(accounts)
  /\ selected' = s
  /\ default' = Effective(s, count)
  /\ UNCHANGED <<regVars, fileVars, screenVars, accounts, short, editing, saves, drawn, form>>

DefaultChanged(s) ==
  /\ On("list") /\ s <= Len(accounts)
  /\ selected' = s
  /\ default' = Effective(s, count)
  /\ Save(accounts, short, default')
  /\ UNCHANGED <<regVars, screenVars, accounts, short, editing, saves, drawn, form>>

\* save_settings_clicked() and save_call_settings(), which reads the default
\* account from the dropdown of the other screen.
SaveSystem ==
  /\ On("call")
  /\ default' = Effective(selected, count)
  /\ defaultFile' = default'
  /\ visible' = Showing("main")
  /\ UNCHANGED <<regVars, accountsFile, opened, inFront, deepLinked, accounts, short,
                 editing, selected, saves, drawn, form>>

\* The program ends while save_settings() writes accounts.conf, which fopen()
\* has emptied: the first k accounts are in the file.
CrashInSave(k) ==
  /\ On("list") /\ ~short /\ k \in 0..Len(accounts)
  /\ defaultFile' \in -1..(Len(accounts) - 1)
  /\ accountsFile' = SubSeq(accounts, 1, k)
  /\ UNCHANGED saves
  /\ Started

ManagerNext == RegNext /\ UNCHANGED <<fileVars, screenVars, listVars>>

Next ==
  \/ ManagerNext
  \/ Restart
  \/ \E request \in {"main", "list", "call"} : Enter(request)
  \/ Leave
  \/ ShowList
  \/ ShowCall
  \/ BackToMain
  \/ \E i \in {-1} \cup 0..(Len(accounts) - 1) : OpenForm(i)
  \/ OpenCodecs
  \/ CodecBack
  \/ \E a \in Accounts : SaveAccount(a)
  \/ SaveOutOfBounds
  \/ \E i \in DOMAIN accounts : DeleteAccount(i)
  \/ \E s \in 0..MaxAccounts : DefaultChanged(s)
  \/ SaveSystem
  \/ \E k \in 0..MaxAccounts : CrashInSave(k)

Spec == Init /\ [][Next]_vars

-----------------------------------------------------------------------------
(* Properties                                                              *)

\* An account that the file enables has a user agent, or a command waits to make
\* one, or it was dropped or refused since the program started: no edit, restart
\* or cut file loses a registration.
EnabledHaveUa ==
  \A i \in DOMAIN accountsFile :
    LET a == accountsFile[i]
    IN  Complete(a) /\ a.enabled =>
          \/ \E j \in DOMAIN uas : uas[j].aor = a.aor
          \/ a \in Range(queue)
          \/ a.aor \in refused

\* What the applet shows is what the files hold: its accounts, without the lines
\* it has passed over; the default account; and, since the list was first drawn,
\* the dropdown, from which the System Settings save the default account.
ScreenIsFile ==
  opened /\ ~short =>
    /\ accountsFile = accounts \/ Loaded(accountsFile) = accounts
    /\ defaultFile # Absent => Effective(defaultFile, count) = Effective(default, count)
    /\ drawn => Effective(selected, count) = Effective(default, count)

\* A saved form changes the account it was opened on and no other, whatever was
\* shown in between.
EditsTheOpened ==
  [][saves' # saves /\ opened' =>
       IF form.at = -1
         THEN Front(accountsFile') = accounts
         ELSE /\ accounts[form.at + 1] = form.was
              /\ Len(accountsFile') = Len(accounts)
              /\ \A i \in DOMAIN accounts \ {form.at + 1} :
                   accountsFile'[i] = accounts[i]]_vars
=============================================================================
