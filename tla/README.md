# A verification project for baresip-lvgl

TLA+ modules for the program in `src/src` (a SIP telephone: an LVGL user
interface over the baresip library), the TLC runs that check them and the TLAPS
proofs about them.  File names below are relative to `src/src` unless they say
otherwise; "the core" is the baresip library (`re_main`, `ua`, `call`, `message`),
which is not part of the repository's own code and is modelled from how the
manager uses it.

## 1. Inventory

### Threads and loops

`main.c` starts the managers, registers the applets and enters
`baresip_manager_loop()`, which is the core's `re_main()`.  Everything that keeps
state runs on that one thread, as callbacks of its loop:

| callback | period | code |
|---|---|---|
| core events (`call_event_handler`, `message_handler`) | when SIP traffic comes | `manager/baresip_manager.c` |
| user interface (`lv_timer_handler`: LVGL events and timers of applets) | 5 ms | `baresip_manager.c` |
| command queue (`cmd_check_cb`) | 20 ms | `baresip_manager.c` |
| watchdog (`check_call_watchdog`) | 1 s | `baresip_manager.c` |

The repository's README speaks of a "bridge between the UI and the Baresip core
thread"; in the code the two share one thread.  The only other thread is the
video decoder's, which shares the frame buffer.  The mutexes of the command
queue and of the database are used as if there were more threads, and the models
of those two components assume no more than the mutexes give.

### Components

| component | state | operations | what is hard | what makes it correct |
|---|---|---|---|---|
| Call tracking (`baresip_manager.c`) | `g_call_state`: `state`, `current_call`, `peer_uri`, `active_calls[8]` | handlers of the core's call events; connect, answer, reject, hang up, hold, resume, switch; the watchdog | the calls belong to the core, which frees them; events of several calls interleave with user actions; slots are recycled | no pointer to a freed call; one slot per call; no live call dropped; the slot says what the core says; each call is logged once |
| Applet manager (`applet_manager.c`) | applet states and screens, `nav_stack`, `current_applet` | launch, back, destroy | an applet can be on the stack several times; the stack is bounded | one applet runs; back finds a screen; back returns to the applet left last |
| Command queue (`baresip_manager.c`) | ring buffer `g_cmd_queue` | `cmd_enqueue`, `cmd_check_cb` | enqueuing while a command executes; wrap-around; full queue | a bounded FIFO; every accepted command is executed |
| Call applet (`applets/call_applet.c`) | `ui_update_needed`, `pending_incoming`, `g_req_view_mode`, the screen shown, timers, queued launches | listeners, the 50 ms poller, buttons | flags raised by one event and acted on after another; several ways back | the screen is that of the manager's call and ends with it; only the applet on display goes back |
| Account registration (`baresip_manager.c`) | `g_call_state.accounts`, the user agents of the core | `internal_add_account()`, registration events, registering again from the dialer | a status written after the registration it starts; accounts are added at the start and again at each save; nothing removes an agent | the status is what an agent of the address reported last; an enabled account has an agent |
| Settings applet (`settings_applet.c`, `config_manager.c`) | list of accounts, default account, the form, screens that cover each other; `accounts.conf`, `settings.conf` | open, edit, save, delete, choose the default account, leave and come back | indices kept while screens change; two files written one after the other; a count decremented twice | the screens show what the files hold; a form saves the account it was opened on |
| Contacts (`contact_manager.c`, `contacts_applet.c`, dock of `home_applet.c`) | table, array, list, editor, context menu, ticks | add, update, delete, favourite, delete the ticked ones | widgets keep addresses of cells and positions; each deletion loads the array again; the editor is opened by other applets and interrupted by calls | every copy of a contact is as the table has it; what is ticked is deleted |
| Chat (`chat_applet.c`, messages of `database_manager.c` and `baresip_manager.c`) | table with unread messages, threads, conversation, ticks, context menu | send, receive, open, delete, move to the top | messages arrive under positions and between touches; a conversation draws a limited number of messages; recipients are written in several forms | nothing that comes in is marked read unseen; what is ticked is deleted |
| Call history and call log (`history_manager.c`, `call_log_applet.c`) | table, `g_history`, selection mask, filter, context menu, read flags | add, delete by mask or index, load, mark read | widgets keep positions in an array that every ending call reloads | the array is the newest rows of the table; what is deleted is what was shown; a missed call is shown before it leaves the badge |
| Database mutex (`database_manager.c`) | `db_mutex` | every `db_*` function | an early return | each function releases what it takes |
| Configuration (`config_manager.c`) | the core's configuration, `settings.conf`, `accounts.conf` | load, save, patch | written in place, line by line | a setting survives a restart |
| Home, about, calculator | layout; the dock and the in-call button | - | - | - |
| Video display | frame buffer | decoder thread, display | two threads | - |

How they interact: user interface to core by direct calls
(`baresip_manager_answer_call()`...) and by the command queue (add account, send
message); core to user interface by listeners that raise flags, which pollers of
the applets read; the manager to history and database by direct calls inside the
handlers; applets to each other through the applet manager only.

## 2. Modules

| module | kind | models |
|---|---|---|
| `CallManager` | component | call tracking, over an external core |
| `AppletManager` | component | applet life cycle and navigation |
| `NavHistory` | abstract | what `applet_manager.h` promises of navigation |
| `CallApplet` | composition | the call screens, between `CallManager` (extended) and `AppletManager` (instantiated) |
| `CommandQueue` | component | the ring buffer and its timer |
| `BoundedFifo` | abstract | what a user of the queue relies on |
| `CallLog` | component | the call history: table, array, list, selection and context menu |
| `Contacts` | component | the table of contacts, its array, the list, the editor and the dock |
| `Chat` | component | the messages, from the core's events and the queue to the three views |
| `Registration` | component | the commands that add accounts, the user agents and the status table |
| `Settings` | composition | the settings applet and the two files, on top of `Registration` (extended) |
| `CallManagerProofs`, `CallAppletProofs`, `AppletManagerProofs`, `CommandQueueProofs`, `CallLogProofs`, `ContactsProofs`, `ChatProofs`, `SettingsProofs` | proofs | theorems of those components |
| `MC...` | TLC instances | values for the constants, symmetry |

Conventions.  Constants are parameters of the program (`MAX_CALLS`,
`MAX_NAV_STACK`, `CMD_QUEUE_SIZE`), sets of model values, or switches for what
the environment may do (`Silent`, `SessConn`).  Each has a named
assumption in its module.  An operator named `...Slip` is not part of the model:
it is a variant of the operator after it with a mistake one could make in the
code, and serves to show that a property notices.  `...Cap` and `Max...` bounds
keep the state spaces finite and are listed in section 5.

## 3. Modules and code

### CallManager

| TLA+ | code |
|---|---|
| `slots`, `current`, `state`, `peer` | `g_call_state.active_calls`, `.current_call`, `.state`, `.peer_uri` |
| `core`, `older` | the core's call objects and the order of `ua_calls()`; external |
| `rows` | the types of the rows `history_add()` was asked to write for a call |
| `CallIncoming`, `CallProvisional`, `CallEstablished`, `CallClosed`, `SipSessConn` | the cases of `call_event_handler()` |
| `CallVanishes` | a call the core frees without `BEVENT_CALL_CLOSED` (only if `Silent`) |
| `Connect`, `ConnectFails`, `Answer`, `Reject`, `Hangup`, `Hold`, `Resume`, `SwitchTo` | the functions of the API of those names |
| `Watchdog` | `check_call_watchdog()` |
| `AddOrUpdate`, `ClearSlot`, `MarkTerminated`, `FirstActive` | `add_or_update_call()`, `remove_call()`, the marking loops, the search for another call |

All these functions run to completion on the loop's thread, so each is one
action.  A call object stands for its peer: the URI copied from a call is
represented by the call.  The core's side keeps what the manager can tell:
whether an address is in use, by which account, in which direction and state,
and the hold flag.  The manager ends calls with `call_hangup()`, after which the
core may report `CLOSED` late or keep the call for long; `CallClosed` is
therefore not fair, and terminated calls may stay in the table.

### AppletManager

`phase` and `screen` are `applet->state` and `applet->screen`; `nav` is
`nav_stack` up to `nav_depth`; `current` is `current_applet`.  `Launch`, `Back`
and `Destroy` are the functions of the manager; `Init` is the state in which `main()`
leaves the manager before its first launch.  A failed `init` callback undoes the
screen and changes nothing, so it is no step.  Left out:
`applet_manager_close_current()`, which nothing in the program calls.

### CallApplet

`on_call_state_change()` runs inside the manager's handlers and only raises
flags and queues launches; LVGL acts on them later.  `ui` holds those flags, the
screen shown (`view`), the number of queued launches and whether the timers run.

| TLA+ | code |
|---|---|
| `RingingEvent`, `ProvisionalEvent`, `EstablishedEvent`, `ClosedEvent` | the actions of `CallManager`, with the listener's part (`Heard`) |
| `RunLaunch` | `launch_call_applet_async()`, one `lv_async_call` |
| `Poll`, `Tick` | `check_ui_updates()` (50 ms), `update_call_duration()` (1 s) |
| `Resumed`, `Started`, `Paused`, `Requested` | `call_resume()`, `call_start()`, `call_pause()` and their view request |
| `ListUpdated`, `Switched` | `update_call_list()` and `baresip_manager_switch_to()`, with its nested notification |
| `DialHere`, `DialHereFails`, `DialFavourite`, `DialElsewhere` | `call_btn_clicked()`, `video_call_btn_clicked()` and the account picker, and what they do when `ua_connect()` fails; `call_applet_open()`; the call log and the contacts |
| `OpenFromHome`, `OpenOther`, `GoBack` | tiles, notification buttons, menus, swipes |
| `AnswerClick`, `HangupClick`, `HoldClick`, `CardClick` | the buttons and cards of the call screens |

A handler can reach the manager and the listener several times (a resumed applet
switches calls, which notifies the applet).  These nested calls are followed in
order, by operators that pass on a record of the flags and of the manager's
focus.  Queued launches run before other timers and clicks (`NoLaunch`), because
`lv_async_call()` makes a timer of period 0 at the head of LVGL's list and
`lv_timer_handler()` starts over when a timer was created.

`lost` is a history: the screen was set although the call it was asked for was
missing (`Losing`: a view request that finds no call, a number that could not be
dialled), and since then nothing was heard of a call and the screen was not chosen
by the manager's state.

Left out: calls the core frees silently (they would leave the incoming screen
up, since the watchdog does not notify), so the watchdog has nothing to do; the
debounce of the hang-up button; the delay of up to a second of the buttons of
the home screen; `exit_timer`, which is only started for the state TERMINATED
that an earlier branch of the poller already returns for.

### CommandQueue

`items`, `head`, `tail`, `count` are `g_cmd_queue`; `cmd` is the local copy in
`cmd_check_cb()`; `accepted` and `executed` are history variables.  `Enqueue`,
`Dequeue` are the regions under `g_cmd_mutex`; `Execute` is outside it, and may
interleave with `Enqueue`, also when both run on one thread, because executing a
command can enqueue another.

### CallLog

| TLA+ | code |
|---|---|
| `table`, `read` | the rows of `call_log` and their `is_read` |
| `cells`, `count` | `g_history`, `g_history_count` |
| `shown`, `filter`, `selecting`, `fab` | is the applet on display, `g_filter_missed_only`, `g_selection_mode`, is `g_trash_fab` visible |
| `list` | the rows on the screen, with their positions |
| `ticked` | its domain is `g_selected_items`; its values are a history |
| `menu` | `g_context_menu_index` and `g_context_menu_entry`, while the modal exists |
| `CallEnds` | `history_add()`, which the manager calls when a call closes |
| `Loaded`, `Load` | `history_load()`; cells after the last row keep their contents |
| `Open`, `Leave` | start, pause and resume of the applet |
| `SetFilter`, `ToggleEdit`, `ClickBox`, `ClickRow`, `LongPress` | the handlers of the list |
| `DeleteSelected`, `MenuDelete`, `MenuCancel` | the trash button; the choices of the context menu |
| `Restart` | a start of the program over the same database file |

`steady`, `menu.steady` and the values of `ticked` are history variables: they say
what the user saw, and whether the array is still the one on which the selection
was begun or the menu opened.  The array changes when a call ends and when rows are
deleted; leaving edit mode keeps it, and the trash button with its mask.  A row is
its time, its number and whether it was missed.  SQLite leaves the order of rows of
one second open; the model takes that of their ids, and no property depends on
it.  The modal of the context menu lies on LVGL's top layer: it covers the list,
and survives a change of applets.  Left out: `history_clear()` (nothing calls
it), the details screen (it only reads), and SQL statements that fail.

### Contacts

| TLA+ | code |
|---|---|
| `table`, `added` | the rows of `contacts` and their ids |
| `contacts` | `g_contacts`, as far as `g_count` |
| `drawn` | the rows of the list; their widgets hold addresses of the cells of `contacts` |
| `editor`, `isNew`, `edited`, `toCaller` | `is_editor_mode`, `is_new_contact`, `current_edit_contact`, `g_return_to_caller` |
| `selecting`, `ticked`, `menu`, `pressed`, `picker` | the selection, `g_context_menu_contact`, `g_long_press_handled`, the account picker |
| `front`, `opened`, `dock` | the applet on display, whether `contacts_init()` has run, the favourites of the home screen |
| `Loaded`, `Favourites` | `cm_load()` with its limit, `db_get_favorite_contacts()` |
| `Redraw`, `RedrawChanged` | `refresh_ui()` alone, and after `cm_add()`, `cm_update()` or `cm_delete()` |
| `DeletedMarked` | the loop of `contacts_delete_selected_clicked()`, from the last position to the first |
| `Elsewhere`, `Enter`, `OpenNew`, `BackToList`, `BackToCaller` | the ways between applets: touches, swipes, calls; `contacts_resume()`; `contacts_applet_open_new()` |
| `Save`, `Delete`, `Edit`, `Add`, `Trash`, `Tick`, `LongPress`, `MenuChoice`, `Dial`, `Pick` | the handlers of the applet |

A contact is its id, a text (name and number together) and whether it is a
favourite.  Empty texts are left out: `save_btn_clicked()` refuses them.

### Chat

| TLA+ | code |
|---|---|
| `table`, `unread` | the rows of `chat_messages`, those that came in with status 0 |
| `threads`, `list` | `g_chat_threads`; the peers of the rows on the screen |
| `current` | `current_peer` and the bubbles, with the rows they show |
| `selecting`, `marks`, `menu`, `pressed`, `fab` | the selection, the context menu, the flag of the long press, the trash button |
| `queue` | the messages in the command queue |
| `Latest`, `Threads`, `History` | the queries, with their limits and orders |
| `Receive` | `message_handler()` and `chat_msg_handler()` |
| `Execute` | `internal_send_message()` |
| `OpenPeer` | `chat_applet_open_peer()`, from the call log |
| `SendCompose`, `Send`, `OpenThread`, `ToggleSelection`, `Tick`, `Trash`, `LongPress`, `MenuTop`, `MenuDelete`... | the handlers of the applet |

The text of a message is left out.  What is written as a recipient is kept apart
from the address that is stored (`Stored`) and from the comparison of parts
(`Contains`), because the code uses all three.  `moved` and the values of `marks`
and `menu.shown` are history: they say what the user saw.

### Registration and Settings

| TLA+ | code |
|---|---|
| `queue`, `uas`, `status` | `CMD_ADD_ACCOUNT` commands, the core's agents (external), `g_call_state.accounts` |
| `Enqueue`, `AddUa`, `AddRefused` | `baresip_manager_add_account()`; `internal_add_account()` and its failure |
| `Answer` | the cases BEVENT_REGISTER_OK and BEVENT_REGISTER_FAIL of `call_event_handler()` |
| `RegisterAgain` | `baresip_manager_account_register_simple()`, with its search by parts of an address |
| `accountsFile`, `defaultFile` | `accounts.conf`, `DefaultAccount` in `settings.conf` |
| `accounts`, `short`, `default`, `editing` | `data->accounts` up to `account_count`, a count of -1, the default account, the index being edited |
| `visible`, `deepLinked` | the screens without the flag HIDDEN; was the applet opened for one screen? |
| `selected` | the option of `default_account_dropdown` |
| `Loaded`, `AtStart` | `config_load_accounts()` passes over incomplete lines; `call_init()`, which `main()` runs, adds those that are enabled |
| `OpenForm`, `OpenCodecs`, `CodecBack`, `SaveAccount`, `DeleteAccount`, `DefaultChanged`, `SaveSystem`, `ShowList`, `BackToMain`... | the handlers of the applet |
| `SaveOutOfBounds` | the save after the count has become -1 |
| `Restart`, `CrashInSave` | a new start; an end while `accounts.conf` is being written |

An account is its address and whether it is enabled; `Blank` is the address of a
line without a user or a server.  `refused` is a history of what the queue had no
room for or the core refused; `form` of the account the open form was opened on.

## 4. Runs

| run | question | result |
|---|---|---|
| `calls` | three calls over two slots: is the table sound, does it agree with the core, is each call logged once? | ten properties hold |
| `calls_silent` | a core that frees calls without an event and hands over INVITEs before their calls: is a dangling pointer always repaired? | holds |
| `calls_switch` | does the manager go on with a live call when the current one closes? (comment, `baresip_manager.c:672`) | refuted |
| `calls_missed` | is an answered call never logged as missed? (`walkthrough.md:16`) | refuted |
| `applets` | does one applet run, does back find a screen, is the stack the history of the user? | five properties hold |
| `commands` | is the ring a bounded FIFO that is drained? | four properties hold |
| `call_screens` | do the call screens follow the calls, and end with them? | five properties hold |
| `log` | is the array the newest rows, and what is deleted or marked read what was shown? | four properties hold |
| `log_delete` | does the trash button never delete a row that was not ticked? (comment, `history_manager.c:191`) | refuted |
| `contacts` | is every copy of a contact as the table has it, and does the trash delete what is ticked? | three properties hold |
| `chat` | is a message that comes in ever missed, and does a deletion take what was ticked or pressed? | three properties hold |
| `accounts` | does the status table say what the agents report, does an enabled account have an agent, do the screens show the files, does a form save its account? | five properties hold |

The refutations:

* `calls_switch`: call A is current, B was rejected but is still in the core
  (slot 1, TERMINATED), C rings in slot 2.  When A closes, the search takes
  the first slot with any call, B, and the state becomes IDLE while C rings.  The
  poller then leaves the screen as it is, because the table has a live call
  (`call_applet.c:1926-1950`).  On the active call screen the duration timer redraws
  the list within a second, and the list turns the manager to C; on the incoming
  screen, or with another applet in front, nothing does before the next event of a
  call.
* `calls_missed`: A was answered and is established, B rings and the manager's
  state is INCOMING.  When A closes, `established` is read from that state
  (`baresip_manager.c:630`), and A is logged as missed.
* `log_delete`: two rows, the first is ticked and deleted.  The mask and the trash
  button stay, and a second tap deletes the row that has moved up.

## 5. Bounds, and why they are enough

* `calls`: `Calls` 3 and `MaxCalls` 2.  The table can be full with one call left
  over; a slot can be recycled while another is live; three calls are needed for
  "the current one closes, one is dead, one is live".  The code compares slots
  and calls pairwise or takes the first of a kind, so a fourth call repeats a
  role.  `Provisional = {"RINGING"}` here, both provisional states in
  `calls_silent` and `calls_switch`.
* `calls_silent`: one slot, two accounts, two addresses that are used again.
* `RowCap` (2): a third row of one call is not recorded; `ClosedIsLogged` fails
  at the second.
* `applets`: the real `MAX_NAV_STACK` of 8 with four applets.
* `calls_switch`: three calls and three slots, one for each role.  `calls_missed`:
  two calls.
* `call_screens`: two calls, two slots, one account, the home screen, the call
  applet and one more.  `MaxNav` is 2, so that the overflow is within reach of a
  few clicks; `LaunchCap` (2) tells no, one and several queued launches apart,
  and a launch from "several" may leave one or several.  Two calls do not reach
  every situation (section 8: a state left over by a third call); what is said of
  any number of calls is proved (section 7).
* `log`, `log_delete`: an array of two cells and three calls, so that one row
  does not fit; two numbers and two seconds, so that rows agree in the time, in the number, in
  both and in neither.
* `contacts`: an array of two cells and three contacts, so that one row waits
  behind the limit of the query and moves in when another goes; a dock of one.
  One text is enough: what is compared are ids, and the switch for favourites
  tells an old copy from a new one.
* `chat`: two peers and a third, short form that both addresses contain; two
  messages in two seconds, a conversation that draws one message (so that the
  limit of `db_chat_get_history()` is within reach), a queue of one command (so
  that it is full).  The array has room for both threads: the code asks nothing
  of a thread that is not in it.
* `accounts`: two addresses of which one contains the other, and an incomplete
  line; a queue and a table of two, so that both overflow; three agents, so that
  an account that is edited has an old one; five earlier files, with every default
  account, and one save.  A second save would only find the state the first one
  left, which the earlier files include.
* `commands`: three cells and `MaxAccepted` 7: the indices go around more than
  twice, the ring is full and empty at every position of `head`.

## 6. Fairness

* `WF(Watchdog)`: `check_call_watchdog()` starts its own timer again in its
  first statement, whatever happens after.
* `WF` of the draining steps of the queue: `cmd_check_cb()` rearms its timer at
  its end, and its loop runs to its end.
* `WF_uiVars(RunLaunch \/ Poll \/ Tick)`: `lv_timer_handler()` is called every
  5 ms and runs the timers that are due.  One condition for the three together:
  it is weaker than one for each.

Nothing is assumed of the core, of the peers or of the user.

## 7. Proofs

TLAPS proves the theorems below for all values of the constants that satisfy the
named assumptions of the modules (`CallManagerAssumption`,
`CallAppletAssumption`, `AppletManagerAssumption`, `CommandQueueAssumption`, `CallLogAssumption`,
`ContactsAssumption`, `ChatAssumption`, `RegistrationAssumption`,
`SettingsAssumption`).

**CallManager.**  `TypeCorrect` and `OneSlotEach` hold without restrictions, the
others while the core reports the calls it frees (`~Silent`), which each theorem
states as an assumption.  `NoDanglingReference` is not inductive alone: a close
clears only one slot, so a call must not be in two; a recycled slot must hold a
dead call, or a live one would vanish; and a new address must come without rows
and without slots.  The inductive invariant is therefore

    TableInv == TypeOK /\ OneSlotPerCall /\ TrackedInv /\ NoRowYet

where `TrackedInv` adds to `NoDanglingReference` that a slot marked dead holds a
call the core has terminated too, and `NoRowYet` that a call in the core has no
history row yet.  `OneSlotEach` rests on `TargetIsOne` (`add_or_update_call()`
finds the slot a call has before it takes another) and `UpdateUnique`;
`LiveCallsStay` on `UpdateKeeps` and on dead slots holding dead calls;
`EachCallIsLogged` on `OnlyCloseFrees`: no other step takes a call out of the
core.

Without any restriction, `WatchdogRepairs` says that one pass of the watchdog
leaves no pointer to a freed call: the part of `DanglingIsRepaired` that is not
about fairness.

The other theorems are about one account (`NumUAs = 1`).  With several, an
incoming call is entered under whatever call the scan of the accounts returns
(`baresip_manager.c:541`), and `SlotIsFaithful` is false; with one, the scan finds
the call that was just allocated (`NewestIsFound`).  `StepShapes` sorts the
actions into five shapes (a call enters, moves, is closed, is ended by the user,
or the step leaves the table as it is), and the invariant

    FaithInv == TypeOK /\ OneSlotPerCall /\ TrackedInv /\ OrderOK
                /\ SlotIsFaithful /\ FreeIsUnheld /\ EndedIsCurrent

is shown shape by shape.  `OrderOK` says that the core's list is an order of the
calls in the core, in which each set of calls has an oldest one: without it
`baresip_manager_hangup()` could miss a live call (`NoOrphanIsLeft`).
`EndedIsCurrent` (the state is TERMINATED only for a current call that is over)
is what `IdleMeansQuiet` needs: the call that closes is then the current one, and
either nothing is left in the table (`TableIsQuiet`) or the slot the manager turns to
is that of a call that was hung up (`QuietStep`).  `FreeIsUnheld` and
`SlotIsFaithful` are what `OneHasTheMicrophone` needs.  `NoOrphanIsLeft` and
`IdleMeansQuiet` also assume `~SessConn`: an INVITE before its call resets the
current call to NULL.  `IdleIsQuiet` speaks of a manager with a current call, since
one without becomes IDLE whenever a call closes (`baresip_manager.c:693`), also with
another call, which did not fit in the table when it came, in a slot by then.

**CallApplet.**  The composition is proved for any number of calls, slots
and applets, and any size of the stack; queued launches are told apart up to
`LaunchCap`, as in the run.  Its inductive invariant is

    IInv == ManagerInv /\ NavInv /\ FlagsInv /\ ScreensInv

* `ManagerInv` (types, one slot per call, no dangling pointer, dead slots hold
  dead calls): the screens move the manager's focus by pointers they find in the
  table, so the table must be sound for the focus to be.
* `NavInv` (the applet manager's `Ready`, the home applet at the bottom of the
  stack, the call applet never stopped): it makes every launch of the call applet
  a resumption, after which its timers run.
* `FlagsInv`: a queued launch comes with a pending update, and the timers run
  while the call applet is shown.  They also run before it was ever left, when it
  is not shown; `NeverLeft` says that no call has come by then, or the launch of
  the applet that the call queued has not run.  Without it the poller could go
  back from the home screen, and `OnlyCallLeaves` is not inductive.  A request for
  an incoming call is not left over in the state ESTABLISHED, which is what
  `EstablishedIsShown` rests on: whoever brings the manager into that state either
  takes the request back (`Heard`) or has consumed it.
* `ScreensInv` is `ScreenFollowsState` and `EstablishedIsShown` together.  A screen
  that was set for a call that is missing (`lost`) need not agree with the state,
  but it is never that of an established call.

A handler passes a record of the flags and the focus from one nested call to the
next.  Each of these operators has a lemma (`SwitchedFacts`, `ListUpdatedFacts`,
`RequestedFacts`, `ResumedFacts`, `LaunchedCall`, `ReturnedFacts`, ...) in terms of
four ideas: `Aims` (the focus is on a call of the core, and if it has moved, it came
with the state of that call), `Later` (an update is still pending, or the focus
has not moved and nothing was queued), `Fits` and `Served` (the request fits the
state, or a call rings that will serve it) and `Settled` (a handler may end here: an
update is pending, or the screen agrees with the state or is lost, and shows a call
that is established).  The step lemma of an action chains them.

From `IInv` follow the properties of the run (`ScreensAreTyped`,
`ScreenShowsState`, `EstablishedStaysShown`, `TimersLeaveOnlyCall`), and that the
composition keeps what its two managers promise by themselves: `NavigationHolds` and `WayBackMoves`, and
`ScreensFollowHistory`, a refinement of `NavHistory` that includes the timers that
go back by themselves; `TableHolds`, `LiveCallsStayShown` and
`CallsOfTheScreensAreLogged`.  `ManagerShapes` reduces a step of the composition to
one of `CallManager`, to a step that leaves the table alone, or to the dialling of a
call; `FocusShapes` says where the focus can go in a step that is not
`CallManager`'s.  With one account, `OneAccountInv` (the core's order, faithful
slots, `EndedIsCurrent`) yields `CardsAreFaithful`, `NewCallsHaveCards`,
`ScreensShareTheMicrophone`, `NoOrphanOnScreen` and `IdleScreensAreQuiet`.

**AppletManager.**  `Ready` (one applet runs, the stack is ready, and every applet
that is not stopped has a screen) is inductive with the types and yields `OneRuns`
and `BackFindsScreen`.  `SelfReturnOnlyByOverflow` and
`ManagerImplementsHistory` are step-by-step arguments on `Append` and `SubSeq`
of the stack; the latter is a refinement of `NavHistory` but for the launches
that drop an applet (`Drops`).

**CommandQueue.**  `RingIsWhole` relates the cells from `head` to the tail of
`accepted`; it is inductive with `TypeOK`.  The arithmetic modulo `Size` is in
`SuccCell` and `CellFacts`.  `RingImplementsFifo` follows: under the invariant
every step maps to a step of `BoundedFifo` or to a stutter.  `DrainAdvances` is the
part of `AcceptedIsExecuted` that is not about fairness: each step of the timer
lowers the `Distance` of a command from its execution, and no other step raises it.

**CallLog.**  `DeletesWhatIsShownThm` is about a step, and needs to know what the
positions stand for.  Its inductive invariant is `RowsCurrent` (the rows on the
screen are those of the array), `TicksCurrent` (each tick is on what is at its
position) and `MenuCurrent` (the menu has the entry of its cell), each as long as the
array is the one that the selection was begun on or the menu opened on.  A second tap
of the trash button, which `log_delete` shows to delete other rows, is on another
array.

`ArrayIsNewest` and `MissedAreShown` need to know what a query returns.  A row's
rank is one more than the number of rows before it; ids are in `1..MaxAdded` and
differ, so the table is finite, the rank is an injection of the rows into
`1..Cardinality(table)` and, between finite sets of one size, a surjection: each
cell is filled with one row (`RankReaches`, `RankIsOne`).  `CacheInv` says that
each full cell holds the row of its rank, and `RankCounts` turns the rank into
numbers of newer rows.

**Contacts.**  The array is the first rows of the table by the same argument on
ids.  `IInv` (unique ids in the table, the flags and the modals agree with the
screen, and the array, the list, the editor's copy and the dock are as the table
has them as soon as the applet has been opened) is inductive.  The loop over the
ticked positions is a recursive function; `MarkedAreDeleted` says that after `i`
rounds, counted from the last position, exactly the ticked rows among the last `i`
positions are gone.  `LoopComputes` and `LoopIsDefined` show it by the least number
of rounds for which it would fail (`LeastNumber`), since the induction theorems of
the library take operators as parameters.

**Chat.**  `TypeInv` adds to the types that an open conversation has a peer.
`NothingIsMissed` is a step-by-step argument from it: only `ShowDetail` and the
deletions take a message out of `unread`.  `TickedIsDeleted` rests on an `IInv`
which says that the threads, the list and the marks agree until the list is
loaded again (`moved`), and that the menu keeps the peer that was pressed.

**Settings.**  `TypeInv` bounds the indices; `Picked` (the accounts a loader
keeps) is the rank argument again.  On it rest four invariants: `StatusIsFaithful`
itself, whose difficult step is an agent that is made while its registration is
reported; `ScreenInv` (the files and what the applet holds agree through
saves, restarts and cut files); `CoverInv` (each enabled account of the file *and*
of the screen is covered, so that a save that only writes keeps the others);
`FormInv` (an open form, also below the screen of the codecs, has the index and
the account of `form`).

Only model-checked: the three liveness properties (`DanglingIsRepaired`,
`AcceptedIsExecuted`, `CallScreenEnds`), since fairness needs ENABLED, which is out of
this prover's reach.  Every invariant and every action property of the passing
runs is stated by a theorem.  What a theorem restricts: those of `CallManager` to a
core that reports the calls it frees, but for `TypeCorrect`, `OneSlotEach` and
`WatchdogRepairs`; those with `NumUAs = 1` to one account, as the run `calls`.  For
several accounts these five properties are neither claimed nor checked.
What a recursive definition computes is proved only where a
least counterexample serves (`DeletedMarked`), because induction theorems with an
operator as parameter cannot be applied.

## 8. What the models show beyond the runs

Observed while modelling, by reading or in TLC traces, and kept without a run.

Calls and call screens:

* *A flag outlives its call.*  A call that ends while the applet is paused
  leaves `ui_update_needed` raised.  When the user opens the dialer later, the
  poller finds no call and takes the user back.
* *A view request outlives its call.*  While A is dialled, B rings on the call screen
  and leaves a request for an incoming call.  B closes, the user goes home and
  returns: the request finds no such call, and `call_resume()` shows the dialer over
  the call A ("defaulting to Dialer", `call_applet.c:3076`), under the comment "Always
  refresh active call screen data // if we are in a call" (`:3020`).  Nothing but the
  next event of a call corrects it.  `EstablishedIsShown` says that this cannot happen
  to an established call.
* *Two accounts.*  A, of the first account, was hung up but is still in the core, and
  the manager has no current call.  B rings on the second account: the scan after the
  comment "logic to find call if NULL" (`baresip_manager.c:541`) tests `current_call`,
  not the call of the event, and finds A, which becomes the current call, with the
  state INCOMING and the URI of B; B is not in the table.
* *A number that cannot be dialled* from a favourite or from the details of a
  log entry opens the screen of an active call: `call_applet_open()` ignores
  what `baresip_manager_call()` returns ("We know we are initiating a call").
* RINGING and EARLY of a background call overwrite the global state and
  `peer_uri` (`baresip_manager.c:590`), although the branch for INCOMING says
  "FIX: Ensure global state matches" (`:559`).
* The hold and mute buttons keep flags of their own (`is_hold`, `is_muted`), which
  the active call screen resets whenever it is drawn (`call_applet.c:777-779`)
  while the core's call stays on hold or muted: the next tap only sets the flag
  again.  The dialogs for DTMF and transfer lie on LVGL's top layer, outlive their
  call, and then act on the current one.

* *A state outlives its calls.*  With three calls: A is current and closes, the
  manager goes on with B, which was rejected but is still in the core (slot state
  TERMINATED).  C then sets the global state to RINGING (`baresip_manager.c:590`)
  and closes; since it is not the current call, nothing resets the state (`:697`).
  The call applet now shows the screen of a call although there is none: the
  poller only looks at the state (`call_applet.c:1926`), and the incoming screen
  has no timer that would end it.  `ScreenFollowsState` and `CallScreenEnds` leave
  that case out, and say in which state it is.

Navigation:

* With the stack full, `applet_manager_launch()` does not push
  (`applet_manager.c:99`), and a later back can return to the applet that is
  already on display, which `applet_manager.h:58` does not foresee.

`CallApplet`'s `lost` exists because of the request that outlives its call and the
number that cannot be dialled: `ScreenFollowsState` leaves such a screen out until the
next event of a call, or until the user returns without a request.

Call log:

* The mask is one of positions: a call that ends between ticking and deleting
  makes the trash delete other rows.  The comment at `history_manager.c:192` makes
  it a condition ("provided g_history hasn't changed") that nothing ensures.
* The trash button and the mask also stay when edit mode is left (`log_delete` has
  the second tap).  A tap on a row (not on its
  box) does not show the button either.
* `walkthrough.md` says that opening the dialer marks missed calls as viewed; it
  is the call log that does.

Accounts and settings:

* `delete_account_clicked()` decrements `account_count` twice
  (`settings_applet.c:216` and `:218`), under "Shift accounts down" and "Account
  deleted": of two accounts, deleting the first leaves none.  With one account the
  count becomes -1: the file keeps the account, and the next account that is saved is
  written before the array, after which the file is empty (`SaveOutOfBounds`).
* Deleting or disabling an account leaves its agent registered, and the index of
  the default account as it was: it then names another account, or none.
* The page of the system settings saves the choice of a dropdown that is only
  filled on another page, so it can overwrite the default account.
* A line of `accounts.conf` without user or server is passed over, which shifts
  the indices; `settings.conf` keeps the old one.  Without a `settings.conf` the
  settings show the first account as the default while calls ask for one.
* `internal_add_account()` sets the status NONE after `ua_register()`
  (`baresip_manager.c:2229`).  The status table never gives an entry back.
* The dialer's own `account_status[]` is kept by position and is not moved with the
  accounts (`call_applet.c:102`); `reg_status_callback()` compares parts of
  addresses (`:429-448`), so one account can take the status of another.

Contacts:

* `contacts_applet_open_new()` before the applet was first opened loads nothing
  and opens nothing (`contacts_applet.c:46`), although the call log then launches
  the applet.
* Saving or deleting leaves `g_return_to_caller` set: a later "back" from the
  editor leaves the applet.
* A deletion by the context menu while rows are ticked moves the ticks to other
  contacts.
* The call button of the editor has its handler registered twice
  (`contacts_applet.c:698` and `:711`).
* The account picker is a child of the screen and is deleted when `refresh_ui()`
  cleans it, but `g_account_picker_modal` is kept, so no picker opens again
  (`:236`, "Already open").

Chat:

* A conversation loads its *oldest* 50 messages; in a longer one the newest are
  not shown.  Its query compares whole addresses (`database_manager.c:296`), but what
  comes in while it is open is appended by a comparison of parts
  (`chat_applet.c:793`), so it can draw a message of another peer until it is opened
  again.
* A message that comes in while its conversation is open is drawn, and stays
  unread.  A recipient typed in short form is used as the peer: nothing is marked
  read, since `db_mark_chat_read()` compares whole addresses ("should match",
  `database_manager.c:436`).
* Ticks are positions, and a message that comes in loads the list again.
* `chat_applet_open_peer()` takes the first thread whose address contains the
  number, of an array that may be old.
* A message that meets a full queue is dropped while its bubble is shown as sent.

Elsewhere:

* `db_get_contacts()` returns without releasing the database mutex when its
  statement cannot be prepared (`database_manager.c:124-127`).  The mutex is not
  recursive and the program has one thread that uses it, so the next use would
  wait forever.
* The rewriting of the core's configuration appends four `module_load` lines at
  each start (`baresip_manager.c:1112-1115`).
* `baresip_manager_process_video()` is called by `main_fbdev.c:50` only, which the
  Makefile does not build: with `main.c`, no frame is ever handed to the display.

## 9. Not modelled, and what remains

Not modelled:

* the database mutex: what `database_manager.c` does with it is one lock and one
  unlock in each function but for the return above, and SQL statements that
  cannot be prepared have no other effect a property could be about;
* the rewriting of the core's configuration file, and the settings that are only
  copied between a form and a file; `accounts.conf` and the default account are
  in `Settings`;
* the buttons and dialogs of the call screen that are not about which call is
  shown (mute, speaker, keypad, transfer), the cards' widgets, the account picker
  of the dialer;
* the video display: frames are not handed over in the program the Makefile
  builds;
* layout, drawing, fonts, the calculator, the evdev driver and the unfinished
  gb28181 module: no state a property could be about;
* SIP itself, the core and SQLite, which are external and modelled as far as the
  program can tell.

What remains: the properties of one account for several, which need the code to
take the call the event carries (`baresip_manager.c:541`); the calls the core frees
silently under the call screens, with the watchdog in the composition; the parts
listed above.
