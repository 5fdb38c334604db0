----------------------------- MODULE Registration -----------------------------
(***************************************************************************)
(* The accounts as the manager knows them: the commands that wait to add   *)
(* one, the user agents of the core, and the table of their registration   *)
(* status, which the rest of the program asks by address.                  *)
(*                                                                         *)
(* Nothing removes a user agent or an entry of the table: an account that  *)
(* is edited gets a second agent, and keeps the place of the first one.    *)
(*                                                                         *)
(* A definition named ...Slip is not part of the model: it is a variant of *)
(* the one after it, with a mistake that a property below detects.         *)
(***************************************************************************)
EXTENDS Integers, Sequences, FiniteSets

CONSTANTS
  Users,        \* the addresses (AOR) of complete accounts
  Blank,        \* the address of an account without a user or a server
  Similar,      \* <<a, b>>: the user and the server of a occur in the text of b
  Failures,     \* how an answer to REGISTER can fail
  MaxAccounts,  \* MAX_ACCOUNTS
  QueueSize,    \* CMD_QUEUE_SIZE
  MaxUas        \* bound of the model: user agents made in one run of the program

ASSUME RegistrationAssumption ==
  /\ Blank \notin Users
  /\ Similar \subseteq (Users \cup {Blank}) \X (Users \cup {Blank})
  /\ Failures \subseteq {"FAILED", "AUTH_FAILED"}
  /\ MaxAccounts \in Nat \ {0}
  /\ QueueSize \in Nat \ {0}
  /\ MaxUas \in Nat

VARIABLES
  queue,   \* the accounts in the command queue
  uas,     \* the user agents, and what each has reported last
  status,  \* g_call_state.accounts: a function from the addresses it holds
  refused  \* history: what did not fit in the queue, or was no valid address

regVars == <<queue, uas, status, refused>>

Aors == Users \cup {Blank}
Accounts == [aor : Aors, enabled : BOOLEAN]
Statuses == {"NONE", "REGISTERING", "REGISTERED", "FAILED", "AUTH_FAILED"}
Answers == {"REGISTERED"} \cup Failures
Uas == [aor : Aors, last : Statuses]

RegTypeOK ==
  /\ queue \in Seq(Accounts) /\ Len(queue) <= QueueSize
  /\ uas \in Seq(Uas) /\ Len(uas) <= MaxUas
  /\ status \in UNION {[S -> Statuses] : S \in SUBSET Aors}
  /\ Cardinality(DOMAIN status) <= MaxAccounts
  /\ refused \subseteq Aors

-----------------------------------------------------------------------------
\* find_account() has an entry for a, or update_account_status() can make one.
HasPlace(t, a) == a \in DOMAIN t \/ Cardinality(DOMAIN t) < MaxAccounts

Updated(t, a, s) ==
  IF HasPlace(t, a) THEN [b \in DOMAIN t \cup {a} |-> IF b = a THEN s ELSE t[b]]
                    ELSE t

\* baresip_manager_add_account() on each of the accounts of l, in order.
EnqueuedSlip(q, l) == q \o l

Enqueued(q, l) ==
  q \o SubSeq(l, 1, IF Len(q) + Len(l) <= QueueSize THEN Len(l) ELSE QueueSize - Len(q))

\* Those that cmd_enqueue() has no room for.
Dropped(q, l) == {l[i].aor : i \in {j \in DOMAIN l : Len(q) + j > QueueSize}}

Enqueue(l) ==
  /\ queue' = Enqueued(queue, l)
  /\ refused' = refused \cup Dropped(queue, l)
  /\ UNCHANGED <<uas, status>>

\* internal_add_account(), as cmd_check_cb() runs it: ua_alloc() may fail, and
\* ua_register(), which reports before the status is set to NONE.
AddRefused ==
  /\ queue # <<>>
  /\ queue' = Tail(queue)
  /\ refused' = refused \cup {Head(queue).aor}
  /\ UNCHANGED <<uas, status>>

AddUaSlip(last) ==
  /\ queue # <<>> /\ Len(uas) < MaxUas
  /\ queue' = Tail(queue)
  /\ uas' = Append(uas, [aor |-> Head(queue).aor, last |-> last])
  /\ status' = Updated(status, Head(queue).aor, "REGISTERING")
  /\ UNCHANGED refused

AddUa(last) ==
  /\ queue # <<>> /\ Len(uas) < MaxUas
  /\ last = "REGISTERING" => Head(queue).enabled
  /\ queue' = Tail(queue)
  /\ uas' = Append(uas, [aor |-> Head(queue).aor, last |-> last])
  /\ status' = Updated(Updated(status, Head(queue).aor, last), Head(queue).aor, "NONE")
  /\ UNCHANGED refused

\* REGISTER_OK makes an entry, REGISTER_FAIL only changes the one it finds.
Answered(t, a, s) ==
  IF s = "REGISTERED" \/ a \in DOMAIN t THEN Updated(t, a, s) ELSE t

Answer(i, s) ==
  /\ uas' = [uas EXCEPT ![i].last = s]
  /\ status' = Answered(status, uas[i].aor, s)
  /\ UNCHANGED <<queue, refused>>

\* baresip_manager_account_register_simple(): the first user agent whose
\* address holds the user and the server of a.
FirstLike(a, i) ==
  /\ <<a, uas[i].aor>> \in Similar
  /\ \A j \in 1..(i - 1) : <<a, uas[j].aor>> \notin Similar

RegisterAgain(i) ==
  /\ \E a \in Users : FirstLike(a, i)
  /\ uas' = [uas EXCEPT ![i].last = "REGISTERING"]
  /\ status' = Updated(status, uas[i].aor, "REGISTERING")
  /\ UNCHANGED <<queue, refused>>

RegNext ==
  \/ AddRefused
  \/ \E last \in {"NONE", "REGISTERING"} : AddUa(last)
  \/ \E i \in DOMAIN uas, s \in Answers : Answer(i, s)
  \/ \E i \in DOMAIN uas : RegisterAgain(i)

-----------------------------------------------------------------------------
(* Properties                                                              *)

\* What the table says of an address is what a user agent with that address has
\* reported last, or NONE while that one waits for its first answer.  Only a
\* full table leaves a user agent out: it is never freed of old accounts.
StatusIsFaithful ==
  /\ \A a \in DOMAIN status : \E i \in DOMAIN uas :
       /\ uas[i].aor = a
       /\ \/ status[a] = uas[i].last
          \/ status[a] = "NONE" /\ uas[i].last = "REGISTERING"
  /\ \A i \in DOMAIN uas :
       uas[i].aor \in DOMAIN status \/ Cardinality(DOMAIN status) = MaxAccounts
=============================================================================
