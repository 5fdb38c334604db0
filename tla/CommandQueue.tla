----------------------------- MODULE CommandQueue -----------------------------
(***************************************************************************)
(* The command queue of baresip_manager.c: a ring buffer the user          *)
(* interface fills (baresip_manager_add_account() and ..._send_message())  *)
(* and a timer of the core's loop drains (cmd_check_cb()).  Both sides     *)
(* hold g_cmd_mutex while they touch the buffer, and only then; a step is  *)
(* one such region, or the execution of the command that was copied out.   *)
(*                                                                         *)
(* A definition named ...Slip is not part of the model: it is a variant of *)
(* the one after it, with a mistake that a property below detects.         *)
(***************************************************************************)
EXTENDS Integers, Sequences

CONSTANTS
  Cmds,          \* the commands that may be enqueued
  NoCmd,         \* no command in the local variable cmd
  Size,          \* CMD_QUEUE_SIZE
  MaxAccepted    \* bound of the model: commands accepted in one behaviour

ASSUME CommandQueueAssumption ==
  /\ NoCmd \notin Cmds
  /\ Size \in Nat \ {0}
  /\ MaxAccepted \in Nat

VARIABLES
  items, head, tail, count,   \* g_cmd_queue
  draining,                   \* is cmd_check_cb() running?
  cmd,                        \* its local copy of the command it executes
  accepted, executed          \* the commands enqueued and executed, in order

vars == <<items, head, tail, count, draining, cmd, accepted, executed>>

Cells == 0..(Size - 1)

TypeOK ==
  /\ items \in [Cells -> Cmds \cup {NoCmd}]
  /\ head \in Cells
  /\ tail \in Cells
  /\ count \in 0..Size
  /\ draining \in BOOLEAN
  /\ cmd \in Cmds \cup {NoCmd}
  /\ accepted \in Seq(Cmds)
  /\ executed \in Seq(Cmds)

Init ==
  /\ items = [k \in Cells |-> NoCmd]
  /\ head = 0
  /\ tail = 0
  /\ count = 0
  /\ draining = FALSE
  /\ cmd = NoCmd
  /\ accepted = <<>>
  /\ executed = <<>>

SuccSlip(i) == i + 1

Succ(i) == (i + 1) % Size

HasRoomSlip == count <= Size

HasRoom == count < Size

HasCommandSlip == count > 1

HasCommand == count > 0

OldestSlip == items[(tail + Size - 1) % Size]

Oldest == items[head]

\* cmd_enqueue(); on a full queue it returns false and the caller -1, and
\* nothing is queued.
Enqueue(c) ==
  /\ Len(accepted) < MaxAccepted
  /\ HasRoom
  /\ items' = [items EXCEPT ![tail] = c]
  /\ tail' = Succ(tail)
  /\ count' = count + 1
  /\ accepted' = Append(accepted, c)
  /\ UNCHANGED <<head, draining, cmd, executed>>

\* The timer g_loop_tmr calls cmd_check_cb() ...
Fire ==
  /\ ~draining
  /\ draining' = TRUE
  /\ UNCHANGED <<items, head, tail, count, cmd, accepted, executed>>

\* ... which copies a command out under the mutex ...
Dequeue ==
  /\ draining
  /\ cmd = NoCmd
  /\ HasCommand
  /\ cmd' = Oldest
  /\ head' = Succ(head)
  /\ count' = count - 1
  /\ UNCHANGED <<items, tail, draining, accepted, executed>>

\* ... executes it without the mutex ...
Execute ==
  /\ cmd # NoCmd
  /\ executed' = Append(executed, cmd)
  /\ cmd' = NoCmd
  /\ UNCHANGED <<items, head, tail, count, draining, accepted>>

\* ... until it finds the queue empty, and reschedules itself.
Reschedule ==
  /\ draining
  /\ cmd = NoCmd
  /\ ~HasCommand
  /\ draining' = FALSE
  /\ UNCHANGED <<items, head, tail, count, cmd, accepted, executed>>

Drain == Fire \/ Dequeue \/ Execute \/ Reschedule

Next == (\E c \in Cmds : Enqueue(c)) \/ Drain

Spec == Init /\ [][Next]_vars

\* The timer always fires again, and the callback runs to its end.
FairSpec == Spec /\ WF_vars(Drain)

-----------------------------------------------------------------------------
(* Properties                                                              *)

\* The k-th waiting command, for k from 1 to count.
Cell(k) == LET c == head + k - 1 IN IF c < Size THEN c ELSE c - Size
Waiting == [k \in 1..count |-> items[Cell(k)]]

\* The ring is whole: tail is where count commands after head end, and the
\* commands between them are those that were accepted and not yet executed, in
\* the order they came in; none is lost, doubled or overtaken.
RingIsWhole ==
  /\ tail = Cell(count + 1)
  /\ Len(accepted) = Len(executed) + count + (IF cmd = NoCmd THEN 0 ELSE 1)
  /\ \A k \in 1..Len(executed) : executed[k] = accepted[k]
  /\ cmd # NoCmd => cmd = accepted[Len(executed) + 1]
  /\ \A k \in 1..count : items[Cell(k)] = accepted[Len(accepted) - count + k]

\* The ring buffer implements the bounded FIFO.
Fifo == INSTANCE BoundedFifo WITH waiting <- Waiting, taken <- cmd
ImplementsFifo == Fifo!FifoSpec

\* Each accepted command is executed in the end, however many follow it.
AcceptedIsExecuted ==
  \A n \in 1..MaxAccepted : Len(accepted) >= n ~> Len(executed) >= n
=============================================================================
