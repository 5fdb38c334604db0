------------------------------ MODULE BoundedFifo ------------------------------
(***************************************************************************)
(* What the users of a command queue rely on: a command that is accepted   *)
(* waits its turn, is taken once and executed before the next one is       *)
(* taken, and at most Size commands wait.                                  *)
(***************************************************************************)
EXTENDS Integers, Sequences

CONSTANTS Cmds, NoCmd, Size

VARIABLES
  waiting,   \* accepted commands, oldest first
  taken,     \* the command being executed, or NoCmd
  executed   \* the commands executed so far

FifoInit == waiting = <<>> /\ taken = NoCmd /\ executed = <<>>

Put(c) ==
  /\ Len(waiting) < Size
  /\ waiting' = Append(waiting, c)
  /\ UNCHANGED <<taken, executed>>

Take ==
  /\ taken = NoCmd
  /\ waiting # <<>>
  /\ taken' = Head(waiting)
  /\ waiting' = Tail(waiting)
  /\ UNCHANGED executed

Finish ==
  /\ taken # NoCmd
  /\ executed' = Append(executed, taken)
  /\ taken' = NoCmd
  /\ UNCHANGED waiting

FifoNext == (\E c \in Cmds : Put(c)) \/ Take \/ Finish

FifoSpec == FifoInit /\ [][FifoNext]_<<waiting, taken, executed>>
=============================================================================
