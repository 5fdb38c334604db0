-------------------------- MODULE CommandQueueProofs --------------------------
(***************************************************************************)
(* For every capacity and every set of commands: the ring of CommandQueue  *)
(* stays whole, and it implements the bounded FIFO.                        *)
(***************************************************************************)
EXTENDS CommandQueue, TLAPS

\* The cell after a cell, without the remainder.
LEMMA SuccCell ==
  ASSUME NEW i \in Cells
  PROVE  /\ Succ(i) = IF i + 1 = Size THEN 0 ELSE i + 1
         /\ Succ(i) \in Cells
<1>1. Size \in Nat \ {0} /\ i \in 0..(Size - 1)
  BY CommandQueueAssumption DEF Cells
<1>2. (i + 1) % Size = IF i + 1 = Size THEN 0 ELSE i + 1
  <2>1. CASE i + 1 = Size
    BY ONLY <1>1, <2>1
  <2>2. CASE i + 1 # Size
    BY ONLY <1>1, <2>2
  <2> QED BY ONLY <2>1, <2>2
<1>3. (IF i + 1 = Size THEN 0 ELSE i + 1) \in 0..(Size - 1)
  BY ONLY <1>1
<1> QED BY ONLY <1>2, <1>3 DEF Succ, Cells

\* Every variable keeps its type: the indices stay in the ring, and the count
\* between empty and full.
THEOREM TypeCorrect == Spec => []TypeOK
<1>1. Init => TypeOK
  BY CommandQueueAssumption DEF Init, TypeOK, Cells
<1>2. TypeOK /\ [Next]_vars => TypeOK'
  <2> SUFFICES ASSUME TypeOK, [Next]_vars PROVE TypeOK'
    OBVIOUS
  <2> USE CommandQueueAssumption
  <2>1. ASSUME NEW c \in Cmds, Enqueue(c) PROVE TypeOK'
    <3>0. tail \in Cells
      BY DEF TypeOK
    <3>1. Succ(tail) \in Cells
      BY ONLY <3>0, SuccCell
    <3> QED BY <2>1, <3>1 DEF TypeOK, Enqueue, HasRoom, Cells
  <2>2. CASE Fire
    BY <2>2 DEF TypeOK, Fire
  <2>3. CASE Dequeue
    <3>0. head \in Cells
      BY DEF TypeOK
    <3>1. Succ(head) \in Cells
      BY ONLY <3>0, SuccCell
    <3> QED BY <2>3, <3>1 DEF TypeOK, Dequeue, HasCommand, Oldest, Cells
  <2>4. CASE Execute
    BY <2>4 DEF TypeOK, Execute
  <2>5. CASE Reschedule
    BY <2>5 DEF TypeOK, Reschedule
  <2>6. CASE UNCHANGED vars
    BY <2>6 DEF TypeOK, vars
  <2> QED BY <2>1, <2>2, <2>3, <2>4, <2>5, <2>6 DEF Next, Drain
<1> QED BY <1>1, <1>2, PTL DEF Spec

-----------------------------------------------------------------------------
\* The cells of the waiting commands are cells of the ring, all different.
LEMMA CellFacts ==
  ASSUME TypeOK, NEW k \in 1..(count + 1), count < Size
  PROVE  /\ Cell(k) \in Cells
         /\ k <= count => Cell(k) # Cell(count + 1)
BY CommandQueueAssumption DEF TypeOK, Cell, Cells

\* Appending changes nothing of a sequence but its end.
LEMMA AppendFacts ==
  ASSUME NEW S, NEW q \in Seq(S), NEW e \in S
  PROVE  /\ Len(Append(q, e)) = Len(q) + 1
         /\ \A k \in 1..Len(q) : Append(q, e)[k] = q[k]
         /\ Append(q, e)[Len(q) + 1] = e
OBVIOUS

LEMMA RingStep ==
  ASSUME TypeOK, TypeOK', RingIsWhole, [Next]_vars
  PROVE  RingIsWhole'
<1> USE CommandQueueAssumption
<1>1. ASSUME NEW c \in Cmds, Enqueue(c) PROVE RingIsWhole'
  <2>1. /\ count' = count + 1 /\ head' = head /\ count < Size
        /\ items' = [items EXCEPT ![tail] = c] /\ accepted' = Append(accepted, c)
        /\ executed' = executed /\ cmd' = cmd /\ tail' = Succ(tail)
    BY <1>1 DEF Enqueue, HasRoom
  <2>2. tail' = Cell(count + 1)'
    BY <2>1, SuccCell DEF RingIsWhole, TypeOK, Cell, Cells
  <2>a. /\ Len(accepted') = Len(accepted) + 1
        /\ \A k \in 1..Len(accepted) : accepted'[k] = accepted[k]
        /\ accepted'[Len(accepted) + 1] = c
    BY <2>1, AppendFacts DEF TypeOK
  <2>b. /\ Len(accepted) \in Nat /\ Len(executed) \in Nat /\ count \in Nat
        /\ Len(accepted) = Len(executed) + count + (IF cmd = NoCmd THEN 0 ELSE 1)
    BY DEF TypeOK, RingIsWhole
  <2>3. /\ Len(accepted') = Len(executed') + count' + (IF cmd' = NoCmd THEN 0 ELSE 1)
        /\ \A k \in 1..Len(executed') : executed'[k] = accepted'[k]
        /\ cmd' # NoCmd => cmd' = accepted'[Len(executed') + 1]
    <3>1. Len(accepted') = Len(executed') + count' + (IF cmd' = NoCmd THEN 0 ELSE 1)
      BY <2>1, <2>a, <2>b
    <3>2. \A k \in 1..Len(executed') : executed'[k] = accepted'[k]
      BY <2>1, <2>a, <2>b DEF RingIsWhole
    <3>3. cmd' # NoCmd => cmd' = accepted'[Len(executed') + 1]
      BY <2>1, <2>a, <2>b DEF RingIsWhole
    <3> QED BY <3>1, <3>2, <3>3
  <2>4. ASSUME NEW k \in 1..count' PROVE items'[Cell(k)'] = accepted'[Len(accepted') - count' + k]
    <3>1. Cell(k)' = Cell(k) /\ Cell(k) \in Cells
      BY <2>1, CellFacts DEF Cell, TypeOK
    <3>2. CASE k <= count
      <4>0. k <= count /\ tail = Cell(count + 1)
        BY <3>2 DEF RingIsWhole
      <4>1. Cell(k) # tail
        BY <2>1, <4>0, CellFacts
      <4>2. items'[Cell(k)] = items[Cell(k)]
        BY <4>1, <3>1, <2>1 DEF TypeOK
      <4>3. items[Cell(k)] = accepted[Len(accepted) - count + k]
        BY <3>2, <2>4 DEF RingIsWhole, TypeOK
      <4>4. accepted'[Len(accepted') - count' + k] = accepted[Len(accepted) - count + k]
        <5>1. Len(accepted') - count' = Len(accepted) - count
          BY <2>1, <2>a, <2>b
        <5>2. Len(accepted) - count + k \in 1..Len(accepted)
          BY <2>b, <3>2, <2>4
        <5> QED BY <5>1, <5>2, <2>a
      <4> QED BY <3>1, <4>2, <4>3, <4>4
    <3>3. CASE k = count + 1
      <4>1. items'[Cell(k)] = c
        BY <3>1, <3>3, <2>1 DEF RingIsWhole, TypeOK
      <4>2. Len(accepted') - count' + k = Len(accepted) + 1
        BY <3>3, <2>1, <2>a, <2>b
      <4> QED BY <4>1, <4>2, <3>1, <2>a
    <3> QED BY <3>2, <3>3, <2>1, <2>4, <2>b
  <2> QED BY <2>2, <2>3, <2>4 DEF RingIsWhole
<1>2. CASE Fire
  BY <1>2 DEF RingIsWhole, Fire, Cell
<1>3. CASE Dequeue
  <2>1. /\ count' = count - 1 /\ count > 0 /\ head' = Succ(head) /\ cmd = NoCmd
        /\ cmd' = items[head] /\ UNCHANGED <<items, tail, accepted, executed>>
    BY <1>3 DEF Dequeue, HasCommand, Oldest
  <2>2. head' = IF head + 1 = Size THEN 0 ELSE head + 1
    BY <2>1, SuccCell DEF TypeOK
  <2>3. ASSUME NEW k \in 1..count PROVE Cell(k)' = Cell(k + 1)
    BY <2>2 DEF Cell, TypeOK, Cells
  <2>4. Cell(1) = head /\ items[Cell(1)] = accepted[Len(accepted) - count + 1]
    <3>1. Cell(1) = head
      BY DEF TypeOK, Cell, Cells
    <3>2. 1 \in 1..count
      BY <2>1 DEF TypeOK
    <3> QED BY <3>1, <3>2 DEF RingIsWhole
  <2>5. tail' = Cell(count + 1)'
    <3>1. tail' = Cell(count + 1)
      BY <2>1 DEF RingIsWhole
    <3>2. Cell(count + 1)' = LET d == head' + (count - 1) IN IF d < Size THEN d ELSE d - Size
      BY <2>1 DEF Cell, TypeOK
    <3> QED BY <3>1, <3>2, <2>1, <2>2 DEF Cell, TypeOK, Cells
  <2>6. \A k \in 1..count' : items'[Cell(k)'] = accepted'[Len(accepted') - count' + k]
    <3> SUFFICES ASSUME NEW k \in 1..count'
                 PROVE  items'[Cell(k)'] = accepted'[Len(accepted') - count' + k]
      OBVIOUS
    <3>1. k \in 1..count /\ k + 1 \in 1..count
      BY <2>1 DEF TypeOK
    <3>2. items[Cell(k + 1)] = accepted[Len(accepted) - count + (k + 1)]
      BY <3>1 DEF RingIsWhole
    <3>3. Len(accepted') - count' + k = Len(accepted) - count + (k + 1)
      BY <2>1, <3>1 DEF TypeOK
    <3> QED BY <3>1, <3>2, <3>3, <2>3, <2>1
  <2>7. items[head] # NoCmd
    <3>1. Len(accepted) = Len(executed) + count
      BY <2>1 DEF RingIsWhole, TypeOK
    <3>2. Len(accepted) - count + 1 \in 1..Len(accepted)
      BY <3>1, <2>1 DEF TypeOK
    <3> QED BY <3>2, <2>4 DEF TypeOK
  <2>8. /\ Len(accepted') = Len(executed') + count' + (IF cmd' = NoCmd THEN 0 ELSE 1)
        /\ \A k \in 1..Len(executed') : executed'[k] = accepted'[k]
        /\ cmd' # NoCmd => cmd' = accepted'[Len(executed') + 1]
    <3>1. Len(accepted') = Len(executed') + count' + (IF cmd' = NoCmd THEN 0 ELSE 1)
      BY <2>1, <2>7 DEF RingIsWhole, TypeOK
    <3>2. \A k \in 1..Len(executed') : executed'[k] = accepted'[k]
      BY <2>1 DEF RingIsWhole
    <3>3. Len(accepted) - count = Len(executed)
      BY <2>1 DEF RingIsWhole, TypeOK
    <3> QED BY <3>1, <3>2, <3>3, <2>1, <2>4
  <2> QED BY <2>5, <2>6, <2>8 DEF RingIsWhole
<1>4. CASE Execute
  <2>1. /\ cmd # NoCmd /\ cmd' = NoCmd /\ executed' = Append(executed, cmd)
        /\ UNCHANGED <<items, head, tail, count, accepted>>
    BY <1>4 DEF Execute
  <2>2. Len(executed') = Len(executed) + 1
    BY <2>1 DEF TypeOK
  <2>3. \A k \in 1..Len(executed') : executed'[k] = accepted'[k]
    <3>1. /\ \A k \in 1..Len(executed) : executed'[k] = executed[k]
          /\ executed'[Len(executed) + 1] = cmd
      BY <2>1, AppendFacts DEF TypeOK
    <3>2. \A k \in 1..Len(executed) : executed[k] = accepted[k]
      BY DEF RingIsWhole
    <3>3. cmd = accepted[Len(executed) + 1]
      BY <2>1 DEF RingIsWhole
    <3>4. \A k \in 1..Len(executed') : k \in 1..Len(executed) \/ k = Len(executed) + 1
      BY <2>2 DEF TypeOK
    <3> QED BY <3>1, <3>2, <3>3, <3>4, <2>1
  <2>4. Len(accepted') = Len(executed') + count' + (IF cmd' = NoCmd THEN 0 ELSE 1)
    BY <2>1, <2>2 DEF RingIsWhole, TypeOK
  <2>5. /\ tail' = Cell(count + 1)'
        /\ \A k \in 1..count' : items'[Cell(k)'] = accepted'[Len(accepted') - count' + k]
    BY <2>1 DEF RingIsWhole, Cell
  <2> QED BY <2>1, <2>3, <2>4, <2>5 DEF RingIsWhole
<1>5. CASE Reschedule
  BY <1>5 DEF RingIsWhole, Reschedule, Cell
<1>6. CASE UNCHANGED vars
  BY <1>6 DEF RingIsWhole, vars, Cell
<1> QED BY <1>1, <1>2, <1>3, <1>4, <1>5, <1>6 DEF Next, Drain

\* The waiting commands are exactly the accepted ones that were not taken yet, in
\* order, for a ring of any size that may be filled while it is drained.
THEOREM RingCorrect == Spec => []RingIsWhole
<1>1. Init => RingIsWhole
  BY CommandQueueAssumption DEF Init, RingIsWhole, Cell
<1> QED BY <1>1, TypeCorrect, RingStep, PTL DEF Spec

-----------------------------------------------------------------------------
\* The ring implements the bounded FIFO: each step of the ring is a step of the
\* FIFO whose waiting commands are the cells from head to tail, or a stutter.
WaitingIsSeq ==
  /\ Waiting \in Seq(Cmds)
  /\ Len(Waiting) = count
  /\ \A k \in 1..count : Waiting[k] = items[Cell(k)]

LEMMA WaitingFacts == TypeOK /\ RingIsWhole => WaitingIsSeq
<1> SUFFICES ASSUME TypeOK, RingIsWhole PROVE WaitingIsSeq
  OBVIOUS
<1>1. ASSUME NEW k \in 1..count PROVE items[Cell(k)] \in Cmds
  <2>1. Len(accepted) - count + k \in 1..Len(accepted)
    BY DEF TypeOK, RingIsWhole
  <2> QED BY <2>1 DEF TypeOK, RingIsWhole
<1>2. Waiting \in [1..count -> Cmds] /\ count \in Nat
  BY <1>1, CommandQueueAssumption DEF Waiting, TypeOK
<1> QED BY <1>2 DEF Waiting, WaitingIsSeq

LEMMA WaitingFactsNext == TypeOK' /\ RingIsWhole' => WaitingIsSeq'
BY WaitingFacts, PTL

\* Two sequences are equal when they are of one length and agree everywhere.
LEMMA SeqEqual ==
  ASSUME NEW S, NEW p \in Seq(S), NEW q \in Seq(S), Len(p) = Len(q),
         \A k \in 1..Len(p) : p[k] = q[k]
  PROVE  p = q
OBVIOUS

LEMMA FifoStep ==
  ASSUME TypeOK, TypeOK', RingIsWhole, RingIsWhole', [Next]_vars
  PROVE  [Fifo!FifoNext]_<<Waiting, cmd, executed>>
<1> USE CommandQueueAssumption
<1>a. WaitingIsSeq
  BY WaitingFacts
<1>b. WaitingIsSeq'
  BY WaitingFactsNext
<1>1. ASSUME NEW c \in Cmds, Enqueue(c) PROVE Fifo!FifoNext
  <2>1. /\ count' = count + 1 /\ head' = head /\ count < Size
        /\ items' = [items EXCEPT ![tail] = c]
        /\ executed' = executed /\ cmd' = cmd
    BY <1>1 DEF Enqueue, HasRoom
  <2>2. Waiting' \in Seq(Cmds) /\ Len(Waiting') = count + 1
    BY <2>1, <1>b DEF WaitingIsSeq
  <2>3. Append(Waiting, c) \in Seq(Cmds) /\ Len(Append(Waiting, c)) = count + 1
    BY <1>a, AppendFacts DEF WaitingIsSeq
  <2>4. ASSUME NEW k \in 1..(count + 1) PROVE Waiting'[k] = Append(Waiting, c)[k]
    <3>1. Waiting'[k] = items'[Cell(k)] /\ Cell(k) \in Cells
      BY <2>1, <1>b, CellFacts DEF Cell, WaitingIsSeq, TypeOK
    <3>2. CASE k \in 1..count
      <4>0. k <= count /\ tail = Cell(count + 1)
        BY <3>2 DEF RingIsWhole
      <4>1. Cell(k) # tail
        BY <2>1, <4>0, CellFacts
      <4> QED BY <3>1, <3>2, <4>1, <2>1, <1>a, AppendFacts DEF TypeOK, WaitingIsSeq
    <3>3. CASE k = count + 1
      BY <3>1, <3>3, <2>1, <1>a, AppendFacts DEF RingIsWhole, TypeOK, WaitingIsSeq
    <3>4. count \in Int
      BY DEF TypeOK
    <3>5. k \in 1..count \/ k = count + 1
      BY ONLY <3>4, k \in 1..(count + 1)
    <3> QED BY ONLY <3>2, <3>3, <3>5
  <2>5. Waiting' = Append(Waiting, c)
    BY <2>2, <2>3, <2>4, SeqEqual
  <2> QED BY <2>1, <2>5, <1>a DEF Fifo!FifoNext, Fifo!Put, WaitingIsSeq
<1>2. CASE Fire
  BY <1>2 DEF Fire, Waiting, Cell
<1>3. CASE Dequeue
  <2>1. /\ count' = count - 1 /\ count > 0 /\ head' = Succ(head) /\ cmd = NoCmd
        /\ cmd' = items[head] /\ UNCHANGED <<items, tail, accepted, executed>>
    BY <1>3 DEF Dequeue, HasCommand, Oldest
  <2>2. head' = IF head + 1 = Size THEN 0 ELSE head + 1
    BY <2>1, SuccCell DEF TypeOK
  <2>3. ASSUME NEW k \in 1..count' PROVE Cell(k)' = Cell(k + 1)
    BY <2>1, <2>2 DEF Cell, TypeOK, Cells
  <2>4. Waiting # <<>> /\ Head(Waiting) = items[head]
    <3>1. Cell(1) = head /\ 1 \in 1..count
      BY <2>1 DEF Cell, TypeOK, Cells
    <3> QED BY <3>1, <1>a DEF WaitingIsSeq
  <2>5. Waiting' = Tail(Waiting)
    <3>1. Waiting' \in Seq(Cmds) /\ Len(Waiting') = count - 1
      BY <2>1, <1>b DEF WaitingIsSeq
    <3>2. /\ Tail(Waiting) \in Seq(Cmds) /\ Len(Tail(Waiting)) = count - 1
          /\ \A k \in 1..(count - 1) : Tail(Waiting)[k] = Waiting[k + 1]
      BY <2>4, <1>a DEF TypeOK, WaitingIsSeq
    <3>3. ASSUME NEW k \in 1..(count - 1) PROVE Waiting'[k] = Tail(Waiting)[k]
      <4>1. Waiting'[k] = items[Cell(k + 1)]
        BY <2>1, <2>3, <1>b DEF WaitingIsSeq, TypeOK
      <4>2. k + 1 \in 1..count
        BY <2>1 DEF TypeOK
      <4> QED BY <4>1, <4>2, <3>2, <1>a DEF WaitingIsSeq
    <3> QED BY <3>1, <3>2, <3>3, SeqEqual
  <2> QED BY <2>1, <2>4, <2>5 DEF Fifo!FifoNext, Fifo!Take
<1>4. CASE Execute
  <2>1. Waiting' = Waiting
    BY <1>4 DEF Execute, Waiting, Cell
  <2> QED BY <1>4, <2>1 DEF Execute, Fifo!FifoNext, Fifo!Finish
<1>5. CASE Reschedule
  BY <1>5 DEF Reschedule, Waiting, Cell
<1>6. CASE UNCHANGED vars
  BY <1>6 DEF vars, Waiting, Cell
<1> QED BY <1>1, <1>2, <1>3, <1>4, <1>5, <1>6 DEF Next, Drain

\* The waiting cells, the command being executed and the executed commands
\* behave as the bounded FIFO does: cmd_enqueue() and cmd_check_cb() together
\* lose no command, double none and keep their order.
THEOREM RingImplementsFifo == Spec => ImplementsFifo
<1>1. Init => Fifo!FifoInit
  BY DEF Init, Fifo!FifoInit, Waiting
<1> QED BY <1>1, TypeCorrect, RingCorrect, FifoStep, PTL DEF Spec, ImplementsFifo, Fifo!FifoSpec

-----------------------------------------------------------------------------
(* What the execution of every accepted command rests on.                  *)

\* The steps of the timer before the n-th accepted command has been executed.
Distance(n) == 2 * (n - Len(executed)) + (IF cmd = NoCmd THEN 1 ELSE 0)
               + (IF draining THEN 0 ELSE 1)

Approaches(n) ==
  /\ Distance(n) \in Nat
  /\ Distance(n)' <= Distance(n)
  /\ Drain => Distance(n)' < Distance(n)

LEMMA DrainStep ==
  ASSUME TypeOK, RingIsWhole, [Next]_vars, NEW n \in 1..Len(accepted), Len(executed) < n
  PROVE  Approaches(n)
<1> DEFINE idle == IF cmd = NoCmd THEN 1 ELSE 0
           asleep == IF draining THEN 0 ELSE 1
<1>1. /\ n \in Nat /\ Len(executed) \in Nat /\ count \in Nat
      /\ Len(accepted) = Len(executed) + count + (IF cmd = NoCmd THEN 0 ELSE 1)
      /\ n <= Len(accepted) /\ cmd \in Cmds \cup {NoCmd} /\ executed \in Seq(Cmds)
  BY CommandQueueAssumption DEF TypeOK, RingIsWhole
<1>2. idle \in 0..1 /\ asleep \in 0..1 /\ Distance(n) = 2 * (n - Len(executed)) + idle + asleep
  BY DEF Distance
<1>3. Distance(n) \in Nat
  <2> HIDE DEF idle, asleep
  <2> QED BY <1>1, <1>2
<1>4. CASE Fire
  BY <1>1, <1>4 DEF Approaches, Distance, Fire
<1>5. CASE Dequeue
  <2>1. cmd = NoCmd /\ cmd' # NoCmd /\ executed' = executed /\ draining' = draining
    <3>1. count \in 1..Size /\ cmd = NoCmd /\ cmd' = items[head]
      BY <1>5 DEF Dequeue, HasCommand, Oldest, TypeOK
    <3>2. cmd' \in Cmds
      <4>1. Cell(1) = head /\ 1 \in 1..count
        BY <3>1, CommandQueueAssumption DEF Cell, TypeOK, Cells
      <4>2. items[Cell(1)] = accepted[Len(accepted) - count + 1]
        BY <4>1 DEF RingIsWhole
      <4>3. Len(accepted) - count + 1 \in 1..Len(accepted) /\ accepted \in Seq(Cmds)
        BY <1>1, <3>1 DEF TypeOK
      <4> QED BY <3>1, <4>1, <4>2, <4>3
    <3> QED BY <1>5, <3>1, <3>2, CommandQueueAssumption DEF Dequeue
  <2> QED BY <1>1, <2>1 DEF Approaches, Distance
<1>6. CASE Execute
  <2>1. /\ cmd # NoCmd /\ cmd' = NoCmd /\ draining' = draining
        /\ executed' = Append(executed, cmd) /\ cmd \in Cmds
    BY <1>1, <1>6 DEF Execute
  <2>2. Len(executed') = Len(executed) + 1
    BY <1>1, <2>1
  <2> QED BY <1>1, <2>1, <2>2 DEF Approaches, Distance
<1>7. ~Reschedule
  BY <1>1 DEF Reschedule, HasCommand
<1>8. CASE ~Drain
  <2>1. UNCHANGED <<executed, cmd, draining>>
    BY <1>8 DEF Next, Enqueue, vars
  <2>2. Distance(n)' = Distance(n)
    BY <2>1 DEF Distance
  <2> QED BY <1>3, <1>8, <2>2 DEF Approaches
<1> QED BY <1>3, <1>4, <1>5, <1>6, <1>7, <1>8 DEF Approaches, Drain

\* An accepted command is a bounded number of the timer's steps from its
\* execution: each of these steps brings it nearer, and whatever is enqueued
\* meanwhile does not put it off.
THEOREM DrainAdvances ==
  Spec => [][\A n \in 1..Len(accepted) : Len(executed) < n => Approaches(n)]_vars
<1>1. TypeOK /\ RingIsWhole /\ [Next]_vars
        => [\A n \in 1..Len(accepted) : Len(executed) < n => Approaches(n)]_vars
  BY DrainStep
<1> QED BY <1>1, TypeCorrect, RingCorrect, PTL DEF Spec
=============================================================================
