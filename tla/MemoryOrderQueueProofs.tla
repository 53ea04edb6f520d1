----------------------- MODULE MemoryOrderQueueProofs -----------------------
(***************************************************************************)
(* The safety of the in-memory queue, for any set of orders and any size   *)
(* of the buffer.                                                          *)
(***************************************************************************)
EXTENDS MemoryOrderQueue, TLAPS

\* Every variable keeps its type, and the buffer never holds more than its size.
THEOREM TypeCorrect == Spec => []TypeOK
<1>1. Init => TypeOK
  <2> SUFFICES ASSUME Init PROVE TypeOK
    OBVIOUS
  <2>1. ch \in Seq(Messages) /\ Len(ch) = 0
    BY DEF Init
  <2>2. Len(ch) <= BufferSize
    BY <2>1, BufferSizeAssumption
  <2>3. QED
    BY <2>1, <2>2 DEF Init, TypeOK
<1>2. TypeOK /\ [Next]_vars => TypeOK'
  <2> SUFFICES ASSUME TypeOK, [Next]_vars PROVE TypeOK'
    OBVIOUS
  <2> USE DEF TypeOK
  <2>1. ASSUME NEW m \in Messages, PublishOrder(m) PROVE TypeOK'
    BY <2>1 DEF PublishOrder
  <2>2. ASSUME NEW m \in Messages, Enqueue(m) \/ Requeue(m) PROVE TypeOK'
    BY <2>2, BufferSizeAssumption DEF Enqueue, Requeue, HasRoom
  <2>3. ASSUME NEW m \in Messages, Ack(m) \/ Nack(m) PROVE TypeOK'
    BY <2>3 DEF Ack, Nack
  <2>4. CASE Take
    BY <2>4, BufferSizeAssumption DEF Take
  <2>5. CASE Leave
    BY <2>5 DEF Leave
  <2>6. CASE HandOver
    BY <2>6 DEF HandOver
  <2>7. CASE Cancel
    BY <2>7 DEF Cancel
  <2>8. CASE UNCHANGED vars
    BY <2>8 DEF vars
  <2>9. QED
    BY <2>1, <2>2, <2>3, <2>4, <2>5, <2>6, <2>7, <2>8 DEF Next
<1>3. QED
  BY <1>1, <1>2, PTL DEF Spec

-----------------------------------------------------------------------------
\* What the buffer holds when an order is added at its end.
LEMMA BufferedAppend ==
  ASSUME TypeOK, NEW m \in Messages, ch' = Append(ch, m)
  PROVE  Buffered' = Buffered \cup {m}
<1>1. DOMAIN ch = 1..Len(ch) /\ DOMAIN ch' = 1..(Len(ch) + 1) /\ Len(ch) \in Nat
  BY DEF TypeOK
<1>2. ch'[Len(ch) + 1] = m /\ \A i \in DOMAIN ch : ch'[i] = ch[i]
  BY DEF TypeOK
<1>3. Buffered' \subseteq Buffered \cup {m}
  BY <1>1, <1>2 DEF Buffered
<1>4. Buffered \subseteq Buffered'
  BY <1>1, <1>2 DEF Buffered
<1>5. m \in Buffered'
  BY <1>1, <1>2 DEF Buffered
<1>6. QED
  BY <1>3, <1>4, <1>5

\* What the buffer holds when its first order is taken, if no order is in it twice.
LEMMA BufferedTail ==
  ASSUME TypeOK, OneCopy, ch # <<>>, ch' = Tail(ch)
  PROVE  /\ Head(ch) \in Buffered
         /\ Buffered' = Buffered \ {Head(ch)}
<1>1. /\ Len(ch) \in Nat /\ Len(ch) > 0
      /\ DOMAIN ch = 1..Len(ch) /\ DOMAIN ch' = 1..(Len(ch) - 1)
  BY DEF TypeOK
<1>2. Head(ch) = ch[1] /\ \A i \in DOMAIN ch' : ch'[i] = ch[i + 1]
  BY DEF TypeOK
<1>3. \A i \in DOMAIN ch \ {1} : i - 1 \in DOMAIN ch' /\ (i - 1) + 1 = i
  BY <1>1
<1>4. \A i \in DOMAIN ch' : i + 1 \in DOMAIN ch /\ i + 1 # 1
  BY <1>1
<1>5. Buffered' \subseteq Buffered \ {Head(ch)}
  BY <1>1, <1>2, <1>4 DEF Buffered, OneCopy
<1>6. Buffered \ {Head(ch)} \subseteq Buffered'
  BY <1>2, <1>3 DEF Buffered
<1>7. Head(ch) \in Buffered
  <2>1. 1 \in DOMAIN ch
    BY <1>1
  <2>2. QED
    BY <1>2, <2>1 DEF Buffered
<1>8. QED
  BY <1>5, <1>6, <1>7

\* An order that is not in the buffer may be added to it.
LEMMA AppendInjective ==
  ASSUME TypeOK, NEW m \in Messages, m \notin Buffered,
         \A i, j \in DOMAIN ch : ch[i] = ch[j] => i = j,
         ch' = Append(ch, m)
  PROVE  \A i, j \in DOMAIN ch' : ch'[i] = ch'[j] => i = j
<1>1. DOMAIN ch = 1..Len(ch) /\ DOMAIN ch' = 1..(Len(ch) + 1) /\ Len(ch) \in Nat
  BY DEF TypeOK
<1>2. ch'[Len(ch) + 1] = m /\ \A i \in DOMAIN ch : ch'[i] = ch[i]
  BY DEF TypeOK
<1>3. \A i \in DOMAIN ch : ch[i] # m
  BY DEF Buffered
<1>4. QED
  BY <1>1, <1>2, <1>3

\* What is left of a buffer without repetitions has none.
LEMMA TailInjective ==
  ASSUME TypeOK, ch # <<>>, ch' = Tail(ch),
         \A i, j \in DOMAIN ch : ch[i] = ch[j] => i = j
  PROVE  \A i, j \in DOMAIN ch' : ch'[i] = ch'[j] => i = j
<1>1. /\ Len(ch) \in Nat /\ Len(ch) > 0
      /\ DOMAIN ch = 1..Len(ch) /\ DOMAIN ch' = 1..(Len(ch) - 1)
  BY DEF TypeOK
<1>2. \A i \in DOMAIN ch' : ch'[i] = ch[i + 1] /\ i + 1 \in DOMAIN ch
  BY <1>1 DEF TypeOK
<1>3. QED
  BY <1>1, <1>2

-----------------------------------------------------------------------------
(* The inductive invariant: that no order is in two places, that the queue   *)
(* holds only published orders, and that each goroutine has one at a time.   *)

InHand(S) == \A m \in S : S = {m}
OneEach ==
  /\ InHand(holding) /\ InHand(working) /\ InHand(requeueing)
  /\ working = {} \/ requeueing = {}

OnlyPublished == InQueue \subseteq published

QueueInv == OneCopy /\ OneEach /\ OnlyPublished

\* Every step of the handlers, the subscriber and the worker keeps the invariant.
LEMMA QueueStep ==
  ASSUME TypeOK, QueueInv, [Next]_vars
  PROVE  QueueInv'
<1> USE DEF QueueInv, OneEach, InHand, OnlyPublished, InQueue
<1>1. ASSUME NEW m \in Messages, PublishOrder(m) PROVE QueueInv'
  <2>1. Buffered' = Buffered
    BY <1>1 DEF PublishOrder, Buffered
  <2>2. OneCopy'
    BY <1>1, <2>1 DEF PublishOrder, OneCopy
  <2>3. QED
    BY <1>1, <2>1, <2>2 DEF PublishOrder
<1>2. ASSUME NEW m \in Messages, Enqueue(m) PROVE QueueInv'
  <2>1. Buffered' = Buffered \cup {m}
    BY <1>2, BufferedAppend DEF Enqueue
  <2>2. OneCopy'
    <3>1. m \notin Buffered /\ m \in sending
      BY <1>2 DEF Enqueue, OneCopy
    <3>2. \A i, j \in DOMAIN ch' : ch'[i] = ch'[j] => i = j
      BY <1>2, <3>1, AppendInjective DEF Enqueue, OneCopy
    <3>3. QED
      BY <1>2, <2>1, <3>1, <3>2 DEF Enqueue, OneCopy
  <2>3. QED
    BY <1>2, <2>1, <2>2 DEF Enqueue
<1>3. ASSUME NEW m \in Messages, Requeue(m) PROVE QueueInv'
  <2>1. Buffered' = Buffered \cup {m}
    BY <1>3, BufferedAppend DEF Requeue
  <2>2. OneCopy'
    <3>1. m \notin Buffered
      BY <1>3 DEF Requeue, OneCopy
    <3>2. \A i, j \in DOMAIN ch' : ch'[i] = ch'[j] => i = j
      BY <1>3, <3>1, AppendInjective DEF Requeue, OneCopy
    <3>3. QED
      BY <1>3, <2>1, <3>1, <3>2 DEF Requeue, OneCopy
  <2>3. QED
    BY <1>3, <2>1, <2>2 DEF Requeue
<1>4. ASSUME NEW m \in Messages, Ack(m) \/ Nack(m) PROVE QueueInv'
  <2>1. Buffered' = Buffered
    BY <1>4 DEF Ack, Nack, Buffered
  <2>2. working = {m} /\ requeueing = {}
    BY <1>4 DEF Ack, Nack
  <2>3. OneCopy'
    BY <1>4, <2>1, <2>2 DEF Ack, Nack, OneCopy
  <2>4. QED
    BY <1>4, <2>1, <2>2, <2>3 DEF Ack, Nack
<1>5. CASE Take
  <2>1. /\ Head(ch) \in Buffered
        /\ Buffered' = Buffered \ {Head(ch)}
    BY <1>5, BufferedTail DEF Take
  <2>2. OneCopy'
    <3>1. \A i, j \in DOMAIN ch' : ch'[i] = ch'[j] => i = j
      BY <1>5, TailInjective DEF Take, OneCopy
    <3>2. QED
      BY <1>5, <2>1, <3>1 DEF Take, OneCopy
  <2>3. QED
    BY <1>5, <2>1, <2>2 DEF Take
<1>6. CASE HandOver
  <2>1. Buffered' = Buffered
    BY <1>6 DEF HandOver, Buffered
  <2>2. OneCopy'
    BY <1>6, <2>1 DEF HandOver, WorkerFree, OneCopy
  <2>3. QED
    BY <1>6, <2>1, <2>2 DEF HandOver, WorkerFree
<1>7. CASE Leave \/ Cancel \/ UNCHANGED vars
  BY <1>7 DEF Leave, Cancel, vars, OneCopy, Buffered
<1>8. QED
  BY <1>1, <1>2, <1>3, <1>4, <1>5, <1>6, <1>7 DEF Next

\* The invariant holds throughout.
LEMMA QueueInvariant == Spec => []QueueInv
<1>1. Init => QueueInv
  BY DEF Init, QueueInv, OneCopy, OneEach, InHand, OnlyPublished, InQueue, Buffered
<1>2. TypeOK /\ QueueInv /\ [Next]_vars => QueueInv'
  BY QueueStep
<1>3. QED
  BY <1>1, <1>2, TypeCorrect, PTL DEF Spec

\* No order is ever in two places of the queue: one that comes back does so only
\* once the worker has let go of it.
THEOREM OneCopyHolds == Spec => []OneCopy
BY QueueInvariant, PTL DEF QueueInv

-----------------------------------------------------------------------------
(* The channel as an order queue.                                           *)

\* Moving an order from one place of the queue to another leaves it owed.
LEMMA MoveKeepsInQueue ==
  ASSUME TypeOK, QueueInv, NEW m \in Messages, Enqueue(m) \/ Requeue(m) \/ Take \/ HandOver
  PROVE  InQueue' = InQueue
<1>1. CASE Enqueue(m)
  BY <1>1, BufferedAppend DEF Enqueue, InQueue
<1>2. CASE Requeue(m)
  BY <1>2, BufferedAppend DEF Requeue, InQueue, QueueInv, OneEach, InHand
<1>3. CASE Take
  <2>1. Head(ch) \in Buffered /\ Buffered' = Buffered \ {Head(ch)}
    BY <1>3, BufferedTail DEF Take, QueueInv
  <2>2. QED
    BY <1>3, <2>1 DEF Take, InQueue
<1>4. CASE HandOver
  BY <1>4 DEF HandOver, WorkerFree, InQueue, Buffered
<1>5. QED
  BY <1>1, <1>2, <1>3, <1>4

\* The buffered channel, the subscriber and the worker deliver at least once and give
\* up nothing, for any buffer size, full buffers and cancellation included.
THEOREM QueueRefines == Spec => QueueDelivers
<1> USE DEF QueueInv, OneEach, InHand, OnlyPublished, InQueue
<1>1. Init => Queue!Init
  BY DEF Init, Buffered, Queue!Init
<1>2. TypeOK /\ QueueInv /\ [Next]_vars => [Queue!Next]_(Queue!vars)
  <2> SUFFICES ASSUME TypeOK, QueueInv, [Next]_vars
               PROVE  [Queue!Next]_(Queue!vars)
    OBVIOUS
  <2>1. ASSUME NEW m \in Messages, PublishOrder(m)
        PROVE  Queue!PublishOrder(m)
    BY <2>1 DEF PublishOrder, Buffered, Queue!PublishOrder
  <2>2. ASSUME NEW m \in Messages, Ack(m)
        PROVE  Queue!Ack(m)
    <3>1. working = {m} /\ m \notin sending \cup Buffered \cup holding \cup requeueing
      BY <2>2 DEF Ack, OneCopy
    <3>2. QED
      BY <2>2, <3>1 DEF Ack, Buffered, Queue!MayStore, Queue!Ack
  <2>3. ASSUME NEW m \in Messages, Nack(m)
        PROVE  Queue!Nack(m)
    BY <2>3 DEF Nack, Buffered, Queue!MayStore, Queue!Nack
  <2>4. ASSUME NEW m \in Messages, Enqueue(m) \/ Requeue(m)
        PROVE  UNCHANGED Queue!vars
    BY <2>4, MoveKeepsInQueue DEF Enqueue, Requeue, Queue!vars
  <2>5. CASE Take
    <3>1. Head(ch) \in Messages
      BY <2>5 DEF TypeOK, Take
    <3>2. QED
      BY <2>5, <3>1, MoveKeepsInQueue DEF Take, Queue!vars
  <2>6. CASE HandOver
    <3>1. PICK m \in holding : holding = {m}
      BY <2>6 DEF HandOver
    <3>2. m \in Messages
      BY DEF TypeOK
    <3>3. InQueue' = InQueue
      BY <2>6, <3>2, MoveKeepsInQueue
    <3>4. Queue!Deliver(m)
      BY <2>6, <3>1, <3>3 DEF HandOver, WorkerFree, Queue!Deliver
    <3>5. QED
      BY <3>2, <3>4 DEF Queue!Next
  <2>7. CASE Leave \/ Cancel \/ UNCHANGED vars
    BY <2>7 DEF Leave, Cancel, vars, Buffered, Queue!vars
  <2>8. QED
    BY <2>1, <2>2, <2>3, <2>4, <2>5, <2>6, <2>7 DEF Next, Queue!Next
<1>3. QED
  BY <1>1, <1>2, QueueInvariant, TypeCorrect, PTL DEF Spec, QueueDelivers, Queue!Spec

\* What at-least-once delivery comes to: a published order is owed, stored or given up.
LEMMA DeliveryAccounts == Queue!Spec => []Queue!Accounted
<1> USE DEF Queue!Accounted
<1>1. Queue!Init => Queue!Accounted
  BY DEF Queue!Init
<1>2. Queue!Accounted /\ [Queue!Next]_(Queue!vars) => Queue!Accounted'
  BY DEF Queue!Next, Queue!PublishOrder, Queue!Deliver, Queue!Dispatch, Queue!Ack, Queue!Nack,
         Queue!MayStore, Queue!GiveUp, Queue!Restart, Queue!vars
<1>3. QED
  BY <1>1, <1>2, PTL DEF Queue!Spec

\* No published order is lost while the process lives, and the subscriber's leaving
\* loses none either: it stays where it was.
THEOREM NoOrderLostHolds == Spec => []NoOrderLost
<1>1. Queue!Accounted => NoOrderLost
  BY DEF Queue!Accounted, NoOrderLost
<1>2. QED
  BY <1>1, QueueRefines, DeliveryAccounts, PTL DEF QueueDelivers

-----------------------------------------------------------------------------
(* The gridlock, which the gridlock run reaches.                            *)

\* A gridlock is final, for any set of orders and any size of the buffer: nothing is
\* dispatched from then on, no order moves, and not even a cancellation ends the
\* subscription.
THEOREM GridlockIsFinal ==
  Spec => [][Gridlock => Gridlock' /\ UNCHANGED <<ch, holding, requeueing, done, closed>>]_vars
<1>1. TypeOK /\ QueueInv /\ [Next]_vars
        => [Gridlock => Gridlock' /\ UNCHANGED <<ch, holding, requeueing, done, closed>>]_vars
  <2> SUFFICES ASSUME QueueInv, Gridlock, [Next]_vars
               PROVE  UNCHANGED <<ch, holding, requeueing, done, closed>>
    BY DEF Gridlock, HasRoom
  <2>1. requeueing # {} /\ holding # {} /\ working = {} /\ ~HasRoom
    BY DEF Gridlock, QueueInv, OneEach
  <2>2. QED
    BY <2>1 DEF Next, PublishOrder, Enqueue, Ack, Nack, Requeue, Take, Leave, HandOver,
                WorkerFree, Cancel, vars
<1>2. QED
  BY <1>1, TypeCorrect, QueueInvariant, PTL DEF Spec
=============================================================================
