-------------------------- MODULE MemoryOrderQueue --------------------------
(***************************************************************************)
(* internal/queue/order_queue.go: the queue that is a buffered Go channel, *)
(* with the goroutines around it. Handlers send to the buffer, one         *)
(* subscriber goroutine moves orders to the unbuffered delivery channel,   *)
(* and the worker puts an order it could not dispatch back in the buffer.  *)
(***************************************************************************)
EXTENDS Naturals, Sequences

CONSTANTS
    Messages,    \* the orders that are published
    BufferSize   \* NewOrderQueue's bufferSize

ASSUME BufferSizeAssumption == BufferSize \in Nat \ {0}

VARIABLES
    published,   \* history: orders that PublishOrder has been called with
    sending,     \* handlers blocked in PublishOrder
    ch,          \* the buffer
    holding,     \* the order the subscriber is sending to the worker
    working,     \* the order in the worker's hands
    requeueing,  \* the order the worker is sending back, inside Nack(true)
    done,        \* orders that have a row in the database
    cancelled,   \* the context of SubscribeOrders is cancelled
    closed       \* the subscriber has returned and closed the delivery channel

vars == <<published, sending, ch, holding, working, requeueing, done, cancelled, closed>>

TypeOK ==
    /\ published \subseteq Messages /\ sending \subseteq Messages
    /\ ch \in Seq(Messages) /\ Len(ch) <= BufferSize
    /\ holding \subseteq Messages /\ working \subseteq Messages
    /\ requeueing \subseteq Messages /\ done \subseteq Messages
    /\ cancelled \in BOOLEAN /\ closed \in BOOLEAN

Init ==
    /\ published = {}
    /\ sending = {}
    /\ ch = <<>>
    /\ holding = {}
    /\ working = {}
    /\ requeueing = {}
    /\ done = {}
    /\ cancelled = FALSE
    /\ closed = FALSE

Buffered == {ch[i] : i \in DOMAIN ch}
InQueue == sending \cup Buffered \cup holding \cup working \cup requeueing

\* Slip: the buffer is made one slot too large
HasRoomLong == Len(ch) <= BufferSize

HasRoom == Len(ch) < BufferSize
WorkerFree == working = {} /\ requeueing = {}

-----------------------------------------------------------------------------
\* A handler calls PublishOrder, which has no way out but room in the buffer
PublishOrder(m) ==
    /\ m \notin published
    /\ published' = published \cup {m}
    /\ sending' = sending \cup {m}
    /\ UNCHANGED <<ch, holding, working, requeueing, done, cancelled, closed>>

\* Slip: the handler sends again what it has already sent
EnqueueTwice(m) ==
    /\ m \in sending /\ HasRoom
    /\ ch' = Append(ch, m)
    /\ UNCHANGED <<published, sending, holding, working, requeueing, done, cancelled, closed>>

Enqueue(m) ==
    /\ m \in sending /\ HasRoom
    /\ sending' = sending \ {m}
    /\ ch' = Append(ch, m)
    /\ UNCHANGED <<published, holding, working, requeueing, done, cancelled, closed>>

\* case order := <-q.ch, even when the context is cancelled: select takes either
Take ==
    /\ ~closed /\ holding = {} /\ ch # <<>>
    /\ holding' = {Head(ch)}
    /\ ch' = Tail(ch)
    /\ UNCHANGED <<published, sending, working, requeueing, done, cancelled, closed>>

\* Slip: the buffer is drained before the context is looked at
LeaveWhenEmpty ==
    /\ cancelled /\ ~closed /\ holding = {} /\ ch = <<>>
    /\ closed' = TRUE
    /\ UNCHANGED <<published, sending, ch, holding, working, requeueing, done, cancelled>>

\* case <-ctx.Done(), which is not looked at while an order is being handed over
Leave ==
    /\ cancelled /\ ~closed /\ holding = {}
    /\ closed' = TRUE
    /\ UNCHANGED <<published, sending, ch, holding, working, requeueing, done, cancelled>>

HandOver ==
    /\ holding # {} /\ WorkerFree
    /\ working' = holding
    /\ holding' = {}
    /\ UNCHANGED <<published, sending, ch, requeueing, done, cancelled, closed>>

\* DispatchOrder returns nil, for an order that has no row yet. Ack does nothing
Ack(m) ==
    /\ m \in working \ done /\ ~cancelled
    /\ done' = done \cup {m}
    /\ working' = {}
    /\ UNCHANGED <<published, sending, ch, holding, requeueing, cancelled, closed>>

\* Slip: the order is put in a goroutine's hands and forgotten
NackForgets(m) ==
    /\ m \in working
    /\ working' = {}
    /\ UNCHANGED <<published, sending, ch, holding, requeueing, done, cancelled, closed>>

\* DispatchOrder returns an error: the database's, the cancelled context's, or that
\* of a COMMIT that was applied all the same
Nack(m) ==
    /\ m \in working
    /\ done' \in {done, done \cup {m}}
    /\ requeueing' = {m}
    /\ working' = {}
    /\ UNCHANGED <<published, sending, ch, holding, cancelled, closed>>

\* q.ch <- order, which blocks the worker while the buffer is full
Requeue(m) ==
    /\ m \in requeueing /\ HasRoom
    /\ requeueing' = {}
    /\ ch' = Append(ch, m)
    /\ UNCHANGED <<published, sending, holding, working, done, cancelled, closed>>

Cancel ==
    /\ ~cancelled
    /\ cancelled' = TRUE
    /\ UNCHANGED <<published, sending, ch, holding, working, requeueing, done, closed>>

Next ==
    \/ \E m \in Messages :
        PublishOrder(m) \/ Enqueue(m) \/ Ack(m) \/ Nack(m) \/ Requeue(m)
    \/ Take \/ Leave \/ HandOver \/ Cancel

Spec == Init /\ [][Next]_vars

\* The goroutines run; a blocked sender of a channel is served in the order of
\* arrival; select chooses at random among the cases that are ready; and the database
\* is out of reach for a while only. Handlers and cancellation are not owed.
Fairness ==
    /\ \A m \in Messages : SF_vars(Enqueue(m)) /\ SF_vars(Requeue(m)) /\ SF_vars(Ack(m))
    /\ \A m \in Messages : WF_vars(Ack(m) \/ Nack(m))
    /\ WF_vars(Take) /\ SF_vars(Leave) /\ WF_vars(HandOver)

FairSpec == Spec /\ Fairness

-----------------------------------------------------------------------------
\* No order is in two places of the queue at once, or twice in the buffer.
OneCopy ==
    /\ \A i, j \in DOMAIN ch : ch[i] = ch[j] => i = j
    /\ Buffered \cap (sending \cup holding \cup working \cup requeueing) = {}
    /\ sending \cap (holding \cup working \cup requeueing) = {}
    /\ holding \cap (working \cup requeueing) = {}
    /\ working \cap requeueing = {}

\* Every published order is on its way or in the database, however often it is
\* sent back.
NoOrderLost == published \subseteq InQueue \cup done

\* The worker waits in Nack for room that only the subscriber can make, and the
\* subscriber waits for the worker.
Gridlock == requeueing # {} /\ holding # {} /\ ~HasRoom

\* Every published order is dispatched: a failed one comes back and is tried again.
Dispatched == \A m \in Messages : (m \in published) ~> (m \in done \/ cancelled)

\* When the context is cancelled, the subscriber leaves and closes the channel.
LeavesWhenCancelled == cancelled ~> closed

-----------------------------------------------------------------------------
Queue == INSTANCE OrderQueue WITH
    owed <- InQueue,
    inHand <- working,
    stored <- done,
    givenUp <- {}

\* The buffered channel delivers at least once, and gives nothing up: an order leaves
\* it only when the worker has stored it.
QueueDelivers == Queue!Spec
=============================================================================
