---------------------------- MODULE LedgerProofs ----------------------------
(***************************************************************************)
(* Proofs about the queue, the worker, the tables and the sessions, and    *)
(* about what Redis and PostgreSQL owe each other.                         *)
(***************************************************************************)
EXTENDS FrontProofs

-----------------------------------------------------------------------------
(* The stream, its consumer group and the tables, whatever is lost.         *)

\* Requests that PrepareOrder has not tried to publish yet, and never will if refused
Unsent == {r \in Requests : pc[r] \in {"idle", "reserved", "refused"}}
\* Requests whose XADD has been applied, and has not been taken for a failed one
Sent == {r \in Requests : pc[r] \in {"published", "created"}}
\* Those, and the ones whose handler was cut short: their units are never returned
Kept == {r \in Requests : pc[r] \in {"published", "created", "leaked"}}
InTransit == reading \cup claimed \cup offered \cup working

\* What a step outside the queue and the worker does: nothing there,
QuietStep ==
  /\ UNCHANGED <<queueVars, dispatched>>
  /\ Stored' = Stored
  /\ Unsent' \subseteq Unsent /\ Sent' \subseteq Sent
  /\ "lostPublish" \notin Faults => Kept \subseteq Kept'

\* or an XADD, the first and the only one for its request.
SendStep ==
  \E r \in Unsent :
    /\ PublishOrder(r)
    /\ Unsent' = Unsent \ {r} /\ Sent' = Sent \cup {r} /\ Kept' = Kept \cup {r}
    /\ UNCHANGED <<Stored, dispatched>>

\* No handler touches the queue but by an XADD, and none stores an order.
LEMMA HandlerStep ==
  ASSUME TypeOK, [Next]_vars
  PROVE  \/ QuietStep \/ SendStep \/ Crash
         \/ \E r \in Requests : Work(r)
         \/ \E B \in SUBSET Requests : ReadStream(B) \/ ClaimStream(B)
<1>1. ASSUME UNCHANGED <<queueVars, storeVars, dispatched, pc>> PROVE QuietStep
  BY <1>1 DEF storeVars, QuietStep, Stored, Unsent, Sent, Kept
<1>2. ASSUME NEW t \in Tickets, OpenForSale(t) PROVE QuietStep
  BY <1>1, <1>2 DEF OpenForSale
<1>3. ASSUME NEW r \in Requests, PrepareOrder(r) PROVE QuietStep \/ SendStep
  <2>1. UNCHANGED dispatched /\ Stored' = Stored
    BY <1>3 DEF PrepareOrder, Reserve, Refuse, ReserveFails, Publish, Accept, PublishFails,
                Rollback, RollbackFails, storeVars, Stored
  <2>2. CASE Publish(r)
    <3>1. r \in Unsent /\ Unsent' = Unsent \ {r} /\ Sent' = Sent \cup {r} /\ Kept' = Kept \cup {r}
      BY <2>2 DEF TypeOK, Publish, Move, Unsent, Sent, Kept
    <3>2. PublishOrder(r)
      BY <2>2 DEF Publish
    <3>3. QED
      BY <2>1, <3>1, <3>2 DEF SendStep
  <2>3. CASE ~Publish(r)
    <3>1. UNCHANGED queueVars
      BY <1>3, <2>3 DEF PrepareOrder, Reserve, Refuse, ReserveFails, Accept, PublishFails,
                        Rollback, RollbackFails
    <3>2. Unsent' \subseteq Unsent
      BY <1>3 DEF TypeOK, PrepareOrder, Reserve, Refuse, ReserveFails, Publish, Accept,
                  PublishFails, Rollback, RollbackFails, Move, Unsent
    <3>3. Sent' \subseteq Sent
      BY <1>3, <2>3 DEF TypeOK, PrepareOrder, Reserve, Refuse, ReserveFails, Accept,
                        PublishFails, Rollback, RollbackFails, Move, Sent
    <3>4. "lostPublish" \notin Faults => Kept \subseteq Kept'
      BY <1>3 DEF TypeOK, PrepareOrder, Reserve, Refuse, ReserveFails, Publish, Accept,
                  PublishFails, Rollback, RollbackFails, Move, Kept
    <3>5. QED
      BY <2>1, <3>1, <3>2, <3>3, <3>4 DEF QuietStep
  <2>4. QED
    BY <2>2, <2>3
<1>4. ASSUME NEW s \in Sessions, NEW op \in Operations, NEW r \in Requests,
             FindOrder(s, op, r)
      PROVE  QuietStep
  BY <1>1, <1>4 DEF FindOrder
<1>5. ASSUME NEW c \in SessionRequests, Update(c) PROVE QuietStep
  <2>1. UNCHANGED <<queueVars, dispatched, pc>>
    BY <1>5 DEF Update, ConfirmOrder, CancelOrder, DeleteOrder, UpdateFails, Answer
  <2>2. Stored' = Stored
    <3>1. c.order \in Requests
      BY DEF SessionRequests
    <3>2. QED
      BY <1>5, <3>1 DEF TypeOK, OrderStoreTypeOK, Update, ConfirmOrder, CancelOrder,
                        DeleteOrder, UpdateFails, ConfirmTx, CancelTx, CanCancel,
                        DeleteTx, storeVars, Stored
  <2>3. QED
    BY <2>1, <2>2 DEF QuietStep, Unsent, Sent, Kept
<1>6. CASE UNCHANGED vars
  BY <1>1, <1>6 DEF vars
<1>7. QED
  BY <1>2, <1>3, <1>4, <1>5, <1>6 DEF Next

\* The worker has one delivery at a time, and acknowledges it only after the order
\* is stored.
AckDue ==
  /\ \A r, s \in working : r = s
  /\ dispatched => working # {} /\ working \subseteq Stored

\* A request is published once, an entry is unread or pending or settled, and whatever
\* a goroutine has in its hands is pending or settled.
QueueInv ==
  /\ AckDue
  /\ Unsent \cap (stream \cup pel \cup InTransit \cup Stored \cup discarded) = {}
  /\ stream \cap (pel \cup InTransit \cup Stored \cup discarded) = {}
  /\ InTransit \subseteq pel \cup Stored \cup discarded

\* At first there is nothing in the queue and no delivery.
LEMMA QueueInvInit == Init => QueueInv
BY DEF Init, RedisStreamInit, OrderStoreInit, QueueInv, AckDue, InTransit, Stored

\* The worker keeps it: it stores what it has in its hands, and acknowledges that.
LEMMA WorkKeepsQueueInv ==
  ASSUME TypeOK, QueueInv, NEW r \in Requests, Work(r)
  PROVE  QueueInv'
<1> USE DEF QueueInv, AckDue, InTransit
<1>1. Unsent' = Unsent
  BY DEF Work, Examine, ReceiveOrder, DispatchOrder, DispatchFails, AckOrder, Unsent
<1>2. CASE Examine(r)
  <2>1. UNCHANGED <<dispatched, working, stream, reading, tries>> /\ Stored' = Stored
    BY <1>2 DEF Examine, ShouldProcessMessage, RetryCountUnknown, Offer, DiscardMessage,
                DiscardFails, storeVars, Stored
  <2>2. r \in claimed /\ claimed' = claimed \ {r}
    BY <1>2 DEF Examine, ShouldProcessMessage, RetryCountUnknown, Offer, DiscardMessage,
                DiscardFails, Look
  <2>3. CASE DiscardMessage(r)
    <3>1. r \in pel
      BY <2>3, MaxRetryCountAssumption DEF DiscardMessage, RetryCount
    <3>2. pel' = pel \ {r} /\ discarded' = discarded \cup {r} /\ offered' = offered
      BY <2>3 DEF DiscardMessage
    <3>3. QED
      BY <1>1, <2>1, <2>2, <3>1, <3>2
  <2>4. CASE ~DiscardMessage(r)
    <3>1. UNCHANGED <<pel, discarded>> /\ offered' \subseteq offered \cup {r}
      BY <1>2, <2>4 DEF Examine, ShouldProcessMessage, RetryCountUnknown, Offer, DiscardFails
    <3>2. QED
      BY <1>1, <2>1, <2>2, <3>1
  <2>5. QED
    BY <2>3, <2>4
<1>3. CASE ReceiveOrder(r)
  BY <1>1, <1>3 DEF ReceiveOrder, Receive, storeVars, Stored
<1>4. CASE DispatchOrder(r)
  <2>1. r \in working /\ UNCHANGED queueVars
    BY <1>4 DEF DispatchOrder
  <2>2. Stored' = Stored \cup {r}
    BY <1>4 DEF TypeOK, OrderStoreTypeOK, DispatchOrder, DispatchTx, Stored
  <2>3. QED
    BY <1>1, <2>1, <2>2 DEF queueVars
<1>5. CASE DispatchFails(r)
  <2>1. Nack(r) /\ ~dispatched /\ dispatched' = dispatched
    BY <1>5 DEF DispatchFails
  <2>2. Stored' = Stored \/ Stored' = Stored \cup {r}
    BY <1>5 DEF TypeOK, OrderStoreTypeOK, DispatchFails, DispatchTx, storeVars, Stored
  <2>3. QED
    BY <1>1, <2>1, <2>2 DEF Nack
<1>6. CASE AckOrder(r)
  <2>1. Stored' = Stored /\ r \in working /\ r \in Stored
    BY <1>6 DEF AckOrder, Ack, Nack, storeVars, Stored
  <2>2. QED
    BY <1>1, <1>6, <2>1 DEF AckOrder, Ack, Nack
<1>7. QED
  BY <1>2, <1>3, <1>4, <1>5, <1>6 DEF Work

\* Reads and claims keep it, also when their reply is lost.
LEMMA FetchKeepsQueueInv ==
  ASSUME TypeOK, QueueInv, NEW B \in SUBSET Requests, ReadStream(B) \/ ClaimStream(B)
  PROVE  QueueInv'
<1> USE DEF QueueInv, AckDue, InTransit
<1>1. Unsent' = Unsent /\ Stored' = Stored /\ UNCHANGED <<dispatched, discarded, working, offered>>
  BY DEF ReadStream, ClaimStream, XReadGroup, XReadGroupLost, ReadBatch, XAutoClaim,
         XAutoClaimLost, ClaimBatch, Unsent, storeVars, Stored
<1>2. CASE ReadStream(B)
  <2>1. /\ B \subseteq stream /\ stream' = stream \ B /\ pel' = pel \cup B
        /\ claimed' = claimed /\ reading' \subseteq reading \cup B
        /\ \A r \in Requests \ B : tries'[r] = tries[r]
    BY <1>2 DEF ReadStream, XReadGroup, XReadGroupLost, ReadBatch, Batches
  <2>2. discarded \subseteq Requests
    BY DEF TypeOK, RedisStreamTypeOK
  <2>3. QED
    BY <1>1, <2>1, <2>2
<1>3. CASE ClaimStream(B)
  <2>1. /\ B \subseteq pel /\ UNCHANGED <<stream, pel, reading>>
        /\ claimed' \subseteq claimed \cup B
    BY <1>3 DEF ClaimStream, XAutoClaim, XAutoClaimLost, ClaimBatch, Batches
  <2>2. \A r \in Requests \ B : tries'[r] = tries[r]
    BY <1>3 DEF ClaimStream, XAutoClaim, XAutoClaimLost, ClaimBatch
  <2>3. discarded \subseteq Requests
    BY DEF TypeOK, RedisStreamTypeOK
  <2>4. QED
    BY <1>1, <2>1, <2>2, <2>3
<1>4. QED
  BY <1>2, <1>3

\* Every step keeps it, for all the faults and any number of crashes.
LEMMA QueueInvStep ==
  ASSUME TypeOK, QueueInv, [Next]_vars
  PROVE  QueueInv'
<1> USE DEF QueueInv, AckDue, InTransit
<1>1. CASE QuietStep
  BY <1>1 DEF QuietStep, queueVars
<1>2. CASE SendStep
  <2>1. PICK r \in Unsent : /\ PublishOrder(r) /\ Unsent' = Unsent \ {r}
                            /\ Stored' = Stored /\ UNCHANGED dispatched
    BY <1>2 DEF SendStep
  <2>2. QED
    BY <2>1 DEF PublishOrder
<1>3. CASE Crash
  <2>1. Unsent' \subseteq Unsent /\ Stored' = Stored
    BY <1>3 DEF TypeOK, Crash, Unsent, storeVars, Stored
  <2>2. QED
    BY <1>3, <2>1 DEF Crash, LoseConsumer
<1>4. QED
  BY <1>1, <1>2, <1>3, HandlerStep, WorkKeepsQueueInv, FetchKeepsQueueInv

\* The queue invariant holds throughout, with no condition on faults or sessions.
LEMMA QueueInvariant == Spec => []QueueInv
<1>1. TypeOK /\ QueueInv /\ [Next]_vars => QueueInv'
  BY QueueInvStep
<1>2. QED
  BY <1>1, QueueInvInit, TypeCorrect, PTL DEF Spec

\* A request that the script refused is never served, even when replies of XADD are lost.
THEOREM RefusedNeverServed ==
  Spec => [](\A r \in Requests : pc[r] = "refused" => r \notin Queued \cup Stored \cup discarded)
<1>1. QueueInv => \A r \in Requests : pc[r] = "refused" => r \notin Queued \cup Stored \cup discarded
  BY DEF QueueInv, Unsent, InTransit, Queued
<1>2. QED
  BY <1>1, QueueInvariant, PTL

\* Each step of the worker is one of the abstract queue, or none.
LEMMA WorkRefines ==
  ASSUME TypeOK, QueueInv, NEW r \in Requests, Work(r)
  PROVE  \/ Queue!Deliver(r) \/ Queue!Dispatch(r) \/ Queue!Ack(r) \/ Queue!Nack(r)
         \/ Queue!GiveUp(r) \/ UNCHANGED Queue!vars
<1> USE DEF QueueInv, AckDue, InTransit
<1>1. CASE Examine(r)
  <2>1. UNCHANGED <<stream, working>> /\ Stored' = Stored
    BY <1>1 DEF Examine, ShouldProcessMessage, RetryCountUnknown, Offer, DiscardMessage,
                DiscardFails, storeVars, Stored
  <2>2. CASE DiscardMessage(r)
    <3>1. r \in pel /\ r \in claimed
      BY <2>2, MaxRetryCountAssumption DEF DiscardMessage, RetryCount, Look
    <3>2. QED
      BY <2>1, <2>2, <3>1 DEF DiscardMessage, Queue!GiveUp
  <2>3. CASE ~DiscardMessage(r)
    <3>1. UNCHANGED <<pel, discarded>>
      BY <1>1, <2>3 DEF Examine, ShouldProcessMessage, RetryCountUnknown, Offer, DiscardFails
    <3>2. QED
      BY <2>1, <3>1 DEF Queue!vars
  <2>4. QED
    BY <2>2, <2>3
<1>2. CASE ReceiveOrder(r)
  BY <1>2 DEF ReceiveOrder, Receive, storeVars, Stored, Queue!Deliver
<1>3. CASE DispatchOrder(r)
  <2>1. r \in working /\ UNCHANGED queueVars
    BY <1>3 DEF DispatchOrder
  <2>2. Stored' = Stored \cup {r}
    BY <1>3 DEF TypeOK, OrderStoreTypeOK, DispatchOrder, DispatchTx, Stored
  <2>3. QED
    BY <2>1, <2>2 DEF queueVars, Queue!MayStore, Queue!Dispatch
<1>4. CASE DispatchFails(r)
  <2>1. Nack(r)
    BY <1>4 DEF DispatchFails
  <2>2. Stored' = Stored \/ Stored' = Stored \cup {r}
    BY <1>4 DEF TypeOK, OrderStoreTypeOK, DispatchFails, DispatchTx, storeVars, Stored
  <2>3. QED
    BY <2>1, <2>2 DEF Nack, Queue!MayStore, Queue!Nack
<1>5. CASE AckOrder(r)
  <2>1. Stored' = Stored /\ r \in working /\ r \in Stored
    BY <1>5 DEF AckOrder, Ack, Nack, storeVars, Stored
  <2>2. CASE Ack(r)
    BY <2>1, <2>2 DEF Ack, Queue!MayStore, Queue!Ack
  <2>3. CASE Nack(r)
    BY <2>1, <2>3 DEF Nack, Queue!MayStore, Queue!Nack
  <2>4. QED
    BY <1>5, <2>2, <2>3 DEF AckOrder
<1>6. QED
  BY <1>1, <1>2, <1>3, <1>4, <1>5 DEF Work

\* A read or a claim is none: the entry is still owed.
LEMMA FetchRefines ==
  ASSUME NEW B \in SUBSET Requests, ReadStream(B) \/ ClaimStream(B)
  PROVE  UNCHANGED Queue!vars
<1>1. stream' \cup pel' = stream \cup pel /\ UNCHANGED <<working, discarded>>
  BY DEF ReadStream, XReadGroup, XReadGroupLost, ReadBatch, ClaimStream, XAutoClaim,
         XAutoClaimLost, ClaimBatch, Batches
<1>2. Stored' = Stored
  BY DEF ReadStream, ClaimStream, storeVars, Stored
<1>3. QED
  BY <1>1, <1>2 DEF Queue!vars

\* Redis, the two goroutines and the worker add up to a queue that delivers at least
\* once, for every fault, any number of crashes and any sessions.
THEOREM QueueRefines == Spec => QueueDelivers
<1>1. Init => Queue!Init
  BY DEF Init, RedisStreamInit, OrderStoreInit, Queue!Init, Stored
<1>2. TypeOK /\ QueueInv /\ [Next]_vars => [Queue!Next]_(Queue!vars)
  <2> SUFFICES ASSUME TypeOK, QueueInv, [Next]_vars
               PROVE  [Queue!Next]_(Queue!vars)
    OBVIOUS
  <2>1. CASE QuietStep
    BY <2>1 DEF QuietStep, queueVars, Queue!vars
  <2>2. CASE SendStep
    <3>1. PICK r \in Unsent : PublishOrder(r) /\ Stored' = Stored
      BY <2>2 DEF SendStep
    <3>2. r \in Requests /\ Queue!PublishOrder(r)
      BY <3>1 DEF QueueInv, PublishOrder, Queue!PublishOrder, Unsent
    <3>3. QED
      BY <3>2 DEF Queue!Next
  <2>3. CASE Crash
    <3>1. Queue!Restart
      BY <2>3 DEF Crash, LoseConsumer, storeVars, Stored, Queue!Restart
    <3>2. QED
      BY <3>1 DEF Queue!Next
  <2>4. ASSUME NEW r \in Requests, Work(r)
        PROVE  [Queue!Next]_(Queue!vars)
    BY <2>4, WorkRefines DEF Queue!Next
  <2>5. QED
    BY <2>1, <2>2, <2>3, <2>4, HandlerStep, FetchRefines
<1>3. QED
  BY <1>1, <1>2, QueueInvariant, TypeCorrect, PTL DEF Spec, QueueDelivers, Queue!Spec

-----------------------------------------------------------------------------
(* What the XADDs have brought, and what PrepareOrder holds for it.         *)

\* All that an XADD has ever put in the queue
Published == stream \cup pel \cup Stored \cup discarded

\* Only an XADD adds to it, and nothing takes from it.
LEMMA PublishedStep ==
  ASSUME TypeOK, QueueInv, [Next]_vars
  PROVE  \E R \in SUBSET Requests :
           /\ Published' = Published \cup R
           /\ Sent' \subseteq Sent \cup R
           /\ "lostPublish" \notin Faults => Kept \cup R \subseteq Kept'
<1> DEFINE Adds(R) == /\ Published' = Published \cup R
                      /\ Sent' \subseteq Sent \cup R
                      /\ "lostPublish" \notin Faults => Kept \cup R \subseteq Kept'
<1>1. CASE QuietStep
  <2>1. Adds({})
    BY <1>1 DEF QuietStep, queueVars, Published
  <2>2. QED
    BY <2>1
<1>2. CASE SendStep
  <2>1. PICK r \in Unsent : /\ PublishOrder(r) /\ Stored' = Stored
                            /\ Sent' = Sent \cup {r} /\ Kept' = Kept \cup {r}
    BY <1>2 DEF SendStep
  <2>2. {r} \in SUBSET Requests /\ Adds({r})
    BY <2>1 DEF PublishOrder, Unsent, Published
  <2>3. QED
    BY <2>2
<1>3. ASSUME Published' = Published, Sent' \subseteq Sent, Kept \subseteq Kept'
      PROVE  Adds({})
  BY <1>3
<1>4. CASE Crash
  <2>1. Sent' \subseteq Sent /\ Kept \subseteq Kept' /\ Stored' = Stored
    BY <1>4 DEF TypeOK, Crash, Running, Sent, Kept, storeVars, Stored
  <2>2. Published' = Published
    BY <1>4, <2>1 DEF Crash, LoseConsumer, Published
  <2>3. QED
    BY <1>3, <2>1, <2>2
<1>5. ASSUME NEW r \in Requests, Work(r)
      PROVE  Adds({})
  <2>1. pc' = pc
    BY <1>5 DEF Work, Examine, ReceiveOrder, DispatchOrder, DispatchFails, AckOrder
  <2>2. Published' = Published
    BY <1>5, WorkRefines DEF Published, Queue!Deliver, Queue!Dispatch, Queue!MayStore,
                             Queue!Ack, Queue!Nack, Queue!GiveUp, Queue!vars
  <2>3. QED
    BY <1>3, <2>1, <2>2 DEF Sent, Kept
<1>6. ASSUME NEW B \in SUBSET Requests, ReadStream(B) \/ ClaimStream(B)
      PROVE  Adds({})
  <2>1. pc' = pc
    BY <1>6 DEF ReadStream, ClaimStream
  <2>2. Published' = Published
    BY <1>6, FetchRefines DEF Published, Queue!vars
  <2>3. QED
    BY <1>3, <2>1, <2>2 DEF Sent, Kept
<1>7. QED
  BY <1>1, <1>2, <1>4, <1>5, <1>6, HandlerStep

\* What has been sent is still there.
SentTracked == Sent \subseteq Published

\* It holds for every fault and any number of crashes.
LEMMA SentTrackedHolds == Spec => []SentTracked
<1>1. Init => SentTracked
  BY DEF Init, SentTracked, Sent
<1>2. TypeOK /\ QueueInv /\ SentTracked /\ [Next]_vars => SentTracked'
  BY PublishedStep DEF SentTracked
<1>3. QED
  BY <1>1, <1>2, QueueInvariant, TypeCorrect, PTL DEF Spec

\* An order answered 201 is never lost, except as poison: every step that takes it
\* out of the stream or the PEL leaves it in the database or among the discarded.
THEOREM AcceptedTrackedHolds == Spec => []AcceptedTracked
<1>1. SentTracked => AcceptedTracked
  BY DEF SentTracked, Sent, Published, AcceptedTracked, Created
<1>2. QED
  BY <1>1, SentTrackedHolds, PTL

\* Nobody returns the units of what has been sent: a handler that dies between the
\* XADD and its answer keeps them too.
PublishedKept == Published \subseteq Kept

\* A reply of XADD that is lost is what breaks it.
LEMMA PublishedKeptHolds ==
  ASSUME "lostPublish" \notin Faults
  PROVE  Spec => []PublishedKept
<1>1. Init => PublishedKept
  BY DEF Init, RedisStreamInit, OrderStoreInit, PublishedKept, Published, Stored
<1>2. TypeOK /\ QueueInv /\ PublishedKept /\ [Next]_vars => PublishedKept'
  BY PublishedStep DEF PublishedKept
<1>3. QED
  BY <1>1, <1>2, QueueInvariant, TypeCorrect, PTL DEF Spec

\* When no XADD reply is lost, whatever is on its way to the database or there holds
\* its units in Redis, the orders of handlers that died before they could answer
\* included; and a request that was turned away is never served.
THEOREM ServedIsHeldHolds ==
  ASSUME "lostPublish" \notin Faults
  PROVE  Spec => [](ServedIsHeld /\ NoTicketOnError)
<1>1. QueueInv /\ PublishedKept => ServedIsHeld
  <2>1. Kept \subseteq Held
    BY DEF Kept, Held, Running
  <2>2. QueueInv => Queued \cup Stored \subseteq Published
    BY DEF QueueInv, InTransit, Published, Queued
  <2>3. QED
    BY <2>1, <2>2 DEF PublishedKept, ServedIsHeld
<1>2. ServedIsHeld => NoTicketOnError
  BY DEF ServedIsHeld, NoTicketOnError, Held, TurnedAway, Running
<1>3. QED
  BY <1>1, <1>2, QueueInvariant, PublishedKeptHolds, PTL

-----------------------------------------------------------------------------
(* The database. The sale uses the tables as StoreSpec says, so that what   *)
(* OrdersProofs proves of the transactions holds of the sale as well.       *)

\* Whatever fails, the worker and the sessions change the tables by whole
\* transactions only.
THEOREM SaleUsesStore == Spec => StoreSpec
<1>1. Init => OrderStoreInit
  BY DEF Init
<1>2. TypeOK /\ [Next]_vars => [StoreNext]_storeVars
  <2> SUFFICES ASSUME TypeOK, [Next]_vars PROVE [StoreNext]_storeVars
    OBVIOUS
  <2>1. CASE Next
    BY <2>1, StepShape DEF StoreStep, StoreNext
  <2>2. CASE UNCHANGED vars
    BY <2>2 DEF vars
  <2>3. QED
    BY <2>1, <2>2
<1>3. QED
  BY <1>1, <1>2, TypeCorrect, PTL DEF Spec, StoreSpec

\* Two sessions that race for an order can make the database count a unit twice, but
\* nothing makes it forget one: remaining_stock and the orders that are not cancelled
\* never add up to less than total_stock.
THEOREM NoLostUnitsHolds == Spec => []NoLostUnits
BY SaleUsesStore, StoreKeepsUnits, PTL

\* In the sale too, nothing but the closing of a cancelled order changes that sum.
THEOREM SaleUnbalancedByReclosing == Spec => OnlyReclosingUnbalances
BY SaleUsesStore, OnlyReclosingUnbalancesHolds, PTL

\* Redis and PostgreSQL agree: as long as a sale opens once and no XADD reply is
\* lost, the database never refuses an order from the queue for want of stock, for
\* any number of sessions that confirm and cancel, any failure and any crash.
THEOREM NoShortfallHolds ==
  ASSUME ~Reopening, "lostPublish" \notin Faults
  PROVE  Spec => []NoShortfall
<1>1. TypeOK /\ FrontInv /\ NoLostUnits /\ ServedIsHeld => NoShortfall
  <2> SUFFICES ASSUME TypeOK, FrontInv, NoLostUnits, ServedIsHeld, NEW t \in warm
               PROVE  stock[t] + Quantity(OfTicket(Undispatched, t)) <= remaining[t]
    BY DEF NoShortfall
  <2> DEFINE U == OfTicket(Undispatched, t)
             L == OfTicket(Live, t)
             H == OfTicket(Held, t)
  <2>1. t \in Tickets /\ stock[t] \in Int /\ remaining[t] \in Int /\ TotalStock[t] \in Nat
    BY TotalStockAssumption DEF TypeOK, InventoryTypeOK, OrderStoreTypeOK
  <2>2. H \in SUBSET Requests /\ U \cup L \in SUBSET H /\ U \cap L = {}
    <3>1. Undispatched \subseteq Held /\ Live \subseteq Held /\ Undispatched \cap Live = {}
      BY DEF ServedIsHeld, Undispatched, Stored, Live
    <3>2. QED
      BY <3>1, HeldRequests DEF OfTicket
  <2>3. U \in SUBSET Requests /\ L \in SUBSET Requests
    BY <2>2
  <2>4. Quantity(U) \in Nat /\ Quantity(L) \in Nat /\ Quantity(H) \in Nat
    BY <2>2, <2>3, UnitsFinite
  <2>5. Quantity(U \cup L) = Quantity(U) + Quantity(L)
    BY <2>2, <2>3, QuantityUnion
  <2>6. Quantity(U \cup L) <= Quantity(H)
    BY <2>2, QuantityMonotone
  <2>7. stock[t] + Quantity(H) = TotalStock[t]
    BY DEF FrontInv, StockConserved
  <2>8. remaining[t] + Quantity(L) >= TotalStock[t]
    BY <2>1 DEF NoLostUnits, Booked
  <2> HIDE DEF U, L, H
  <2>9. stock[t] + Quantity(U) <= remaining[t]
    BY <2>1, <2>4, <2>5, <2>6, <2>7, <2>8
  <2>10. QED
    BY <2>9 DEF U
<1>2. TypeOK /\ FrontInv /\ [Next]_vars => FrontInv'
  BY FrontInvStep
<1>3. QED
  BY <1>1, <1>2, FrontInvInit, TypeCorrect, NoLostUnitsHolds, ServedIsHeldHolds, PTL
  DEF Spec

\* So an order of a registered user that is in the queue and has no row can be dispatched
\* whenever the worker comes to it: under the same conditions nothing but the database
\* itself, or a poison count reached before, can keep it from being stored.
THEOREM QueuedCanDispatch ==
  ASSUME ~Reopening, "lostPublish" \notin Faults
  PROVE  Spec => [](\A r \in Undispatched : r.user \in Registered => CanDispatch(r))
<1> DEFINE Servable == \A r \in Undispatched : r.user \in Registered => CanDispatch(r)
<1>1. TypeOK /\ FrontInv /\ NoShortfall /\ ServedIsHeld => Servable
  <2> SUFFICES ASSUME TypeOK, FrontInv, NoShortfall, ServedIsHeld,
                      NEW r \in Undispatched
               PROVE  status[r] = "none" /\ remaining[r.ticket] >= r.quantity
    BY DEF CanDispatch
  <2>1. r \in Held /\ r \in Requests /\ Undispatched \subseteq Requests
    BY HeldRequests DEF ServedIsHeld, Undispatched
  <2>2. status[r] = "none"
    BY <2>1 DEF Undispatched, Stored
  <2>3. r.ticket \in warm /\ r.ticket \in Tickets
    BY <2>1, RequestFields DEF FrontInv, HeldOnSale
  <2>4. stock[r.ticket] + Quantity(OfTicket(Undispatched, r.ticket)) <= remaining[r.ticket]
    BY <2>3 DEF NoShortfall
  <2>5. {r} \in SUBSET OfTicket(Undispatched, r.ticket)
    BY DEF OfTicket
  <2>6. OfTicket(Undispatched, r.ticket) \in SUBSET Requests
    BY <2>1 DEF OfTicket
  <2>7. r.quantity <= Quantity(OfTicket(Undispatched, r.ticket))
    BY <2>1, <2>5, <2>6, QuantityOne, QuantityMonotone
  <2>8. /\ stock[r.ticket] \in Nat /\ remaining[r.ticket] \in Nat /\ r.quantity \in Nat
        /\ Quantity(OfTicket(Undispatched, r.ticket)) \in Nat
    BY <2>1, <2>3, <2>6, UnitsFinite, RequestFields DEF TypeOK, InventoryTypeOK, OrderStoreTypeOK
  <2>9. QED
    BY <2>2, <2>4, <2>7, <2>8
<1>2. TypeOK /\ FrontInv /\ [Next]_vars => FrontInv'
  BY FrontInvStep
<1>3. QED
  BY <1>1, <1>2, FrontInvInit, TypeCorrect, NoShortfallHolds, ServedIsHeldHolds, PTL
  DEF Spec

\* No row that the sale ever writes takes what Redis had not reserved: all the orders
\* stored, cancelled or not, fit the stock and the limits, for any sessions that
\* confirm and cancel, as long as a sale opens once and no XADD reply is lost.
THEOREM StoredFitsHolds ==
  ASSUME ~Reopening, "lostPublish" \notin Faults
  PROVE  Spec => []StoredFits
<1>1. TypeOK /\ FrontInv /\ UserLimit /\ ServedIsHeld => StoredFits
  <2>1. ServedIsHeld => Stored \in SUBSET Held
    BY DEF ServedIsHeld
  <2>2. QED
    BY <2>1, HeldWithinStock, HeldWithinLimit DEF StoredFits
<1>2. TypeOK /\ FrontInv /\ [Next]_vars => FrontInv'
  BY FrontInvStep
<1>3. QED
  BY <1>1, <1>2, FrontInvInit, TypeCorrect, UserLimitHolds, ServedIsHeldHolds, PTL
  DEF Spec

-----------------------------------------------------------------------------
(* One session at a time. The read of ConfirmOrderByOrderID and             *)
(* CancelOrderByOrderID is still true when their transaction runs only if   *)
(* no other session is between the two.                                     *)

OneSession == \A s, t \in Sessions : s = t

\* The one session in flight has found an order that is still pending.
SessionInv ==
  /\ \A c, d \in checked : c = d
  /\ \A c \in checked : c.op # "delete" => c.order \in Pending

\* What a step does to the tables when orders are closed from pending only.
GuardedStoreStep ==
  \/ \E r \in Requests : DispatchTx(r) \/ DeleteTx(r)
  \/ \E r \in Pending : ConfirmTx(r) \/ CancelTx(r)
  \/ UNCHANGED storeVars

\* With one session every closing transaction finds its order pending, and nothing
\* but the session itself makes a pending order something else.
LEMMA SessionStep ==
  ASSUME OneSession, TypeOK, SessionInv, [Next]_vars
  PROVE  SessionInv' /\ GuardedStoreStep
<1>1. ASSUME UNCHANGED <<storeVars, checked>>
      PROVE  SessionInv' /\ GuardedStoreStep
  BY <1>1 DEF storeVars, SessionInv, Pending, GuardedStoreStep
<1>2. ASSUME NEW r \in Requests, DispatchTx(r), UNCHANGED checked
      PROVE  SessionInv' /\ GuardedStoreStep
  <2>1. Pending \subseteq Pending'
    BY <1>2 DEF TypeOK, OrderStoreTypeOK, DispatchTx, CanDispatch, Pending
  <2>2. QED
    BY <1>2, <2>1 DEF SessionInv, GuardedStoreStep
<1>3. ASSUME NEW t \in Tickets, OpenForSale(t)
      PROVE  SessionInv' /\ GuardedStoreStep
  BY <1>1, <1>3 DEF OpenForSale
<1>4. ASSUME NEW r \in Requests, PrepareOrder(r)
      PROVE  SessionInv' /\ GuardedStoreStep
  BY <1>1, <1>4 DEF PrepareOrder, Reserve, Refuse, ReserveFails, Publish, Accept,
                    PublishFails, Rollback, RollbackFails
<1>5. ASSUME NEW r \in Requests, Work(r)
      PROVE  SessionInv' /\ GuardedStoreStep
  BY <1>1, <1>2, <1>5 DEF Work, Examine, ReceiveOrder, DispatchOrder, DispatchFails, AckOrder
<1>6. ASSUME NEW B \in SUBSET Requests, ReadStream(B) \/ ClaimStream(B)
      PROVE  SessionInv' /\ GuardedStoreStep
  BY <1>1, <1>6 DEF ReadStream, ClaimStream
<1>7. ASSUME NEW s \in Sessions, NEW op \in Operations, NEW r \in Requests,
             FindOrder(s, op, r)
      PROVE  SessionInv' /\ GuardedStoreStep
  <2>1. checked = {}
    BY <1>7 DEF OneSession, TypeOK, SessionRequests, FindOrder
  <2>2. checked' = {[session |-> s, op |-> op, order |-> r]}
    BY <1>7, <2>1 DEF FindOrder, FindByOrderID
  <2>3. UNCHANGED storeVars
    BY <1>7 DEF FindOrder, FindByOrderID
  <2>4. op # "delete" => r \in Pending
    BY <1>7 DEF FindOrder, FindByOrderID, Operations, Pending
  <2>5. QED
    BY <2>2, <2>3, <2>4 DEF SessionInv, storeVars, Pending, GuardedStoreStep
<1>8. ASSUME NEW c \in SessionRequests, Update(c)
      PROVE  SessionInv' /\ GuardedStoreStep
  <2>1. c \in checked /\ checked' = checked \ {c}
    BY <1>8 DEF Update, ConfirmOrder, CancelOrder, DeleteOrder, UpdateFails, Answer
  <2>2. checked' = {}
    BY <2>1 DEF SessionInv
  <2>3. c.order \in Requests
    BY DEF SessionRequests
  <2>4. c.op # "delete" => c.order \in Pending
    BY <2>1 DEF SessionInv
  <2>5. GuardedStoreStep
    BY <1>8, <2>3, <2>4 DEF Update, ConfirmOrder, CancelOrder, DeleteOrder, UpdateFails,
                            GuardedStoreStep
  <2>6. QED
    BY <2>2, <2>5 DEF SessionInv
<1>9. CASE Crash
  BY <1>9 DEF Crash, SessionInv, GuardedStoreStep
<1>10. CASE UNCHANGED vars
  BY <1>1, <1>10 DEF vars
<1>11. QED
  BY <1>3, <1>4, <1>5, <1>6, <1>7, <1>8, <1>9, <1>10 DEF Next

\* No session is in flight when the server starts.
LEMMA SessionInvInit == Init => SessionInv
BY DEF Init, SessionInv

\* An order that no session in flight has read as pending stays as it was closed, for
\* any number of sessions, of failures and of crashes: the sessions that do not look at
\* the status again can harm an order only if they had read it before it was closed.
THEOREM SettledStaysHolds == Spec => SettledStays
<1> DEFINE Stays == \A r \in Settled : r \in Settled' /\ status'[r] = status[r]
<1>1. ASSUME UNCHANGED <<status, checked>> PROVE Stays
  BY <1>1 DEF Settled, Stored, Pending
<1>2. ASSUME TypeOK, NEW r \in Requests, DispatchTx(r), UNCHANGED checked PROVE Stays
  BY <1>2 DEF TypeOK, OrderStoreTypeOK, DispatchTx, CanDispatch, Settled, Stored, Pending
<1>3. ASSUME TypeOK, NEW s \in Sessions, NEW op \in Operations, NEW r \in Requests,
             FindOrder(s, op, r)
      PROVE  Stays
  BY <1>3 DEF FindOrder, FindByOrderID, storeVars, Operations, Settled, Stored, Pending
<1>4. ASSUME TypeOK, NEW c \in SessionRequests, Update(c) PROVE Stays
  <2>1. c \in checked /\ checked' \subseteq checked
    BY <1>4 DEF Update, ConfirmOrder, CancelOrder, DeleteOrder, UpdateFails, Answer
  <2>2. ASSUME NEW r \in Settled PROVE status'[r] = status[r]
    <3>1. r \in Requests /\ (c.op # "delete" => c.order # r)
      BY <2>1 DEF Settled, Stored
    <3>2. QED
      BY <1>4, <3>1 DEF TypeOK, OrderStoreTypeOK, Update, ConfirmOrder, CancelOrder,
                        DeleteOrder, UpdateFails, ConfirmTx, CancelTx, DeleteTx, storeVars
  <2>3. QED
    BY <2>1, <2>2 DEF Settled, Stored, Pending
<1>5. ASSUME Crash PROVE Stays
  BY <1>5 DEF Crash, storeVars, Settled, Stored, Pending
<1>6. ASSUME TypeOK, NEW r \in Requests, PrepareOrder(r) \/ Work(r) PROVE Stays
  <2>1. \/ UNCHANGED <<storeVars, checked>>
        \/ DispatchTx(r) /\ UNCHANGED checked
    BY <1>6 DEF PrepareOrder, Reserve, Refuse, ReserveFails, Publish, Accept, PublishFails,
                Rollback, RollbackFails, Work, Examine, ReceiveOrder, DispatchOrder,
                DispatchFails, AckOrder
  <2>2. QED
    BY <1>1, <1>2, <1>6, <2>1 DEF storeVars
<1>7. TypeOK /\ [Next]_vars => [Stays]_vars
  <2> SUFFICES ASSUME TypeOK, [Next]_vars PROVE Stays
    OBVIOUS
  <2>1. ASSUME NEW t \in Tickets, OpenForSale(t) PROVE Stays
    BY <1>1, <2>1 DEF OpenForSale, storeVars
  <2>2. ASSUME NEW B \in SUBSET Requests, ReadStream(B) \/ ClaimStream(B) PROVE Stays
    BY <1>1, <2>2 DEF ReadStream, ClaimStream, storeVars
  <2>3. CASE UNCHANGED vars
    BY <1>1, <2>3 DEF vars, storeVars
  <2>4. QED
    BY <1>3, <1>4, <1>5, <1>6, <2>1, <2>2, <2>3 DEF Next
<1>8. QED
  BY <1>7, TypeCorrect, PTL DEF Spec, SettledStays

\* A transaction that closes an order from pending closes none that was cancelled.
LEMMA GuardedNotReclosed ==
  ASSUME OrderStoreTypeOK, GuardedStoreStep
  PROVE  ~Reclosed
<1> SUFFICES ASSUME NEW s \in Stored \ Live, ConfirmTx(s) \/ CancelTx(s)
             PROVE  FALSE
  BY DEF Reclosed
<1>1. s \in Requests /\ status[s] = "cancelled" /\ s \notin Pending
  BY DEF OrderStoreTypeOK, Statuses, Stored, Live, Pending
<1>2. status' = status \/ \E r \in Requests \ {s} : status'[r] # status[r] /\ status'[s] = status[s]
  BY <1>1 DEF GuardedStoreStep, DispatchTx, CanDispatch, DeleteTx, ConfirmTx, CancelTx,
              storeVars, OrderStoreTypeOK, Pending
<1>3. ~ConfirmTx(s)
  BY <1>1, <1>2 DEF ConfirmTx, OrderStoreTypeOK
<1>4. CancelTx(s)
  BY <1>3
<1>5. status' = status
  BY <1>1, <1>2, <1>4 DEF CancelTx, OrderStoreTypeOK
<1>6. remaining' # remaining
  BY <1>1, <1>4, RequestFields DEF CancelTx, OrderStoreTypeOK
<1>7. QED
  BY <1>1, <1>5, <1>6 DEF GuardedStoreStep, DispatchTx, CanDispatch, DeleteTx, ConfirmTx,
                          CancelTx, storeVars, OrderStoreTypeOK, Pending

\* With one session at a time the database balances, however often an order is
\* delivered and whatever Redis did: remaining_stock and the orders that are not
\* cancelled add up to total_stock.
THEOREM LedgerBalancedHolds ==
  ASSUME OneSession
  PROVE  Spec => []LedgerBalanced
<1>1. Init => LedgerBalanced
  BY BookedInit DEF Init, LedgerBalanced
<1>2. TypeOK /\ SessionInv /\ [Next]_vars => SessionInv'
  BY SessionStep
<1>3. TypeOK /\ SessionInv /\ LedgerBalanced /\ [Next]_vars => LedgerBalanced'
  <2> SUFFICES ASSUME TypeOK, SessionInv, LedgerBalanced, [Next]_vars, NEW t \in Tickets
               PROVE  Booked(t)' = TotalStock[t]
    BY DEF LedgerBalanced
  <2>1. GuardedStoreStep
    BY SessionStep
  <2>2. StoreStep
    BY <2>1 DEF GuardedStoreStep, StoreStep, Pending
  <2>3. Booked(t)' = Booked(t)
    BY <2>1, <2>2, BookedStep, GuardedNotReclosed DEF TypeOK
  <2>4. QED
    BY <2>3 DEF LedgerBalanced
<1>4. QED
  BY <1>1, <1>2, <1>3, SessionInvInit, TypeCorrect, PTL DEF Spec

\* What PrepareOrder holds and the database does not count as sold is under way, or is
\* for good with neither buyer nor Redis.
LEMMA HeldNotLive ==
  ASSUME TypeOK, SentTracked, PublishedKept
  PROVE  /\ Live \subseteq Held
         /\ Held \ Live = (UnderWay \cup Leaked \cup discarded \cup Cancelled) \ Live
<1>1. Stored = Live \cup Cancelled
  BY DEF TypeOK, OrderStoreTypeOK, Statuses, Stored, Live, Cancelled
<1>2. Published \subseteq Held
  BY DEF PublishedKept, Kept, Held, Running
<1>3. Held \subseteq UnderWay \cup Leaked \cup Published
  BY DEF SentTracked, Sent, Held, UnderWay, Leaked
<1>4. UnderWay \cup Leaked \subseteq Held
  <2>1. stream \cup pel \subseteq Held
    BY <1>2 DEF Published
  <2>2. QED
    BY <2>1 DEF UnderWay, Leaked, Held
<1>5. stream \cup pel \subseteq UnderWay
  BY DEF UnderWay
<1>6. QED
  BY <1>1, <1>2, <1>3, <1>4, <1>5 DEF Published

\* With one session at a time, one opening of the sale and no lost XADD reply, the two
\* stores differ by what is under way and by the units that no one will buy: the leaks
\* of handlers that failed or died, the orders thrown away and the cancelled ones.
THEOREM StocksReconcileHolds ==
  ASSUME OneSession, ~Reopening, "lostPublish" \notin Faults
  PROVE  Spec => []StocksReconcile
<1>1. TypeOK /\ FrontInv /\ LedgerBalanced /\ SentTracked /\ PublishedKept => StocksReconcile
  <2> SUFFICES ASSUME TypeOK, FrontInv, LedgerBalanced, SentTracked, PublishedKept,
                      NEW t \in warm
               PROVE  remaining[t] - stock[t] = Quantity(OfTicket(Held \ Live, t))
    BY HeldNotLive DEF StocksReconcile
  <2> DEFINE L == OfTicket(Live, t)
             N == OfTicket(Held \ Live, t)
  <2>1. L \in SUBSET Requests /\ N \in SUBSET Requests /\ L \cap N = {}
    BY HeldRequests DEF Live, OfTicket
  <2>2. OfTicket(Held, t) = L \cup N
    BY HeldNotLive DEF OfTicket
  <2>3. Quantity(L \cup N) = Quantity(L) + Quantity(N)
    BY <2>1, QuantityUnion
  <2>4. t \in Tickets /\ stock[t] \in Int /\ remaining[t] \in Int /\ TotalStock[t] \in Nat
    BY TotalStockAssumption DEF TypeOK, InventoryTypeOK, OrderStoreTypeOK
  <2>5. Quantity(L) \in Nat /\ Quantity(N) \in Nat
    BY <2>1, UnitsFinite
  <2>6. stock[t] + Quantity(L \cup N) = TotalStock[t]
    BY <2>2 DEF FrontInv, StockConserved
  <2>7. remaining[t] + Quantity(L) = TotalStock[t]
    BY <2>4 DEF LedgerBalanced, Booked
  <2> HIDE DEF L, N
  <2>8. remaining[t] - stock[t] = Quantity(N)
    BY <2>3, <2>4, <2>5, <2>6, <2>7
  <2>9. QED
    BY <2>8 DEF N
<1>2. TypeOK /\ FrontInv /\ [Next]_vars => FrontInv'
  BY FrontInvStep
<1>3. QED
  BY <1>1, <1>2, FrontInvInit, TypeCorrect, LedgerBalancedHolds, SentTrackedHolds,
     PublishedKeptHolds, PTL
  DEF Spec

-----------------------------------------------------------------------------
(* The orders table as a box office.                                       *)

\* The orders that count as sold fit the stock and the limits.
LiveFits == Ledger!Fits(Live)

\* The stock, because the database balances; the limit of a user, because orders
\* that count as sold hold their units in Redis, and what is held there is within it.
LEMMA LiveFitsHolds ==
  ASSUME TypeOK, LedgerBalanced, ServedIsHeld, UserLimit
  PROVE  LiveFits
<1>1. ASSUME NEW t \in Tickets
      PROVE  Quantity(OfTicket(Live, t)) <= TotalStock[t]
  <2>1. remaining[t] \in Nat
    BY DEF TypeOK, OrderStoreTypeOK
  <2>2. QED
    BY <2>1, LedgerNumbers DEF TypeOK, LedgerBalanced, Booked
<1>2. ASSUME NEW t \in Tickets, NEW u \in Users
      PROVE  Quantity(OfUser(OfTicket(Live, t), u)) <= MaxPerUser[t]
  <2>1. Live \in SUBSET Held
    BY DEF ServedIsHeld, Live, Stored
  <2>2. QED
    BY <2>1, HeldWithinLimit
<1>3. /\ \A S : Ledger!Quantity(S) = Quantity(S)
      /\ \A S, t : Ledger!OfTicket(S, t) = OfTicket(S, t)
      /\ \A S, u : Ledger!OfUser(S, u) = OfUser(S, u)
  BY Zenon DEF Ledger!Quantity, Ledger!Units, Ledger!OfTicket, Ledger!OfUser,
               Ledger!Cardinality, Quantity, Units, OfTicket, OfUser, Cardinality
<1>4. QED
  BY <1>1, <1>2, <1>3, Zenon DEF LiveFits, Ledger!Fits

\* With one session at a time, and as long as no XADD reply is lost, the worker and
\* the session behave over the orders table as a box office: redelivery, crashes and
\* failures neither sell an order twice, nor sell past the stock or a limit, nor
\* bring a cancelled order back. It holds for any reopening.
THEOREM LedgerRefinesBoxOffice ==
  ASSUME OneSession, "lostPublish" \notin Faults
  PROVE  Spec => LedgerIsBoxOffice
<1>1. Init => Ledger!Init
  BY DEF Init, OrderStoreInit, Ledger!Init, Live, Cancelled
<1>2. TypeOK /\ SessionInv /\ LiveFits' /\ [Next]_vars => [Ledger!Next]_(Ledger!vars)
  <2> SUFFICES ASSUME TypeOK, SessionInv, LiveFits', [Next]_vars
               PROVE  [Ledger!Next]_(Ledger!vars)
    OBVIOUS
  <2>1. GuardedStoreStep
    BY SessionStep
  <2>2. ASSUME UNCHANGED <<Live, Cancelled>>
        PROVE  [Ledger!Next]_(Ledger!vars)
    BY <2>2 DEF Ledger!vars, Cancelled
  <2>3. ASSUME NEW r \in Requests, DispatchTx(r)
        PROVE  [Ledger!Next]_(Ledger!vars)
    <3>1. r \notin Live \cup Cancelled /\ Live' = Live \cup {r} /\ Cancelled' = Cancelled
      BY <2>3 DEF TypeOK, OrderStoreTypeOK, DispatchTx, CanDispatch, Live, Cancelled
    <3>2. Ledger!Fits(Live \cup {r})
      BY <3>1, Zenon DEF LiveFits
    <3>3. Ledger!Grant(r)
      BY <3>1, <3>2 DEF Ledger!Grant, Cancelled
    <3>4. QED
      BY <3>3 DEF Ledger!Next
  <2>4. ASSUME NEW r \in Pending, CancelTx(r)
        PROVE  [Ledger!Next]_(Ledger!vars)
    <3>1. /\ r \in Requests /\ r \notin Cancelled
          /\ Live' = Live \ {r} /\ Cancelled' = Cancelled \cup {r}
      BY <2>4 DEF TypeOK, OrderStoreTypeOK, CancelTx, Pending, Live, Cancelled
    <3>2. Ledger!Close(r)
      BY <3>1 DEF Ledger!Close, Cancelled
    <3>3. QED
      BY <3>1, <3>2 DEF Ledger!Next
  <2>5. ASSUME NEW r \in Pending, ConfirmTx(r)
        PROVE  UNCHANGED <<Live, Cancelled>>
    BY <2>5 DEF TypeOK, OrderStoreTypeOK, ConfirmTx, Pending, Live, Cancelled
  <2>6. ASSUME NEW r \in Requests, DeleteTx(r) \/ UNCHANGED storeVars
        PROVE  UNCHANGED <<Live, Cancelled>>
    BY <2>6 DEF DeleteTx, storeVars, Live, Cancelled
  <2>7. CASE UNCHANGED storeVars
    BY <2>2, <2>7 DEF storeVars, Live, Cancelled
  <2>8. QED
    BY <2>1, <2>2, <2>3, <2>4, <2>5, <2>6, <2>7 DEF GuardedStoreStep
<1>3. TypeOK /\ LedgerBalanced /\ ServedIsHeld /\ UserLimit => LiveFits
  BY LiveFitsHolds
<1>4. TypeOK /\ SessionInv /\ [Next]_vars => SessionInv'
  BY SessionStep
<1>5. QED
  BY <1>1, <1>2, <1>3, <1>4, SessionInvInit, TypeCorrect, LedgerBalancedHolds,
     ServedIsHeldHolds, UserLimitHolds, PTL
  DEF Spec, LedgerIsBoxOffice, Ledger!Spec
=============================================================================
