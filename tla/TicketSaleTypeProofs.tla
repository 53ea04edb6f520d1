------------------------ MODULE TicketSaleTypeProofs ------------------------
(***************************************************************************)
(* Type correctness of TicketSale, for any tickets, users, requests,       *)
(* sessions, faults and crashes, and the shape of its steps: one operation *)
(* on each of the three stores.                                            *)
(***************************************************************************)
EXTENDS TicketSale, OrdersProofs

\* The inventory counts by ticket type and user.
LEMMA HolderType ==
  ASSUME NEW r \in Requests
  PROVE  Holder(r) \in Tickets \X Users
BY RequestFields DEF Holder

\* The delivery count stays within its cap.
LEMMA BumpType ==
  ASSUME NEW n \in 0..(MaxRetryCount + 1)
  PROVE  Bump(n) \in 0..(MaxRetryCount + 1)
BY MaxRetryCountAssumption DEF Bump

-----------------------------------------------------------------------------
(* Type correctness, store by store.                                       *)

\* What a step does to the inventory: one of its operations, or nothing.
InventoryStep ==
  \/ \E r \in Requests : DecreStock(r) \/ RollbackStock(r)
  \/ \E t \in Tickets : WarmUpInventory(t, TotalStock[t], MaxPerUser[t])
  \/ UNCHANGED inventoryVars

\* The operations on the Redis inventory keep its types.
LEMMA InventoryType ==
  ASSUME InventoryTypeOK, InventoryStep
  PROVE  InventoryTypeOK'
<1>1. ASSUME NEW r \in Requests, DecreStock(r)
      PROVE  InventoryTypeOK'
  BY <1>1, RequestFields, HolderType DEF InventoryTypeOK, DecreStock, CanDecre
<1>2. ASSUME NEW r \in Requests, RollbackStock(r)
      PROVE  InventoryTypeOK'
  BY <1>2, RequestFields, HolderType DEF InventoryTypeOK, RollbackStock
<1>3. ASSUME NEW t \in Tickets, WarmUpInventory(t, TotalStock[t], MaxPerUser[t])
      PROVE  InventoryTypeOK'
  <2>1. TotalStock[t] \in Nat /\ MaxPerUser[t] \in Nat
    BY TotalStockAssumption, MaxPerUserAssumption
  <2>2. QED
    BY <1>3, <2>1 DEF InventoryTypeOK, WarmUpInventory
<1>4. CASE UNCHANGED inventoryVars
  BY <1>4 DEF InventoryTypeOK, inventoryVars
<1>5. QED
  BY <1>1, <1>2, <1>3, <1>4 DEF InventoryStep

\* What a step does to the queue: one of its operations, or nothing.
QueueStep ==
  \/ \E r \in Requests :
       \/ PublishOrder(r) \/ Offer(r) \/ DiscardMessage(r) \/ DiscardFails(r)
       \/ Receive(r) \/ Ack(r) \/ Nack(r)
  \/ \E B \in SUBSET Requests :
       XReadGroup(B) \/ XReadGroupLost(B) \/ XAutoClaim(B) \/ XAutoClaimLost(B)
  \/ LoseConsumer
  \/ UNCHANGED queueVars

\* The operations on the stream keep its types.
LEMMA RedisStreamType ==
  ASSUME RedisStreamTypeOK, QueueStep
  PROVE  RedisStreamTypeOK'
<1>1. ASSUME NEW r \in Requests, PublishOrder(r)
      PROVE  RedisStreamTypeOK'
  BY <1>1 DEF RedisStreamTypeOK, PublishOrder
<1>2. ASSUME NEW r \in Requests, Offer(r) \/ DiscardMessage(r) \/ DiscardFails(r)
      PROVE  RedisStreamTypeOK'
  BY <1>2 DEF RedisStreamTypeOK, Offer, Look, DiscardMessage, DiscardFails
<1>3. ASSUME NEW r \in Requests, Receive(r) \/ Ack(r) \/ Nack(r)
      PROVE  RedisStreamTypeOK'
  BY <1>3 DEF RedisStreamTypeOK, Receive, Ack, Nack
<1>4. ASSUME NEW B \in SUBSET Requests, XReadGroup(B) \/ XReadGroupLost(B)
      PROVE  RedisStreamTypeOK'
  <2>1. tries' \in [Requests -> 0..(MaxRetryCount + 1)]
    BY <1>4, MaxRetryCountAssumption
    DEF RedisStreamTypeOK, XReadGroup, XReadGroupLost, ReadBatch
  <2>2. QED
    BY <1>4, <2>1
    DEF RedisStreamTypeOK, XReadGroup, XReadGroupLost, ReadBatch, Batches
<1>5. ASSUME NEW B \in SUBSET Requests, XAutoClaim(B) \/ XAutoClaimLost(B)
      PROVE  RedisStreamTypeOK'
  <2>1. tries' \in [Requests -> 0..(MaxRetryCount + 1)]
    BY <1>5, BumpType DEF RedisStreamTypeOK, XAutoClaim, XAutoClaimLost, ClaimBatch
  <2>2. QED
    BY <1>5, <2>1
    DEF RedisStreamTypeOK, XAutoClaim, XAutoClaimLost, ClaimBatch, Batches
<1>6. CASE LoseConsumer
  BY <1>6 DEF RedisStreamTypeOK, LoseConsumer
<1>7. CASE UNCHANGED queueVars
  BY <1>7 DEF RedisStreamTypeOK, queueVars
<1>8. QED
  BY <1>1, <1>2, <1>3, <1>4, <1>5, <1>6, <1>7 DEF QueueStep

\* Every action of the sale is one operation on each store, and keeps the types
\* of the variables of the handlers.
LEMMA StepShape ==
  ASSUME TypeOK, Next
  PROVE  /\ InventoryStep /\ StoreStep /\ QueueStep
         /\ pc' \in [Requests -> Phases]
         /\ dispatched' \in BOOLEAN
         /\ checked' \subseteq SessionRequests
         /\ crashes' \in 0..MaxCrashes
<1> DEFINE Shape == /\ InventoryStep /\ StoreStep /\ QueueStep
                    /\ pc' \in [Requests -> Phases]
                    /\ dispatched' \in BOOLEAN
                    /\ checked' \subseteq SessionRequests
                    /\ crashes' \in 0..MaxCrashes
<1>1. ASSUME NEW t \in Tickets, OpenForSale(t)
      PROVE  Shape
  BY <1>1 DEF TypeOK, OpenForSale, InventoryStep, StoreStep, QueueStep
<1>2. ASSUME NEW r \in Requests, PrepareOrder(r)
      PROVE  Shape
  <2>1. InventoryStep
    BY <1>2 DEF PrepareOrder, Reserve, Refuse, ReserveFails, Publish, Accept,
                PublishFails, Rollback, RollbackFails, InventoryStep
  <2>2. StoreStep
    BY <1>2 DEF PrepareOrder, Reserve, Refuse, ReserveFails, Publish, Accept,
                PublishFails, Rollback, RollbackFails, StoreStep
  <2>3. QueueStep
    BY <1>2 DEF PrepareOrder, Reserve, Refuse, ReserveFails, Publish, Accept,
                PublishFails, Rollback, RollbackFails, QueueStep
  <2>4. pc' \in [Requests -> Phases]
    BY <1>2 DEF TypeOK, PrepareOrder, Reserve, Refuse, ReserveFails, Publish, Accept,
                PublishFails, Rollback, RollbackFails, Move, Phases, Running
  <2>5. UNCHANGED <<dispatched, checked, crashes>>
    BY <1>2 DEF PrepareOrder, Reserve, Refuse, ReserveFails, Publish, Accept,
                PublishFails, Rollback, RollbackFails
  <2>6. QED
    BY <2>1, <2>2, <2>3, <2>4, <2>5 DEF TypeOK
<1>3. ASSUME NEW r \in Requests, Work(r)
      PROVE  Shape
  <2>1. CASE Examine(r)
    BY <1>3, <2>1 DEF TypeOK, Examine, ShouldProcessMessage, RetryCountUnknown,
                      InventoryStep, StoreStep, QueueStep
  <2>2. CASE ReceiveOrder(r)
    BY <1>3, <2>2 DEF TypeOK, ReceiveOrder, InventoryStep, StoreStep, QueueStep
  <2>3. CASE DispatchOrder(r)
    BY <1>3, <2>3 DEF TypeOK, DispatchOrder, InventoryStep, StoreStep, QueueStep
  <2>4. CASE DispatchFails(r)
    BY <1>3, <2>4 DEF TypeOK, DispatchFails, InventoryStep, StoreStep, QueueStep
  <2>5. CASE AckOrder(r)
    BY <1>3, <2>5 DEF TypeOK, AckOrder, InventoryStep, StoreStep, QueueStep
  <2>6. QED
    BY <1>3, <2>1, <2>2, <2>3, <2>4, <2>5 DEF Work
<1>4. ASSUME NEW B \in SUBSET Requests, ReadStream(B) \/ ClaimStream(B)
      PROVE  Shape
  BY <1>4 DEF TypeOK, ReadStream, ClaimStream, InventoryStep, StoreStep, QueueStep
<1>5. ASSUME NEW s \in Sessions, NEW op \in Operations, NEW r \in Requests,
             FindOrder(s, op, r)
      PROVE  Shape
  <2>1. [session |-> s, op |-> op, order |-> r] \in SessionRequests
    BY DEF SessionRequests
  <2>2. QED
    BY <1>5, <2>1 DEF TypeOK, FindOrder, InventoryStep, StoreStep, QueueStep
<1>6. ASSUME NEW c \in SessionRequests, Update(c)
      PROVE  Shape
  <2>1. c.order \in Requests
    BY <1>6 DEF SessionRequests
  <2>2. Answer(c)
    BY <1>6 DEF Update, ConfirmOrder, CancelOrder, DeleteOrder, UpdateFails
  <2>3. StoreStep
    BY <1>6, <2>1 DEF Update, ConfirmOrder, CancelOrder, DeleteOrder, UpdateFails, StoreStep
  <2>4. QED
    BY <2>2, <2>3 DEF TypeOK, Answer, InventoryStep, QueueStep
<1>7. CASE Crash
  <2>1. pc' \in [Requests -> Phases]
    BY <1>7 DEF TypeOK, Crash, Phases, Running
  <2>2. crashes' \in 0..MaxCrashes
    BY <1>7, MaxCrashesAssumption DEF TypeOK, Crash
  <2>3. QED
    BY <1>7, <2>1, <2>2 DEF TypeOK, Crash, InventoryStep, StoreStep, QueueStep
<1>8. QED
  BY <1>1, <1>2, <1>3, <1>4, <1>5, <1>6, <1>7 DEF Next

\* Every variable keeps its type, and neither stock is ever negative, whatever fails
\* and however often the sale is opened.
THEOREM TypeCorrect == Spec => []TypeOK
<1>1. Init => TypeOK
  <2>1. ASSUME Init PROVE InventoryTypeOK
    BY <2>1 DEF Init, InventoryInit, InventoryTypeOK
  <2>2. ASSUME Init PROVE OrderStoreTypeOK
    <3>1. remaining \in [Tickets -> Nat]
      BY <2>2, TotalStockAssumption DEF Init, OrderStoreInit
    <3>2. QED
      BY <2>2, <3>1 DEF Init, OrderStoreInit, OrderStoreTypeOK
  <2>3. ASSUME Init PROVE RedisStreamTypeOK
    BY <2>3, MaxRetryCountAssumption DEF Init, RedisStreamInit, RedisStreamTypeOK
  <2>4. 0 \in 0..MaxCrashes
    BY MaxCrashesAssumption
  <2>5. ASSUME Init PROVE pc \in [Requests -> Phases] /\ checked \subseteq SessionRequests
    BY <2>5 DEF Init, Phases
  <2>6. ASSUME Init PROVE TypeOK
    BY <2>1, <2>2, <2>3, <2>4, <2>5, <2>6 DEF Init, TypeOK
  <2>7. QED
    BY <2>6
<1>2. TypeOK /\ [Next]_vars => TypeOK'
  <2>1. ASSUME TypeOK, Next PROVE TypeOK'
    BY <2>1, StepShape, InventoryType, OrderStoreType, RedisStreamType DEF TypeOK
  <2>2. ASSUME TypeOK, UNCHANGED vars PROVE TypeOK'
    <3>1. InventoryTypeOK' /\ OrderStoreTypeOK' /\ RedisStreamTypeOK'
      BY <2>2, InventoryType, OrderStoreType, RedisStreamType
      DEF TypeOK, vars, InventoryStep, StoreStep, QueueStep
    <3>2. QED
      BY <2>2, <3>1 DEF TypeOK, vars
  <2>3. QED
    BY <2>1, <2>2
<1>3. QED
  BY <1>1, <1>2, PTL DEF Spec
=============================================================================
