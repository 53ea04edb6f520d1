----------------------------- MODULE TicketSale -----------------------------
(***************************************************************************)
(* The whole sale: HTTP handlers that reserve in Redis and publish to the  *)
(* stream (PrepareOrder), the worker that moves orders into PostgreSQL     *)
(* (DispatchOrder), the sessions that confirm, cancel and delete orders,   *)
(* and OpenForSale, over the three stores of the modules it extends.       *)
(***************************************************************************)
EXTENDS Inventory, OrderStore, RedisStreamOrderQueue

CONSTANTS
    Sessions,    \* concurrent confirm, cancel and delete requests
    Faults,      \* what may go wrong besides the refusals of the stores
    Reopening,   \* whether OpenForSale may be called again for a ticket type
    MaxCrashes   \* bound on the number of times the process dies

ASSUME FaultsAssumption == Faults \subseteq {"redis", "lostPublish", "db"}
ASSUME ReopeningAssumption == Reopening \in BOOLEAN
ASSUME MaxCrashesAssumption == MaxCrashes \in Nat

VARIABLES
    pc,          \* where PrepareOrder is with each request, and its answer
    dispatched,  \* DispatchOrder has returned nil for the delivery in hand
    checked,     \* session requests past their read of the order
    crashes

vars == <<inventoryVars, storeVars, queueVars, pc, dispatched, checked, crashes>>

Operations == {"confirm", "cancel", "delete"}
SessionRequests == [session : Sessions, op : Operations, order : Requests]

\* The handler runs. "reserved": DecreStock has succeeded; "published": Redis has applied
\* the XADD; "unpublished": PublishOrder has returned an error
Running == {"reserved", "published", "unpublished"}

\* "created": PublishOrder has returned nil, and the answer is 201; "refused": the script
\* said no; "failed": an error, and nothing is held; "leaked": an error, or no answer as
\* the process died, and the units stay held
Phases == {"idle", "created", "refused", "failed", "leaked"} \cup Running

\* Every variable has its type; in particular neither the Redis stock nor the
\* remaining stock of PostgreSQL is ever negative: nothing is sold twice.
TypeOK ==
    /\ InventoryTypeOK
    /\ OrderStoreTypeOK
    /\ RedisStreamTypeOK
    /\ pc \in [Requests -> Phases]
    /\ dispatched \in BOOLEAN
    /\ checked \subseteq SessionRequests
    /\ crashes \in 0..MaxCrashes

Init ==
    /\ InventoryInit
    /\ OrderStoreInit
    /\ RedisStreamInit
    /\ pc = [r \in Requests |-> "idle"]
    /\ dispatched = FALSE
    /\ checked = {}
    /\ crashes = 0

Move(r, from, to) == pc[r] = from /\ pc' = [pc EXCEPT ![r] = to]

-----------------------------------------------------------------------------
(* EventService.OpenForSale, one ticket type of the event at a time.       *)

OpenForSale(t) ==
    /\ Reopening \/ t \notin warm
    /\ WarmUpInventory(t, TotalStock[t], MaxPerUser[t])
    /\ UNCHANGED <<storeVars, queueVars, pc, dispatched, checked, crashes>>

-----------------------------------------------------------------------------
(* OrderService.PrepareOrder.                                              *)

Reserve(r) ==
    /\ Move(r, "idle", "reserved")
    /\ DecreStock(r)
    /\ UNCHANGED <<storeVars, queueVars, dispatched, checked, crashes>>

Refuse(r) ==
    /\ ~CanDecre(r)
    /\ Move(r, "idle", "refused")
    /\ UNCHANGED <<inventoryVars, storeVars, queueVars, dispatched, checked, crashes>>

\* DecreStock returns an error: the script did not run, or its reply was lost
ReserveFails(r) ==
    /\ "redis" \in Faults
    /\ \/ Move(r, "idle", "failed") /\ UNCHANGED inventoryVars
       \/ Move(r, "idle", "leaked") /\ DecreStock(r)
    /\ UNCHANGED <<storeVars, queueVars, dispatched, checked, crashes>>

\* Redis applies the XADD; its reply is under way
Publish(r) ==
    /\ Move(r, "reserved", "published")
    /\ PublishOrder(r)
    /\ UNCHANGED <<inventoryVars, storeVars, dispatched, checked, crashes>>

Accept(r) ==
    /\ Move(r, "published", "created")
    /\ UNCHANGED <<inventoryVars, storeVars, queueVars, dispatched, checked, crashes>>

\* PublishOrder returns an error: XADD did not run, or its reply was lost
PublishFails(r) ==
    /\ \/ "redis" \in Faults /\ Move(r, "reserved", "unpublished")
       \/ "lostPublish" \in Faults /\ Move(r, "published", "unpublished")
    /\ UNCHANGED <<inventoryVars, storeVars, queueVars, dispatched, checked, crashes>>

\* Slip: the error path returns without RollbackStock
RollbackForgotten(r) ==
    /\ Move(r, "unpublished", "failed")
    /\ UNCHANGED <<inventoryVars, storeVars, queueVars, dispatched, checked, crashes>>

Rollback(r) ==
    /\ Move(r, "unpublished", "failed")
    /\ RollbackStock(r)
    /\ UNCHANGED <<storeVars, queueVars, dispatched, checked, crashes>>

\* The error of RollbackStock is ignored
RollbackFails(r) ==
    /\ "redis" \in Faults
    /\ Move(r, "unpublished", "leaked")
    /\ UNCHANGED <<inventoryVars, storeVars, queueVars, dispatched, checked, crashes>>

-----------------------------------------------------------------------------
(* The goroutines of SubscribeOrders.                                      *)

ReadStream(B) ==
    /\ XReadGroup(B) \/ ("redis" \in Faults /\ XReadGroupLost(B))
    /\ UNCHANGED <<inventoryVars, storeVars, pc, dispatched, checked, crashes>>

ClaimStream(B) ==
    /\ XAutoClaim(B) \/ ("redis" \in Faults /\ XAutoClaimLost(B))
    /\ UNCHANGED <<inventoryVars, storeVars, pc, dispatched, checked, crashes>>

Examine(r) ==
    /\ \/ ShouldProcessMessage(r)
       \/ DiscardMessage(r)
       \/ "redis" \in Faults /\ (RetryCountUnknown(r) \/ DiscardFails(r))
    /\ UNCHANGED <<inventoryVars, storeVars, pc, dispatched, checked, crashes>>

-----------------------------------------------------------------------------
(* OrderWorker.Start and OrderService.DispatchOrder.                       *)

ReceiveOrder(r) ==
    /\ Receive(r)
    /\ UNCHANGED <<inventoryVars, storeVars, pc, dispatched, checked, crashes>>

DispatchOrder(r) ==
    /\ r \in working /\ ~dispatched
    /\ DispatchTx(r)
    /\ dispatched' = TRUE
    /\ UNCHANGED <<inventoryVars, queueVars, pc, checked, crashes>>

\* DispatchOrder returns an error and the worker calls Nack(true): the database
\* refused, was out of reach, or committed and the reply was lost
DispatchFails(r) ==
    /\ r \in working /\ ~dispatched
    /\ \/ (~CanDispatch(r) \/ "db" \in Faults) /\ UNCHANGED storeVars
       \/ "db" \in Faults /\ DispatchTx(r)
    /\ Nack(r)
    /\ UNCHANGED <<inventoryVars, pc, dispatched, checked, crashes>>

AckOrder(r) ==
    /\ dispatched
    /\ Ack(r) \/ ("redis" \in Faults /\ Nack(r))
    /\ dispatched' = FALSE
    /\ UNCHANGED <<inventoryVars, storeVars, pc, checked, crashes>>

-----------------------------------------------------------------------------
(* ConfirmOrderByOrderID, CancelOrderByOrderID and DeleteOrderByOrderID:   *)
(* a read outside any transaction, then a transaction by primary key.      *)

\* Slip: the status of the order is not looked at
FindAny(s, op, r) ==
    /\ \A c \in checked : c.session # s
    /\ FindByOrderID(r)
    /\ checked' = checked \cup {[session |-> s, op |-> op, order |-> r]}
    /\ UNCHANGED <<inventoryVars, storeVars, queueVars, pc, dispatched, crashes>>

FindOrder(s, op, r) ==
    /\ \A c \in checked : c.session # s
    /\ FindByOrderID(r)
    /\ op \in {"confirm", "cancel"} => status[r] = "pending"
    /\ checked' = checked \cup {[session |-> s, op |-> op, order |-> r]}
    /\ UNCHANGED <<inventoryVars, storeVars, queueVars, pc, dispatched, crashes>>

Answer(c) ==
    /\ c \in checked
    /\ checked' = checked \ {c}
    /\ UNCHANGED <<inventoryVars, queueVars, pc, dispatched, crashes>>

ConfirmOrder(c) == c.op = "confirm" /\ Answer(c) /\ ConfirmTx(c.order)
CancelOrder(c) == c.op = "cancel" /\ Answer(c) /\ CancelTx(c.order)
DeleteOrder(c) == c.op = "delete" /\ Answer(c) /\ DeleteTx(c.order)

\* The transaction fails: the database is out of reach or refuses
UpdateFails(c) ==
    /\ \/ "db" \in Faults
       \/ c.op = "cancel" /\ ~CanCancel(c.order)
       \/ c.op = "delete" /\ ~FindByOrderID(c.order)
    /\ Answer(c)
    /\ UNCHANGED storeVars

-----------------------------------------------------------------------------
(* The process dies and is started again. Redis and PostgreSQL live on.    *)

Crash ==
    /\ crashes < MaxCrashes
    /\ crashes' = crashes + 1
    /\ pc' = [r \in Requests |-> IF pc[r] \in Running THEN "leaked" ELSE pc[r]]
    /\ dispatched' = FALSE
    /\ checked' = {}
    /\ LoseConsumer
    /\ UNCHANGED <<inventoryVars, storeVars>>

-----------------------------------------------------------------------------
PrepareOrder(r) ==
    \/ Reserve(r) \/ Refuse(r) \/ ReserveFails(r)
    \/ Publish(r) \/ Accept(r) \/ PublishFails(r)
    \/ Rollback(r) \/ RollbackFails(r)

Work(r) ==
    \/ Examine(r) \/ ReceiveOrder(r)
    \/ DispatchOrder(r) \/ DispatchFails(r) \/ AckOrder(r)

Update(c) == ConfirmOrder(c) \/ CancelOrder(c) \/ DeleteOrder(c) \/ UpdateFails(c)

Next ==
    \/ \E t \in Tickets : OpenForSale(t)
    \/ \E r \in Requests : PrepareOrder(r) \/ Work(r)
    \/ \E B \in SUBSET Requests : ReadStream(B) \/ ClaimStream(B)
    \/ \E s \in Sessions, op \in Operations, r \in Requests : FindOrder(s, op, r)
    \/ \E c \in SessionRequests : Update(c)
    \/ Crash

Spec == Init /\ [][Next]_vars

\* The server's own steps are taken; what clients, failures and the clock do is
\* not owed. Claims and hand-overs are strongly fair: the ticker keeps firing, and
\* a Go channel serves its blocked senders in the order they arrived.
Fairness ==
    /\ \A r \in Requests :
        /\ WF_vars(PrepareOrder(r) /\ pc[r] # "idle")
        /\ WF_vars(\E B \in SUBSET Requests : r \in B /\ ReadStream(B))
        /\ SF_vars(\E B \in SUBSET Requests : r \in B /\ ClaimStream(B))
        /\ SF_vars(Examine(r))
        /\ SF_vars(ReceiveOrder(r))
        /\ WF_vars(DispatchOrder(r) \/ DispatchFails(r) \/ AckOrder(r))
    /\ \A c \in SessionRequests : WF_vars(Update(c))

FairSpec == Spec /\ Fairness

-----------------------------------------------------------------------------
(* What the stores owe each other.                                         *)

\* Requests whose units are taken out of the Redis inventory
Held == {r \in Requests : pc[r] \in Running \cup {"created", "leaked"}}
TurnedAway == {r \in Requests : pc[r] \in {"refused", "failed"}}
Created == {r \in Requests : pc[r] = "created"}
Leaked == {r \in Requests : pc[r] = "leaked"}
Cancelled == {r \in Requests : status[r] = "cancelled"}
Queued == stream \cup pel \cup reading \cup claimed \cup offered \cup working
Undispatched == Queued \ Stored
UnderWay == {r \in Requests : pc[r] \in Running} \cup stream \cup pel

\* PrepareOrder's reservation and its compensation balance: what Redis still has
\* and what requests hold is the stock of the ticket type, at every step of every
\* interleaving, failure and crash.
StockConserved ==
    \A t \in warm : stock[t] + Quantity(OfTicket(Held, t)) = TotalStock[t]

\* The users hash counts what each user's requests hold, and never passes the
\* limit, whatever fails and however often the sale is opened.
UserLimit ==
    \A t \in Tickets, u \in Users :
        LET held == Quantity(OfUser(OfTicket(Held, t), u)) IN
        bought[<<t, u>>] = held /\ held <= MaxPerUser[t]

\* PostgreSQL can serve all that Redis has promised and may still promise: no
\* order that waits in the queue will be refused for want of stock.
NoShortfall ==
    \A t \in warm : stock[t] + Quantity(OfTicket(Undispatched, t)) <= remaining[t]

\* An order answered 201 is in the stream, in the PEL or in the database, unless
\* it was thrown away as poison: no crash or lost reply loses it.
AcceptedTracked ==
    \A r \in Created : r \in stream \cup pel \cup Stored \cup discarded

\* PostgreSQL has more left than Redis by the units of orders that are under way, and
\* of those that Redis never sells again: orders that were cancelled or thrown away as
\* poison, and reservations that a failed or dead handler left behind. No other unit
\* gets lost between the two, and none of these comes back.
StocksReconcile ==
    \A t \in warm :
        remaining[t] - stock[t] =
            Quantity(OfTicket((UnderWay \cup Leaked \cup discarded \cup Cancelled) \ Live, t))

\* Whatever is on its way to the database, or there, holds its units in Redis, whether
\* its client was answered or not.
ServedIsHeld == Queued \cup Stored \subseteq Held

\* A client whose request failed, and whose units were returned, gets no ticket.
NoTicketOnError == TurnedAway \cap Stored = {}

\* An order that was confirmed or cancelled stays as it is.
ClosedStaysClosed ==
    [][\A r \in Stored \ Pending : status'[r] = status[r]]_vars

\* The sessions that have read an order as pending are all that can change it once it
\* is closed: when the last of them has ended, it stays as it is for good, however many
\* sessions come after.
Settled ==
    {r \in Stored \ Pending : \A c \in checked : c.order = r => c.op = "delete"}

SettledStays ==
    [][\A r \in Settled : r \in Settled' /\ status'[r] = status[r]]_vars

\* All the orders ever stored, the cancelled ones included, fit the stock and the
\* limits. PostgreSQL knows no limit, and a cancellation, or two that race, makes room
\* there again; but Redis lets no more orders through.
StoredFits ==
    \A t \in Tickets :
        /\ Quantity(OfTicket(Stored, t)) <= TotalStock[t]
        /\ \A u \in Users : Quantity(OfUser(OfTicket(Stored, t), u)) <= MaxPerUser[t]

\* Accepted orders fit the stock that was put on sale.
AcceptedFits ==
    \A t \in Tickets : Quantity(OfTicket(Created, t)) <= TotalStock[t]

\* Every accepted order of a registered user reaches the database.
AcceptedServed ==
    \A r \in Requests :
        (pc[r] = "created" /\ r.user \in Registered) ~> (status[r] # "none")

\* No entry stays in the stream or the PEL for ever.
QueueDrains ==
    \A r \in Requests : (r \in stream \cup pel) ~> (r \notin stream \cup pel)

-----------------------------------------------------------------------------
(* Both sides of the sale are box offices: Redis, where an order is granted *)
(* when its units are reserved, and PostgreSQL, where it is granted when it *)
(* is stored.                                                               *)

Front == INSTANCE BoxOffice WITH
    granted <- Held,
    closed <- TurnedAway

Ledger == INSTANCE BoxOffice WITH
    granted <- Live,
    closed <- Cancelled

\* PrepareOrder, with its failures, grants and returns units as a box office does.
FrontIsBoxOffice == Front!Spec

\* So do the worker and the sessions, over the orders table.
LedgerIsBoxOffice == Ledger!Spec

-----------------------------------------------------------------------------
(* Between the two is an order queue. What has been published is in the     *)
(* stream, pending, stored or discarded, and nowhere else.                  *)

Queue == INSTANCE OrderQueue WITH
    Messages <- Requests,
    published <- stream \cup pel \cup Stored \cup discarded,
    owed <- stream \cup pel,
    inHand <- working,
    stored <- Stored,
    givenUp <- discarded

\* The stream with its consumer group delivers at least once, whatever is lost, claimed
\* or cut short: an entry leaves it by the Ack of a stored order or as poison only.
QueueDelivers == Queue!Spec
=============================================================================
