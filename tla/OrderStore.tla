----------------------------- MODULE OrderStore -----------------------------
(***************************************************************************)
(* The PostgreSQL tables orders and tickets and the transactions that      *)
(* change them. A transaction holds the row locks of its UPDATEs and the   *)
(* unique-index entry of its INSERT until it ends, so it is one step, at   *)
(* its COMMIT; one that rolls back is no step. OrderTransactions has the   *)
(* statements one by one, and is shown to implement this.                  *)
(***************************************************************************)
EXTENDS Orders

VARIABLES
    remaining,  \* tickets.remaining_stock
    status,     \* orders.status, "none" before the row exists
    deleted     \* orders with a deleted_at

storeVars == <<remaining, status, deleted>>

Statuses == {"pending", "confirmed", "cancelled"}

OrderStoreTypeOK ==
    /\ remaining \in [Tickets -> Nat]
    /\ status \in [Requests -> Statuses \cup {"none"}]
    /\ deleted \subseteq Requests

OrderStoreInit ==
    /\ remaining = TotalStock
    /\ status = [r \in Requests |-> "none"]
    /\ deleted = {}

Stored == {r \in Requests : status[r] # "none"}
Pending == {r \in Requests : status[r] = "pending"}
\* The orders that count as sold: everything but the cancelled ones
Live == {r \in Requests : status[r] \in {"pending", "confirmed"}}

\* SELECT ... WHERE order_id = $1 AND deleted_at IS NULL finds the row
FindByOrderID(r) == r \in Stored \ deleted

\* Slip: no UNIQUE index on request_id
CanDispatchTwice(r) == r.user \in Registered /\ remaining[r.ticket] >= r.quantity

\* The UNIQUE index on request_id, the foreign key of user_id, and the WHERE
\* clause of DecrementStock
CanDispatch(r) ==
    /\ status[r] = "none"
    /\ r.user \in Registered
    /\ remaining[r.ticket] >= r.quantity

DispatchTx(r) ==
    /\ CanDispatch(r)
    /\ status' = [status EXCEPT ![r] = "pending"]
    /\ remaining' = [remaining EXCEPT ![r.ticket] = @ - r.quantity]
    /\ UNCHANGED deleted

\* UPDATE orders ... WHERE id = $3: no condition on the status or on deleted_at
ConfirmTx(r) ==
    /\ r \in Stored
    /\ status' = [status EXCEPT ![r] = "confirmed"]
    /\ UNCHANGED <<remaining, deleted>>

\* The CHECK total_stock >= remaining_stock fails the transaction otherwise
CanCancel(r) ==
    /\ r \in Stored
    /\ remaining[r.ticket] + r.quantity <= TotalStock[r.ticket]

\* Slip: IncrementStock is forgotten
CancelTxKeepsStock(r) ==
    /\ CanCancel(r)
    /\ status' = [status EXCEPT ![r] = "cancelled"]
    /\ UNCHANGED <<remaining, deleted>>

CancelTx(r) ==
    /\ CanCancel(r)
    /\ status' = [status EXCEPT ![r] = "cancelled"]
    /\ remaining' = [remaining EXCEPT ![r.ticket] = @ + r.quantity]
    /\ UNCHANGED deleted

DeleteTx(r) ==
    /\ FindByOrderID(r)
    /\ deleted' = deleted \cup {r}
    /\ UNCHANGED <<remaining, status>>

-----------------------------------------------------------------------------
(* What the statements and locks of OrderTransactions have to add up to.   *)

StoreNext ==
    \E r \in Requests : DispatchTx(r) \/ ConfirmTx(r) \/ CancelTx(r) \/ DeleteTx(r)

StoreSpec == OrderStoreInit /\ [][StoreNext]_storeVars

\* The units of a ticket type that are left or sold
Booked(t) == remaining[t] + Quantity(OfTicket(Live, t))

\* An order that has been cancelled is confirmed, or cancelled once more
Reclosed == \E r \in Stored \ Live : ConfirmTx(r) \/ CancelTx(r)

\* The database balances: each dispatched order took its units once, however
\* often it was delivered, and each cancelled one gave them back once.
LedgerBalanced == \A t \in Tickets : Booked(t) = TotalStock[t]

\* Whatever sessions do to the same order at the same time, the database counts a
\* unit as left or as sold, possibly as both, never as neither.
NoLostUnits == \A t \in Tickets : Booked(t) >= TotalStock[t]

\* Sessions that race for an order are all that can unbalance the database: every
\* transaction but one that closes an order which had been cancelled keeps the sum.
OnlyReclosingUnbalances ==
    [][Reclosed \/ \A t \in Tickets : Booked(t)' = Booked(t)]_storeVars
=============================================================================
