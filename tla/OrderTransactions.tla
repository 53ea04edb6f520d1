------------------------- MODULE OrderTransactions -------------------------
(***************************************************************************)
(* The transactions of OrderStore, statement by statement: the connection  *)
(* pool, the rows an uncommitted transaction keeps locked, and the values  *)
(* only it can see. The variables of OrderStore are what is committed.     *)
(*                                                                         *)
(* A client is a goroutine of the server, or a backend of PostgreSQL whose *)
(* server is gone, so the same order may be dispatched by two of them. The *)
(* FOR KEY SHARE lock that the INSERT takes on its ticket type for the     *)
(* foreign key goes with the lock of UPDATE tickets, and is left out.      *)
(***************************************************************************)
EXTENDS OrderStore

CONSTANTS
    Clients,
    MaxConns,  \* poolConfig.MaxConns
    NoJob

ASSUME MaxConnsAssumption == MaxConns \in Nat \ {0}

Jobs == [op : {"dispatch", "confirm", "cancel", "delete"}, order : Requests]

ASSUME NoJobAssumption == NoJob \notin Jobs

VARIABLES
    at,       \* how far each client is
    job,      \* what it does, and to which order
    written   \* the remaining stock its transaction will install

vars == <<storeVars, at, job, written>>

\* "waiting": for a connection; "begun": no row locked yet; "locked": the row of the
\* order is locked; "written": all statements are done, and COMMIT is left
Stages == {"idle", "waiting", "begun", "locked", "written"}

\* Every variable has its type; no transaction is about to install a negative stock.
TypeOK ==
    /\ OrderStoreTypeOK
    /\ at \in [Clients -> Stages]
    /\ job \in [Clients -> Jobs \cup {NoJob}]
    /\ written \in [Clients -> Nat]

Init ==
    /\ OrderStoreInit
    /\ at = [c \in Clients |-> "idle"]
    /\ job = [c \in Clients |-> NoJob]
    /\ written = [c \in Clients |-> 0]

Busy == {c \in Clients : at[c] \in {"begun", "locked", "written"}}
FreeConn == Cardinality(Busy) < MaxConns

OrderOf(c) == job[c].order
TicketOf(c) == OrderOf(c).ticket
Doing(c, op) == at[c] # "idle" /\ job[c].op = op
MovesStock(c) == Doing(c, "dispatch") \/ Doing(c, "cancel")

HoldsOrder(c, r) == at[c] \in {"locked", "written"} /\ OrderOf(c) = r
HoldsTicket(c, t) == at[c] = "written" /\ MovesStock(c) /\ TicketOf(c) = t

\* Slip: the unique index is compared with committed rows only
OrderRowIgnored(c) == at[c] = "begun"

\* What a statement waits for. The INSERT waits for another one of the same
\* request_id, whose entry in the unique index is as good as a lock.
OrderRowFree(c) == \A d \in Clients \ {c} : ~HoldsOrder(d, OrderOf(c))

\* Slip: the statement is sent through the pool instead of the transaction
TicketRowFreeOtherConn(c) ==
    /\ \A d \in Clients \ {c} : ~HoldsTicket(d, TicketOf(c))
    /\ FreeConn

TicketRowFree(c) == \A d \in Clients \ {c} : ~HoldsTicket(d, TicketOf(c))

Reach(c, from, to) == at[c] = from /\ at' = [at EXCEPT ![c] = to]

\* The connection goes back to the pool, and every lock is released
Finish(c) ==
    /\ at' = [at EXCEPT ![c] = "idle"]
    /\ job' = [job EXCEPT ![c] = NoJob]
    /\ written' = [written EXCEPT ![c] = 0]

-----------------------------------------------------------------------------
\* A delivered order, or FindByOrderID: a read that gives its connection back
\* before BeginTx asks for another one
Take(c, op, r) ==
    /\ Reach(c, "idle", "waiting")
    /\ op # "dispatch" => FreeConn /\ FindByOrderID(r)
    /\ op \in {"confirm", "cancel"} => status[r] = "pending"
    /\ job' = [job EXCEPT ![c] = [op |-> op, order |-> r]]
    /\ UNCHANGED <<storeVars, written>>

\* pool.BeginTx, or pool.Exec for Delete
BeginTx(c) ==
    /\ FreeConn
    /\ Reach(c, "waiting", "begun")
    /\ UNCHANGED <<storeVars, job, written>>

\* INSERT INTO orders
Create(c) ==
    /\ Doing(c, "dispatch") /\ OrderRowFree(c)
    /\ status[OrderOf(c)] = "none" /\ OrderOf(c).user \in Registered
    /\ Reach(c, "begun", "locked")
    /\ UNCHANGED <<storeVars, job, written>>

UpdateStatusWithLock(c) ==
    /\ \/ Doing(c, "confirm") /\ Reach(c, "begun", "written")
       \/ Doing(c, "cancel") /\ Reach(c, "begun", "locked")
    /\ OrderRowFree(c)
    /\ UNCHANGED <<storeVars, job, written>>

\* UPDATE orders SET deleted_at, and its WHERE clause once the row is free
Delete(c) ==
    /\ Doing(c, "delete") /\ OrderRowFree(c)
    /\ OrderOf(c) \notin deleted
    /\ Reach(c, "begun", "written")
    /\ UNCHANGED <<storeVars, job, written>>

\* Slip: the stock is read before the row is free
DecrementUnlocked(c) ==
    /\ Doing(c, "dispatch")
    /\ remaining[TicketOf(c)] >= OrderOf(c).quantity
    /\ Reach(c, "locked", "written")
    /\ written' = [written EXCEPT ![c] = remaining[TicketOf(c)] - OrderOf(c).quantity]
    /\ UNCHANGED <<storeVars, job>>

\* Slip: no remaining_stock >= $1 in the WHERE clause
DecrementUnchecked(c) ==
    /\ Doing(c, "dispatch") /\ TicketRowFree(c)
    /\ Reach(c, "locked", "written")
    /\ written' = [written EXCEPT ![c] = remaining[TicketOf(c)] - OrderOf(c).quantity]
    /\ UNCHANGED <<storeVars, job>>

\* UPDATE tickets; its WHERE clause is evaluated once more when the row is free
DecrementStock(c) ==
    /\ Doing(c, "dispatch") /\ TicketRowFree(c)
    /\ remaining[TicketOf(c)] >= OrderOf(c).quantity
    /\ Reach(c, "locked", "written")
    /\ written' = [written EXCEPT ![c] = remaining[TicketOf(c)] - OrderOf(c).quantity]
    /\ UNCHANGED <<storeVars, job>>

\* UPDATE tickets without a condition; the CHECK compares with total_stock
IncrementStock(c) ==
    /\ Doing(c, "cancel") /\ TicketRowFree(c)
    /\ remaining[TicketOf(c)] + OrderOf(c).quantity <= TotalStock[TicketOf(c)]
    /\ Reach(c, "locked", "written")
    /\ written' = [written EXCEPT ![c] = remaining[TicketOf(c)] + OrderOf(c).quantity]
    /\ UNCHANGED <<storeVars, job>>

Outcome(c) ==
    CASE Doing(c, "dispatch") -> "pending"
      [] Doing(c, "confirm") -> "confirmed"
      [] Doing(c, "cancel") -> "cancelled"
      [] OTHER -> status[OrderOf(c)]

Commit(c) ==
    /\ at[c] = "written"
    /\ status' = [status EXCEPT ![OrderOf(c)] = Outcome(c)]
    /\ remaining' = IF MovesStock(c) THEN [remaining EXCEPT ![TicketOf(c)] = written[c]]
                                    ELSE remaining
    /\ deleted' = IF Doing(c, "delete") THEN deleted \cup {OrderOf(c)} ELSE deleted
    /\ Finish(c)

\* The unique index or the foreign key, no row under the WHERE clause, the CHECK. A row
\* that the WHERE clause excludes is not waited for.
StatementFails(c) ==
    \/ /\ at[c] = "begun" /\ Doing(c, "dispatch") /\ OrderRowFree(c)
       /\ status[OrderOf(c)] # "none" \/ OrderOf(c).user \notin Registered
    \/ at[c] = "begun" /\ Doing(c, "delete") /\ OrderOf(c) \in deleted
    \/ /\ at[c] = "locked" /\ Doing(c, "dispatch")
       /\ remaining[TicketOf(c)] < OrderOf(c).quantity
    \/ /\ at[c] = "locked" /\ Doing(c, "cancel") /\ TicketRowFree(c)
       /\ remaining[TicketOf(c)] + OrderOf(c).quantity > TotalStock[TicketOf(c)]

\* The deferred Rollback ends the transaction
Refused(c) == StatementFails(c) /\ Finish(c) /\ UNCHANGED storeVars

\* Any other error, a cancelled context or a broken connection, COMMIT included
Rollback(c) ==
    /\ at[c] # "idle"
    /\ Finish(c)
    /\ UNCHANGED storeVars

-----------------------------------------------------------------------------
Statement(c) ==
    \/ Create(c) \/ UpdateStatusWithLock(c) \/ Delete(c)
    \/ DecrementStock(c) \/ IncrementStock(c) \/ Refused(c)

Next ==
    \E c \in Clients :
        \/ \E j \in Jobs : Take(c, j.op, j.order)
        \/ BeginTx(c) \/ Statement(c) \/ Commit(c) \/ Rollback(c)

Spec == Init /\ [][Next]_vars

-----------------------------------------------------------------------------
\* However statements interleave, what each COMMIT makes visible is one transaction
\* of OrderStore, done in one step to the rows as they are then.
TransactionsAreAtomic == StoreSpec

\* What a transaction is about to install still fits the committed stock: nobody has
\* moved the stock since the UPDATE computed it, so no update is lost.
WritesCurrent ==
    \A c \in Clients :
        at[c] = "written" =>
            /\ Doing(c, "dispatch") =>
                written[c] = remaining[TicketOf(c)] - OrderOf(c).quantity
            /\ Doing(c, "cancel") =>
                written[c] = remaining[TicketOf(c)] + OrderOf(c).quantity

\* Neither a statement nor BeginTx of this client has to wait
CanMove(c) ==
    \/ at[c] = "waiting" /\ FreeConn
    \/ at[c] = "begun" /\ OrderRowFree(c)
    \/ at[c] = "locked" /\ TicketRowFree(c)
    \/ at[c] = "written"

\* Row locks and connections are never waited for in a circle: orders come before
\* tickets in each transaction, and no transaction asks for a second connection.
NoStandstill ==
    (\E c \in Clients : at[c] # "idle") => \E c \in Clients : at[c] # "idle" /\ CanMove(c)
=============================================================================
