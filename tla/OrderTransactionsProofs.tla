---------------------- MODULE OrderTransactionsProofs ----------------------
(***************************************************************************)
(* Row locks make the transactions of OrderTransactions atomic, and the    *)
(* order in which they take rows and connections leaves nobody waiting in  *)
(* a circle: for any clients, orders, stock and size of the pool.          *)
(***************************************************************************)
EXTENDS OrderTransactions, OrdersProofs

\* A client that is not idle has a job, and only those that move stock go on to a
\* second statement.
Employed ==
    \A c \in Clients :
        /\ at[c] # "idle" => job[c] \in Jobs
        /\ at[c] = "locked" => job[c].op \in {"dispatch", "cancel"}

\* No two transactions have the row of one order locked.
OrdersExclusive ==
    \A c, d \in Clients :
        c # d /\ at[c] \in {"locked", "written"} => ~HoldsOrder(d, OrderOf(c))

\* No two transactions have the row of one ticket type locked.
TicketsExclusive ==
    \A c, d \in Clients :
        c # d /\ at[c] = "written" /\ MovesStock(c) => ~HoldsTicket(d, TicketOf(c))

\* What the statements of a transaction found is still so.
RowsReady ==
    \A c \in Clients :
        /\ at[c] # "idle" /\ job[c].op # "dispatch" => status[OrderOf(c)] # "none"
        /\ at[c] \in {"locked", "written"} /\ job[c].op = "dispatch" =>
            status[OrderOf(c)] = "none" /\ OrderOf(c).user \in Registered
        /\ at[c] = "written" /\ job[c].op = "delete" => OrderOf(c) \notin deleted
        /\ at[c] = "written" /\ job[c].op = "cancel" =>
            remaining[TicketOf(c)] + OrderOf(c).quantity <= TotalStock[TicketOf(c)]

IInv ==
    /\ TypeOK
    /\ Employed
    /\ OrdersExclusive
    /\ TicketsExclusive
    /\ RowsReady
    /\ WritesCurrent

\* Only the client that takes a step changes where it is.
OnlyMoves(c) == \A d \in Clients \ {c} : at'[d] = at[d] /\ job'[d] = job[d] /\ written'[d] = written[d]

\* The invariant holds while nobody has begun anything.
LEMMA InitInvariant == Init => IInv
<1> SUFFICES ASSUME Init PROVE IInv
  OBVIOUS
<1>1. TypeOK
  BY TotalStockAssumption DEF Init, OrderStoreInit, TypeOK, OrderStoreTypeOK, Stages
<1>2. \A c \in Clients : at[c] = "idle"
  BY DEF Init
<1>3. QED
  BY <1>1, <1>2 DEF IInv, Employed, OrdersExclusive, TicketsExclusive, RowsReady, WritesCurrent, Stages

\* A step that commits nothing and after which its client holds no row keeps the
\* invariant: a client that takes up an order, gets its connection, or fails.
LEMMA KeepsRows ==
  ASSUME IInv, NEW c \in Clients, OnlyMoves(c), UNCHANGED storeVars, TypeOK',
         at'[c] \in {"idle", "waiting", "begun"},
         at'[c] # "idle" => job'[c] \in Jobs /\ (job'[c].op # "dispatch" => status[job'[c].order] # "none")
  PROVE  IInv'
<1> USE DEF IInv, OnlyMoves, storeVars
<1>1. Employed'
  BY DEF Employed
<1>2. OrdersExclusive'
  BY DEF OrdersExclusive, HoldsOrder, OrderOf
<1>3. TicketsExclusive'
  BY DEF TicketsExclusive, HoldsTicket, MovesStock, Doing, TicketOf, OrderOf
<1>4. RowsReady'
  BY DEF RowsReady, OrderOf, TicketOf
<1>5. WritesCurrent'
  BY DEF WritesCurrent, Doing, OrderOf, TicketOf
<1>6. QED
  BY <1>1, <1>2, <1>3, <1>4, <1>5

\* Taking a job up locks nothing.
LEMMA TakeStep ==
  ASSUME IInv, NEW c \in Clients, NEW j \in Jobs, Take(c, j.op, j.order)
  PROVE  IInv'
<1>1. j.order \in Requests /\ j.op \in {"dispatch", "confirm", "cancel", "delete"}
      /\ j = [op |-> j.op, order |-> j.order]
  BY DEF Jobs
<1>2. TypeOK' /\ OnlyMoves(c) /\ UNCHANGED storeVars
  BY <1>1 DEF IInv, TypeOK, OrderStoreTypeOK, Take, Reach, Stages, storeVars, OnlyMoves
<1>3. at'[c] = "waiting" /\ job'[c] = j
  BY <1>1 DEF IInv, TypeOK, Take, Reach
<1>4. j.op # "dispatch" => status[j.order] # "none"
  BY DEF Take, FindByOrderID, Stored
<1>5. QED
  BY <1>2, <1>3, <1>4, KeepsRows

\* BeginTx takes one of the free connections.
LEMMA BeginTxStep ==
  ASSUME IInv, NEW c \in Clients, BeginTx(c)
  PROVE  IInv'
<1>1. TypeOK' /\ OnlyMoves(c) /\ UNCHANGED storeVars
  BY DEF IInv, TypeOK, OrderStoreTypeOK, BeginTx, Reach, Stages, storeVars, OnlyMoves
<1>2. at[c] = "waiting" /\ at'[c] = "begun" /\ job'[c] = job[c]
  BY DEF IInv, TypeOK, BeginTx, Reach
<1>3. job[c] \in Jobs /\ (job[c].op # "dispatch" => status[job[c].order] # "none")
  BY <1>2 DEF IInv, Employed, RowsReady, OrderOf
<1>4. QED
  BY <1>1, <1>2, <1>3, KeepsRows

\* The end of a transaction only releases locks.
LEMMA EndStep ==
  ASSUME IInv, NEW c \in Clients, Refused(c) \/ Rollback(c)
  PROVE  IInv'
<1>1. Finish(c) /\ UNCHANGED storeVars
  BY DEF Refused, Rollback
<1>2. TypeOK' /\ OnlyMoves(c) /\ at'[c] = "idle"
  BY <1>1 DEF IInv, TypeOK, OrderStoreTypeOK, Finish, Stages, storeVars, OnlyMoves
<1>3. QED
  BY <1>1, <1>2, KeepsRows

-----------------------------------------------------------------------------
(* The statements.                                                         *)

\* A client that locks the row of its order, having found it free.
LEMMA LocksOrder ==
  ASSUME IInv, NEW c \in Clients, OnlyMoves(c), UNCHANGED <<storeVars, job, written>>,
         at[c] = "begun", OrderRowFree(c), TypeOK',
         \/ at'[c] = "locked" /\ job[c].op \in {"dispatch", "cancel"}
         \/ at'[c] = "written" /\ job[c].op \in {"confirm", "delete"},
         job[c].op = "dispatch" => status[OrderOf(c)] = "none" /\ OrderOf(c).user \in Registered,
         job[c].op = "delete" => OrderOf(c) \notin deleted
  PROVE  IInv'
<1> USE DEF IInv, OnlyMoves, storeVars
<1>1. Employed'
  BY DEF Employed
<1>2. OrdersExclusive'
  BY DEF OrdersExclusive, HoldsOrder, OrderOf, OrderRowFree
<1>3. TicketsExclusive'
  BY DEF TicketsExclusive, HoldsTicket, MovesStock, Doing, TicketOf, OrderOf
<1>4. RowsReady'
  BY DEF RowsReady, OrderOf, TicketOf
<1>5. WritesCurrent'
  BY DEF WritesCurrent, Doing, OrderOf, TicketOf
<1>6. QED
  BY <1>1, <1>2, <1>3, <1>4, <1>5

\* A statement on the orders table locks a row that nobody held.
LEMMA OrderStatement ==
  ASSUME IInv, NEW c \in Clients, Create(c) \/ UpdateStatusWithLock(c) \/ Delete(c)
  PROVE  IInv'
<1>1. TypeOK' /\ OnlyMoves(c) /\ UNCHANGED <<storeVars, job, written>>
  BY DEF IInv, TypeOK, OrderStoreTypeOK, Create, UpdateStatusWithLock, Delete, Reach, Stages,
         storeVars, OnlyMoves
<1>2. /\ at[c] = "begun" /\ OrderRowFree(c)
      /\ \/ at'[c] = "locked" /\ job[c].op \in {"dispatch", "cancel"}
         \/ at'[c] = "written" /\ job[c].op \in {"confirm", "delete"}
  BY DEF IInv, TypeOK, Create, UpdateStatusWithLock, Delete, Reach, Doing
<1>3. /\ job[c].op = "dispatch" => status[OrderOf(c)] = "none" /\ OrderOf(c).user \in Registered
      /\ job[c].op = "delete" => OrderOf(c) \notin deleted
  BY DEF Create, UpdateStatusWithLock, Delete, Doing
<1>4. QED
  BY <1>1, <1>2, <1>3, LocksOrder

\* A statement on the tickets table locks a row that nobody held, and computes from it.
LEMMA StockStatement ==
  ASSUME IInv, NEW c \in Clients, DecrementStock(c) \/ IncrementStock(c)
  PROVE  IInv'
<1>1. /\ at[c] = "locked" /\ TicketRowFree(c) /\ OnlyMoves(c)
      /\ at' = [at EXCEPT ![c] = "written"] /\ UNCHANGED <<storeVars, job>>
  BY DEF IInv, TypeOK, DecrementStock, IncrementStock, Reach, OnlyMoves
<1>2. job[c] \in Jobs /\ OrderOf(c) \in Requests /\ TicketOf(c) \in Tickets
      /\ OrderOf(c).quantity \in Nat /\ remaining[TicketOf(c)] \in Nat
      /\ TotalStock[TicketOf(c)] \in Nat
  BY <1>1, RequestFields, TotalStockAssumption
     DEF IInv, Employed, Jobs, OrderOf, TicketOf, TypeOK, OrderStoreTypeOK
<1>3. \/ /\ job[c].op = "dispatch"
         /\ written'[c] = remaining[TicketOf(c)] - OrderOf(c).quantity
         /\ written'[c] \in Nat
      \/ /\ job[c].op = "cancel"
         /\ written'[c] = remaining[TicketOf(c)] + OrderOf(c).quantity
         /\ written'[c] \in Nat
         /\ remaining[TicketOf(c)] + OrderOf(c).quantity <= TotalStock[TicketOf(c)]
  BY <1>2 DEF IInv, TypeOK, DecrementStock, IncrementStock, Doing
<1>4. TypeOK'
  <2>1. written' \in [Clients -> Nat]
    BY <1>3 DEF IInv, TypeOK, DecrementStock, IncrementStock
  <2>2. QED
    BY <1>1, <2>1 DEF IInv, TypeOK, OrderStoreTypeOK, Stages, storeVars
<1> USE DEF OnlyMoves, storeVars
<1>5. Employed'
  BY <1>1 DEF IInv, TypeOK, Employed
<1>6. OrdersExclusive'
  BY <1>1 DEF IInv, TypeOK, OrdersExclusive, HoldsOrder, OrderOf
<1>7. TicketsExclusive'
  BY <1>1 DEF IInv, TypeOK, TicketsExclusive, HoldsTicket, MovesStock, Doing, TicketOf, OrderOf,
              TicketRowFree
<1>8. RowsReady'
  BY <1>1, <1>3 DEF IInv, TypeOK, RowsReady, OrderOf, TicketOf
<1>9. WritesCurrent'
  BY <1>1, <1>3 DEF IInv, TypeOK, WritesCurrent, Doing, OrderOf, TicketOf
<1>10. QED
  BY <1>4, <1>5, <1>6, <1>7, <1>8, <1>9 DEF IInv

-----------------------------------------------------------------------------
(* COMMIT.                                                                 *)

\* A COMMIT is the transaction of OrderStore that the client set out to do.
LEMMA CommitIsOneStep ==
  ASSUME IInv, NEW c \in Clients, Commit(c)
  PROVE  StoreNext
<1> DEFINE r == OrderOf(c)
<1>1. at[c] = "written" /\ job[c] \in Jobs /\ r \in Requests
  BY DEF IInv, Employed, Commit, Jobs, OrderOf
<1>2. job[c].op \in {"dispatch", "confirm", "cancel", "delete"}
  BY <1>1 DEF Jobs
<1>3. r.ticket \in Tickets /\ r.quantity \in Nat /\ remaining[r.ticket] \in Nat /\ written[c] \in Nat
  BY <1>1, RequestFields DEF IInv, TypeOK, OrderStoreTypeOK
<1>4. CASE job[c].op = "dispatch"
  <2>1. status[r] = "none" /\ r.user \in Registered /\ written[c] = remaining[r.ticket] - r.quantity
    BY <1>1, <1>4 DEF IInv, RowsReady, WritesCurrent, Doing, OrderOf, TicketOf
  <2>2. CanDispatch(r)
    BY <1>3, <2>1 DEF CanDispatch
  <2>3. status' = [status EXCEPT ![r] = "pending"] /\ deleted' = deleted
        /\ remaining' = [remaining EXCEPT ![r.ticket] = remaining[r.ticket] - r.quantity]
    BY <1>1, <1>4, <2>1 DEF Commit, Outcome, Doing, MovesStock, TicketOf, OrderOf
  <2>4. QED
    BY <1>1, <2>2, <2>3 DEF DispatchTx, StoreNext
<1>5. CASE job[c].op = "confirm"
  <2>1. r \in Stored
    BY <1>1, <1>5 DEF IInv, RowsReady, Stored, OrderOf
  <2>2. status' = [status EXCEPT ![r] = "confirmed"] /\ UNCHANGED <<remaining, deleted>>
    BY <1>1, <1>5 DEF Commit, Outcome, Doing, MovesStock, OrderOf
  <2>3. QED
    BY <1>1, <2>1, <2>2 DEF ConfirmTx, StoreNext
<1>6. CASE job[c].op = "cancel"
  <2>1. r \in Stored /\ written[c] = remaining[r.ticket] + r.quantity
        /\ remaining[r.ticket] + r.quantity <= TotalStock[r.ticket]
    BY <1>1, <1>6 DEF IInv, RowsReady, WritesCurrent, Stored, Doing, OrderOf, TicketOf
  <2>2. status' = [status EXCEPT ![r] = "cancelled"] /\ deleted' = deleted
        /\ remaining' = [remaining EXCEPT ![r.ticket] = remaining[r.ticket] + r.quantity]
    BY <1>1, <1>6, <2>1 DEF Commit, Outcome, Doing, MovesStock, TicketOf, OrderOf
  <2>3. QED
    BY <1>1, <2>1, <2>2 DEF CancelTx, CanCancel, StoreNext
<1>7. CASE job[c].op = "delete"
  <2>1. r \in Stored \ deleted
    BY <1>1, <1>7 DEF IInv, RowsReady, Stored, OrderOf
  <2>2. status' = [status EXCEPT ![r] = status[r]] /\ remaining' = remaining
        /\ deleted' = deleted \cup {r}
    BY <1>1, <1>7 DEF Commit, Outcome, Doing, MovesStock, OrderOf
  <2>3. status' = status
    BY <1>1, <2>2 DEF IInv, TypeOK, OrderStoreTypeOK
  <2>4. QED
    BY <1>1, <2>1, <2>2, <2>3 DEF DeleteTx, FindByOrderID, StoreNext
<1>8. QED
  BY <1>2, <1>4, <1>5, <1>6, <1>7

\* What a COMMIT changes belongs to rows that no other transaction has locked.
LEMMA CommitStep ==
  ASSUME IInv, NEW c \in Clients, Commit(c)
  PROVE  IInv'
<1> DEFINE r == OrderOf(c)
<1>1. at[c] = "written" /\ job[c] \in Jobs /\ r \in Requests /\ r.ticket \in Tickets
  BY RequestFields DEF IInv, Employed, Commit, Jobs, OrderOf
<1>2. OnlyMoves(c) /\ at'[c] = "idle"
  BY DEF IInv, TypeOK, Commit, Finish, OnlyMoves
<1>3. Outcome(c) \in Statuses
  <2>1. Doing(c, "delete") => status[r] \in Statuses
    BY <1>1 DEF IInv, TypeOK, OrderStoreTypeOK, RowsReady, Doing, OrderOf
  <2>2. Doing(c, "dispatch") \/ Doing(c, "confirm") \/ Doing(c, "cancel") \/ Doing(c, "delete")
    BY <1>1 DEF Doing, Jobs
  <2>3. QED
    BY <2>1, <2>2 DEF Outcome, Statuses
<1>4. TypeOK'
  <2>1. status' \in [Requests -> Statuses \cup {"none"}] /\ deleted' \subseteq Requests
    BY <1>1, <1>3 DEF IInv, TypeOK, OrderStoreTypeOK, Commit
  <2>2. remaining' \in [Tickets -> Nat]
    BY <1>1 DEF IInv, TypeOK, OrderStoreTypeOK, Commit, TicketOf
  <2>3. at' \in [Clients -> Stages] /\ job' \in [Clients -> Jobs \cup {NoJob}]
        /\ written' \in [Clients -> Nat]
    BY DEF IInv, TypeOK, Commit, Finish, Stages
  <2>4. QED
    BY <2>1, <2>2, <2>3 DEF TypeOK, OrderStoreTypeOK
<1>5. \A q \in Requests : status'[q] = IF q = r THEN Outcome(c) ELSE status[q]
  BY <1>1 DEF IInv, TypeOK, OrderStoreTypeOK, Commit
<1>6. \A q \in Requests : q # r => (q \in deleted' <=> q \in deleted)
  BY DEF Commit
<1>7. ASSUME NEW d \in Clients \ {c}, at[d] \in {"locked", "written"}
      PROVE  OrderOf(d) # r
  BY <1>1, <1>7 DEF IInv, OrdersExclusive, HoldsOrder
<1>8. ASSUME NEW d \in Clients \ {c}, at[d] = "written", MovesStock(d)
      PROVE  remaining'[TicketOf(d)] = remaining[TicketOf(d)]
  <2>1. MovesStock(c) => TicketOf(d) # TicketOf(c)
    BY <1>1, <1>8 DEF IInv, TicketsExclusive, HoldsTicket
  <2>2. QED
    BY <1>1, <2>1 DEF IInv, TypeOK, OrderStoreTypeOK, Commit, TicketOf
<1>9. \A d \in Clients : at[d] # "idle" => OrderOf(d) \in Requests
  BY DEF IInv, Employed, Jobs, OrderOf
<1>10. Outcome(c) # "none"
  BY <1>3 DEF Statuses
<1> HIDE DEF r
<1>11. Employed' /\ OrdersExclusive' /\ TicketsExclusive'
  BY <1>2 DEF IInv, OnlyMoves, Employed, OrdersExclusive, HoldsOrder, TicketsExclusive, HoldsTicket,
              MovesStock, Doing, TicketOf, OrderOf
<1>12. RowsReady'
  <2> SUFFICES ASSUME NEW d \in Clients \ {c}, at[d] # "idle"
      PROVE /\ job[d].op # "dispatch" => status'[OrderOf(d)] # "none"
            /\ at[d] \in {"locked", "written"} /\ job[d].op = "dispatch" =>
                status'[OrderOf(d)] = "none" /\ OrderOf(d).user \in Registered
            /\ at[d] = "written" /\ job[d].op = "delete" => OrderOf(d) \notin deleted'
            /\ at[d] = "written" /\ job[d].op = "cancel" =>
                remaining'[TicketOf(d)] + OrderOf(d).quantity <= TotalStock[TicketOf(d)]
    BY <1>2 DEF OnlyMoves, RowsReady, OrderOf, TicketOf
  <2>1. job[d].op # "dispatch" => status'[OrderOf(d)] # "none"
    BY <1>5, <1>9, <1>10 DEF IInv, RowsReady
  <2>2. at[d] \in {"locked", "written"} /\ job[d].op = "dispatch" =>
            status'[OrderOf(d)] = "none" /\ OrderOf(d).user \in Registered
    BY <1>5, <1>7, <1>9 DEF IInv, RowsReady
  <2>3. at[d] = "written" /\ job[d].op = "delete" => OrderOf(d) \notin deleted'
    BY <1>6, <1>7, <1>9 DEF IInv, RowsReady
  <2>4. at[d] = "written" /\ job[d].op = "cancel" =>
            remaining'[TicketOf(d)] + OrderOf(d).quantity <= TotalStock[TicketOf(d)]
    BY <1>8 DEF IInv, RowsReady, MovesStock, Doing
  <2>5. QED
    BY <2>1, <2>2, <2>3, <2>4
<1>13. WritesCurrent'
  BY <1>2, <1>8 DEF IInv, OnlyMoves, WritesCurrent, MovesStock, Doing, OrderOf, TicketOf
<1>14. QED
  BY <1>4, <1>11, <1>12, <1>13 DEF IInv

-----------------------------------------------------------------------------
(* The theorems.                                                           *)

\* Every step of every client preserves the invariant.
LEMMA InvariantStep ==
  ASSUME IInv, [Next]_vars
  PROVE  IInv'
<1>1. ASSUME NEW c \in Clients, NEW j \in Jobs, Take(c, j.op, j.order)
      PROVE  IInv'
  BY <1>1, TakeStep
<1>2. ASSUME NEW c \in Clients, BeginTx(c)
      PROVE  IInv'
  BY <1>2, BeginTxStep
<1>3. ASSUME NEW c \in Clients, Statement(c)
      PROVE  IInv'
  BY <1>3, OrderStatement, StockStatement, EndStep DEF Statement
<1>4. ASSUME NEW c \in Clients, Commit(c)
      PROVE  IInv'
  BY <1>4, CommitStep
<1>5. ASSUME NEW c \in Clients, Rollback(c)
      PROVE  IInv'
  BY <1>5, EndStep
<1>6. CASE UNCHANGED vars
  BY <1>6 DEF vars, storeVars, IInv, TypeOK, OrderStoreTypeOK, Employed, OrdersExclusive, HoldsOrder,
              TicketsExclusive, HoldsTicket, MovesStock, Doing, TicketOf, OrderOf, RowsReady, WritesCurrent
<1>7. QED
  BY <1>1, <1>2, <1>3, <1>4, <1>5, <1>6 DEF Next

\* The inductive invariant, for any number of clients, connections and orders.
LEMMA Invariant == Spec => []IInv
BY InitInvariant, InvariantStep, PTL DEF Spec

\* Every variable keeps its type: no transaction ever installs a negative stock.
THEOREM TypeCorrect == Spec => []TypeOK
BY Invariant, PTL DEF IInv

\* Until a transaction commits, nobody moves the stock its UPDATE has read.
THEOREM WritesCurrentHolds == Spec => []WritesCurrent
BY Invariant, PTL DEF IInv

\* Statements, locks and private values add up to the one-step transactions of
\* OrderStore, which is what TicketSale is built on.
THEOREM TransactionsRefineStore == Spec => TransactionsAreAtomic
<1>1. Init => OrderStoreInit
  BY DEF Init
<1>2. IInv /\ [Next]_vars => [StoreNext]_storeVars
  <2> SUFFICES ASSUME IInv, [Next]_vars PROVE [StoreNext]_storeVars
    OBVIOUS
  <2>1. ASSUME NEW c \in Clients, Commit(c)
        PROVE  StoreNext
    BY <2>1, CommitIsOneStep
  <2>2. ASSUME NEW c \in Clients, BeginTx(c) \/ Rollback(c) \/ \E j \in Jobs : Take(c, j.op, j.order)
        PROVE  UNCHANGED storeVars
    BY <2>2 DEF BeginTx, Rollback, Take
  <2>3. ASSUME NEW c \in Clients, Statement(c)
        PROVE  UNCHANGED storeVars
    BY <2>3 DEF Statement, Create, UpdateStatusWithLock, Delete, DecrementStock, IncrementStock, Refused
  <2>4. CASE UNCHANGED vars
    BY <2>4 DEF vars
  <2>5. QED
    BY <2>1, <2>2, <2>3, <2>4 DEF Next
<1>3. QED
  BY <1>1, <1>2, Invariant, PTL DEF Spec, TransactionsAreAtomic, StoreSpec

\* Clients that race for an order and for the last units of a ticket type, statement by
\* statement, never make the database forget a unit.
THEOREM NoLostUnitsHolds == Spec => []NoLostUnits
BY TransactionsRefineStore, StoreKeepsUnits, PTL DEF TransactionsAreAtomic

\* Nor does any interleaving of their statements change the sum of the units left and
\* sold, but a COMMIT that closes an order which another client had cancelled.
THEOREM TransactionsUnbalanceByReclosing == Spec => OnlyReclosingUnbalances
BY TransactionsRefineStore, OnlyReclosingUnbalancesHolds, PTL DEF TransactionsAreAtomic

\* Somebody can always go on: whoever has every row commits, or else whoever waits for
\* a ticket type finds it free, or else whoever waits for an order, or else nobody has
\* a connection and one is free.
THEOREM NoStandstillHolds == Spec => []NoStandstill
<1>1. IInv => NoStandstill
  <2> SUFFICES ASSUME IInv, NEW b \in Clients, at[b] # "idle"
               PROVE  \E c \in Clients : at[c] # "idle" /\ CanMove(c)
    BY DEF NoStandstill
  <2>1. CASE \E c \in Clients : at[c] = "written"
    BY <2>1 DEF CanMove
  <2>2. CASE (\E c \in Clients : at[c] = "locked") /\ ~\E c \in Clients : at[c] = "written"
    BY <2>2 DEF CanMove, TicketRowFree, HoldsTicket
  <2>3. CASE (\E c \in Clients : at[c] = "begun")
             /\ ~\E c \in Clients : at[c] \in {"locked", "written"}
    BY <2>3 DEF CanMove, OrderRowFree, HoldsOrder
  <2>4. CASE ~\E c \in Clients : at[c] \in {"begun", "locked", "written"}
    <3>1. Busy = {}
      BY <2>4 DEF Busy
    <3>2. FreeConn
      BY <3>1, FS_EmptySet, MaxConnsAssumption DEF FreeConn
    <3>3. at[b] = "waiting"
      BY <2>4 DEF IInv, TypeOK, Stages
    <3>4. QED
      BY <3>2, <3>3 DEF CanMove
  <2>5. QED
    BY <2>1, <2>2, <2>3, <2>4
<1>2. QED
  BY <1>1, Invariant, PTL
=============================================================================
