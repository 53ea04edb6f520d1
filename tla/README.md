# A TLA+ model of the ticket sale

The repository is a Go server that sells tickets under high load. A buyer's
`POST /orders` takes units from a stock in Redis, is answered `201`, and becomes
a row in PostgreSQL later, when a worker takes it from a Redis stream. This
directory holds a model of that server, the TLC runs that check it, and proofs
about it that TLAPS checks.

    tlc -config MCFaults.cfg MCTicketSale      one of the runs listed below
    tlapm LedgerProofs.tla                     one of the eight proof modules

## 1. The system

### Components

| Component | State it keeps | Operations |
|---|---|---|
| Redis inventory, `internal/cache/ticket_inventory.go` | per ticket type a hash `info` (stock, price, limit) and a hash `users` (units bought) | `WarmUpInventory` (one HSET), `DecreStock` and `RollbackStock` (one Lua script each), reads |
| Redis stream queue, `internal/queue/redis_stream_order_queue.go` | the stream, the pending entries list (PEL) with delivery counts; two goroutines and one delivery channel | XADD, XREADGROUP, XAUTOCLAIM, XPENDING, XACK; Ack, Nack; poison messages |
| In-memory queue, `internal/queue/order_queue.go` | a buffered Go channel, one subscriber goroutine | `PublishOrder`, `SubscribeOrders`, Ack, Nack(true) |
| Order service, `internal/service/order_service.go` | none of its own | `PrepareOrder`, `DispatchOrder`, confirm, cancel, delete, reads |
| Order worker, `internal/worker/order_worker.go` | the delivery in hand | dispatch, then Ack or Nack |
| Repositories and schema, `internal/repository/`, `migrations/` | tables orders, tickets, events, users | transactions with row locks, UNIQUE, CHECK and foreign keys |
| Ticket and event services | none of their own | create, update, delete; `OpenForSale` copies ticket types to Redis |
| HTTP handlers | none | one service call per request |
| `cmd/server/main.go` | the worker's context, the connection pool and the Redis client | start; shutdown: drain the HTTP server, cancel the worker, wait, close |

### How they interact

    POST /orders ─ PrepareOrder ─ DecreStock ─► Redis inventory
                        │  └─ (XADD fails) ─ RollbackStock ─► Redis inventory
                        └─ PublishOrder ─► stream ─ XREADGROUP ─► PEL
                                                        │  ▲
                              readAndDeliver, runAutoClaim  │ Nack: stays in the PEL
                                                        ▼  │
                                             worker ─ DispatchOrder ─► PostgreSQL
                                                └─ Ack (XACK)
    confirm, cancel, delete ─ read, then a transaction ─► PostgreSQL
    OpenForSale ─ ListByEventID (PostgreSQL) ─ WarmUpInventory ─► Redis inventory

Nothing is atomic across the three stores. Redis promises units that PostgreSQL
must serve later; delivery is at least once, and the UNIQUE index on
`request_id` is what makes a second delivery harmless; a compensation
(`RollbackStock`) is attempted once and its error is ignored.

### What is hard, and what makes each part correct

- **Inventory.** Many handlers reserve at once. Neither the stock nor a user's
  limit may be passed, and every unit must be accounted for by a request that
  holds it, also when a reply is lost or the process dies after the script.
- **Stream.** The same consumer reads new entries and claims its own old ones,
  while the worker may still be busy with them; replies of XREADGROUP and
  XAUTOCLAIM get lost after they took effect; XPENDING is asked after the claim.
  No accepted order may be lost, and each may be stored once only.
- **Poison messages.** An order the database refuses for ever must leave the
  queue, and one that it would accept must not be thrown away with it.
- **Sessions.** Confirm and cancel look at the status outside the transaction
  that changes it. A closed order must stay closed and units must come back once.
- **Both stores together.** PostgreSQL must be able to serve whatever Redis has
  promised.
- **OpenForSale.** Loops over a snapshot, gives up at the first error, and can be
  called again during the sale or twice at a time.
- **In-memory queue.** The worker sends to the buffer it is fed from.
- **Transactions.** They share 25 connections and lock rows of two tables. No update
  may be lost, nobody may wait in a circle, and what one COMMIT shows must be one
  transaction of the service.
- **Shutdown.** Handlers, the read loop, `runAutoClaim`, the worker and `main` stop
  at different times. The stores must see no more of it than of a crash, and all
  of the goroutines must end.

`PROJECT.json` lists these hazards one by one, at their lines, with the
properties that cover them.

## 2. Modules

| Module | Models | Extended or used by |
|---|---|---|
| `Orders` | requests, ticket types, users; the quantity of a set of orders | all of the sale |
| `Inventory` | the Redis inventory | `TicketSale` |
| `OrderStore` | tables orders and tickets and their transactions, one step each | `TicketSale`, `OrderTransactions` |
| `OrderTransactions` | the same transactions statement by statement: pool, row locks, uncommitted values | `MCOrderTransactions` |
| `RedisStreamOrderQueue` | stream, PEL, the two goroutines, the worker's hands | `TicketSale` |
| `TicketSale` | `PrepareOrder`, the worker with `DispatchOrder`, sessions, `OpenForSale`, crashes: the composition | `MCTicketSale`, `Shutdown` |
| `Shutdown` | `main.go`'s shutdown, and what handlers and goroutines do meanwhile | `MCShutdown` |
| `BoxOffice` | the abstract specification of both stores: grant while it fits, close for good | instantiated twice by `TicketSale` |
| `OrderQueue` | the abstract specification of both queues with their worker: delivery at least once | instantiated by `TicketSale` and `MemoryOrderQueue` |
| `MemoryOrderQueue` | the buffered channel, subscriber and worker | `MCMemoryOrderQueue` |
| `TicketAdmin` | create, update and delete ticket types, concurrent `OpenForSale` | `MCTicketAdmin` |

`MCTicketSale`, `MCOrderTransactions`, `MCShutdown`, `MCMemoryOrderQueue` and
`MCTicketAdmin` give the instances TLC checks. Definitions commented `Slip` are wrong
versions of the definition that follows them; nothing refers to them, and each breaks one of the properties when
it is put in that definition's place (`mutants` in `PROJECT.json`).

### State and steps of `TicketSale`

- **A request** is the body of one POST with the `request_id` that
  `PrepareOrder` draws for it; the request, the stream entry and the row are one
  value. `pc[r]` says where `PrepareOrder` is: `idle`, `reserved`,
  `published` (Redis has applied the XADD, and its reply is under way),
  `unpublished` (`PublishOrder` returned an error), and its outcomes `created` (201),
  `refused`, `failed` (error, nothing held) and `leaked` (error or crash, and the
  units stay taken in Redis). From `published` the handler comes to `created`
  (`Accept`), to `unpublished` when the reply is lost, or to `leaked` when the
  process dies: then the order is served, and its client never heard of it.
- **A step** is one command to Redis, one transaction (at its COMMIT), one
  hand-over between goroutines, or one read by a session. A Redis command that
  fails has two outcomes: it was not executed, or it was and its reply was lost.
- **Redis inventory**: `warm`, `stock`, `limit`, `bought`. `CanDecre` has the
  three checks of the Lua script.
- **Stream**: `stream` (never delivered), `pel`, `tries` (delivery count),
  `reading` (batch of `readAndDeliver`), `claimed` and `offered` (batch of
  `runAutoClaim`, and its entry being sent), `working` (the worker's hands),
  `discarded`. An entry may be in several of these at a time; that is how two
  copies of an order come about.
- **PostgreSQL**: `remaining`, `status`, `deleted`. `CanDispatch` is the UNIQUE
  index, the foreign key of the user, and the WHERE clause of `DecrementStock`.
- **Sessions**: `checked` holds what a confirm, cancel or delete has read and not
  yet acted on. `ConfirmTx` and `CancelTx` have no condition on the status because
  the UPDATE has none.
- **Crash** forgets what goroutines hold and leaves Redis and PostgreSQL alone.

Abstractions. Time is left out: a claim may take any entry of the PEL at any
time, so a worker that is slower than `ClaimMinIdleTime` is always a possibility.
The order of the stream is left out, since claims put entries back in any order.
A transaction is one step, at its COMMIT: `OrderTransactions` shows that statements,
row locks and commits come to that. The price is left to
`TicketAdmin`, and tickets keep their limit and total stock in `TicketSale`.
The delivery count is kept up to `MaxRetryCount + 1`; nothing tells larger
numbers apart.

### `OrderQueue`

What `internal/queue/order_queue.go` promises whichever queue is behind the
interface: a published order is `owed` until the worker acknowledges it, which it
does only once the order is stored, or until the queue gives it up. A Nack and the end
of the process leave it owed, and any published order may be delivered again at any
time. In the refinement of the stream, `owed` is what is in the stream or the PEL,
`givenUp` what was discarded as poison; in that of the in-memory queue, `owed` is what
is in any hands or in the buffer, and nothing is ever given up.

### `OrderTransactions`

A client is a goroutine of the server, or a PostgreSQL backend whose server is
gone. `at` says how far it is: `waiting` for a connection, `begun`, `locked` (the row
of the order is locked), `written` (all statements done, COMMIT left). The variables
of `OrderStore` are what is committed, and `written` is the stock that the client's
transaction will install, which nobody else sees. A statement waits for the row
locks of others (`OrderRowFree`, `TicketRowFree`); an INSERT waits for the fate of an
uncommitted one of the same `request_id`. `Refused` is a statement that a constraint
or a WHERE clause refuses, followed by the deferred Rollback; `Rollback` is any other
error. PostgreSQL re-evaluates the WHERE clause when a row becomes free
(READ COMMITTED), so a statement is one step at the time its row is free. Which
client does what is left open, as is the number of sessions.

### `Shutdown`

`main` goes from `serving` over `draining` (in `srv.Shutdown`) and `cancelled`
(`workerCancel` was called) to `closed` (`rdb.Close`, and `pool.Close` is waiting);
`Exit` ends it and starts the next process. `drained` says that `srv.Shutdown`
returned nil, that is, no handler runs any more; when it gives up after ten seconds,
handlers go on until the exit. `reader` and `claimer` are the two goroutines of
`SubscribeOrders`: `looping`, `polling` (a command to Redis is under way, and does
not come to an end earlier for being cancelled), `gone`. The worker does not look at
its context, but BeginTx, the statements, XPENDING and XACK do: after the
cancellation a dispatch only succeeds if its transaction was begun before (`inHand`).
`SendOnClosed` is the panic of `runAutoClaim` when it sends on the channel that the
read loop has closed; `Killed` is the end of the process without a signal, or in the
middle of its shutdown. Redis and
PostgreSQL do not fail in this module other than through the context or a closed
client; failures are the subject of `TicketSale`.

### `MemoryOrderQueue`

The buffer `ch` is a sequence; `sending`, `holding`, `working` and `requeueing`
are the orders in the hands of blocked handlers, of the subscriber (in `out <-`),
of the worker, and of the worker inside `Nack(true)`. `Gridlock` is the state in
which the last two wait for each other. A context that is cancelled
makes every dispatch fail, so `Ack` is not possible any more. `done` holds orders
that have a row: one whose COMMIT was applied although an error came back is
refused by the UNIQUE index from then on and goes round for ever, which is what
the code does, having no delivery count.

### `TicketAdmin`

The value of a field is the number of the write that set it, so that newer and
older can be told apart. `todo[s]` is what an `OpenForSale` has still to copy of its
snapshot, in any order. `overtaken`, `listed`, `gone` and `past` are history variables.

## 3. Runs

| Run | Expect | Instance | Question |
|---|---|---|---|
| `faults` | pass | 3 requests of 2 users for a stock of 3 and a limit of 2, `MaxRetryCount` 3, 2 crashes, every failure but a lost XADD reply; 780,552 states | `TypeOK` (never oversold), `StockConserved`, `NoShortfall`, `AcceptedTracked`, `StocksReconcile`, and Redis implements `BoxOffice` |
| `lifecycle` | pass | the same requests, one session, database errors, 1 crash; 433,528 states | `LedgerBalanced`, `StoredFits`, `StocksReconcile`, and the orders table implements `BoxOffice` |
| `chaos` | pass | 2 requests, every failure, reopening at any time, 1 crash; 298,714 states | what survives all of it: `UserLimit` (Redis keeps its own account of the limit), `LedgerBalanced`, and the stream implements `OrderQueue` (`QueueDelivers`) |
| `liveness` | pass | 2 users, one without a row, `MaxRetryCount` 5, 1 crash; 17,077 states | `AcceptedServed`, `QueueDrains` |
| `closing_race` | violation | 2 sessions | `ClosedStaysClosed` |
| `lost_publish` | violation | a lost XADD reply | `NoTicketOnError` |
| `reopening` | violation | `OpenForSale` during the sale | `AcceptedFits` |
| `memory` | pass | 3 orders, a buffer of 2; 2,331 states | `TypeOK`, `OneCopy`, `NoOrderLost`, `Dispatched`, `LeavesWhenCancelled`, and the channel implements `OrderQueue` (`QueueDelivers`) |
| `gridlock` | violation | 3 orders, a buffer of 1 | `Dispatched` |
| `transactions` | pass | 3 clients, 2 connections, 2 orders that do not both fit; 418,907 states | `TypeOK`, `WritesCurrent` (no lost update), `NoStandstill`, `TransactionsAreAtomic`, and what transactions guarantee in any order: `NoLostUnits`, `OnlyReclosingUnbalances` |
| `shutdown` | pass | 1 order, 2 sessions, one process that is stopped or killed at any point and its successor, `MaxRetryCount` 5; 160,448 states | `ShutdownTypeOK`, `ShutdownIsACrash`, `SettledStays`, `DrainedLeaksNothing`, `SubscriptionEnds`, `ServedOrStopped`, `DrainsOrStopped` |
| `admin` | pass | 2 ticket types, 2 concurrent openings, 3 writes; 402,786 states | `TypeOK`, `TermsTogether`, `OpenedServes`, `OffSale` |

`StocksReconcile` is the account between the stores. Whatever PostgreSQL has left and
Redis does not sell belongs to an order that is under way, was leaked by a handler
that failed or died, was discarded as poison, or was cancelled. The code does not
bring such units back; the property says that nothing else goes missing, and that
none of them is in a row that counts as sold.

`UserLimit` is about what requests hold in Redis. After a lost XADD reply the
compensation takes an order out of that account although it is stored later, so the
stored units of a user can pass the limit in `chaos`; `StoredFits` holds where no
XADD reply is lost.

### Bounds, and why they are enough

- **Requests.** The first two belong to one user who may not have both, and all
  three together pass the stock, so each refusal of the script occurs, and so do
  the interleavings in which a rollback lets a refused quantity fit again. One
  ticket type is enough for the sale: nothing it does relates two of them (the
  proofs hold for any number).
- **MaxRetryCount** is 2 or 3 where safety is checked, so that entries are
  discarded within the instance, and 5 for liveness: with one crash and one claim
  that arrives while the worker is still busy, a good order uses up deliveries it
  had no benefit from. With 4, `AcceptedServed` fails: a restart and a slow
  hand-over together make a good order poison. 5 is the default of
  `redis_stream_order_queue.go:33`; the run says that it is safe against one
  crash, not against any number of them.
- **BatchSize** is 2 where batches matter and 1 for liveness.
- **MaxCrashes** is 1 or 2: a crash while the effects of the previous one are
  being recovered from is the interesting case, and two suffice for it.
- **Sessions.** `LedgerBalanced`, `StocksReconcile` and the refinement of `BoxOffice`
  hold with one session only: `closing_race` shows that two break them. What is left
  with two is `SettledStays` (in `shutdown`), `NoLostUnits` and
  `OnlyReclosingUnbalances` (in `transactions`, with three clients).
- **A buffer of two** for three orders leaves no room for a gridlock, which takes four.
  That is what `Dispatched` and `LeavesWhenCancelled` need in `memory`; with a buffer
  of one, `gridlock` shows that they are lost.
- **MaxQuantity** is 2, so that a request may fit the stock and not the limit or
  the other way round.
- **Clients and connections.** Three clients for two connections is the least with
  which one waits for the pool while two wait for each other's rows; the two orders
  compete for a stock that only one of them fits.
- **One order in `shutdown`** is in the hands of the read loop, of `runAutoClaim` and
  of the worker at the same time, which is what the steps of the shutdown tell
  apart. The proofs of its safety properties hold for any number of orders. A
  leads-to property that is discharged by `ContextDone` is owed again by the
  successor, which is not stopped.
- **MaxWrites** is 3 in `TicketAdmin`: create both types and update one of them
  during an opening, or create one and update it twice.

Deadlock is checked in `admin` and `transactions`. Elsewhere the instance is finite and really comes
to rest: every request has its answer and the queue is empty (in `gridlock`, the
standstill itself is the subject and is found as a violation of `Dispatched`).

### Fairness

`TicketSale`, `FairSpec`. A handler that has begun goes on, reads and
transactions that are begun are finished, and the loops run: weak fairness.
Claims are strongly fair because the ticker keeps firing and XAUTOCLAIM walks the
whole PEL; hand-overs are strongly fair because a Go channel serves its blocked
senders in the order in which they arrived. Nothing is assumed of clients,
failures, crashes or `OpenForSale`.

`Shutdown`, `GoroutineSpec`. The read loop, `runAutoClaim` and the worker each go on
while they can: weak fairness of each goroutine as a whole. Claims and hand-overs
are strongly fair as above. Nothing is assumed of handlers or of `main`, which may
stay at any stage of the shutdown.

`MemoryOrderQueue`, `FairSpec`. Senders are served in order (strong fairness of
`Enqueue` and `Requeue`); `Ack` is strongly fair, which says that the database is
not out of reach for ever; `Leave` is strongly fair because `select` chooses at
random among its ready cases, so the cancelled context is seen sooner or later.
Publishing and cancelling are not owed.

## 4. Findings

- **Closing race** (`order_service.go:119-141, 150-179`). Of two sessions that
  both read `pending`, the second overwrites what the first did, and two
  cancellations increment the stock twice. The tests say that an order which is
  not pending is refused.
- **Lost publish** (`order_service.go:78`). XADD is applied and its reply lost:
  the client gets an error, the units go back, and the worker stores the order all
  the same, which the trace runs to. The comment at line 80 says the user must by no means get a ticket.
- **Reopening** (`event_service.go:65`). `OpenForSale` during the sale sets the
  Redis stock to `total_stock` again, so more orders are answered 201 than there
  are tickets; the database refuses the excess, which ends as poison.
- **Gridlock** (`order_queue.go:58`). With a full buffer, `Nack(true)` waits for
  the subscriber and the subscriber for the worker. It is for ever, a cancellation
  notwithstanding (`GridlockIsFinal`). (The server is wired to the
  Redis queue; this one is constructed only by tests.)

Also seen while modelling, without a run of its own:

- The poison count includes the first delivery (`redis_stream_order_queue.go:174`), so
  an order is tried `MaxRetryCount - 1` times; the comment at line 26 says it is
  discarded past that number.
- `workerCancel` (`main.go:125`) reaches the dispatch in hand: BeginTx fails at once if
  it was not begun before, although the comment at line 123 says that the worker is
  left to finish. The order waits in the PEL for the next process;
  `ShutdownIsACrash` and `ServedOrStopped` show that nothing worse comes of it.
- The delivery channel is closed when the read loop returns
  (`redis_stream_order_queue.go:108`), and nobody waits for `runAutoClaim`, which may
  still send on it. That panics and ends the process at a point of its choosing
  (`SendOnClosed`).
- `gin.Context` has no Done channel of its own, so the cancellation that the comment at
  `order_service.go:76` speaks of does not reach XADD; the model has no such step.

Not contradicted by any text of the repository: an order that is
discarded as poison keeps its units in Redis, and a cancelled one returns them to
PostgreSQL only; an overtaken `OpenForSale` can put older terms back, so
`OpenedServes` promises freshness only to one that is not overtaken; a ticket type
that is deleted after it was opened stays on sale.

## 5. Proofs

All theorems hold for every value of the constants that satisfies the named
assumptions of `Orders`, `RedisStreamOrderQueue`, `TicketSale`, `OrderTransactions`,
`Shutdown` and `TicketAdmin` (finitely many
requests with distinct ids, a total stock per ticket type, a limit of 1 to 20 as
in `CHECK`, and so on). TLC evaluates those assumptions in every run.

| Theorem | Module | Under | Says |
|---|---|---|---|
| `StoreKeepsUnits` | `OrdersProofs` | | `NoLostUnits` of the transactions in any order, whoever runs them: a unit may be counted twice, never lost |
| `OnlyReclosingUnbalancesHolds` | `OrdersProofs` | | only the closing of an order that had been cancelled changes the sum of units left and sold |
| `TypeCorrect` | `TicketSaleTypeProofs` | | `TypeOK`; no stock is ever negative |
| `UserLimitHolds` | `FrontProofs` | | `UserLimit` |
| `StockConservedHolds` | `FrontProofs` | `~Reopening` | `StockConserved` |
| `AcceptedFitsHolds` | `FrontProofs` | `~Reopening` | `AcceptedFits`: what is answered 201 fits the stock |
| `FrontRefinesBoxOffice` | `FrontProofs` | `~Reopening` | Redis implements `BoxOffice` |
| `QueueRefines` | `LedgerProofs` | | the stream, its goroutines and the worker implement `OrderQueue` |
| `RefusedNeverServed` | `LedgerProofs` | | a request that the script refused is never queued or stored, lost replies or not |
| `AcceptedTrackedHolds` | `LedgerProofs` | | `AcceptedTracked` |
| `ServedIsHeldHolds` | `LedgerProofs` | no lost XADD reply | `ServedIsHeld`: what is queued or stored holds its units in Redis, also when its handler died before it could answer; so `NoTicketOnError` |
| `SaleUsesStore` | `LedgerProofs` | | the sale changes the tables as `StoreSpec` says |
| `NoLostUnitsHolds`, `SaleUnbalancedByReclosing` | `LedgerProofs` | | what `OrdersProofs` says of `StoreSpec`, of the sale |
| `NoShortfallHolds` | `LedgerProofs` | `~Reopening`, no lost XADD reply | `NoShortfall` |
| `QueuedCanDispatch` | `LedgerProofs` | `~Reopening`, no lost XADD reply | a queued order of a registered user that has no row can be dispatched at that very moment |
| `StoredFitsHolds` | `LedgerProofs` | `~Reopening`, no lost XADD reply | `StoredFits`, with any number of racing sessions |
| `SettledStaysHolds` | `LedgerProofs` | | `SettledStays`, with any number of racing sessions |
| `LedgerBalancedHolds` | `LedgerProofs` | at most one session | `LedgerBalanced` |
| `LedgerRefinesBoxOffice` | `LedgerProofs` | at most one session, no lost XADD reply | the orders table implements `BoxOffice` |
| `StocksReconcileHolds` | `LedgerProofs` | at most one session, `~Reopening`, no lost XADD reply | `StocksReconcile` |
| `TypeCorrect`, `OneCopyHolds` | `MemoryOrderQueueProofs` | | types; no order is in two places of the in-memory queue |
| `QueueRefines` | `MemoryOrderQueueProofs` | | the in-memory queue implements `OrderQueue` |
| `NoOrderLostHolds` | `MemoryOrderQueueProofs` | | no published order is lost while the process lives |
| `GridlockIsFinal` | `MemoryOrderQueueProofs` | | a gridlock is for ever, whatever the buffer size |
| `TypeCorrect`, `WritesCurrentHolds` | `OrderTransactionsProofs` | | types; no update is lost |
| `NoStandstillHolds` | `OrderTransactionsProofs` | | nobody waits in a circle |
| `TransactionsRefineStore` | `OrderTransactionsProofs` | | statements and locks implement `OrderStore` |
| `NoLostUnitsHolds`, `TransactionsUnbalanceByReclosing` | `OrderTransactionsProofs` | | what `OrdersProofs` says of `StoreSpec`, of statements and locks |
| `ShutdownRefinesSale` | `ShutdownProofs` | | the server with its shutdown implements `TicketSale` |
| `ShutdownKeepsAccepted`, `ShutdownKeepsDelivering`, `ShutdownKeepsUnits` | `ShutdownProofs` | | no shutdown loses an accepted order, breaks the delivery at least once, loses a unit or passes a user's limit |
| `ShutdownFrontIsBoxOffice` | `ShutdownProofs` | `~Reopening` | with its shutdown Redis still implements `BoxOffice` |
| `ShutdownTypeCorrect`, `DrainedLeaksNothingHolds` | `ShutdownProofs` | | types; a drained process leaks no units |
| `TypeCorrect`, `TermsTogetherHolds`, `OffSaleHolds`, `OpenedServesHolds` | `TicketAdminProofs` | | the invariants of `TicketAdmin` |

Every safety property of a passing run is a theorem. Each condition is one of the
violation runs: what `reopening`, `lost_publish` and `closing_race` break is proved
where the sale opens once, no XADD reply is lost, or there is one session.

The refinements stack up:

    Shutdown ──► TicketSale ──► BoxOffice     (Redis; PostgreSQL)
                     │ │
                     │ └──────► OrderQueue ◄── MemoryOrderQueue
                     └────────► StoreSpec  ◄── OrderTransactions

`StoreSpec` of `OrderStore` is any sequence of whole transactions. What is proved of a
module on the right is inherited by those on its left.

### The argument

- **Sums.** The quantity of a set of orders is the cardinality of the set of their
  units. That turns "the sum grows by `r.quantity`" into facts about finite sets
  (`OrdersProofs`: `QuantityAdd`, `QuantityRemove`, `QuantityUnion`,
  `TicketAdd`, ...), with no induction over data.
- **Shape of steps.** `StepShape` says that each action is one operation on each
  store. An invariant of one store is then a matter of its handful of operations,
  not of all the actions.
- **The Redis side.** `StockConserved` is inductive only along with `HeldOnSale`
  (a request that holds units belongs to a ticket type that is on sale, or opening
  the sale would overwrite its units) and `StockLeft`. `UserLimit` needs
  `LimitLoaded`: the limit the script compares with is the row's. `HeldFits`
  follows from both and is what `FrontRefinesBoxOffice` needs of a step: its
  Grants fit. `AcceptedFits` and `StoredFits` are about subsets of what is held.
- **The queue.** `QueueInv` has four parts. `AckDue`: there is one order in the
  worker's hands, and it is stored before it is acknowledged; without it, an Ack
  might remove an order that has no row. A request that has not been
  sent is nowhere in the queue or the tables, so that an XADD puts it there for the
  first time. An unread entry is neither pending nor settled. And whatever a goroutine
  has in its hands is pending or settled, however late a stale copy is. These hold
  with every fault, and with them each action is a step of `OrderQueue` or none.
- **Sent and kept.** `Published` (in the stream or the PEL, stored, or discarded)
  grows by an XADD only and never shrinks (`PublishedStep`). `AcceptedTracked` says
  that the requests answered 201 are in it; inductive is `SentTracked`, which includes
  those whose XADD has been applied and that wait for its reply. In the other direction, `PublishedKept` says
  that what is in it has its handler still at work, was answered 201, or lost its handler in a
  crash: no compensation runs for it unless a reply is lost. `ServedIsHeld` follows.
- **The transactions.** `BookedStep` says what one transaction does to the units that
  are left or sold: it keeps their sum, or it closes an order that had been cancelled
  (`Reclosed`) and the sum grows. The sale, the statements of `OrderTransactions` and
  the shutdown inherit that through their refinements. That the sum is exact with one
  session follows from `GuardedNotReclosed`.
- **Both sides.** `NoShortfall` follows from three invariants:
  `StockConserved` (what Redis has left and what is held make up the stock),
  `ServedIsHeld` (what waits in the queue, or is stored, is held) and
  `NoLostUnits` (what PostgreSQL has left covers what is not live). It needs no
  assumption on sessions: a cancellation can only make more remain.
  `QueuedCanDispatch` draws the conclusion for a single order: of the three reasons for
  which `DispatchOrder` may refuse it, only a missing user is left.
- **Sessions.** With one session, `SessionInv` says that an order that a confirm or
  a cancel has read is still pending, since only that session can close it. Then
  `SessionStep` restricts every transaction to pending orders, and `LedgerBalanced`
  follows. With more sessions the order may be closed after the read; but a session
  that reads it later turns back, so an order is safe as soon as the sessions that
  read it pending have ended (`SettledStays`, inductive as it stands).
- **The account between the stores.** `HeldNotLive`: by `SentTracked` and
  `PublishedKept`, what holds units in Redis and does not count as sold in PostgreSQL
  is exactly the set of `StocksReconcile`. Its quantity is the difference of
  `StockConserved` and `LedgerBalanced`.
- **The orders table.** `LedgerRefinesBoxOffice` joins both sides: `LiveFits`
  takes the stock from `LedgerBalanced`, and the limit of a user from `UserLimit`
  in Redis, since `ServedIsHeld` makes every stored order one that holds its units
  there. PostgreSQL has no limit of its own.
- **In-memory queue.** `QueueInv` is `OneCopy` with `OneEach` (each goroutine has
  at most one order) and `OnlyPublished`. With it, each step is one of `OrderQueue`,
  whose invariant `Accounted` (`DeliveryAccounts`) then says that nothing is lost. In
  a gridlock the worker has nothing in hand but what it sends back, so that no action
  of it or of the subscriber is enabled, and none of others makes room.
- **Transactions.** `OrdersExclusive` and `TicketsExclusive` say that no two
  transactions hold the same row; `RowsReady`, that what the statements of a
  transaction found is still so. With them, `WritesCurrent` is inductive, and a COMMIT
  is a step of `OrderStore`. `NoStandstill` follows from the order in which rows are
  taken: a client that holds a ticket type has only its COMMIT left, and one that
  holds an order waits at most for such a client.
- **Shutdown.** Each action is a step of `TicketSale` in which a command fails, or no
  step of it (`HandleRefines`, `WorkerRefines`, `MainRefines`, ...), and the end of the
  process is `Crash`. What is proved of `TicketSale` is then inherited,
  its own refinements included.
  `DrainedLeaksNothing` rests on `DrainInv`: once drained, no handler is between a
  reservation and its answer.
- **OpenForSale.** `OpenedServes` is inductive along with `LaterNewer`: what another
  session has still to copy is no older than what an opening that is not overtaken
  has read, because that session has listed later, and rows only get newer
  (`Snapshots`, `RowsWritten`).

### Only model-checked

Liveness, that is, the leads-to properties of `liveness`, `shutdown` and `memory`
(fairness and ENABLED are beyond TLAPS). `QueuedCanDispatch` is the safety part of
`AcceptedServed`: an accepted order never waits for stock. Induction over data and
RECURSIVE operators are avoided throughout, so nothing rests on them.

## 6. Not modelled

- **Event create and update**: plain writes of a name and a description that nothing
  else reads; events are never deleted, so the look-up of `OpenForSale` has nothing to
  race with.
- **User repository**: the server constructs it and does not use it
  (`main.go:42-44`); the users table appears as `Registered`.
- **Operations without a caller**: `AddStock`, `GetUserTicketOrderCount`,
  `FindByUserID`, `IsValid`, `IsAvailable`. `DeleteOrderByOrderID` has none in the
  server either, for there is no route to it (`order_handler.go:24-33`); it is modelled
  all the same, as part of the interface of the order service.
- **Retries inside the go-redis client** (`redis.go:12`): the model has each command
  executed at most once. That the library sends a command again when its reply is
  lost, and how often, is its default and not said in this repository.
- **Malformed stream entries**: the only producer marshals an order.
- **Time**: ten seconds, two seconds, `ClaimMinIdleTime` and the lifetime of
  connections; whatever may happen before or after them, may.
- **Starvation** of a transaction by others is not checked: who is served first is up
  to pgxpool and PostgreSQL. `NoStandstill` says that somebody always is.
- Configuration, logging, database set-up, routing, JSON.

## 7. Plan

The order of work, the most important behaviour first.

1. *Done.* `Orders`, `Inventory`, `OrderStore`, `RedisStreamOrderQueue`,
   `TicketSale`, `BoxOffice`: the sale with its failures, its refinement, its
   liveness; type correctness and the safety theorems above.
2. *Done.* `MemoryOrderQueue` with its proofs; `TicketAdmin` with its proofs.
3. *Done.* `OrderTransactions` and `Shutdown`, with their refinements proved.
4. *Done.* `OrderQueue`, which both queues are proved to implement; the guarantees of
   the transactions proved once, of `StoreSpec`, and inherited; what is stored or
   accepted fits the stock; the account between the stores.
5. *If worthwhile.* Commands that the Redis client sends twice: which of the
   guarantees of `Inventory` survive a script that is executed again.
