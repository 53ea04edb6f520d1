------------------------------ MODULE Shutdown ------------------------------
(***************************************************************************)
(* How cmd/server/main.go stops the server of TicketSale, and what the     *)
(* goroutines of SubscribeOrders and the worker do when their context is   *)
(* cancelled. Redis and PostgreSQL do not fail here: a command fails when  *)
(* its context is cancelled or its client is closed, and only then. Exit   *)
(* includes the start of the next process.                                 *)
(*                                                                         *)
(* A command begun before the cancellation goes on to its end, and one     *)
(* begun after it fails at once. What a goroutine that has returned held   *)
(* is left in its variable: nobody looks at it any more.                   *)
(***************************************************************************)
EXTENDS TicketSale

ASSUME EveryFault == Faults = {"redis", "lostPublish", "db"}

VARIABLES
    main,     \* how far main has come
    drained,  \* srv.Shutdown returned nil: no handler runs any more
    reader,   \* the goroutine of runReadLoop
    claimer,  \* the goroutine of runAutoClaim
    inHand    \* what the worker had in hand when it was cancelled

shutdownVars == <<main, drained, reader, claimer, inHand>>
allVars == <<vars, shutdownVars>>

\* Every variable has its type, and a goroutine is only gone when it was told to stop.
\* "draining": in srv.Shutdown; "cancelled": workerCancel has been called; "closed": so
\* has rdb.Close, and pool.Close waits
ShutdownTypeOK ==
    /\ main \in {"serving", "draining", "cancelled", "closed"}
    /\ drained \in BOOLEAN
    /\ reader \in {"looping", "polling", "gone"}
    /\ claimer \in {"looping", "polling", "gone"}
    /\ inHand \subseteq Requests
    /\ reader = "gone" \/ claimer = "gone" \/ inHand # {} => main \in {"cancelled", "closed"}

ShutdownInit ==
    /\ Init
    /\ main = "serving" /\ drained = FALSE
    /\ reader = "looping" /\ claimer = "looping"
    /\ inHand = {}

ContextDone == main \in {"cancelled", "closed"}
Closed == main = "closed"

-----------------------------------------------------------------------------
(* The handlers. They go on until srv.Shutdown has seen all of them end;   *)
(* when it gives up after ten seconds they go on until the process exits.  *)

Refusable(c) ==
    \/ c.op = "cancel" /\ ~CanCancel(c.order)
    \/ c.op = "delete" /\ ~FindByOrderID(c.order)

Handle ==
    /\ ~drained
    /\ \/ ~Closed /\ \/ \E t \in Tickets : OpenForSale(t)
                     \/ \E r \in Requests : Reserve(r) \/ Refuse(r) \/ Publish(r)
       \/ \E r \in Requests : Accept(r)
       \/ Closed /\ \E r \in Requests : ReserveFails(r) \/ PublishFails(r) \/ RollbackFails(r)
       \/ \E s \in Sessions, op \in Operations, r \in Requests : FindOrder(s, op, r)
       \/ \E c \in SessionRequests :
            \/ ConfirmOrder(c) \/ CancelOrder(c) \/ DeleteOrder(c)
            \/ (Closed \/ Refusable(c)) /\ UpdateFails(c)
    /\ UNCHANGED shutdownVars

-----------------------------------------------------------------------------
(* The read loop. It looks at its context before XREADGROUP and while it   *)
(* hands an order over; when it returns, the delivery channel is closed.   *)

StartPoll ==
    /\ reader = "looping" /\ reading = {} /\ ~ContextDone
    /\ reader' = "polling"
    /\ UNCHANGED <<vars, main, drained, claimer, inHand>>

Poll ==
    /\ reader = "polling"
    /\ reader' = "looping"
    /\ \/ (stream = {} \/ ContextDone) /\ UNCHANGED vars
       \/ \E B \in SUBSET Requests : ReadStream(B) /\ (Closed \/ reading' = B)
    /\ UNCHANGED <<main, drained, claimer, inHand>>

\* Slip: the deferred close(out) is missing, so nothing tells the worker
CloseForgotten ==
    /\ reader = "looping" /\ ContextDone
    /\ UNCHANGED allVars

\* Slip: the loop also returns when there is nothing to read
CloseUncancelled ==
    /\ reader = "looping"
    /\ reader' = "gone"
    /\ UNCHANGED <<vars, main, drained, claimer, inHand>>

CloseChannel ==
    /\ reader = "looping" /\ ContextDone
    /\ reader' = "gone"
    /\ UNCHANGED <<vars, main, drained, claimer, inHand>>

-----------------------------------------------------------------------------
(* runAutoClaim. It looks at its context between ticks and while it hands  *)
(* an order over, in the same select as the send.                          *)

StartClaim ==
    /\ claimer = "looping" /\ ~Claiming /\ ~ContextDone
    /\ claimer' = "polling"
    /\ UNCHANGED <<vars, main, drained, reader, inHand>>

Claim ==
    /\ claimer = "polling"
    /\ claimer' = "looping"
    /\ \/ UNCHANGED vars
       \/ \E B \in SUBSET Requests : ClaimStream(B) /\ (Closed \/ claimed' = B)
    /\ UNCHANGED <<main, drained, reader, inHand>>

\* With a cancelled context XPENDING fails, and so does the XACK of a poison message
\* that was looked at before
ExamineClaimed(r) ==
    /\ claimer = "looping"
    /\ IF ContextDone THEN RetryCountUnknown(r) \/ DiscardFails(r)
                    ELSE ShouldProcessMessage(r) \/ DiscardMessage(r)
    /\ UNCHANGED <<inventoryVars, storeVars, pc, dispatched, checked, crashes, shutdownVars>>

LeaveClaim ==
    /\ claimer = "looping" /\ ContextDone
    /\ offered # {} \/ claimed = {}
    /\ claimer' = "gone"
    /\ UNCHANGED <<vars, main, drained, reader, inHand>>

-----------------------------------------------------------------------------
(* The worker. It does not look at its context, but everything it calls    *)
(* does: a transaction is begun only before the cancellation.              *)

ReceiveOpen(r) ==
    /\ reader # "gone"
    /\ ReceiveOrder(r)
    /\ claimer = "gone" => offered' = offered
    /\ UNCHANGED shutdownVars

\* Slip: an order whose transaction was aborted is acknowledged
DispatchDrops(r) ==
    /\ r \in working /\ ~dispatched
    /\ \/ DispatchOrder(r)
       \/ /\ ContextDone /\ NackDrops(r)
          /\ UNCHANGED <<inventoryVars, storeVars, pc, dispatched, checked, crashes>>
    /\ UNCHANGED shutdownVars

Dispatch(r) ==
    /\ \/ (ContextDone => r \in inHand) /\ DispatchOrder(r)
       \/ /\ DispatchFails(r)
          /\ ~ContextDone => ~CanDispatch(r)
          /\ ContextDone /\ r \notin inHand => status' = status
    /\ UNCHANGED shutdownVars

\* The XACK of a cancelled context fails: the order has its row, and its entry stays
Acknowledge(r) ==
    /\ dispatched
    /\ IF ContextDone THEN Nack(r) ELSE Ack(r)
    /\ dispatched' = FALSE
    /\ UNCHANGED <<inventoryVars, storeVars, pc, checked, crashes, shutdownVars>>

WorkerLeft == reader = "gone" /\ working = {}

-----------------------------------------------------------------------------
(* main.                                                                   *)

\* The bound on processes is that of TicketSale
Signal ==
    /\ main = "serving" /\ crashes < MaxCrashes
    /\ main' = "draining"
    /\ UNCHANGED <<vars, drained, reader, claimer, inHand>>

NoHandlerRuns == checked = {} /\ \A r \in Requests : pc[r] \notin Running

StopWorker ==
    /\ main = "draining"
    /\ main' = "cancelled"
    /\ inHand' = working
    /\ UNCHANGED <<vars, reader, claimer>>

\* Slip: the server is closed and not shut down
CloseAtOnce == StopWorker /\ drained' = TRUE

\* srv.Shutdown returns nil, or gives up after ten seconds; workerCancel follows
ShutDown ==
    /\ StopWorker
    /\ drained' \in BOOLEAN
    /\ drained' => NoHandlerRuns

\* Two seconds later, whatever the goroutines are at
CloseRedis ==
    /\ main = "cancelled"
    /\ main' = "closed"
    /\ UNCHANGED <<vars, drained, reader, claimer, inHand>>

Restart ==
    /\ Crash
    /\ main' = "serving" /\ drained' = FALSE
    /\ reader' = "looping" /\ claimer' = "looping"
    /\ inHand' = {}

Exit == Closed /\ Restart

\* At any time, also while main waits for the handlers or for the worker
Killed == ~Closed /\ Restart

\* runAutoClaim comes to its select with an order, and the read loop has closed the
\* channel: both cases are ready, and select panics when it picks the send
SendOnClosed == claimer = "looping" /\ offered # {} /\ reader = "gone" /\ Restart

-----------------------------------------------------------------------------
Goroutines ==
    \/ StartPoll \/ Poll \/ CloseChannel
    \/ StartClaim \/ Claim \/ LeaveClaim
    \/ \E r \in Requests : ExamineClaimed(r) \/ ReceiveOpen(r) \/ Dispatch(r) \/ Acknowledge(r)

ShutdownNext ==
    \/ Handle \/ Goroutines
    \/ Signal \/ ShutDown \/ CloseRedis \/ Exit \/ Killed \/ SendOnClosed

ShutdownSpec == ShutdownInit /\ [][ShutdownNext]_allVars

\* Each goroutine goes on while it can. Claims and hand-overs are strongly fair: the
\* ticker keeps firing, and a channel serves its senders in the order they arrived.
\* Nothing is owed by clients and handlers, and main may take as long as it likes.
GoroutineFairness ==
    /\ WF_allVars(StartPoll \/ Poll \/ CloseChannel)
    /\ WF_allVars(StartClaim \/ Claim \/ LeaveClaim \/ \E r \in Requests : ExamineClaimed(r))
    /\ WF_allVars(\E r \in Requests : Dispatch(r) \/ Acknowledge(r))
    /\ \A r \in Requests : SF_allVars(Claim /\ r \in claimed') /\ SF_allVars(ReceiveOpen(r))

GoroutineSpec == ShutdownSpec /\ GoroutineFairness

-----------------------------------------------------------------------------
\* Whatever is cut short when the server stops, a panic included, the stores see no
\* more of it than of a crash, so that all that TicketSale guarantees holds.
ShutdownIsACrash == Spec

\* A process whose handlers srv.Shutdown has waited for leaves no reservation behind
\* that nobody will publish or return.
DrainedLeaksNothing == [][drained /\ crashes' # crashes => pc' = pc]_allVars

\* The cancellation ends the whole subscription, although runAutoClaim, the read loop
\* and the worker learn of it at different times.
SubscriptionEnds ==
    ContextDone ~> (claimer = "gone" /\ WorkerLeft) \/ main = "serving"

\* Every accepted order of a registered user reaches the database, in this process or
\* in its successor.
ServedOrStopped ==
    \A r \in Requests :
        (pc[r] = "created" /\ r.user \in Registered) ~> (status[r] # "none" \/ ContextDone)

\* No entry stays in the stream or the PEL while the goroutines are to run.
DrainsOrStopped ==
    \A r \in Requests : (r \in stream \cup pel) ~> (r \notin stream \cup pel \/ ContextDone)
=============================================================================
