--------------------------- MODULE ShutdownProofs ---------------------------
(***************************************************************************)
(* Stopping the server is, to Redis and PostgreSQL, no more than a crash:  *)
(* Shutdown implements TicketSale, and inherits what is proved of it. A    *)
(* process that has waited for its handlers does better than a crash.      *)
(***************************************************************************)
EXTENDS Shutdown, LedgerProofs

-----------------------------------------------------------------------------
(* The refinement, a group of actions at a time.                           *)

\* A step of a handler is a step of the sale.
LEMMA HandleRefines ==
  ASSUME Handle
  PROVE  Next
<1>1. ASSUME NEW t \in Tickets, OpenForSale(t)
      PROVE  Next
  BY <1>1 DEF Next
<1>2. ASSUME NEW r \in Requests,
             \/ Reserve(r) \/ Refuse(r) \/ Publish(r) \/ Accept(r)
             \/ ReserveFails(r) \/ PublishFails(r) \/ RollbackFails(r)
      PROVE  Next
  BY <1>2 DEF Next, PrepareOrder
<1>3. ASSUME NEW s \in Sessions, NEW op \in Operations, NEW r \in Requests, FindOrder(s, op, r)
      PROVE  Next
  BY <1>3 DEF Next
<1>4. ASSUME NEW c \in SessionRequests,
             ConfirmOrder(c) \/ CancelOrder(c) \/ DeleteOrder(c) \/ UpdateFails(c)
      PROVE  Next
  BY <1>4 DEF Next, Update
<1>5. QED
  BY <1>1, <1>2, <1>3, <1>4 DEF Handle

\* So is what the read loop does in Redis; starting and ending it changes nothing.
LEMMA ReaderRefines ==
  ASSUME StartPoll \/ Poll \/ CloseChannel
  PROVE  [Next]_vars
BY DEF StartPoll, Poll, CloseChannel, Next

\* And what runAutoClaim does there.
LEMMA ClaimRefines ==
  ASSUME StartClaim \/ Claim \/ LeaveClaim
  PROVE  [Next]_vars
BY DEF StartClaim, Claim, LeaveClaim, Next

\* An examination whose XPENDING fails for a cancelled context is one that fails.
LEMMA ExamineRefines ==
  ASSUME NEW r \in Requests, ExamineClaimed(r)
  PROVE  Next
<1>1. Examine(r)
  BY EveryFault DEF ExamineClaimed, Examine
<1>2. QED
  BY <1>1 DEF Next, Work

\* The worker of a cancelled context is one whose database and whose XACK fail.
LEMMA WorkerRefines ==
  ASSUME NEW r \in Requests, ReceiveOpen(r) \/ Dispatch(r) \/ Acknowledge(r)
  PROVE  Next
<1>1. CASE ReceiveOpen(r)
  BY <1>1 DEF ReceiveOpen, Next, Work
<1>2. CASE Dispatch(r)
  BY <1>2 DEF Dispatch, Next, Work
<1>3. CASE Acknowledge(r)
  <2>1. AckOrder(r)
    BY <1>3, EveryFault DEF Acknowledge, AckOrder
  <2>2. QED
    BY <2>1 DEF Next, Work
<1>4. QED
  BY <1>1, <1>2, <1>3

\* main leaves the sale alone until the process ends, and then it is a crash.
LEMMA MainRefines ==
  ASSUME Signal \/ ShutDown \/ CloseRedis \/ Exit \/ Killed \/ SendOnClosed
  PROVE  [Next]_vars
BY DEF Signal, ShutDown, StopWorker, CloseRedis, Exit, Killed, SendOnClosed, Restart, Next

\* Every step of Shutdown is a step of the sale, or none.
LEMMA StepRefines ==
  ASSUME [ShutdownNext]_allVars
  PROVE  [Next]_vars
BY HandleRefines, ReaderRefines, ClaimRefines, ExamineRefines, WorkerRefines, MainRefines
   DEF ShutdownNext, Goroutines, allVars

\* Whatever is cut short when the server stops, the stores see no more than a crash.
THEOREM ShutdownRefinesSale == ShutdownSpec => ShutdownIsACrash
<1>1. ShutdownInit => Init
  BY DEF ShutdownInit
<1>2. [ShutdownNext]_allVars => [Next]_vars
  BY StepRefines
<1>3. QED
  BY <1>1, <1>2, PTL DEF ShutdownSpec, ShutdownIsACrash, Spec

\* Whatever the order in which main, the goroutines and the handlers stop, an order
\* answered 201 is still in the stream, in the PEL or in the database.
THEOREM ShutdownKeepsAccepted == ShutdownSpec => []AcceptedTracked
BY ShutdownRefinesSale, AcceptedTrackedHolds, PTL DEF ShutdownIsACrash

\* A signal in the middle of a delivery, a hand-over or a claim leaves the entry owed:
\* with its shutdown the stream still is a queue that delivers at least once.
THEOREM ShutdownKeepsDelivering == ShutdownSpec => QueueDelivers
BY ShutdownRefinesSale, QueueRefines, PTL DEF ShutdownIsACrash

\* Handlers cut short between DecreStock and PublishOrder keep the reservations with
\* Redis what a box office may grant, as long as a sale opens once.
THEOREM ShutdownFrontIsBoxOffice ==
  ASSUME ~Reopening
  PROVE  ShutdownSpec => FrontIsBoxOffice
BY ShutdownRefinesSale, FrontRefinesBoxOffice, PTL DEF ShutdownIsACrash

\* Workers and sessions cut short leave the database without a unit forgotten, and no
\* user with more than the limit.
THEOREM ShutdownKeepsUnits == ShutdownSpec => []NoLostUnits /\ []UserLimit
BY ShutdownRefinesSale, NoLostUnitsHolds, UserLimitHolds, PTL DEF ShutdownIsACrash

-----------------------------------------------------------------------------
(* Draining.                                                               *)

\* A drained server has no handler between a reservation and its answer.
DrainInv ==
    /\ ShutdownTypeOK
    /\ drained => NoHandlerRuns /\ ContextDone

\* At the start everything runs and nothing has drained.
LEMMA DrainInit == ShutdownInit => DrainInv
BY DEF ShutdownInit, DrainInv, ShutdownTypeOK, RedisStreamInit, Init

\* What the goroutines do touches neither the handlers nor main.
LEMMA GoroutineFrame ==
  ASSUME Goroutines
  PROVE  UNCHANGED <<pc, checked, crashes, main, drained, inHand>>
<1>1. CASE StartPoll \/ Poll \/ CloseChannel
  BY <1>1 DEF StartPoll, Poll, CloseChannel, ReadStream, vars
<1>2. CASE StartClaim \/ Claim \/ LeaveClaim
  BY <1>2 DEF StartClaim, Claim, LeaveClaim, ClaimStream, vars
<1>3. ASSUME NEW r \in Requests, ExamineClaimed(r) \/ Acknowledge(r)
      PROVE  UNCHANGED <<pc, checked, crashes, main, drained, inHand>>
  BY <1>3 DEF ExamineClaimed, Acknowledge, shutdownVars
<1>4. ASSUME NEW r \in Requests, ReceiveOpen(r) \/ Dispatch(r)
      PROVE  UNCHANGED <<pc, checked, crashes, main, drained, inHand>>
  BY <1>4 DEF ReceiveOpen, ReceiveOrder, Dispatch, DispatchOrder, DispatchFails, shutdownVars
<1>5. QED
  BY <1>1, <1>2, <1>3, <1>4 DEF Goroutines

\* A goroutine comes to its end only when it is told to.
LEMMA GoroutineType ==
  ASSUME ShutdownTypeOK, Goroutines
  PROVE  ShutdownTypeOK'
<1>1. UNCHANGED <<main, drained, inHand>>
  BY GoroutineFrame
<1>2. CASE StartPoll \/ Poll \/ CloseChannel
  BY <1>1, <1>2 DEF StartPoll, Poll, CloseChannel, ShutdownTypeOK, ContextDone
<1>3. CASE StartClaim \/ Claim \/ LeaveClaim
  BY <1>1, <1>3 DEF StartClaim, Claim, LeaveClaim, ShutdownTypeOK, ContextDone
<1>4. ASSUME NEW r \in Requests, ExamineClaimed(r) \/ ReceiveOpen(r) \/ Dispatch(r) \/ Acknowledge(r)
      PROVE  ShutdownTypeOK'
  BY <1>1, <1>4 DEF ExamineClaimed, ReceiveOpen, Dispatch, Acknowledge, shutdownVars, ShutdownTypeOK
<1>5. QED
  BY <1>2, <1>3, <1>4 DEF Goroutines

\* Draining is preserved: once no handler runs, none can begin, and only a restart undoes it.
LEMMA DrainStep ==
  ASSUME DrainInv, working \subseteq Requests, [ShutdownNext]_allVars
  PROVE  DrainInv'
<1>1. CASE Handle
  BY <1>1 DEF Handle, DrainInv, shutdownVars, ShutdownTypeOK
<1>2. CASE Goroutines
  BY <1>2, GoroutineFrame, GoroutineType DEF DrainInv, NoHandlerRuns, ContextDone
<1>3. CASE Signal \/ CloseRedis
  BY <1>3 DEF Signal, CloseRedis, DrainInv, ShutdownTypeOK, NoHandlerRuns, ContextDone, vars
<1>4. CASE ShutDown
  BY <1>4 DEF ShutDown, StopWorker, DrainInv, ShutdownTypeOK, NoHandlerRuns, ContextDone, vars
<1>5. CASE Exit \/ Killed \/ SendOnClosed
  BY <1>5 DEF Exit, Killed, SendOnClosed, Restart, DrainInv, ShutdownTypeOK
<1>6. CASE UNCHANGED allVars
  BY <1>6 DEF allVars, vars, shutdownVars, DrainInv, ShutdownTypeOK, NoHandlerRuns, ContextDone
<1>7. QED
  BY <1>1, <1>2, <1>3, <1>4, <1>5, <1>6 DEF ShutdownNext

\* DrainInv is an invariant; that the worker holds requests comes from the sale.
LEMMA DrainInvariant == ShutdownSpec => []DrainInv
<1>1. TypeOK => working \subseteq Requests
  BY DEF TypeOK, RedisStreamTypeOK
<1>2. DrainInv /\ TypeOK /\ [ShutdownNext]_allVars => DrainInv'
  BY <1>1, DrainStep
<1>3. QED
  BY <1>2, DrainInit, ShutdownRefinesSale, TypeCorrect, PTL DEF ShutdownSpec, ShutdownIsACrash

\* Every variable keeps its type, and no goroutine ends before it is told to.
THEOREM ShutdownTypeCorrect == ShutdownSpec => []ShutdownTypeOK
BY DrainInvariant, PTL DEF DrainInv

\* A process that has drained leaves no reservation behind, however it ends: by then
\* no handler is between its reservation and its answer.
THEOREM DrainedLeaksNothingHolds == ShutdownSpec => DrainedLeaksNothing
<1>1. DrainInv /\ TypeOK /\ [ShutdownNext]_allVars
        => [drained /\ crashes' # crashes => pc' = pc]_allVars
  <2> SUFFICES ASSUME DrainInv, TypeOK, ShutdownNext, drained, crashes' # crashes
               PROVE  pc' = pc
    OBVIOUS
  <2>1. ~Handle /\ ~Goroutines
    BY GoroutineFrame DEF Handle
  <2>2. ~Signal /\ ~ShutDown /\ ~CloseRedis
    BY DEF Signal, ShutDown, StopWorker, CloseRedis, vars
  <2>3. Crash
    BY <2>1, <2>2 DEF ShutdownNext, Exit, Killed, SendOnClosed, Restart
  <2>4. \A r \in Requests : pc[r] \notin Running
    BY DEF DrainInv, NoHandlerRuns
  <2>5. pc' = [r \in Requests |-> pc[r]]
    BY <2>3, <2>4 DEF Crash
  <2>6. QED
    BY <2>5 DEF TypeOK
<1>2. QED
  BY <1>1, DrainInvariant, ShutdownRefinesSale, TypeCorrect, PTL
     DEF ShutdownSpec, ShutdownIsACrash, DrainedLeaksNothing
=============================================================================
