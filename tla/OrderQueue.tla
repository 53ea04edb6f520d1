----------------------------- MODULE OrderQueue -----------------------------
(***************************************************************************)
(* What the interface OrderQueue of internal/queue/order_queue.go and the  *)
(* worker that drains it promise, whichever queue is behind it: delivery   *)
(* at least once. A published order is owed until an Ack says that it has  *)
(* its row, or until the queue gives it up; a Nack and the end of the      *)
(* process leave it owed. An order may be delivered again at any time,     *)
(* also when it is not owed any more.                                      *)
(***************************************************************************)
CONSTANT Messages  \* the orders that may be published

VARIABLES
    published,  \* orders that PublishOrder has put in the queue
    owed,       \* those the queue has to deliver, once more if need be
    inHand,     \* the delivery the worker has received
    stored,     \* orders that have a row in the database
    givenUp     \* orders that the queue has dropped without an Ack

vars == <<published, owed, inHand, stored, givenUp>>

Init ==
    /\ published = {}
    /\ owed = {}
    /\ inHand = {}
    /\ stored = {}
    /\ givenUp = {}

PublishOrder(m) ==
    /\ m \notin published
    /\ published' = published \cup {m}
    /\ owed' = owed \cup {m}
    /\ UNCHANGED <<inHand, stored, givenUp>>

Deliver(m) ==
    /\ inHand = {}
    /\ m \in published
    /\ inHand' = {m}
    /\ UNCHANGED <<published, owed, stored, givenUp>>

\* DispatchOrder of the delivery in hand may store the order
MayStore(m) ==
    /\ m \in inHand
    /\ stored' \in {stored, stored \cup {m}}
    /\ UNCHANGED <<published, givenUp>>

Dispatch(m) == MayStore(m) /\ UNCHANGED <<owed, inHand>>

Ack(m) ==
    /\ MayStore(m)
    /\ m \in stored'
    /\ inHand' = {}
    /\ owed' = owed \ {m}

Nack(m) ==
    /\ MayStore(m)
    /\ inHand' = {}
    /\ UNCHANGED owed

GiveUp(m) ==
    /\ m \in owed
    /\ owed' = owed \ {m}
    /\ givenUp' = givenUp \cup {m}
    /\ UNCHANGED <<published, inHand, stored>>

\* The process of the worker ends, with whatever it has in hand
Restart ==
    /\ inHand' = {}
    /\ UNCHANGED <<published, owed, stored, givenUp>>

Next ==
    \/ \E m \in Messages :
        PublishOrder(m) \/ Deliver(m) \/ Dispatch(m) \/ Ack(m) \/ Nack(m) \/ GiveUp(m)
    \/ Restart

Spec == Init /\ [][Next]_vars

\* Nothing that was published slips through: it is owed, stored or given up.
Accounted ==
    /\ owed \cup stored \cup givenUp = published
    /\ inHand \subseteq published
=============================================================================
