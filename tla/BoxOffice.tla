------------------------------ MODULE BoxOffice ------------------------------
(***************************************************************************)
(* What the ticket sale promises, without Redis, queue or database: orders *)
(* are granted while their units fit the stock of the ticket type and the  *)
(* limit of the user, an order that is closed gives its units back, and    *)
(* nothing happens to it after that.                                       *)
(***************************************************************************)
EXTENDS Orders

VARIABLES
    granted,  \* orders that hold their units
    closed    \* orders that never will (again)

vars == <<granted, closed>>

Fits(S) ==
    \A t \in Tickets :
        /\ Quantity(OfTicket(S, t)) <= TotalStock[t]
        /\ \A u \in Users : Quantity(OfUser(OfTicket(S, t), u)) <= MaxPerUser[t]

Init == granted = {} /\ closed = {}

Grant(r) ==
    /\ r \notin granted \cup closed
    /\ Fits(granted \cup {r})
    /\ granted' = granted \cup {r}
    /\ UNCHANGED closed

Close(r) ==
    /\ r \notin closed
    /\ granted' = granted \ {r}
    /\ closed' = closed \cup {r}

Next == \E r \in Requests : Grant(r) \/ Close(r)

Spec == Init /\ [][Next]_vars
=============================================================================
