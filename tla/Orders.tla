------------------------------- MODULE Orders -------------------------------
(***************************************************************************)
(* The vocabulary the other modules share: ticket types, users, order      *)
(* requests, and the number of units a set of orders stands for.           *)
(*                                                                         *)
(* A request is the body of one POST /orders together with the request_id  *)
(* PrepareOrder gives it, so a request, the stream entry that carries it   *)
(* and the row it becomes are one and the same value here.                 *)
(***************************************************************************)
EXTENDS Integers, FiniteSets

CONSTANTS
    Tickets,      \* rows of the tickets table
    Users,        \* user ids that clients send
    Registered,   \* the users that have a row in the users table
    RequestIds,   \* uuids drawn by PrepareOrder
    Requests,     \* the POST /orders that clients send
    MaxQuantity,  \* bound on the quantity of one request
    TotalStock,   \* tickets.total_stock
    MaxPerUser    \* tickets.max_per_user

Order == [id : RequestIds, user : Users, ticket : Tickets, quantity : 1..MaxQuantity]

ASSUME MaxQuantityAssumption == MaxQuantity \in Nat \ {0}
ASSUME RequestsAssumption == Requests \subseteq Order /\ IsFiniteSet(Requests)
ASSUME RequestIdsUnique == \A r, s \in Requests : r.id = s.id => r = s
ASSUME RegisteredAssumption == Registered \subseteq Users
ASSUME TotalStockAssumption == TotalStock \in [Tickets -> Nat]
ASSUME MaxPerUserAssumption == MaxPerUser \in [Tickets -> 1..20]

OfTicket(S, t) == {r \in S : r.ticket = t}
OfUser(S, u) == {r \in S : r.user = u}

\* SUM(quantity) over a set of orders, as the number of the units they ask for
Units(S) == {u \in S \X (1..MaxQuantity) : u[2] <= u[1].quantity}
Quantity(S) == Cardinality(Units(S))
=============================================================================
