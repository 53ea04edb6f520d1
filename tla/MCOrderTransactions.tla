------------------------ MODULE MCOrderTransactions ------------------------
(***************************************************************************)
(* Three clients share two connections. The two orders together pass the   *)
(* stock, so that one of two dispatches is refused; their quantities       *)
(* differ, so that a lost update shows.                                    *)
(***************************************************************************)
EXTENDS OrderTransactions, TLC

Req(i, u, q) == [id |-> i, user |-> u, ticket |-> "a", quantity |-> q]

TwoOrders == {Req(1, "ann", 2), Req(2, "bob", 1)}
MCTotalStock == [t \in Tickets |-> 2]
MCMaxPerUser == [t \in Tickets |-> 2]
=============================================================================
