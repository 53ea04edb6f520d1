---------------------------- MODULE MCTicketSale ----------------------------
(***************************************************************************)
(* Small instances of TicketSale. Three requests of two users compete for  *)
(* the units of ticket type a: the first two belong to ann, who may not    *)
(* have both when her limit is 2, and all three together pass a stock of 3. *)
(***************************************************************************)
EXTENDS TicketSale, TLC

Req(i, u, t, q) == [id |-> i, user |-> u, ticket |-> t, quantity |-> q]

OneTicket == {Req(1, "ann", "a", 2), Req(2, "ann", "a", 1), Req(3, "bob", "a", 2)}
TwoUsers == {Req(1, "ann", "a", 2), Req(2, "bob", "a", 1)}
TwiceAnn == {Req(1, "ann", "a", 2), Req(2, "ann", "a", 1)}

MCTotalStock == [t \in Tickets |-> 3]
MCMaxPerUser == [t \in Tickets |-> 2]
=============================================================================
