----------------------------- MODULE MCShutdown -----------------------------
(***************************************************************************)
(* A small instance of Shutdown: one order, which the read loop and        *)
(* runAutoClaim may both have in hand, two sessions, and a process that is *)
(* stopped once, with its successor.                                       *)
(***************************************************************************)
EXTENDS Shutdown, TLC

OneOrder == {[id |-> 1, user |-> "ann", ticket |-> "a", quantity |-> 2]}

MCTotalStock == [t \in Tickets |-> 3]
MCMaxPerUser == [t \in Tickets |-> 2]
=============================================================================
