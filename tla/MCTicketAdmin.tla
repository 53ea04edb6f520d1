--------------------------- MODULE MCTicketAdmin ---------------------------
(***************************************************************************)
(* Two ticket types, two concurrent openings and three writes: a creation  *)
(* of each and an update, or one creation and two updates.                 *)
(***************************************************************************)
EXTENDS TicketAdmin
=============================================================================
