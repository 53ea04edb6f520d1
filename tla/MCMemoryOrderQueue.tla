------------------------- MODULE MCMemoryOrderQueue -------------------------
(***************************************************************************)
(* Small instances of MemoryOrderQueue: three orders, and a buffer of two  *)
(* slots, where too few of them are about to gridlock, or of one.          *)
(***************************************************************************)
EXTENDS MemoryOrderQueue
=============================================================================
