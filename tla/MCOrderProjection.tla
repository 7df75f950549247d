------------------------- MODULE MCOrderProjection -------------------------
(* The bounds are in the configurations; nothing here is symmetric. *)
EXTENDS OrderProjection
=============================================================================
