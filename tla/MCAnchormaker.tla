--------------------------- MODULE MCAnchormaker ---------------------------
(* The whole program on small instances. *)
EXTENDS Anchormaker
=============================================================================
