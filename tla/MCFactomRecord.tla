--------------------------- MODULE MCFactomRecord ---------------------------
(* FactomRecord on small instances. *)
EXTENDS FactomRecord
=============================================================================
