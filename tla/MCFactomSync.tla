---------------------------- MODULE MCFactomSync ----------------------------
(* FactomSync on small instances. *)
EXTENDS FactomSync
=============================================================================
