--------------------------- MODULE MCBitcoinSend ---------------------------
(* BitcoinSend on small instances. *)
EXTENDS BitcoinSend
=============================================================================
