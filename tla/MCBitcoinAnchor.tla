--------------------------- MODULE MCBitcoinAnchor ---------------------------
(* BitcoinAnchor on small instances. *)
EXTENDS BitcoinAnchor
=============================================================================
