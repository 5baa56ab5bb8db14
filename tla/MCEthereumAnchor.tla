-------------------------- MODULE MCEthereumAnchor --------------------------
(* EthereumAnchor on small instances. *)
EXTENDS EthereumAnchor
=============================================================================
