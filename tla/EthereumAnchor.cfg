\* Two directory blocks, one transaction of another sender, up to two Ethereum blocks, pages of
\* two, one fault or failed call, under fairness.
SPECIFICATION EthereumAnchorFairSpec
CONSTANTS
  Nil = Nil
  MaxHeight = 1
  Persistent = TRUE
  MaxFaults = 1
  MaxErrors = 1
  FaultKinds = {"crash", "lostReply", "unsaved"}
  AnchorBatch = 1
  EthPage = 2
  MaxOtherEthTxs = 1
  MaxEthBlocks = 2
  IgnoreWrongEntries = FALSE
CHECK_DEADLOCK FALSE
INVARIANTS
  EthSentOncePerFault
  CheckedEthAnchorsAreKnown
PROPERTIES
  EthereumGoesOn
