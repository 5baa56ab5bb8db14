\* Reorganisations of the tip, evicted transactions, a lastblock one below the
\* tip, and one failed call, under fairness.
SPECIFICATION BitcoinAnchorFairSpec
CONSTANTS
  Nil = Nil
  MaxHeight = 1
  MaxTxs = 4
  MaxBtcBlocks = 3
  MinConfirmations = 2
  ReorgDepth = 1
  Evictions = TRUE
  Malleated = FALSE
  Persistent = TRUE
  MaxFaults = 0
  MaxErrors = 1
  FaultKinds = {"crash", "lostReply", "unsaved"}
  AnchorBatch = 1
  FundsRunOut = FALSE
  Unrelated = FALSE
  RecordIds = {}
CHECK_DEADLOCK FALSE
INVARIANTS
  StoredHashHoldsAnchor
PROPERTIES
  NoBlockPassedOver
  EveryBlockConfirmed
  AnchoringReached
