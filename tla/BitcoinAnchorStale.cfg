\* MinConfirmations 2, and the tip is replaced: a block with two confirmations
\* never is.
SPECIFICATION BitcoinAnchorSpec
CONSTANTS
  Nil = Nil
  MaxHeight = 0
  MaxTxs = 3
  MaxBtcBlocks = 4
  MinConfirmations = 2
  ReorgDepth = 1
  Evictions = FALSE
  Malleated = FALSE
  Persistent = TRUE
  MaxFaults = 0
  MaxErrors = 0
  FaultKinds = {"crash", "lostReply", "unsaved"}
  AnchorBatch = 1
  FundsRunOut = FALSE
  Unrelated = FALSE
  RecordIds = {}
CHECK_DEADLOCK FALSE
INVARIANTS
  StoredHashOnMainChain
