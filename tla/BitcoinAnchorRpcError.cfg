\* One failed call and nothing else goes wrong.
SPECIFICATION BitcoinAnchorSpec
CONSTANTS
  Nil = Nil
  MaxHeight = 0
  MaxTxs = 3
  MaxBtcBlocks = 2
  MinConfirmations = 1
  ReorgDepth = 0
  Evictions = FALSE
  Malleated = FALSE
  Persistent = TRUE
  MaxFaults = 0
  MaxErrors = 1
  FaultKinds = {"crash"}
  AnchorBatch = 1
  FundsRunOut = FALSE
  Unrelated = FALSE
  RecordIds = {1}
CHECK_DEADLOCK FALSE
INVARIANTS
  RpcErrorEndsNothing
