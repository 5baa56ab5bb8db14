\* A Map database, one restart, and a factomd that has not caught up.
SPECIFICATION Spec
CONSTANTS
  Nil = Nil
  MaxHeight = 1
  MaxEntries = 0
  RecordDelay = 1
  StrayRecords = FALSE
  FactomdLags = TRUE
  Persistent = FALSE
  MaxFaults = 1
  MaxErrors = 0
  FaultKinds = {"crash"}
  AnchorBatch = 1
  Ids = {1}
  RecordIds = {1}
  MaxTxs = 3
  MaxBtcBlocks = 0
  MinConfirmations = 1
  ReorgDepth = 0
  Evictions = FALSE
  Malleated = FALSE
  FundsRunOut = FALSE
  Unrelated = FALSE
  Interrupts = FALSE
  NetworkIds = {1, 2, 3, 4, 5, 6, 7, 8}
CHECK_DEADLOCK FALSE
PROPERTIES
  ConfirmedNeverSentAgain
