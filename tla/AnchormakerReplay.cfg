\* Nothing but one failed call.
SPECIFICATION Spec
CONSTANTS
  Nil = Nil
  MaxHeight = 1
  MaxEntries = 0
  RecordDelay = 1
  StrayRecords = FALSE
  FactomdLags = FALSE
  Persistent = TRUE
  MaxFaults = 0
  MaxErrors = 1
  FaultKinds = {"crash", "lostReply", "unsaved"}
  AnchorBatch = 1
  Ids = {1}
  RecordIds = {1}
  MaxTxs = 3
  MaxBtcBlocks = 0
  MinConfirmations = 1
  ReorgDepth = 0
  Evictions = FALSE
  Malleated = FALSE
  FundsRunOut = FALSE
  Unrelated = FALSE
  Interrupts = FALSE
  NetworkIds = {1, 2, 3, 4, 5, 6, 7, 8}
CHECK_DEADLOCK FALSE
INVARIANTS
  NoNilDereference
