\* The whole program with a Map database that a crash empties, under fairness.
SPECIFICATION FairSpec
CONSTANTS
  Nil = Nil
  MaxHeight = 1
  MaxEntries = 0
  RecordDelay = 2
  StrayRecords = FALSE
  FactomdLags = FALSE
  Persistent = FALSE
  MaxFaults = 1
  MaxErrors = 0
  FaultKinds = {"crash"}
  AnchorBatch = 1
  Ids = {1}
  RecordIds = {1}
  MaxTxs = 5
  MaxBtcBlocks = 0
  MinConfirmations = 1
  ReorgDepth = 0
  Evictions = FALSE
  Malleated = FALSE
  FundsRunOut = FALSE
  Unrelated = TRUE
  Interrupts = FALSE
  NetworkIds = {1, 2, 3, 4, 5, 6, 7, 8}
CHECK_DEADLOCK FALSE
PROPERTIES
  EveryBlockRead
  ConfirmedNeverSentAgain
  EveryBlockGetsRecord
  ImplementsFactomSync
