\* The whole program with a stored database, clean stops, one fault, and one
\* record of another signer, possibly with a wrong KeyMR; factomd may lag, a
\* transaction may be malleated, the funds may run out.
SPECIFICATION Spec
CONSTANTS
  Nil = Nil
  MaxHeight = 1
  MaxEntries = 1
  RecordDelay = 1
  StrayRecords = TRUE
  FactomdLags = TRUE
  Persistent = TRUE
  MaxFaults = 1
  MaxErrors = 0
  FaultKinds = {"crash", "lostReply", "unsaved"}
  AnchorBatch = 1
  Ids = {1}
  RecordIds = {1}
  MaxTxs = 4
  MaxBtcBlocks = 0
  MinConfirmations = 1
  ReorgDepth = 0
  Evictions = FALSE
  Malleated = TRUE
  FundsRunOut = TRUE
  Unrelated = TRUE
  Interrupts = TRUE
  NetworkIds = {1, 2, 3, 4, 5, 6, 7, 8}
CHECK_DEADLOCK FALSE
INVARIANTS
  TypeOK
  OwnRecordsAreTrue
  AnchoredOncePerFault
  CheckedAnchorsAreKnown
PROPERTIES
  ConfirmedAnchorKept
  ImplementsLifecycle
