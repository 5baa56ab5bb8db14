\* Records from any signer, some with a wrong KeyMR; a stored database; the
\* process may die once anywhere, and one call may fail.
SPECIFICATION FactomSyncSpec
CONSTANTS
  Nil = Nil
  MaxHeight = 2
  MaxEntries = 2
  RecordDelay = 1
  StrayRecords = TRUE
  FactomdLags = FALSE
  Persistent = TRUE
  MaxFaults = 1
  MaxErrors = 1
  FaultKinds = {"crash"}
  AnchorBatch = 1
  Ids = {1}
CHECK_DEADLOCK FALSE
INVARIANTS
  FactomSyncTypeOK
  HeadIsCompletePrefix
  RecordPointsIntoChain
  CheckpointCoversRecords
  OnlyKnownPanics
PROPERTIES
  StoredProgressKept
