\* Two blocks, both networks, a batch of one, one fault of any kind and one
\* failed call, under fairness.
SPECIFICATION FactomRecordFairSpec
CONSTANTS
  Nil = Nil
  MaxHeight = 1
  RecordDelay = 1
  StrayRecords = FALSE
  FactomdLags = FALSE
  Persistent = TRUE
  MaxFaults = 1
  MaxErrors = 1
  FaultKinds = {"crash", "lostReply", "unsaved"}
  AnchorBatch = 1
CHECK_DEADLOCK FALSE
INVARIANTS
  RevealedOncePerFault
  EntryIsAboutAnchor
PROPERTIES
  EveryAnchorRecorded
