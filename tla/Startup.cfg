\* A purchase of 10 credits for two factoids; one credit for a chain and at most
\* one for a loop; one factoid, enough to try and too few to pay.
SPECIFICATION StartupFairSpec
CONSTANTS
  ECBalanceThreshold = 10
  FactoidBalanceThreshold = 1
  LoopMinimum = 1
  TopupPrice = 2
  ChainCost = 1
  LoopCost = 1
  StartEC = {0, 2}
  StartFactoids = {0, 2}
  Deposits = {1, 2}
  MaxSignals = 5
  MaxLosses = 1
  MaxErrors = 1
CHECK_DEADLOCK FALSE
INVARIANTS
  StartupTypeOK
  OnePurchasePerLoss
  ChainPaidOncePerLoss
  RecordsCanBeMade
  EmergencyNeedsFive
PROPERTIES
  InterruptHeeded
  AnchoringGoesOn
