\* Six coins that are dust or more for two rates, two calls, one mishap; bytes
\* of two bits.
SPECIFICATION BitcoinSendSpec
CONSTANTS
  Base = 4
  Rates = {1, 4}
  Amounts = {170, 900}
  NumCoins = 6
  Heights = {0, 201}
  Dust = 546
  MinRelayRate = 1
  MaxCalls = 2
  MaxMishaps = 1
CHECK_DEADLOCK FALSE
INVARIANTS
  BitcoinSendTypeOK
  TxsBalance
  NoDoubleOrUnconfirmedSpend
  FundedIsAccepted
  ReadBackAsSent
  LockedBetweenCalls
PROPERTIES
  ImplementsAnchorSend
