SPECIFICATION FairSpec
CONSTANTS
  None = None
  MaxTx = 3
  Sizes = {0, 8}
  Quote <- MCQuote
  Fills <- OneFill
  BuyFee = 2
  TxFee = 1
  WalletStart = 2
  Unit = 10
  Faults = {"late", "lag", "ambiguous", "rpc", "fallback"}
INVARIANTS
  TypeOK
  OneSwapInFlight
  SwapFitsPosition
  AnnouncedIsHeld
  BuysBounded
PROPERTIES
  TradeCycleSpec
  SwapsResolve
  TradeCycleFair
CHECK_DEADLOCK FALSE
