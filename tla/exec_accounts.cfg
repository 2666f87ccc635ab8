SPECIFICATION Spec
CONSTANTS
  None = None
  MaxTx = 4
  Sizes = {0, 8}
  Quote <- MCQuote
  Fills <- MCFills
  BuyFee = 2
  TxFee = 1
  WalletStart = 0
  Unit = 10
  Faults = {"rpc", "drop", "ambiguous"}
INVARIANTS
  HoldingsTracked
  RealizedIsCashButFees
CHECK_DEADLOCK FALSE
