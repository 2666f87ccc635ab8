SPECIFICATION Spec
CONSTANTS
  None = None
  MaxTx = 2
  Sizes = {8}
  Quote <- MCQuote
  Fills <- OneFill
  BuyFee = 2
  TxFee = 1
  WalletStart = 0
  Unit = 10
  Faults = {}
INVARIANTS
  RealizedIsCash
CHECK_DEADLOCK FALSE
