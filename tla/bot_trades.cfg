SPECIFICATION Spec
CONSTANTS
  Mints = {a}
  Wallets = {4}
  Allocs <- Asked
  Updates = {3}
  Gains <- SomeGains
  Reason = sync
  MaxTx = 1
  MaxEvents = 1
  Panics = FALSE
PROPERTIES
  EveryTradeCounted
