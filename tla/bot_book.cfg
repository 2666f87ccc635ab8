SPECIFICATION Spec
CONSTANTS
  Mints = {a, b}
  Wallets = {1, 4}
  Allocs <- Asked
  Updates = {0, 3}
  Gains <- SomeGains
  Reason = sync
  MaxTx = 1
  MaxEvents = 1
  Panics = TRUE
INVARIANTS
  TypeOK
  SameMarkets
  OneMargin
PROPERTIES
  RaisesCovered
  CompoundsWhatItCounts
SYMMETRY AnyMint
