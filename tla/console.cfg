SPECIFICATION FairSpec
CONSTANTS
  None = None
  Mints = {1, 2}
  QueueCap = 1
  Threads = 3
  Presses = 2
INVARIANTS
  TypeOK
  KeysHitTheirMarket
  QuitAsks
PROPERTIES
  UiServed
  ScreenCatchesUp
