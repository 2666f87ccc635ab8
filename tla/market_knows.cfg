SPECIFICATION Spec
CONSTANTS
  None = None
  Positions = {1}
  Margins = {1, 2}
  Jumps = {0, 1}
  Strategy <- Arming
  MarketCap = 1
  Backlog = 1
  Controls = {"Pause", "Resume", "Remove", "Margin"}
INVARIANTS
  TypeOK
  EngineKnows
  ShownIsHeld
  ViewFollows
  SessionAgrees
