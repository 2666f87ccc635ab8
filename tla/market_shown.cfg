SPECIFICATION Spec
CONSTANTS
  None = None
  Positions = {1}
  Margins = {1}
  Jumps = {0, 1}
  Strategy <- Plain
  MarketCap = 1
  Backlog = 1
  Controls = {"Pause"}
INVARIANTS
  OpenIsShown
