SPECIFICATION FairSpec
CONSTANTS
  None = None
  Positions = {1}
  Margins = {1}
  Jumps = {1}
  Strategy <- EnterOnly
  MarketCap = 1
  Backlog = 1
  Controls = {"Remove"}
PROPERTIES
  PositionManaged
  TradeChannelServed
