SPECIFICATION FairSpec
CONSTANTS
  None = None
  Positions = {2}
  Margins = {1, 3}
  Jumps = {0, 1}
  Strategy <- AnyAnswer
  InboxRoom = 2
  Wait = 1
INVARIANTS
  TypeOK
  OneOrderAtATime
  OrdersStayCovered
  ViewFollows
  AnswersAsAssumed
  EntersOnTurn
PROPERTIES
  WaitsEnd
CHECK_DEADLOCK FALSE
