SPECIFICATION Spec
CONSTANTS
  Runs = 0
  ByHand <- ParserOnly
INVARIANT SpeedIsSet
CHECK_DEADLOCK FALSE
