SPECIFICATION Spec
CONSTANTS
  Runs = 2
  ByHand <- Program
INVARIANTS TypeOK PairedEnds OwnLine InputOnceSet
PROPERTY UndoneByStaleCopyOnly
CHECK_DEADLOCK FALSE
