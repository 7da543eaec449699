SPECIFICATION Spec
CONSTANTS
  Runs = 2
  MaxCount = 1
  MaxLost = 0
  MaxSkip = 7
INVARIANT AssertionsHold
