SPECIFICATION FairSpec
CONSTANTS
  Runs = 2
  MaxCount = 3
  MaxLost = 1
  MaxSkip = 7
INVARIANTS TypeOK LockStep UnderWay FailsOnlyAmongRuns StuckOnlyAfterLoss
PROPERTY EveryFrameAnswered
