SPECIFICATION FairSpec
CONSTANTS
  x1 = x1
  x2 = x2
  p1 = p1
  p2 = p2
  p3 = p3
  p4 = p4
  t1 = t1
  t2 = t2
  None = None
  Contexts <- TwoContexts
  Plans <- SixPlans
  Procs <- FourProcs
  Home <- Homes
  Ends <- TwoKinds
  Threads <- TwoThreads
  MaxOut <- Bytes
  PipeCap = 1
  MaxFaults = 1
CHECK_DEADLOCK FALSE
INVARIANTS ReleasedOwnsNothing NothingForgotten NothingUsedAfterFree FirstWaitAnswers
PROPERTIES DestroyReturns
