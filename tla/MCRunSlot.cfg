SPECIFICATION Spec
CONSTANTS
  t1 = t1
  t2 = t2
  s1 = s1
  None = None
  Threads <- TwoThreads
  Sessions <- OneSession
  Kinds <- OnlyRuns
  Depth = 1
  MaxNest = 1
INVARIANTS ZeroMeansNothingRuns
