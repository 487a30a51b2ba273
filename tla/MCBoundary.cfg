SPECIFICATION Spec
CONSTANTS
  t1 = t1
  t2 = t2
  k1 = k1
  k2 = k2
  None = None
  Threads <- TwoThreads
  Keys <- TwoKeys
  MaxNest = 4
  MaxTexts = 13
SYMMETRY SymCalls
INVARIANTS AnswersAreKept ToolRunsOnce PendingIsTheRetrys NoForeignText
