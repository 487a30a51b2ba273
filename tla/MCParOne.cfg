SPECIFICATION Spec
CONSTANTS
  c1 = c1
  c2 = c2
  w1 = w1
  w2 = w2
  None = None
  Callers <- OneCaller
  Workers <- TwoWorkers
  Count = 3
  Quota = 2
  Results <- Endings
  Ending = {}
  Swallows = TRUE
  MaxInterrupts = 1
SYMMETRY SymWorkers
INVARIANTS NoThunkOutlivesPar QuotaKept WaitsForSomething ClaimedOnce InterruptRaisedOnce IndInv
PROPERTIES AnswersAreWhole InterruptReachesThunks ImplementsGather
