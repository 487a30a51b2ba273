SPECIFICATION FairSpec
CONSTANTS
  c1 = c1
  c2 = c2
  w1 = w1
  w2 = w2
  None = None
  Callers <- TwoCallers
  Workers <- OneWorker
  Count = 2
  Quota = 1
  Results <- OnlyValues
  Ending <- TwoCallers
  Swallows = FALSE
  MaxInterrupts = 0
PROPERTIES ParReturns ImplementsGather
