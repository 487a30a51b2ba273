SPECIFICATION FairSpec
CONSTANTS
  c1 = c1
  c2 = c2
  w1 = w1
  w2 = w2
  None = None
  Callers <- OneCaller
  Workers <- TwoWorkers
  Count = 2
  Quota = 2
  Results <- Endings
  Ending = {}
  Swallows = FALSE
  MaxInterrupts = 1
PROPERTIES InterruptEndsPar
