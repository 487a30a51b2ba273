SPECIFICATION FairSpec
CONSTANTS
  w1 = w1
  w2 = w2
  d1 = d1
  d2 = d2
  NoDrainer = NoDrainer
  Writers <- TwoWriters
  Drainers <- TwoDrainers
  Slots = 3
  Fits = 1
  Levels <- SomeLevels
  MaxRecords = 8
  MaxThrows = 1
INVARIANTS GapsNameThemselves RingHoldsTheRest
PROPERTIES EverythingIsDrained
