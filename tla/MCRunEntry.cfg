SPECIFICATION Spec
CONSTANTS
  t1 = t1
  t2 = t2
  s1 = s1
  None = None
  Threads <- TwoThreads
  Sessions <- OneSession
  Kinds <- AllKinds
  Depth = 2
  MaxNest = 3
SYMMETRY SymRuns
INVARIANTS SlotNamesARun UpcallsNameTheirRun
