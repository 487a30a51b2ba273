SPECIFICATION FairSpec
CONSTANTS
  p1 = p1
  p2 = p2
  c1 = c1
  c2 = c2
  None = None
  Procs <- TwoProcs
  Consoles <- OneConsole
  Closers <- TwoClosers
  MaxFaults = 1
  Pipe2 = FALSE
CHECK_DEADLOCK FALSE
INVARIANTS DescriptorsExact
PROPERTIES KilledIsGone
