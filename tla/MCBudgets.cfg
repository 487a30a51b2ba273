SPECIFICATION Spec
CONSTANTS
  h1 = h1
  w1 = w1
  w2 = w2
  g1 = g1
  g2 = g2
  b1 = b1
  b2 = b2
  None = None
  Hosts <- OneHost
  Workers <- TwoWorkers
  Guests <- TwoGuests
  Caps <- SomeCaps
  Setting = 0
  Default = 2
  Most = 3
  Entries = 2
  Budgets <- TwoBudgets
  Width = 2
  MaxDepth = 3
SYMMETRY Sym
INVARIANTS RefusalIsHonest BudgetIsTheBlocks
