SPECIFICATION FairSpec
CONSTANTS
  o1 = o1
  o2 = o2
  o3 = o3
  i1 = i1
  i2 = i2
  i3 = i3
  None = None
  Outbound <- ThreeOut
  Inbound <- ThreeIn
  Talkers <- OneTalks
  Targets <- SomeAnswer
  Loads <- ThreeLoads
  QueueCap = 1
  MaxSent <- FewBytes
  Codes = {0, 137}
  Buffer = 2
CHECK_DEADLOCK FALSE
INVARIANTS StreamsIntact EndsAreHonest RelayIsTheLastHolder NotBothBlocked StatusIsThePayloads
PROPERTIES PayloadEndsBridge
