SPECIFICATION FairSpec
CONSTANTS
  h1 = h1
  h2 = h2
  t1 = t1
  t2 = t2
  a1 = a1
  a2 = a2
  None = None
  NoEntry = NoEntry
  Foreign = Foreign
  Hosts <- TwoHosts
  Threads <- TwoThreads
  Requests <- SomeRequests
  Events <- SomeEvents
  Real <- SomeReal
  Cwd <- WorkDir
  MaxPath = 4
  MaxRoots = 3
  Pycache <- Cache
  Installed <- Installation
  Readable <- DeviceNames
  Writable <- DeviceNames
  Sessions = {"ext", "guest"}
  Slots = 1
  Paths <- SomePaths
  OnDisk <- SomeDisk
  Device <- TwoDevices
  Written <- SomeData
  MaxLen = 3
  Artifacts <- TwoArtifacts
  Numbers = {3, 4}
  Samples = 2
  Plans <- FourPlans
INVARIANTS HookAnswersForOnePolicy FilesSurvive DumpsKeepToTheirFile
PROPERTIES ConfineReturns
CHECK_DEADLOCK FALSE
