\* Two nodes in seven installations.
SPECIFICATION Spec
CONSTANTS
  n1 = n1
  n2 = n2
  hostA = hostA
  hostB = hostB
  hostC = hostC
  idA = idA
  idB = idB
  zeros = zeros
  uuidA = uuidA
  uuidB = uuidB
  cpuA = cpuA
  cpuB = cpuB
  boardA = boardA
  boardB = boardB
  vendor = vendor
  hp = hp
  notSpecified = notSpecified
  mac1 = mac1
  mac2 = mac2
  mac3 = mac3
  podA = podA
  podB = podB
  code = code
  Missing = Missing
  Unreadable = Unreadable
  Placeholder = Placeholder
  NoHwid = NoHwid
  NoLock = NoLock
  Nodes <- TwoNodes
  Retries = 2
  Implausible <- Zeros
  Vague <- Short
  Views <- AllViews
  Scenarios <- AllScenarios
  Rebuilds <- NewCards
  Home <- WindowsHome
  BlockVm = TRUE
  Hashed <- Code
  MaxHwidChanges = 1
  MaxGlitches = 1
INVARIANTS
  TypeOK
  TwoHostsLookAlike
  NothingRunsUncleared
  RefusalsAreEarned
PROPERTIES
  HealthyMachineStarts
