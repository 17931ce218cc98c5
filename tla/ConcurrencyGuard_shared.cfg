\* Two instances on machine A, one on machine B; one crash or failed beat.
SPECIFICATION Spec
CONSTANTS
  i1 = i1
  i2 = i2
  i3 = i3
  machineA = machineA
  machineB = machineB
  NoLock = NoLock
  Instances <- Three
  HwidOf <- MCHwidOf
  Interval = 3
  Delay = 1
  Stale <- TwiceInterval
  MaxFaults = 1
INVARIANTS
  TypeOK
  OneMachineUnlessDisturbed
  StaleMeansDead
PROPERTIES
  DeadHolderIsReplaced
