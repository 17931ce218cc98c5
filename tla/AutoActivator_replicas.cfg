\* Replicas of three hosts boot beside each other; crashes, clock corrections, a renewal.
SPECIFICATION Spec
CONSTANTS
  r1 = r1
  r2 = r2
  r3 = r3
  Absent = Absent
  Nobody = Nobody
  Empty = Empty
  Garbled = Garbled
  Replicas <- ThreeReplicas
  HostOf <- Apart
  Limit = 2
  MaxBoots = 4
  MaxIncidents = 1
  MaxRenewals = 1
SYMMETRY Interchangeable
CHECK_DEADLOCK FALSE
INVARIANTS
  TypeOK
  LimitIsEnforced
  StartsAreCounted
  RefusalsHaveCauses
  LockHasALivingHolder
