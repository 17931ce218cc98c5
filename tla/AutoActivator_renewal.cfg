\* A new license.key replaces the old one, on the host it was activated for.
SPECIFICATION Spec
CONSTANTS
  r1 = r1
  r2 = r2
  r3 = r3
  Absent = Absent
  Nobody = Nobody
  Empty = Empty
  Garbled = Garbled
  Replicas <- TwoReplicas
  HostOf <- Together
  Limit = 1
  MaxBoots = 3
  MaxIncidents = 1
  MaxRenewals = 1
CHECK_DEADLOCK FALSE
INVARIANT
  HomeIsNeverRefused
