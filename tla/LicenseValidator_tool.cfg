\* A revocation by the shipped tool, which names no public key.
SPECIFICATION Spec
CONSTANTS
  mine = mine
  other = other
  m0 = m0
  m1 = m1
  m2 = m2
  CheckerKey = CheckerKey
  FallbackKey = FallbackKey
  Unsigned = Unsigned
  Missing = Missing
  Empty = Empty
  Nobody = Nobody
  NoCache = NoCache
  Torn = Torn
  Jti = mine
  Bound = m0
  Jtis <- TwoLicenses
  OperatorKeys <- TheToolsKey
  MaxRevocations = 1
  Machines <- ThreeMachines
  Docker = FALSE
  Strict = FALSE
  MaxHwidChanges = 1
  ExpiresAt = 2
  GracePeriod = 1
  OfflineGrace = 1
  Skews <- TrueClock
  ClockError = 0
  MaxTime = 3
  MaxMoves = 2
  MaxCrashes = 1
INVARIANTS
  RevocationIsSelective
