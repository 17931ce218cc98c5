\* A machine that was migrated to validates again.
SPECIFICATION Spec
CONSTANTS
  mine = mine
  other = other
  m0 = m0
  m1 = m1
  m2 = m2
  CheckerKey = CheckerKey
  FallbackKey = FallbackKey
  Unsigned = Unsigned
  Missing = Missing
  Empty = Empty
  Nobody = Nobody
  NoCache = NoCache
  Torn = Torn
  Jti = mine
  Bound = m0
  Jtis <- OneLicense
  OperatorKeys <- BothKeys
  MaxRevocations = 0
  Machines <- ThreeMachines
  Docker = FALSE
  Strict = TRUE
  MaxHwidChanges = 1
  ExpiresAt = 3
  GracePeriod = 1
  OfflineGrace = 2
  Skews <- TrueClock
  ClockError = 0
  MaxTime = 1
  MaxMoves = 1
  MaxCrashes = 0
INVARIANTS
  MigrationLasts
