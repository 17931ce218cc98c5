\* Licenses are revoked, this one and another, while the hardware changes; lenient time.
\* The list is signed with the key of the checker, or with the fallback key as the tool does.
SPECIFICATION Spec
CONSTANTS
  mine = mine
  other = other
  m0 = m0
  m1 = m1
  m2 = m2
  CheckerKey = CheckerKey
  FallbackKey = FallbackKey
  Unsigned = Unsigned
  Missing = Missing
  Empty = Empty
  Nobody = Nobody
  NoCache = NoCache
  Torn = Torn
  Jti = mine
  Bound = m0
  Jtis <- TwoLicenses
  OperatorKeys <- BothKeys
  MaxRevocations = 2
  Machines <- ThreeMachines
  Docker = FALSE
  Strict = FALSE
  MaxHwidChanges = 1
  ExpiresAt = 2
  GracePeriod = 1
  OfflineGrace = 1
  Skews <- TrueClock
  ClockError = 0
  MaxTime = 3
  MaxMoves = 2
  MaxCrashes = 1
INVARIANTS
  RevokedIsRefused
  OnlyRevokedIsRefused
  MigrationsAreLimited
