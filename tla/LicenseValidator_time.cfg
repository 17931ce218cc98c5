\* Strict time, a clock that is set, one crash.
SPECIFICATION Spec
CONSTANTS
  mine = mine
  other = other
  m0 = m0
  m1 = m1
  m2 = m2
  CheckerKey = CheckerKey
  FallbackKey = FallbackKey
  Unsigned = Unsigned
  Missing = Missing
  Empty = Empty
  Nobody = Nobody
  NoCache = NoCache
  Torn = Torn
  Jti = mine
  Bound = m0
  Jtis <- OneLicense
  OperatorKeys <- BothKeys
  MaxRevocations = 0
  Machines <- OneMachine
  Docker = FALSE
  Strict = TRUE
  MaxHwidChanges = 1
  ExpiresAt = 3
  GracePeriod = 1
  OfflineGrace = 2
  Skews <- WrongClock
  ClockError = 3
  MaxTime = 10
  MaxMoves = 0
  MaxCrashes = 1
INVARIANTS
  TypeOK
  ExpiryIsRespected
  OfflineIsBounded
