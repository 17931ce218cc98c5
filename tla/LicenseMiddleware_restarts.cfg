\* Two heartbeat threads, one restart; stop() may give up waiting for its thread.
SPECIFICATION MwSpec
CONSTANTS
  t1 = t1
  t2 = t2
  refused = refused
  Threads <- MCThreads
  Infos <- MCInfos
  Invalid = refused
  MaxFailures = 2
  MaxRestarts = 1
  HeartbeatGrace = 1
INVARIANTS
  TypeOK
  LoopsOverlapOnlyWhenAbandoned
  MissesShutTheGate
  UnhealthyIsEarned
  TimerRunsWhileUnhealthy
PROPERTIES
  ImplementsWatchdog
  StopTerminates
  KeepsBeating
  FailureKills
  RecoveryRestores
