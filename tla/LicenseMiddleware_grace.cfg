\* The heartbeat grace against the failure limit.
SPECIFICATION MwSpec
CONSTANTS
  t1 = t1
  t2 = t2
  refused = refused
  Threads <- MCThreads
  Infos <- MCInfos
  Invalid = refused
  MaxFailures = 2
  MaxRestarts = 0
  HeartbeatGrace = 2
INVARIANT
  GraceIsTolerated
