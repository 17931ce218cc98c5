\* One heartbeat thread, one request at a time.
SPECIFICATION GateSpec
CONSTANTS
  t1 = t1
  r1 = r1
  refused = refused
  Threads <- MCThreads
  Requests <- MCRequests
  Pipelines <- MCPipelines
  Infos <- MCInfos
  Invalid = refused
  MaxFailures = 2
  MaxRestarts = 0
  HeartbeatGrace = 1
INVARIANTS
  GateTypeOK
  GrantIsBacked
  DenialIsBacked
PROPERTIES
  FailureShutsPipelines
