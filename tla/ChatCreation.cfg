\* Two requests and two processes under one failure of any kind: safety and
\* liveness.
SPECIFICATION FairSpec
CONSTANTS
  lower = lower
  upper = upper
  unknown = unknown
  app = app
  NoApp = NoApp
  Tokens = {lower, upper, unknown}
  Apps = {app}
  AppOf <- MCAppOf
  Requests = {r1, r2}
  Workers = {w1, w2}
  UniqueIndex = FALSE
  Sends = 2
  Faults = {"redis", "redis_restart", "db_read", "db_write", "worker_link", "api_link", "crash", "broker"}
  MaxFaults = 1
  NoMessage = NoMessage
INVARIANTS
  TypeOK
  UniqueNumbers
  AcceptedNotLost
  NeverOvercounts
  CountsExact
PROPERTY EventuallyPersisted
CHECK_DEADLOCK FALSE
