\* An entry lives for three units of time, reconciliation and requests take up
\* to one.
SPECIFICATION Spec
CONSTANTS
  Apps = {app}
  Threads = {h1, h2}
  TTL = 3
  Lag = 1
  MaxRequest = 1
  MaxRows = 2
  MaxTime = 7
  Faults = {"redis", "redis_restart"}
  MaxFaults = 2
INVARIANTS
  TypeOK
  AnswersAreRecent
  NoStepBack
SYMMETRY Symmetry
CHECK_DEADLOCK FALSE
