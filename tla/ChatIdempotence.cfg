\* A process loses its channel while it handles a chat.
SPECIFICATION Spec
CONSTANTS
  lower = lower
  upper = upper
  unknown = unknown
  app = app
  NoApp = NoApp
  Tokens = {lower}
  Apps = {app}
  AppOf <- MCAppOf
  Requests = {r1, r2}
  Workers = {w1, w2}
  UniqueIndex = FALSE
  Sends = 2
  Faults = {"worker_link"}
  MaxFaults = 1
  NoMessage = NoMessage
INVARIANT IdempotentWorkers
SYMMETRY Symmetry
CHECK_DEADLOCK FALSE
