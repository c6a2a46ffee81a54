\* Two messages, one process, two failures.
SPECIFICATION Spec
CONSTANTS
  there = there
  unknown = unknown
  Nothing = Nothing
  Chats = {there, unknown}
  Refused = {unknown}
  Created = {there}
  Requests = {r1, r2}
  Contents = {"fits"}
  UniqueIndex = FALSE
  Workers = {w1}
  Sends = 2
  BatchSize = 2
  MaxSent = 4
  Faults = {"redis", "find_app", "db_write", "worker_link", "api_link", "bulk_error", "bulk_partial", "crash", "api_crash", "sigterm"}
  MaxFaults = 2
INVARIANTS
  TypeOK
  RowsOnTheirWay
 
SYMMETRY Symmetry
CHECK_DEADLOCK FALSE
