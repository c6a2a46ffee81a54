\* One message, two processes, two failures.
SPECIFICATION FairSpec
CONSTANTS
  there = there
  unknown = unknown
  Nothing = Nothing
  Chats = {there}
  Refused = {}
  Created = {there}
  Requests = {r1}
  Contents = {"fits"}
  UniqueIndex = FALSE
  Workers = {w1, w2}
  Sends = 2
  BatchSize = 2
  MaxSent = 2
  Faults = {"find_chat", "db_write", "worker_link", "crash", "sigterm"}
  MaxFaults = 2
PROPERTY FailuresLeaveNoTrace
CHECK_DEADLOCK FALSE
