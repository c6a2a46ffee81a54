\* Two requests and two processes under one failure: safety and liveness.
SPECIFICATION FairSpec
CONSTANTS
  there = there
  missing = missing
  unknown = unknown
  Nothing = Nothing
  Requests = {r1, r2}
  Sends = 2
  Chats = {there}
  Refused = {}
  Created = {there}
  Contents = {"fits", "too_long"}
  UniqueIndex = FALSE
  Workers = {w1, w2}
  Faults = {"redis", "redis_restart", "find_app", "find_chat", "find_message", "db_write", "worker_link", "api_link", "api_crash", "crash", "broker"}
  MaxFaults = 1
INVARIANTS
  TypeOK
  UniqueNumbers
  AcceptedNotLost
  CountsExact
  RowsReachIndexing
PROPERTY EventuallyStored
CHECK_DEADLOCK FALSE
