\* Two processes, batches of two, two messages, two failures of any kind:
\* safety and liveness.
SPECIFICATION FairSpec
CONSTANTS
  Workers = {w1, w2}
  BatchSize = 2
  MaxMessages = 2
  NoMessage = NoMessage
  Faults = {"bulk_error", "bulk_partial", "worker_link", "crash", "sigterm"}
  MaxFaults = 2
INVARIANTS
  TypeOK
  NothingLost
  SentOnce
  RoomInBatch
PROPERTY EventuallyIndexed
CHECK_DEADLOCK FALSE
