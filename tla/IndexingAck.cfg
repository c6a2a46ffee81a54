\* No failure at all.
SPECIFICATION Spec
CONSTANTS
  Workers = {w1}
  BatchSize = 2
  MaxMessages = 3
  NoMessage = NoMessage
  Faults = {}
  MaxFaults = 0
INVARIANT IndexedBeforeAck
CHECK_DEADLOCK FALSE
