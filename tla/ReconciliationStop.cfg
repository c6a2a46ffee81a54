\* A process is told to stop.
SPECIFICATION Spec
CONSTANTS
  Workers = {w1, w2}
  AppKeys = {a}
  ChatKeys = {c}
  NoKey = NoKey
  MaxRows = 2
  Sends = 2
  Faults = {"sigterm"}
  MaxFaults = 1
INVARIANT FinalReconciliation
SYMMETRY Symmetry
CHECK_DEADLOCK FALSE
