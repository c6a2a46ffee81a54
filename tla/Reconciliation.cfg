\* Two processes, two keys, two failures of any kind: safety, refinement and
\* liveness.
SPECIFICATION FairSpec
CONSTANTS
  Workers = {w1, w2}
  AppKeys = {a}
  ChatKeys = {c}
  NoKey = NoKey
  MaxRows = 2
  Sends = 2
  Faults = {"redis", "db_error", "db_reply", "slow", "crash", "sigterm"}
  MaxFaults = 2
INVARIANTS
  TypeOK
  MutualExclusion
  NeverOvercounts
  Conserved
PROPERTIES
  ImplementsCounter
  EventuallySynced
  EventuallyTaken
CHECK_DEADLOCK FALSE
