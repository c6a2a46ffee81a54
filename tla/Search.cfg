\* Two processes start while a client reads a result, page by page.
SPECIFICATION Spec
CONSTANTS
  Workers = {w1, w2}
  MaxTries = 2
  MaxDocs = 5
  PageParams = {0, 1, 2, 3, 5, 32, 33, 44, 63}
  PerPageParams = {0, 1, 3, 9}
  DefaultPerPage = 2
  MaxPerPage = 4
  Window = 5
  MaxInt = 63
  Faults = {"es_down", "crash"}
  MaxFaults = 2
INVARIANTS
  TypeOK
  MappingExplicit
  NoneMissed
  PagesAnswered
  NothingBehindTheLast
SYMMETRY Symmetry
CHECK_DEADLOCK FALSE
