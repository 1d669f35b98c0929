SPECIFICATION Spec
CONSTANTS
  Pids = {1}
  Speeds = {0, 1}
  Filters = {"active", "user"}
  States = {"sleep"}
  WORD = 16
  MaxTime = 1
  MaxDisk = 1
  MaxBorn = 2
  MaxScans = 3
  MaxCalls = 2
CHECK_DEADLOCK FALSE
INVARIANTS RowsAreCurrent NoReportLost
PROPERTIES CountedOnce ZombieHiddenByNextScan
