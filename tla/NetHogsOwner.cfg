SPECIFICATION Spec
CONSTANTS
  Flows <- OnePort
  Pids = {1, 2}
  Inodes = {1, 2}
  Objs = {u, o1, o2, o3}
  Unknown = u
  Dirs = {"recv"}
  Sizes = {1}
  MaxPerSecond = 1
  None = None
  Orphan = Orphan
  PERIOD = 1
  WORD = 1000
  CONNTIMEOUT = 1
  PROCESSTIMEOUT = 2
  StartTime = 2
  MaxTime = 4
  MaxGap = 1
  Lag = 0
CHECK_DEADLOCK FALSE
INVARIANTS OneProcessPerPid  OwnerHeldSocket
