SPECIFICATION Spec
CONSTANTS
  Flows <- OneFlow
  Pids = {1}
  Inodes = {1}
  Objs = {u, o1, o2, o3}
  Unknown = u
  Dirs = {"sent", "recv"}
  Sizes = {1}
  MaxPerSecond = 2
  None = None
  Orphan = Orphan
  PERIOD = 2
  WORD = 8
  CONNTIMEOUT = 3
  PROCESSTIMEOUT = 5
  StartTime = 5
  MaxTime = 10
  MaxGap = 2
  Lag = 0
CHECK_DEADLOCK FALSE
INVARIANTS ConnectionsOwned ToldSpeedIsLive
PROPERTIES TrafficConserved RemovedOnlyWhenIdle 
