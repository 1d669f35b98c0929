SPECIFICATION Spec
CONSTANTS
  Pids = {1, 2, 3}
  Own = 1
  Protected <- SecondProtected
  MaxGen = 1
  MaxUpdates = 2
  MaxScans = 3
  KILO = 8
  Steps <- DiskSteps
  Processes <- AllProcesses
  FileSystems <- AllFileSystems
  Durations <- Times
CHECK_DEADLOCK FALSE
INVARIANTS RowsMatchList HighlightIsTarget DialogHolds ShownInOrder 
PROPERTIES ProtectedNotSignalled RowsCatchUp
