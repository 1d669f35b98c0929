SPECIFICATION Spec
CONSTANTS
  Pids = {1, 2}
  Own = 1
  Protected <- SecondProtected
  KILO = 8
  Steps <- DiskSteps
  Processes <- AllProcesses
  FileSystems <- AllFileSystems
  Durations <- Times
  MaxGen = 2
  MaxUpdates = 2
  MaxScans = 2
CHECK_DEADLOCK FALSE

PROPERTY DialogActsOnNamed
