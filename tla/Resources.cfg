SPECIFICATION ResourcesSpec
CONSTANTS
  Interfaces = {"eth0", "wlan0"}
  Cap = 2
  Memory = 3
  Swaps = {0, 5}
  Doublings = 4
  WORD = 1024
  MaxSamples = 3
  MaxEvents = 4
  Ladder <- Maxima
  KILO = 2
  Steps <- DiskSteps
INVARIANTS ScaleFits
PROPERTIES CpuIsShare NoPeak
CHECK_DEADLOCK FALSE
