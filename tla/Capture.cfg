SPECIFICATION CaptureSpec
CONSTANTS
  Devices = {"eth", "tun"}
  Link <- Links
  V4 = {"me4", "far4", "junk"}
  V6 = {"me6", "far6"}
  LooksTcp = {"far6"}
  Garbage = "junk"
  Flows <- AllFlows
  Lengths = {1}
  MaxFrames = 2
  MaxMoves = 1
INVARIANTS  NothingInvented
CHECK_DEADLOCK FALSE
