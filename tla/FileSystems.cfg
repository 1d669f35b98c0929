SPECIFICATION Spec
CONSTANTS
  Devices = {sda, sdb}
  Skipped = {tmp}
  Pseudo = {proc}
  Root = sda
  Dirs = {slash, mnt, usb}
  Slash = slash
  NoDev = NoDev
  MaxLines = 3
  MaxChanges = 3
  MaxQueue = 2
  Undo = FALSE
CHECK_DEADLOCK FALSE
INVARIANTS ActsOnShownRow
PROPERTIES Follows TableCatchesUp
