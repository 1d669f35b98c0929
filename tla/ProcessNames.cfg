SPECIFICATION NamesSpec
CONSTANTS
  Pids = {1, 2}
  Programs <- AllPrograms
  Tables <- Table
  Base <- Bases
  Begins <- Beginnings
  Custom <- Customs
  Optional = {"%U", "%F"}
  Paths = {"/cal.png", "/lost.png", "/app.png"}
  IconFiles = {"/cal.png", "/app.png"}
  Theme = {"cal"}
  Shells = {"sh"}
  MaxChanges = 1
  MaxScans = 2
INVARIANTS  RowIsOneProgram IconShown
CHECK_DEADLOCK FALSE
