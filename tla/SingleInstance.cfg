SPECIFICATION Spec
CONSTANTS
  Proc = {p, q, r}
  None = None
  Stale = Stale
  MaxStarts = 4
  MaxKills = 1
  Overlap = FALSE
CHECK_DEADLOCK FALSE
INVARIANTS OneInstance Answered
PROPERTIES IsSingle MessagesAreRead
