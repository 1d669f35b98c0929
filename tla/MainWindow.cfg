SPECIFICATION Spec
CONSTANTS
  NoText = ""
  Texts = {"a", "b"}
  Sizes = {860, 1100, 1920}
  Small = 860
  Screen = 1920
  Wide = 500
  Used = {1, 7}
  Bar = 12
  MinSection = 60
  MaxInputs = 4
  MaxStarts = 2
INVARIANTS WindowTells
PROPERTIES SearchApplied Survives
CHECK_DEADLOCK FALSE
