SPECIFICATION Spec
CONSTANTS
  Char = {"A", "x"}
  Nul = null
  Names = {}
  CmdSize = 3
  HistLines = 2
  LineMax = 4
INVARIANT LineOK
