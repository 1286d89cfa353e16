CONSTANTS
  a = a
  b = b
  c = c
  d = d
  Names = {a, b}
  Modes <- OneMode
  Times = {0}
  Bytes = {1}
  MaxSize = 2
  MaxInodes = 3
  MaxRecords = 4
  MaxFds = 7
  LinkMod = 4
  DaemonIsRoot = FALSE
  Ops <- ContentsOps
SPECIFICATION Spec
SYMMETRY NameSymmetry
PROPERTY ContentsRefine
