CONSTANTS
  a = a
  b = b
  c = c
  d = d
  Names = {a, b, c}
  Modes <- OneMode
  Times = {0}
  Bytes = {1}
  MaxSize = 1
  MaxInodes = 3
  MaxRecords = 4
  MaxFds = 8
  LinkMod = 4
  DaemonIsRoot = TRUE
  Ops <- RenameOps
SPECIFICATION Spec
SYMMETRY NameSymmetry
PROPERTY NamesAndAttrsRefine
