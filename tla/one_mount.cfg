CONSTANTS
  a = a
  b = b
  c = c
  d = d
  Names = {a,b,c}
  Modes <- OneMode
  Times = {0}
  Bytes = {1}
  MaxSize = 0
  MaxInodes = 4
  MaxRecords = 5
  MaxFds = 8
  LinkMod = 2
  DaemonIsRoot = TRUE
  Ops <- OneMountOps
SPECIFICATION Spec
SYMMETRY NameSymmetry
INVARIANT SlotsBelowCounter
INVARIANT NlinkCountsNames
