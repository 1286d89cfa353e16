CONSTANTS
  a = a
  b = b
  Names = {a, b}
  Offsets = {0, 1, 2, 6}
  Data <- Writes
  KeyHalf = 3
  Unspecified = Unspecified
SPECIFICATION Spec
SYMMETRY NameSymmetry
INVARIANT TypeOK
INVARIANT Dense
PROPERTY ImplementsByteFS
