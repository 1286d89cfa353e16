CONSTANTS
  a = a
  b = b
  h1 = h1
  h2 = h2
  Names = {a, b}
  Handles = {h1, h2}
  Values = {0, 1}
  MaxFds = 2
  MaxNodes = 2
  MaxMaking = 1
SPECIFICATION Spec
SYMMETRY BBSymmetry
INVARIANT TypeOK
INVARIANT DescriptorsAccounted
INVARIANT HandlesKeepFiles
