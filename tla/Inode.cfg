SPECIFICATION Spec
CONSTANTS
  SECTOR_SIZE = 4
  PTRS = 2
  NSECTORS = 20
  Files = {f1, f2}
  Values = {1}
  Sizes = {1, 4, 6}
  Positions = {2, 9}
  MaxLength = 19
  MaxRemoved = 7
  MaxCalls = 3
  Reserve = 8
SYMMETRY Symmetry
CHECK_DEADLOCK FALSE
INVARIANT TypeOK
 
INVARIANT CountsOpeners
 
PROPERTY DenyHolds
