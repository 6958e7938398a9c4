CONSTANTS
  m1 = m1
  m2 = m2
  m3 = m3
  f1 = f1
  f2 = f2
  f3 = f3
  f4 = f4
  NULL = NULL
  PRIVATE = PRIVATE
  Maps <- ThreeMaps
  Root = m1
  Values <- Bits
  ZERO = 0
  Frames <- FourFrames
  Protects <- ReadOnly
SPECIFICATION Spec
SYMMETRY Symmetry
INVARIANTS PagesAreCounted WritableIsUnshared
PROPERTY ImplementsAddressSpace
CHECK_DEADLOCK FALSE
