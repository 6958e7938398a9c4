CONSTANTS
  m1 = m1
  m2 = m2
  m3 = m3
  f1 = f1
  f2 = f2
  f3 = f3
  f4 = f4
  NULL = NULL
  PRIVATE = PRIVATE
  Maps <- TwoMaps
  Root = m1
  Values <- Bits
  ZERO = 0
  Frames <- FourFrames
  Protects <- AnyProtection
SPECIFICATION Spec
INVARIANT WritableIsUnshared
CHECK_DEADLOCK FALSE
