SPECIFICATION Spec
CONSTANTS
  p1 = p1
  p2 = p2
  b1 = b1
  b2 = b2
  b3 = b3
  zero = zero
  one = one
  NoBlock = NoBlock
  Nobody = Nobody
  Zero = zero
  Proc <- MCProc2
  Block <- MCBlock3
  Nested <- MCNested
  Value <- MCBinary
  NBUF = 2
  MaxPins = 1
SYMMETRY MCSymmetry
INVARIANTS BuffersExact SleeperLocked
PROPERTY Coherent
