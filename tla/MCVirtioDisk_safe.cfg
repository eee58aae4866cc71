SPECIFICATION Spec
CONSTANTS
  p1 = p1
  p2 = p2
  p3 = p3
  s1 = s1
  s2 = s2
  s3 = s3
  zero = zero
  one = one
  Zero = zero
  Null = Null
  Intr = Intr
  Proc <- MCProc3
  Sector <- MCSector3
  Value <- MCBinary
  NUM = 8
  M = 8
SYMMETRY MCSymmetry
INVARIANTS RingsExact NobodyStranded
PROPERTY Served
