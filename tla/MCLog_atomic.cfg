SPECIFICATION Spec
CONSTANTS
  p1 = p1
  p2 = p2
  p3 = p3
  b1 = b1
  b2 = b2
  b3 = b3
  b4 = b4
  zero = zero
  one = one
  Zero = zero
  NotCached = NotCached
  NoBlock = NoBlock
  Proc <- MCProc3
  Block <- MCBlock2
  Value <- MCBinary
  LOGBLOCKS = 5
  MAXOPBLOCKS = 2
  OpBudget = 2
SYMMETRY MCSymmetry3
INVARIANTS TypeOK DurableWhenQuiet CommitAlone
PROPERTY Atomicity
