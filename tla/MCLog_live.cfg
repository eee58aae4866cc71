SPECIFICATION FairSpec
CONSTANTS
  p1 = p1
  p2 = p2
  p3 = p3
  b1 = b1
  b2 = b2
  b3 = b3
  b4 = b4
  zero = zero
  one = one
  Zero = zero
  NotCached = NotCached
  NoBlock = NoBlock
  Proc <- MCProc3
  Block <- MCBlock4
  Value <- MCZero
  LOGBLOCKS = 4
  MAXOPBLOCKS = 2
  OpBudget = 1
INVARIANTS SleeperHasWaker LogWriteSafe
PROPERTY SleeperWakes
