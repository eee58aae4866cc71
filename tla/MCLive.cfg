SPECIFICATION FairSpec
CONSTANTS
  p1 = p1
  p2 = p2
  b1 = b1
  b2 = b2
  c1 = c1
  zero = zero
  Null = Null
  Intr = Intr
  NoCpu = NoCpu
  Cpu = {0, 1}
  Lock = {1, 2}
  MaxOff = 1
INVARIANTS MutualExclusion HolderNotInterrupted
PROPERTIES RequestCompletes ZombieReaped KillTakesEffect
