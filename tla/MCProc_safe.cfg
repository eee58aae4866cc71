SPECIFICATION Spec
CONSTANTS
  c1 = c1
  c2 = c2
  NoCpu = NoCpu
  Cpu <- MCCpu2
  NPROC = 3
  MaxPid = 3
  KillPids <- MCKill
SYMMETRY MCSymmetry
INVARIANTS StackInUse SchedSafe ExitNotMissed TableConsistent
