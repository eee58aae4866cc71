SPECIFICATION Spec
CONSTANTS
  NINODES = 4
  NBLOCKS = 4
  NINODE = 3
  BSIZE = 4
  NDIRECT = 1
  NINDIRECT = 1
  Name = {"d", "f", "c"}
  Proc = {1, 2}
  NOFILE = 2
  NFILE = 2
  NDEV = 1
  MaxWrite = 4
  Calls <- MCCalls
  MaxCalls = 4
  MaxCrash = 1
  File0 = "f"
INVARIANTS InUseSafe CountsExact DiskExact TreeExact
PROPERTY ReclaimedAtBoot
