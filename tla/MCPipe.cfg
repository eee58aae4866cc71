SPECIFICATION FairSpec
CONSTANTS
  r1 = r1
  r2 = r2
  w1 = w1
  w2 = w2
  a = a
  b = b
  Nobody = Nobody
  Reader <- OneReader
  Writer <- MCWriter
  Killable <- OneReader
  Holders <- OneShape
  Byte <- MCByte
  PIPESIZE = 2
  M = 4
  MaxN = 2
INVARIANTS RingSafe NobodyStranded
PROPERTIES Fifo CallsReturn
