SPECIFICATION Spec
CONSTANTS
  r1 = r1
  r2 = r2
  w1 = w1
  w2 = w2
  a = a
  b = b
  Nobody = Nobody
  Reader <- MCReader
  Writer <- MCWriter
  Killable <- MCWriter
  Holders <- MCHolders
  Byte <- MCByte
  PIPESIZE = 2
  M = 4
  MaxN = 2
INVARIANT ReaderNotStranded
