SPECIFICATION MCSpec
CONSTANTS
  Reader = {"r1"}
  Writer = {"w1", "w2"}
  INPUT_BUF_SIZE = 3
  M = 6
  Start = 5
  MaxN = 2
  Loads <- MCLoads
INVARIANTS ConsoleSafe MemoryExact HeapExact ParserCorrect RunsAsWritten
PROPERTIES Discipline WriterGoesOn PauseExact AddressSpaceSpec
