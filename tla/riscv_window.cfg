SPECIFICATION Spec
CONSTANTS
  Unit = 64
  BytePerWord = 8
  ByteVals = 8
  IntVals = 256
  LongVals = 65536
  SectionPages = 2
  PdEntries = 32
  Entries = 4
  BlockPages = 4
  CastGiB = 2
  Entries32 = 8
  Vectors = 63
  arm_vector_table = 3
  CPIO_ALIGNMENT = 4
  HeaderSize = 110
  AskedStyles = {"sv32"}
INVARIANTS WindowMapped
CHECK_DEADLOCK FALSE
