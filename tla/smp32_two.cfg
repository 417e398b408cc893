SPECIFICATION FairSpec
CONSTANTS
  MaxNodes = 2
  HwCores = 2
  CoreCounts <- UpTo2
  HypKernel = TRUE
  Platforms <- TwoCores
  Entries <- SameMode
  LockImage <- AnyBss
INVARIANTS DataBeforeAps TablesReady NoLostCore
PROPERTIES AllReachKernel
