SPECIFICATION FairSpec
CONSTANTS
  MaxNodes = 3
  HwCores = 4
  CoreCounts <- UpTo4
  HypKernel = FALSE
  Platforms <- Imx6
  Entries <- AnyMode
  LockImage <- ZeroedBss
INVARIANTS TypeOK OwnStack HeldAtGate DenseNumbers TablesReady
PROPERTIES CleanedBeforeInvalidate AllReachKernel GateSpec
