SPECIFICATION Spec
CONSTANTS
  MaxNodes = 1
  HwCores = 1
  CoreCounts <- One
  HypKernel = TRUE
  Platforms <- Imx7
  Entries <- CachedHyp
  LockImage <- ZeroedBss
PROPERTIES CleanedBeforeInvalidate
