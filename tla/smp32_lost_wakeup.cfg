SPECIFICATION NoWakeSpec
CONSTANTS
  MaxNodes = 2
  HwCores = 2
  CoreCounts <- Two
  HypKernel = FALSE
  Platforms <- Imx6
  Entries <- SameMode
  LockImage <- ZeroedBss
PROPERTIES SpinEnds
