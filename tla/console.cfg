SPECIFICATION FairSpec
CONSTANTS
  Drivers <- AllDrivers
  Depths = {1, 3}
  SwitchText <- Switching
  BootText <- Started
INVARIANTS OutputInOrder
PROPERTIES PrintEnds
CHECK_DEADLOCK FALSE
