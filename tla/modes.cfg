SPECIFICATION Spec
CONSTANTS
  NumIrqs = {32, 64}
INVARIANTS StackKept Configured
CHECK_DEADLOCK FALSE
