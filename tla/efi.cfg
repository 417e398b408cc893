SPECIFICATION FairSpec
CONSTANTS
  Guess = 2
  SizeOf = 5
  DescSize = 6
  MaxDescs = 6
  MaxEvents = 5
INVARIANTS MapAtExit NothingLeaked
PROPERTIES GuessingEnds
CHECK_DEADLOCK FALSE
