SPECIFICATION FairSpec
CONSTANTS
  Builds <- SomeBuilds
  CoreUpImage <- NobodyUp
  LockImage <- ZeroedBss
INVARIANTS TypeOK OwnStack LogicId HeldAtGate DataInMemory
PROPERTIES MailboxRead AllReachKernel GateSpec
