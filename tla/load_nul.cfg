SPECIFICATION Spec
CONSTANTS
  PageSize = 4
  Word = 48
  Ram <- RamCells
  Loaders <- LowLoader
  Archives <- NulArchives
  MaxUserImages = 1
  CheckHash = TRUE
  HashLen = 2
INVARIANTS HashesSame
