SPECIFICATION Spec
CONSTANTS
  PageSize = 4
  Word = 48
  Ram <- RamCells
  Loaders <- SomeLoaders
  Archives <- SomeArchives
  MaxUserImages = 1
  CheckHash = TRUE
  HashLen = 2
INVARIANTS Disjoint ImagesMissLoader LoadedRight HeadersBehindUser HashesSame
