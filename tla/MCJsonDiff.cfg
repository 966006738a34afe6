\* Safety and liveness: every pair of small objects.
CONSTANTS
  EMPTY = ""
  NULL = NULL
  Names <- SomeNames
  Fold <- SomeFold
  Numbers = {0, 1, 2, 3}
  Close <- SomeClose
  Printed <- SomePrint
  Texts = {"s", "t"}
  Items <- SomeItems
  Objects <- SomeObjects
  Comparable <- SomeComparable
SPECIFICATION FairSpec
CHECK_DEADLOCK FALSE
INVARIANTS
  TypeOK
  DiffSaysWhatIsDue
  ComparableSurvives
PROPERTY DiffReturns
