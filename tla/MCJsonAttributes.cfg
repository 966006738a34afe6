\* Safety and liveness: every sequence of calls on objects of at most three items.
CONSTANTS
  EMPTY = ""
  Keys <- SomeKeys
  Fold <- SomeFold
  MaxInt = 1
  INT_MIN <- SomeInt
  Doubles = {0, 1, 2, 4}
  Params = {1}
  Lengths = {0, 1}
  Contents = {1, 2, 3}
  Reprint <- SomeReprint
  Sources <- SomeSources
  MaxItems = 3
SPECIFICATION FairSpec
CHECK_DEADLOCK FALSE
INVARIANTS
  TypeOK
  ReadYourWrite
  MergeAgrees
PROPERTIES
  OthersUntouched
  NoNameLost
  MergeEnds
