\* Safety and liveness: three commands, with and without a newline, in every
\* division of the bytes into reads.
CONSTANTS
  QUIT = 260
  STATUS = 518
  START = 773
  QUERY = 1029
  UNKNOWN = 1287
  DOUBLE = 2000
  Scripts <- SomeScripts
  Eols <- BothEols
  BufferLength = 8
SPECIFICATION FairSpec
CHECK_DEADLOCK FALSE
INVARIANTS
  TypeOK
  CommandsArrive
  AtMostOnceInOrder
PROPERTY EveryCommandAnswered
