\* Violated: the client reads the reply that is there.
CONSTANTS
  QUIT = 260
  STATUS = 518
  START = 773
  QUERY = 1029
  UNKNOWN = 1287
  DOUBLE = 2000
  Scripts <- SomeScripts
  Eols <- BothEols
  BufferLength = 40
SPECIFICATION Spec
CHECK_DEADLOCK FALSE
PROPERTY ResponseIsRead
