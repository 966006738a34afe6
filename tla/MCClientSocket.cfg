\* Safety and liveness: two connections, a line longer than the buffer, every
\* schedule of the server's bytes and the end of the connection.
CONSTANTS
  x = x
  y = y
  LF = LF
  CR = CR
  NUL = NUL
  Bytes <- SomeBytes
  LineEnds = {LF, CR}
  BufferLength = 3
  Timeout = 2
  MaxSent = 5
  MaxOpens = 2
SPECIFICATION FairSpec
INVARIANTS
  TypeOK
  BoundedWait
  LostWhenRead
PROPERTIES
  ReadsLines
  ReadLineReturns
