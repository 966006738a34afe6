\* Safety: two clients, every schedule of reads, sends and StopComm.
CONSTANTS
  c1 = c1
  c2 = c2
  x = x
  NL = NL
  NUL = NUL
  INVALID = INVALID
  Clients = {c1, c2}
  Bytes <- SomeBytes
  Scripts <- SomeScripts
  BlockSize = 3
  Port = 12070
SPECIFICATION Spec
INVARIANTS
  TypeOK
  LinesAreTheStream
  NoByteLost
  ConnectedHasSocket
  NoLiveClientForgotten
  StoppedIsJoined
  StopConnectedCloses
