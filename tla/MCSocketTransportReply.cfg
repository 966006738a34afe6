\* The reply to a command against the client that sent it.
CONSTANTS
  c1 = c1
  c2 = c2
  x = x
  NL = NL
  NUL = NUL
  INVALID = INVALID
  Clients = {c1, c2}
  Bytes <- SomeBytes
  Scripts <- LineScripts
  BlockSize = 2
  Port = 12070
SPECIFICATION Spec
INVARIANT ReplyToSender
