\* The replies as the client's comments show them: violated.
CONSTANTS
  Commands <- OneOfEach
  MaxCommands = 3
  NULL = NULL
  Unset = Unset
  PastEnd <- BothOutcomes
  Uninit <- BothOutcomes
  BadJoin <- AllJoins
SPECIFICATION Spec
INVARIANT ReplyIsOwn
