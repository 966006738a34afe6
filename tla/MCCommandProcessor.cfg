\* Safety and liveness: three commands of any kind, every outcome of the undefined calls.
CONSTANTS
  Commands <- OneOfEach
  MaxCommands = 3
  NULL = NULL
  Unset = Unset
  PastEnd <- BothOutcomes
  Uninit <- BothOutcomes
  BadJoin <- AllJoins
SPECIFICATION FairSpec
INVARIANTS
  TypeOK
  OneReplyPerCommand
  ReplyCarriesResult
  NothingAfterQuit
  JoinedBeforeExit
PROPERTIES
  QueueSpec
  StopRequestEndsProcess
  QueuedIsTaken
