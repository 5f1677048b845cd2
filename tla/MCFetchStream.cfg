SPECIFICATION Spec
CHECK_DEADLOCK FALSE
CONSTANTS
  Lengths <- MCLengths
  MAX_RESPONSE_LEN = 6
  MAX_MESSAGE_PAYLOAD = 4
  LenBytes = 2
  Radix = 3
  Missing = Missing
  SourceError = SourceError
INVARIANTS AnswerIsTrue ServedIsReceived NothingLost
PROPERTIES GetChunkSettles HandlerEnds ImplementsBuffer
