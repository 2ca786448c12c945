SPECIFICATION HSpec
CONSTANTS
  Protocol = {"ws", "h2c"}
  Roles = {"client", "server"}
  MaxHead = 2
  MaxInput = 1
  Requests <- LocalRequests
  Responses <- LocalResponses
  BodySizes = {0, 1, 2}
  Segments <- LifecycleSegments
INVARIANTS TypeOK ReaderFollowsPeer WriterFollowsLocal StateIsStable ClosingForbidsReuse SwitchIsNegotiated DeclaredLengthIsExact AnswerSignalsClose
PROPERTIES TrailingInputKept TerminalStatesAreFinal
