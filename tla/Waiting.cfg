SPECIFICATION HSpec
CONSTANTS
  Protocol = {"ws", "h2c"}
  Roles = {"server"}
  MaxHead = 2
  MaxInput = 1
  Requests = {}
  Responses <- LocalResponses
  BodySizes = {0, 1, 2}
  Segments <- LifecycleSegments
INVARIANT WaitingClientHasNotFinished
