SPECIFICATION FFairSpec
CONSTANTS
  Protocol = {"ws", "h2c"}
  Roles = {"client", "server"}
  MaxHead = 2
  MaxInput = 0
  Requests <- ClientRequests
  Responses = {}
  BodySizes = {}
  Segments <- NoSegments
  Wires <- MCWires
INVARIANTS SegmentationIsInvisible
PROPERTIES PollingEnds
CHECK_DEADLOCK FALSE
