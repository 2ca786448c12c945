SPECIFICATION FSpec
CONSTANTS
  Protocol = {"ws", "h2c"}
  Roles = {"server"}
  MaxHead = 2
  MaxInput = 0
  Requests = {}
  Responses = {}
  BodySizes = {}
  Segments <- NoSegments
  Wires <- MCWires
INVARIANT OneDiagnosis
CHECK_DEADLOCK FALSE
