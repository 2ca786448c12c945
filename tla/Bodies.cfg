SPECIFICATION HFairSpec
CONSTANTS
  Protocol = {"ws", "h2c"}
  Roles = {"client", "server"}
  MaxHead = 2
  MaxInput = 3
  Requests <- OneRequest
  Responses = {}
  BodySizes = {}
  Segments <- BodySegments
INVARIANTS NoNeedDataAfterEof
PROPERTIES ChunksAreBracketed EofIsReported
