SPECIFICATION SyntaxSpec
CONSTANTS
  UsizeMax = 255
  Alphabet = {"0", "2", "CR", "LF"}
  MaxHead = 2
  MaxInput = 5
  MaxStream = 10
  MaxBytes = 6
  Protocol = {"websocket"}
  Texts <- MCTexts
INVARIANTS StreamDecides ChunkLinesAreExact TrailersAreDecided HostIsUriHost
INVARIANTS FramingIsUnambiguous CloseReplacesKeepAlive
CHECK_DEADLOCK FALSE
