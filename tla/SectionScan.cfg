SPECIFICATION FairSpec
CONSTANTS
  Octet = {"CR", "LF", "x"}
  Segments <- MCSegments
  MaxHead = 4
  MaxReceived = 5
INVARIANTS NoEndMissed RetryIsJustified ScanIsLinear CompactionIsAmortized
PROPERTIES CompleteIsParsed IsQueue
CHECK_DEADLOCK FALSE
