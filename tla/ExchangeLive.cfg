SPECIFICATION FairSpec
CONSTANTS
  Protocol = {"ws", "h2c"}
  MaxHead = 2
  BodySizes = {1}
  Scenarios <- LiveScenarios
PROPERTIES SaidIsHeard
CHECK_DEADLOCK FALSE
