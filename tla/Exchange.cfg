SPECIFICATION Spec
CONSTANTS
  Protocol = {"ws", "h2c"}
  MaxHead = 2
  BodySizes = {1}
  Scenarios <- SafetyScenarios
INVARIANTS NobodyIsBlamed HeardIsSaid SwitchIsAgreed
PROPERTIES ReuseIsAgreed
CHECK_DEADLOCK FALSE
