SPECIFICATION FairSpec
INVARIANTS LoopComputesStabilize SwitchWinsOverClosing MightSwitchIsUndecided
PROPERTIES LoopTerminates NoMessageAfterEnd
