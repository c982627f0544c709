SPECIFICATION Spec
CONSTANTS
    Lanes <- MCLanes
    OneShot <- MCOneShot
    Needs <- MCNeeds
    MaxControls = 4
    MaxRuns = 1
    MaxTrouble = 2
INVARIANTS PausedRunIsHeld OneRunPerRetry SafetyPauseHolds
PROPERTIES LanesRest HoldsEndByName
CHECK_DEADLOCK FALSE
