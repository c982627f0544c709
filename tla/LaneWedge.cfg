SPECIFICATION FairSpec
CONSTANTS
    Lanes <- MCLanes
    OneShot <- MCOneShot
    Needs <- MCNeeds
    MaxControls = 3
    MaxRuns = 1
    MaxTrouble = 0
PROPERTIES StaleApprovalIsDropped
CHECK_DEADLOCK FALSE
