SPECIFICATION Spec
CONSTANTS
    Sites = {mac, ovh}
    Mac = mac
    Runs = {r1}
    Steps = 1
    Nothing = Nothing
    Attempts = 2
    KeepsContract = FALSE
    MaxTrouble = 0
INVARIANTS TakesEffectOnce
CHECK_DEADLOCK FALSE
