SPECIFICATION FairSpec
CONSTANTS
    Sites = {mac, ovh}
    Mac = mac
    Runs = {r1}
    Steps = 2
    Nothing = Nothing
    Attempts = 2
    KeepsContract = TRUE
    MaxTrouble = 2
INVARIANTS OneUnresolved TakesEffectOnce LedgerIsHonest
PROPERTIES ImplementsEffectLedger EffectsAreRecorded
CHECK_DEADLOCK FALSE
