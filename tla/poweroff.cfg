CONSTANTS
    MaxChips = 2
    MaxSamples = 2
    NAttrs = 2
    TTL = 2
    DefaultGap = 3
    MaxPresent = 3
    Intervals = {0, 1, 2}
    Delay = 2
    Notify = TRUE
SPECIFICATION FairPoweroffSpec
INVARIANTS
    PoweroffTypeOK
    IndependentSamples
    ExitIsWorst
    BlindIsNeverOk
    PoweroffJustified
PROPERTIES
    CheckEnds
    CriticalActs
