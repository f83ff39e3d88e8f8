CONSTANTS
    MaxChips = 1
    MaxSamples = 1
    NAttrs = 2
    TTL = 2
    DefaultGap = 2
    MaxPresent = 1
    Intervals = {0}
    Delay = 2
    Notify = TRUE
SPECIFICATION PoweroffSpec
INVARIANTS
    WarningNeverStops
