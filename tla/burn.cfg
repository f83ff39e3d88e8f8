CONSTANTS
    Seconds = 5
    TransferTime = 2
    PowerTimeout = 3
    Interval = 1
    Grace = 2
    MaxInterrupts = 2
SPECIFICATION FairSpec
INVARIANTS
    ExposureBounded
    SightBounded
    NothingRunsOn
PROPERTY BurnReturns
