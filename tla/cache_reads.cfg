CONSTANTS
    r1 = r1
    r2 = r2
    None = None
    Readers = {r1, r2}
    Modulus = 8
    TTL = 3
    MaxIdle = 6
SPECIFICATION FairSpec
INVARIANTS
    TypeOK
    FreshMeansFresh
    CopyIsValid
    ZerosNeverRead
PROPERTIES
    CommitSpacing
    ReadReturns
