CONSTANTS
    PinCount = 2
    MvMin <- ASTRAL_MV_MIN
    MvMax <- ASTRAL_MV_MAX
    MaMax <- ASTRAL_MA_MAX
    GuardMvMin <- GUARD_MV_MIN
    GuardMvMax <- GUARD_MV_MAX
    GuardMaMax <- GUARD_MA_MAX
    PlausibleMv <- PLAUSIBLE_MV
    PlausibleMa <- PLAUSIBLE_MA
    Chips <- MCChips
SPECIFICATION Spec
INVARIANTS
    SampleOfThePins
    OracleAgrees
    GuardTakesWhatIsPublished
