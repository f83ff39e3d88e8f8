CONSTANTS
    NPins = 2
    MaxFindings = 2
    MaxSamples = 2
    Currents = {0, 50, 75, 92, 95}
    LowVoltages = {108, 112, 118}
    Readings <- MCReadings
    PinWarn = 92
    PinCrit = 95
    OpenPin = 5
    OpenGate = 40
    RatioGate = 80
    RatioCrit = 60
    MvWarn = 114
    MvCrit = 110
    RatioWarns = {70, 100}
    RatioNotes = {85}
SPECIFICATION Spec
INVARIANTS
    TypeOK
    VerdictIsWorst
    RatingIsALimit
    FindingsQuoteTheWorst
