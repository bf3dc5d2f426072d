CONSTANTS
    MjdMin <- MCMjdMin
    MjdMax = 100000
    YearMin = 1590
    YearMax = 2130
    IsoYears <- MCIsoYears
    Days <- MCDays
    Years <- MCYears
    Months <- MCMonths
    ClockDays <- MCClockDays
    Leaps <- MCLeaps
    Seconds <- MCSeconds
    Weeks <- MCWeeks
    Literals <- MCLiterals
    LimbBits = 2
    MaxLimbs = 16
    Pairs <- MCPairs
    Texts <- MCTexts
    Figures <- MCFigures
    Widenings <- MCWidenings
    MaxBits = 27
    Reserve = 8
    GuardBits = 2
    FloorBits = 6
    WideSig = 4
    WideBits = 10
    ExpLimit = 30
    HexLimit = 35
    RoDigits = 4
    RoMargin = 2
    DecExpLimit = 30
    Shapes <- MCShapes
    FloatTexts <- MCFloatTexts
    FloatValues <- MCFloatValues
    Documents <- MCDocuments
    TypedDocuments <- MCTypedDocuments
    MaxArrays = 4
SPECIFICATION LibrarySpec
PROPERTIES TypesReset
CHECK_DEADLOCK FALSE
