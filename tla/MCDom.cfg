CONSTANTS
    Short = {a, b}
    Long = long
    Keys <- MCKeys
    KeyLength <- MCKeyLength
    MaxIdentifier = 2
    SegmentSize = 3
    NoKey = nokey
    Units = {"default", "none", "metre", "second"}
    DefaultUnit = "default"
    NoUnit = "none"
    Spellings = {"s", "mtr"}
    NoSpelling = "omitted"
    Denotes <- MCDenotes
    Canonical = {"s"}
    RefsMax = 3
    RecordedRows = 2
    MaxIndices = 3
    ValueTypes = {}
    Plain = "plain"
    Kinds = {"number"}
    Dressings <- MCDressings
    Plainest <- MCPlainest
    InForce = {"default", "second"}
    Chunks = {"x"}
    MaxNodes = 5
    MaxDepth = 3
    MaxRows = 3
    MaxChunks = 1
    VariedNodes = 3
    MaxEvents = 16
SYMMETRY MCSymmetry
SPECIFICATION DomSpec
INVARIANTS TreeMirrorsEvents PathsFindValues BlocksCounted EverythingFreed
PROPERTY StructEndsItself
CHECK_DEADLOCK FALSE
