CONSTANTS
    Capacity = 2
    BufferSize = 2
    MaxPush = 3
    MaxText = 7
    HeaderSize = 2
    GrowStart = 1
    MaxDocument = 3
    SlurpStart = 1
    SlurpMax = 6
    FrameLengths = {0, 2, 4}
    MaxFrames = 3
SPECIFICATION PipeSpec
INVARIANTS TextWhole FramesWhole
PROPERTIES NoOneWaits
CHECK_DEADLOCK FALSE
