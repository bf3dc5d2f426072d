SPECIFICATION MuxSpec
CONSTANTS
    Base = 4
    MaxVarint = 2
    Top = 2
    BVNR_DEMUX_MAX_CHANNELS = 2
    max_message = 4
    Keys = {mux, bin}
    NoKey = none
    ReusedAfterFailure = FALSE
    MaxOpen = 1
    ChunkSize = 3
    Channels = {0, 1}
    Messages <- SomeMessages
    SomeBytes = {0, 1, 2, 5}
    MaxStream = 3
    MaxSent = 2
INVARIANTS TypeOK ChannelsBounded NothingBleeds ScopedOutsideTables MessagesOfStream SentIsTold
PROPERTY LossIsLatched
SYMMETRY Symmetric
