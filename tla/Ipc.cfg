SPECIFICATION MCSpec
CONSTANTS
    MAX_CHANNELS = 2
    CHANNEL_BUF_SIZE = 3
    Bytes <- TwoBytes
    ZeroByte = 0
    Pids = {p0, p1, p2}
    Slots = {0, 1}
    Pages = {1, 2}
    Frames = 5
    MaxId = 3
CHECK_DEADLOCK FALSE

    
PROPERTIES
    ImplementsFifo
