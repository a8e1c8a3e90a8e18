\* A chunk that changes the format.
CONSTANTS
    Format = {cd, dvd}
    MaxChunks = 8
    FrameWrap = 16
    None = None
SPECIFICATION SafeSpec
INVARIANT PacketKept
CHECK_DEADLOCK FALSE
