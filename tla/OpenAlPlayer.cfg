\* Chunks of two formats, three buffers, several resets and underruns.
CONSTANTS
    Format = {cd, dvd}
    MaxChunks = 12
    FrameWrap = 32
    None = None
SPECIFICATION Spec
INVARIANTS
    BuffersGoRound
    SkipsOnlyWhenDry
    PollIsFed
PROPERTY PollEnds
CHECK_DEADLOCK FALSE
