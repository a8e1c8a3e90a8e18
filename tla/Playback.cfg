\* Two songs of different formats, flushed and changed while they play.
CONSTANTS
    SampleRate = 1
    MaxFrames = 1
    MaxProduced = 5
    None = None
    Format = {cd, dvd}
    FirstFormat = cd
    MaxLoads = 2
    MaxUnderruns = 1
SPECIFICATION PSpec
INVARIANTS
    SongsInOrder
    DelayBounded
    CardKeepsUp
PROPERTY NewSongHeard
CHECK_DEADLOCK FALSE
