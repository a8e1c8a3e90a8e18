\* The play token is lost while one playlist of up to two tracks plays.
CONSTANTS
    Playlist = {home}
    Home = home
    Track = {a, b}
    Playable = {a, b}
    MaxTracks = 2
    MaxIndex = 1
    NULL = NULL
SPECIFICATION SafeSpec
INVARIANT TokenLossRespected
CHECK_DEADLOCK FALSE
