\* Two playlists that compete for the name of the jukebox.
CONSTANTS
    Playlist = {home, other}
    Home = home
    Track = {a, b}
    Playable = {a, b}
    MaxTracks = 2
    MaxIndex = 2
    NULL = NULL
SPECIFICATION SafeSpec
INVARIANTS
    PlayerMatchesCurrent
    CurrentIsIndexed
PROPERTY SurvivesWithTwoTracks
SYMMETRY TrackSymmetry
CHECK_DEADLOCK FALSE
