\* One playlist of up to three tracks, one of which the player refuses: what
\* happens to the song that plays, and that the music goes on.
CONSTANTS
    Playlist = {home}
    Home = home
    Track = {a, b, c}
    Playable = {a, b}
    MaxTracks = 3
    MaxIndex = 3
    NULL = NULL
SPECIFICATION Spec
INVARIANT MusicIsDue
PROPERTIES
    EditsKeepSong
    RemovePlaysOn
    AutoplayMovesOn
    MusicContinues
CHECK_DEADLOCK FALSE
