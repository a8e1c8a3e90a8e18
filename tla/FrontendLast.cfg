\* The last song of the playlist is removed.
CONSTANTS
    Browser = {b1, b2}
    s1 = s1
    s2 = s2
    Song = {s1, s2}
    Query = {"ab", "abba"}
    NULL = NULL
    Playlists <- MCPlaylists
    Found <- MCFound
    DidYouMean <- MCDidYouMean
    MaxSent = 4
SPECIFICATION Spec
INVARIANT LastSongStays
SYMMETRY PageSymmetry
CHECK_DEADLOCK FALSE
