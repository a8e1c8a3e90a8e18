\* Two pages, and their requests and answers in any order; any may be lost.
CONSTANTS
    Browser = {b1, b2}
    s1 = s1
    s2 = s2
    Song = {s1, s2}
    Query = {"ab", "abba"}
    NULL = NULL
    Playlists <- MCPlaylists
    Found <- MCFound
    DidYouMean <- MCDidYouMean
    MaxSent = 4
SPECIFICATION Spec
INVARIANTS
    RowsMatchSongs
    AddedIsAnnounced
    FreshPickHits
    FreshRemovalKeepsOne
SYMMETRY PageSymmetry
CHECK_DEADLOCK FALSE
