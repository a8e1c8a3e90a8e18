------------------------------- MODULE Jukebox -------------------------------
(***************************************************************************)
(* The jukebox: which playlist and which of its tracks the server plays    *)
(* (jukebox.c, playlist-callbacks.c, container-callbacks.c), how a track   *)
(* that ended is followed by another (end_of_track in sp-callbacks.c,      *)
(* process_events in ws-callbacks.c) and how the browser changes track and *)
(* list (requests.c).                                                      *)
(*                                                                         *)
(* Everything here runs on the main thread, so one action is one callback  *)
(* or one request, from beginning to end.  libspotify is external: its     *)
(* playlists, the metadata it has received and the player it drives.  A    *)
(* playlist changes and calls back in one step.                            *)
(***************************************************************************)
EXTENDS Integers, Sequences, FiniteSets, SequencesExt

CONSTANTS Playlist,  \* the playlists of the account
          Home,      \* the playlist that g_playlist_uri names
          Track,     \* the tracks of the service
          Playable,  \* the tracks sp_session_player_load accepts
          MaxTracks, \* bound: the length of a playlist
          MaxIndex,  \* bound: the largest number, up or down, that a browser sends
          NULL       \* no playlist, no track

ASSUME JukeboxAssumption ==
    /\ Home \in Playlist
    /\ Playable \subseteq Track
    /\ MaxTracks \in Nat
    /\ MaxIndex \in Nat
    /\ NULL \notin Playlist \cup Track \cup [track : Track, ended : BOOLEAN]

VARIABLES
    g_playlist,      \* the playlist that is played, or NULL
    g_track_index,   \* where in it the jukebox is
    g_currenttrack,  \* the track the jukebox believes it plays, or NULL
    g_playback_done, \* a track has ended and no other has been chosen
    status,          \* "login", "run", "crashed", "spinning" for ever, or "misread":
                     \* ended by a request that lacks its argument
    lookAt,          \* playlists load_playlist has not looked at yet
    list,            \* libspotify: the tracks of each playlist
    named,           \* libspotify: the playlists called g_listname
    container,       \* libspotify: the playlists in the container
    watched,         \* libspotify: the playlists that call pl_callbacks
    loaded,          \* libspotify: the tracks for which sp_track_error is OK
    player,          \* libspotify: the track loaded and whether it has ended
    tokenLost        \* history: play token lost during a song, no /start since

globals == <<g_playlist, g_track_index, g_currenttrack, player, status>>
spotify == <<list, named, container, watched, loaded>>
vars == <<globals, spotify, g_playback_done, lookAt, tokenLost>>

Lists == UNION {[1..n -> Track] : n \in 0..MaxTracks}

\* What atoi makes of the argument of a request: any number, a negative one too.
Indices == -MaxIndex..MaxIndex

Init == /\ g_playlist = NULL
        /\ g_track_index = 0
        /\ g_currenttrack = NULL
        /\ g_playback_done = 0
        /\ status = "login"
        /\ list \in [Playlist -> Lists]
        /\ named \in SUBSET Playlist
        /\ container \in SUBSET Playlist
        /\ lookAt = container
        /\ watched = {}
        /\ loaded \in SUBSET Track
        /\ player = NULL
        /\ tokenLost = FALSE

(***************************************************************************)
(* A handler often runs through several functions of the jukebox.  They    *)
(* are operators from one value of its globals to the next.                *)
(***************************************************************************)
Globals == [playlist |-> g_playlist, index |-> g_track_index,
            current |-> g_currenttrack, player |-> player,
            status |-> status]

Become(j) == /\ g_playlist' = j.playlist
             /\ g_track_index' = j.index
             /\ g_currenttrack' = j.current
             /\ player' = j.player
             /\ status' = j.status

\* g_currenttrack = NULL and sp_session_player_unload.
Unload(j) == [j EXCEPT !.current = NULL, !.player = NULL]

\* g_currenttrack = t, sp_session_player_load and _play, whose errors nobody reads.
Load(j, t) ==
    [j EXCEPT !.current = t,
              !.player = IF t \in Playable THEN [track |-> t, ended |-> FALSE] ELSE NULL]

\* sp_playlist_track(pl, i): libspotify has no track for an index out of range,
\* and try_jukebox_start does ask for the one after the last, and for one before
\* the first.
TrackAt(tracks, i) == IF i \in 0..Len(tracks) - 1 THEN tracks[i + 1] ELSE NULL

\* try_jukebox_start once the track t has been looked up.
StartTrack(j, t, ok) ==
    LET j1 == IF j.current # NULL /\ t # j.current THEN Unload(j) ELSE j
    IN  IF t = NULL \/ t \notin ok \/ j1.current = t THEN j1 ELSE Load(j1, t)

\* try_jukebox_start, with the playlists lst and the metadata ok; it lets an index
\* pass that is negative, or equal to the length.
TryStart(j, lst, ok) ==
    IF \/ j.playlist = NULL
       \/ Len(lst[j.playlist]) = 0
       \/ Len(lst[j.playlist]) < j.index
    THEN j
    ELSE StartTrack(j, TrackAt(lst[j.playlist], j.index), ok)

\* i % n as C computes it: the remainder has the sign of i.
CRem(i, n) == IF i >= 0 THEN i % n ELSE -((-i) % n)

\* Bug: the player is not unloaded when the track changes.
Bug_ChangeKeepsPlayer(j, i, lst, ok) ==
    IF j.playlist = NULL \/ lst[j.playlist] = <<>>
    THEN [j EXCEPT !.status = "crashed"]
    ELSE LET j1 == [j EXCEPT !.index = CRem(i, Len(lst[j.playlist]))]
         IN  IF j.current = NULL THEN j1
             ELSE TryStart([j1 EXCEPT !.current = NULL], lst, ok)

\* change_track: it divides by the length of g_playlist.
ChangeTrack(j, i, lst, ok) ==
    IF j.playlist = NULL \/ lst[j.playlist] = <<>>
    THEN [j EXCEPT !.status = "crashed"]
    ELSE LET j1 == [j EXCEPT !.index = CRem(i, Len(lst[j.playlist]))]
         IN  IF j.current = NULL THEN j1 ELSE TryStart(Unload(j1), lst, ok)

\* Bug: rand() % (num_tracks - 1).
Bug_PickFromFewer(j, n, lst, ok) ==
    IF n = 0 THEN {[j EXCEPT !.status = "crashed"]}
    ELSE IF n <= 2 /\ j.index = 0 THEN {[j EXCEPT !.status = "spinning"]}
    ELSE {ChangeTrack([j EXCEPT !.index = i], i, lst, ok) : i \in 0..n - 2 \ {j.index}}

(***************************************************************************)
(* The loop of process_events and of remove_request that draws from n      *)
(* tracks until it finds an index other than g_track_index, and changes to *)
(* it.  It divides by n; with one track it may never end.                  *)
(***************************************************************************)
PickAnother(j, n, lst, ok) ==
    IF n = 0 THEN {[j EXCEPT !.status = "crashed"]}
    ELSE IF n = 1 /\ j.index = 0 THEN {[j EXCEPT !.status = "spinning"]}
    ELSE {ChangeTrack([j EXCEPT !.index = i], i, lst, ok) : i \in 0..n - 1 \ {j.index}}

-----------------------------------------------------------------------------
(* Logging in. *)

\* load_playlist: one turn of its loop over the container.
LoadPlaylist(p) ==
    /\ status = "login"
    /\ p \in lookAt
    /\ lookAt' = lookAt \ {p}
    /\ watched' = watched \cup {p}
    /\ Become(IF p \in named
              THEN TryStart([Globals EXCEPT !.playlist = p], list, loaded)
              ELSE Globals)
    /\ UNCHANGED <<list, named, container, loaded, g_playback_done, tokenLost>>

LoadPlaylistDone ==
    /\ status = "login"
    /\ lookAt = {}
    /\ Become([Globals EXCEPT !.status = "run"])
    /\ UNCHANGED <<spotify, g_playback_done, lookAt, tokenLost>>

-----------------------------------------------------------------------------
(* The container's callbacks. *)

PlaylistAdded(p) ==
    /\ status = "run"
    /\ p \notin container
    /\ container' = container \cup {p}
    /\ watched' = watched \cup {p}
    /\ Become(IF p \in named
              THEN TryStart([Globals EXCEPT !.playlist = p], list, loaded)
              ELSE Globals)
    /\ UNCHANGED <<list, named, loaded, g_playback_done, lookAt, tokenLost>>

PlaylistRemoved(p) ==
    /\ status = "run"
    /\ p \in container
    /\ container' = container \ {p}
    /\ watched' = watched \ {p}
    /\ UNCHANGED <<globals, list, named, loaded, g_playback_done, lookAt, tokenLost>>

-----------------------------------------------------------------------------
(* A playlist's callbacks. *)

\* playlist_renamed, after p became or ceased to be g_listname.
Renamed(j, p, isNamed) ==
    IF isNamed THEN TryStart([j EXCEPT !.playlist = p, !.index = 0], list, loaded)
    ELSE IF j.playlist = p THEN Unload([j EXCEPT !.playlist = NULL])
    ELSE j

PlaylistRenamed(p) ==
    /\ status = "run"
    /\ \E isNamed \in BOOLEAN :
         /\ named' = IF isNamed THEN named \cup {p} ELSE named \ {p}
         /\ Become(IF p \in watched THEN Renamed(Globals, p, isNamed) ELSE Globals)
    /\ UNCHANGED <<list, container, watched, loaded, g_playback_done, lookAt, tokenLost>>

\* What tracks_added and tracks_moved do once p has the tracks of lst.
Edited(j, p, lst) ==
    IF p \in watched /\ p = j.playlist THEN TryStart(j, lst, loaded) ELSE j

TracksAdded(p) ==
    /\ status = "run"
    /\ Len(list[p]) < MaxTracks
    /\ \E t \in Track, at \in 1..Len(list[p]) + 1 :
         /\ list' = [list EXCEPT ![p] = InsertAt(@, at, t)]
         /\ Become(Edited(Globals, p, list'))
    /\ UNCHANGED <<named, container, watched, loaded, g_playback_done, lookAt, tokenLost>>

\* Bug: the jukebox does not look at the playlist after a move.
Bug_MoveIgnored(p) ==
    /\ status = "run"
    /\ \E from, to \in 1..Len(list[p]) :
         /\ from # to
         /\ list' = [list EXCEPT ![p] = InsertAt(RemoveAt(@, from), to, @[from])]
    /\ UNCHANGED <<globals, named, container, watched, loaded, g_playback_done, lookAt,
                   tokenLost>>

TracksMoved(p) ==
    /\ status = "run"
    /\ \E from, to \in 1..Len(list[p]) :
         /\ from # to
         /\ list' = [list EXCEPT ![p] = InsertAt(RemoveAt(@, from), to, @[from])]
         /\ Become(Edited(Globals, p, list'))
    /\ UNCHANGED <<named, container, watched, loaded, g_playback_done, lookAt, tokenLost>>

\* The tracks of s but those at the indices gone (from 0, as in C): the track that
\* comes k-th has k - 1 others before it.
Without(s, gone) ==
    LET kept == 0..Len(s) - 1 \ gone
    IN  [k \in 1..Cardinality(kept) |->
            s[1 + (CHOOSE i \in kept : Cardinality({h \in kept : h < i}) = k - 1)]]

\* Bug: several tracks that leave at once count as one.
Bug_RemovedCountsOnce(j, p, gone, lst) ==
    IF p \in watched /\ p = j.playlist
    THEN TryStart([j EXCEPT !.index = IF \E i \in gone : i < @ THEN @ - 1 ELSE @],
                  lst, loaded)
    ELSE j

\* tracks_removed: g_track_index follows its track towards the front.
Removed(j, p, gone, lst) ==
    IF p \in watched /\ p = j.playlist
    THEN TryStart([j EXCEPT !.index = @ - Cardinality({i \in gone : i < @})], lst, loaded)
    ELSE j

RemoteRemove(p, gone) ==
    /\ status = "run"
    /\ list' = [list EXCEPT ![p] = Without(@, gone)]
    /\ Become(Removed(Globals, p, gone, list'))
    /\ UNCHANGED <<named, container, watched, loaded, g_playback_done, lookAt, tokenLost>>

TracksRemoved(p) == \E gone \in (SUBSET (0..Len(list[p]) - 1)) \ {{}} : RemoteRemove(p, gone)

-----------------------------------------------------------------------------
(* The session's callbacks. *)

MetadataUpdated ==
    /\ status = "run"
    /\ \E more \in SUBSET (Track \ loaded) :
         /\ loaded' = loaded \cup more
         /\ Become(TryStart(Globals, list, loaded'))
    /\ UNCHANGED <<list, named, container, watched, g_playback_done, lookAt, tokenLost>>

PlayTokenLost ==
    /\ status = "run"
    /\ Become(IF g_currenttrack # NULL THEN Unload(Globals) ELSE Globals)
    /\ tokenLost' = (tokenLost \/ g_currenttrack # NULL)
    /\ UNCHANGED <<spotify, g_playback_done, lookAt>>

\* Bug: the end of a track is not noted.
Bug_EndNotNoted ==
    /\ status = "run"
    /\ player # NULL /\ ~player.ended
    /\ player' = [player EXCEPT !.ended = TRUE]
    /\ UNCHANGED <<g_playlist, g_track_index, g_currenttrack, status, spotify, lookAt,
                   tokenLost, g_playback_done>>

EndOfTrack ==
    /\ status = "run"
    /\ player # NULL /\ ~player.ended
    /\ player' = [player EXCEPT !.ended = TRUE]
    /\ g_playback_done' = 1
    /\ UNCHANGED <<g_playlist, g_track_index, g_currenttrack, status, spotify, lookAt,
                   tokenLost>>

-----------------------------------------------------------------------------
(* The event loop and the browser. *)

\* Bug: any index may follow, the same one included.
Bug_AutoplayAny ==
    /\ status = "run"
    /\ g_playback_done = 1
    /\ \E j \in IF list[Home] = <<>> THEN {[Globals EXCEPT !.status = "crashed"]}
                ELSE {ChangeTrack(Globals, i, list, loaded) : i \in 0..Len(list[Home]) - 1} :
         Become(j)
    /\ g_playback_done' = 0
    /\ UNCHANGED <<spotify, lookAt, tokenLost>>

\* The first half of process_events: after the end of a track, another index.
Autoplay ==
    /\ status = "run"
    /\ g_playback_done = 1
    /\ \E j \in PickAnother(Globals, Len(list[Home]), list, loaded) :
         /\ Become(j)
         /\ g_playback_done' = IF j.status = "run" THEN 0 ELSE g_playback_done
    /\ UNCHANGED <<spotify, lookAt, tokenLost>>

\* start_request.
StartRequest(i) ==
    /\ status = "run"
    /\ Become(ChangeTrack(Globals, i, list, loaded))
    /\ tokenLost' = FALSE
    /\ UNCHANGED <<spotify, g_playback_done, lookAt>>

\* Bug: the jukebox stays on the track that is removed.
Bug_RemoveStays(i) ==
    /\ status = "run"
    /\ LET gone == {i} \cap 0..Len(list[Home]) - 1
       IN  /\ list' = [list EXCEPT ![Home] = Without(@, gone)]
           /\ Become(IF gone = {} THEN Globals ELSE Removed(Globals, Home, gone, list'))
    /\ UNCHANGED <<named, container, watched, loaded, g_playback_done, lookAt, tokenLost>>

\* remove_request: leave the track that goes, then remove it; libspotify
\* refuses an index that the list does not have.
RemoveRequest(i) ==
    /\ status = "run"
    /\ LET gone == {i} \cap 0..Len(list[Home]) - 1
           left == IF g_track_index # i THEN {Globals}
                   ELSE PickAnother(Globals, Len(list[Home]), list, loaded)
       IN  \E j \in left :
             IF j.status = "run"
             THEN /\ list' = [list EXCEPT ![Home] = Without(@, gone)]
                  /\ Become(IF gone = {} THEN j ELSE Removed(j, Home, gone, list'))
             ELSE Become(j) /\ UNCHANGED list
    /\ UNCHANGED <<named, container, watched, loaded, g_playback_done, lookAt, tokenLost>>

AddRequest(t) ==
    /\ status = "run"
    /\ Len(list[Home]) < MaxTracks
    /\ list' = [list EXCEPT ![Home] = Append(@, t)]
    /\ Become(Edited(Globals, Home, list'))
    /\ UNCHANGED <<named, container, watched, loaded, g_playback_done, lookAt, tokenLost>>

\* A path that ends after /start or /remove: atoi reads the NULL that strtok returns.
\* After /add, or with what is no link to a track, libspotify gets a NULL and may do
\* the same, or nothing at all.
MissingArgument ==
    /\ status = "run"
    /\ Become([Globals EXCEPT !.status = "misread"])
    /\ UNCHANGED <<spotify, g_playback_done, lookAt, tokenLost>>

-----------------------------------------------------------------------------
Next ==
    \/ \E p \in Playlist :
         \/ LoadPlaylist(p) \/ PlaylistAdded(p) \/ PlaylistRemoved(p) \/ PlaylistRenamed(p)
         \/ TracksAdded(p) \/ TracksMoved(p) \/ TracksRemoved(p)
    \/ LoadPlaylistDone
    \/ MetadataUpdated \/ PlayTokenLost \/ EndOfTrack \/ Autoplay
    \/ \E i \in Indices : StartRequest(i) \/ RemoveRequest(i)
    \/ \E t \in Track : AddRequest(t)
    \/ MissingArgument

SafeSpec == Init /\ [][Next]_vars

\* The event loop keeps calling process_events: its timer is always pending.
Spec == SafeSpec /\ WF_vars(Autoplay) /\ WF_vars(LoadPlaylistDone)
                 /\ \A p \in Playlist : WF_vars(LoadPlaylist(p))

-----------------------------------------------------------------------------
(* Properties. *)

\* The globals of the jukebox have the types of their C declarations; g_track_index
\* is an int, which /start with a negative number makes negative.
TypeOK ==
    /\ g_playlist \in Playlist \cup {NULL}
    /\ g_track_index \in Int
    /\ g_currenttrack \in Track \cup {NULL}
    /\ g_playback_done \in {0, 1}
    /\ status \in {"login", "run", "crashed", "spinning", "misread"}
    /\ lookAt \subseteq Playlist
    /\ list \in [Playlist -> Lists]
    /\ named \subseteq Playlist /\ container \subseteq Playlist /\ watched \subseteq Playlist
    /\ loaded \subseteq Track
    /\ player \in [track : Track, ended : BOOLEAN] \cup {NULL}
    /\ tokenLost \in BOOLEAN

\* libspotify never plays a track the jukebox has forgotten: whatever clears or
\* replaces g_currenttrack also unloads or reloads the player.
PlayerMatchesCurrent == player # NULL => player.track = g_currenttrack

\* What try_jukebox_start tests before it looks the track up.
Tested == /\ g_playlist # NULL
          /\ list[g_playlist] # <<>>
          /\ g_track_index <= Len(list[g_playlist])

\* While its playlist has its name and calls back, a jukebox that plays plays
\* the track at g_track_index, after any number of insertions, moves, removals,
\* renames, absences of the playlist and requests.  Where the list has no such
\* track (the index is its length, which the test of try_jukebox_start lets pass,
\* or negative) the jukebox plays nothing.
CurrentIsIndexed ==
    g_currenttrack # NULL /\ Tested /\ g_playlist \in named \cap watched
        => g_currenttrack = TrackAt(list[g_playlist], g_track_index)

InRange == g_playlist # NULL /\ g_track_index \in 0..Len(list[g_playlist]) - 1

Settled == g_currenttrack # NULL /\ InRange /\ g_playlist \in named \cap watched

\* A song is not interrupted when other songs are removed, by the owner of the
\* playlist or by a browser, or when a browser adds one.
EditsKeepSong ==
    [][ /\ Settled
        /\ \/ \E gone \in SUBSET (0..Len(list[g_playlist]) - 1 \ {g_track_index}) :
                RemoteRemove(g_playlist, gone)
           \/ \E i \in Indices \ {g_track_index} : RemoveRequest(i)
           \/ \E t \in Track : AddRequest(t)
        => UNCHANGED <<g_currenttrack, player>> ]_vars

\* Nothing stands in the way of the music.
Healthy ==
    /\ status = "run"
    /\ g_playlist = Home /\ Home \in watched
    /\ Len(list[Home]) >= 2
    /\ ToSet(list[Home]) \subseteq loaded \cap Playable

\* Another song starts at once, from the list that is left, when a browser
\* removes the song that plays.
RemovePlaysOn ==
    [][ Healthy /\ Settled /\ RemoveRequest(g_track_index)
        => /\ InRange' /\ player' # NULL
           /\ ~player'.ended
           /\ player'.track = TrackAt(list[Home], g_track_index)' ]_vars

\* No callback, no autoplay and no request with any number in it crashes or hangs
\* the server as long as the jukebox has a playlist with a track in it and Home has
\* two: the only end is by a request that lacks its argument.
SurvivesWithTwoTracks ==
    [][ /\ status = "run"
        /\ g_playlist # NULL
        /\ Len(list[g_playlist]) >= 1 /\ Len(list[Home]) >= 2
        => status' \in {"run", "misread"} ]_vars

Ended == player # NULL /\ player.ended

\* When a track ends, another one starts at another place of the list ...
AutoplayMovesOn ==
    [][ Healthy /\ Settled /\ Autoplay
        => /\ g_track_index' # g_track_index
           /\ player' # NULL
           /\ ~player'.ended ]_vars

\* ... which the loop of process_events can do as soon as the track has ended, for
\* end_of_track has told it so and nothing took the notice away ...
MusicIsDue == Healthy /\ Ended => ENABLED <<Autoplay>>_vars

\* ... and does in the end, unless the list loses its tracks or its name.
MusicContinues == Healthy /\ Ended ~> ~(Healthy /\ Ended)

(* What a document says, and the code does not do. *)

\* api.h of play_token_lost: the application must not resume playback by itself.
TokenLossRespected == tokenLost => player = NULL
=============================================================================
