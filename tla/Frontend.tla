------------------------------ MODULE Frontend ------------------------------
(***************************************************************************)
(* The pages of the player (frontend/js) and the part of the server that   *)
(* they talk to.  A page keeps the list it last received twice: as the     *)
(* rows of a table, each with an id, and as an array that the ids index.   *)
(* Every click sends a request and waits for nothing; requests and answers *)
(* travel independently, so they may overtake each other, and any of them  *)
(* may be lost, after which its callback simply never runs.  The server    *)
(* has one playlist, and other pages change it: a page learns of it only   *)
(* when it asks for /playlist again.                                       *)
(*                                                                         *)
(* A song stands for its name, its links and its uri.  Where the server    *)
(* waits inside a handler is in module Webserver, what becomes of          *)
(* g_track_index in module Jukebox.                                        *)
(***************************************************************************)
EXTENDS Integers, Sequences

CONSTANTS Browser, Song, Query, NULL,
          Playlists,  \* the playlists that the server may begin with
          Found,      \* Spotify: the tracks that match a query
          DidYouMean, \* Spotify: another query it suggests, or NULL
          MaxSent     \* bound: the requests that are sent

ASSUME FrontendAssumption ==
    /\ Playlists \subseteq Seq(Song) \ {<<>>}
    /\ Found \in [Query -> Seq(Song)]
    /\ DidYouMean \in [Query -> Query \cup {NULL}]
    /\ NULL \notin Song \cup Query \cup Nat
    /\ MaxSent \in Nat

VARIABLES
    playlist,    \* server: the songs of g_playlist_uri
    up,          \* server: whether it still serves
    version,     \* history: how often it has changed
    served,      \* history: the /start or /remove that was served last
    requests,    \* sent and not yet handled
    answers,     \* on their way to a page
    sent,        \* how many requests were sent
    tab,         \* page: which of the two divisions is displayed
    playlistSongs, searchlistSongs,  \* page: the arrays
    playlistBody, searchBody,        \* page: the rows of the tables
    alternativeSearch,               \* page: the query that is suggested
    research,    \* page: handlers bound to the click on #didyoumeantable
    menu,        \* page: the row that the open context menu belongs to
    seen         \* history: the version of the playlist shown, or NULL

server == <<playlist, up, version, served>>
lists == <<playlistSongs, searchlistSongs, playlistBody, searchBody, seen>>
suggestion == <<alternativeSearch, research>>
vars == <<server, requests, answers, sent, tab, lists, suggestion, menu>>

\* listeners calls updateViews when the page is loaded.
Init ==
    /\ playlist \in Playlists
    /\ up = TRUE
    /\ version = 0 /\ served = NULL
    /\ requests = {} /\ answers = {} /\ sent = 0
    /\ tab = [b \in Browser |-> "playlist"]
    /\ playlistSongs = [b \in Browser |-> <<>>]
    /\ searchlistSongs = [b \in Browser |-> <<>>]
    /\ playlistBody = [b \in Browser |-> {}]
    /\ searchBody = [b \in Browser |-> {}]
    /\ alternativeSearch = [b \in Browser |-> NULL]
    /\ research = [b \in Browser |-> 1]
    /\ menu = [b \in Browser |-> NULL]
    /\ seen = [b \in Browser |-> NULL]

-----------------------------------------------------------------------------
(* The clicks.  $.getJSON queues a request and returns. *)

\* The requests of a click go out in the order of rs; each is another one.
Send(b, rs) ==
    /\ sent + Len(rs) <= MaxSent
    /\ sent' = sent + Len(rs)
    /\ requests' = requests \cup {[n |-> sent + i, from |-> b, to |-> rs[i]] : i \in 1..Len(rs)}
    /\ UNCHANGED <<server, answers>>

ToPlaylist == [path |-> "playlist"]
ToSearch(q) == [path |-> "search", query |-> q]

\* The name that row id of a table shows now, NULL when there is no such row.
Name(body, id) == IF \E row \in body : row.id = id
                  THEN (CHOOSE row \in body : row.id = id).song ELSE NULL

ToStart(b, id) == [path |-> "start", id |-> id, said |-> Name(playlistBody[b], id),
                   seen |-> seen[b]]
ToRemove(b, id) == [path |-> "remove", id |-> id, said |-> Name(playlistBody[b], id),
                    seen |-> seen[b]]
ToAdd(b, id) == [path |-> "add", uri |-> searchlistSongs[b][id + 1],
                 said |-> Name(searchBody[b], id)]

\* switchToPlaylist, listeners.
ShowPlaylist(b) ==
    /\ Send(b, <<ToPlaylist>>)
    /\ tab' = [tab EXCEPT ![b] = "playlist"]
    /\ UNCHANGED <<lists, suggestion, menu>>

\* switchToSearch.
SubmitSearch(b, q) ==
    /\ Send(b, <<ToSearch(q)>>)
    /\ tab' = [tab EXCEPT ![b] = "search"]
    /\ UNCHANGED <<lists, suggestion, menu>>

\* A click on the suggestion runs research once per handler that updateViews
\* has bound so far.
ClickSuggestion(b) ==
    /\ tab[b] = "search" /\ alternativeSearch[b] # NULL
    /\ Send(b, [i \in 1..research[b] |-> ToSearch(alternativeSearch[b])])
    /\ UNCHANGED <<tab, lists, suggestion, menu>>

\* startSong, addSong: a click on a row.
ClickRow(b) ==
    /\ \/ /\ tab[b] = "playlist"
          /\ \E row \in playlistBody[b] : Send(b, <<ToStart(b, row.id)>>)
       \/ /\ tab[b] = "search"
          /\ \E row \in searchBody[b] : Send(b, <<ToAdd(b, row.id)>>)
    /\ UNCHANGED <<tab, lists, suggestion, menu>>

\* The context menu of a row opens.  It stays open when its row is replaced.
OpenMenu(b) ==
    /\ \/ /\ tab[b] = "playlist"
          /\ \E row \in playlistBody[b] :
               menu' = [menu EXCEPT ![b] = [of |-> "playlist", id |-> row.id]]
       \/ /\ tab[b] = "search"
          /\ \E row \in searchBody[b] :
               menu' = [menu EXCEPT ![b] = [of |-> "search", id |-> row.id]]
    /\ UNCHANGED <<server, requests, answers, sent, tab, lists, suggestion>>

CloseMenu(b) == menu[b] # NULL /\ menu' = [menu EXCEPT ![b] = NULL]

\* startSongFromMenu.
MenuPlay(b) ==
    /\ CloseMenu(b) /\ menu[b].of = "playlist"
    /\ Send(b, <<ToStart(b, menu[b].id)>>)
    /\ UNCHANGED <<tab, lists, suggestion>>

\* Bug: the last song is not protected.
Bug_RemoveAny(b) ==
    /\ CloseMenu(b) /\ menu[b].of = "playlist"
    /\ Send(b, <<ToRemove(b, menu[b].id), ToPlaylist>>)
    /\ UNCHANGED <<tab, lists, suggestion>>

\* Remove: refused when the page shows one song; else /playlist follows /remove
\* without waiting for it.
MenuRemove(b) ==
    /\ CloseMenu(b) /\ menu[b].of = "playlist"
    /\ IF Len(playlistSongs[b]) # 1
       THEN Send(b, <<ToRemove(b, menu[b].id), ToPlaylist>>)
       ELSE UNCHANGED <<server, requests, answers, sent>>
    /\ UNCHANGED <<tab, lists, suggestion>>

\* Add: when the array has no such element any more the callback throws.
MenuAdd(b) ==
    /\ CloseMenu(b) /\ menu[b].of = "search"
    /\ IF menu[b].id < Len(searchlistSongs[b])
       THEN Send(b, <<ToAdd(b, menu[b].id)>>)
       ELSE UNCHANGED <<server, requests, answers, sent>>
    /\ UNCHANGED <<tab, lists, suggestion>>

\* The menu is dismissed, or one of the links is copied from it.
MenuElse(b) ==
    /\ CloseMenu(b)
    /\ UNCHANGED <<server, requests, answers, sent, tab, lists, suggestion>>

-----------------------------------------------------------------------------
(* The server, one request at a time. *)

page == <<sent, tab, lists, suggestion, menu>>

\* playlist_request, search_request: the answer is what the list is now.
ServeList(r) ==
    /\ up /\ r \in requests /\ r.to.path \in {"playlist", "search"}
    /\ requests' = requests \ {r}
    /\ answers' = answers \cup
         {IF r.to.path = "playlist"
          THEN [n |-> r.n, to |-> r.from, of |-> "playlist",
                songs |-> playlist, version |-> version]
          ELSE [n |-> r.n, to |-> r.from, of |-> "search",
                songs |-> Found[r.to.query], suggestion |-> DidYouMean[r.to.query]]}
    /\ UNCHANGED <<server, page>>

\* Bug: the index counts from one.
Bug_SongAtFromOne(id) == IF id \in 1..Len(playlist) THEN playlist[id] ELSE NULL

\* The track that libspotify has at an index, NULL outside of the playlist.
SongAt(id) == IF id < Len(playlist) THEN playlist[id + 1] ELSE NULL

\* The track that change_track chooses for an index, which it wraps.
SongStarted(id) == IF playlist = <<>> THEN NULL ELSE playlist[(id % Len(playlist)) + 1]

\* When the song that plays is to be removed, remove_request looks for another one:
\* with a division by zero in an empty playlist, and for ever in one of one song.
FindsNoOther(id) == playlist = <<>> \/ (Len(playlist) = 1 /\ id = 0)

\* remove_request: libspotify refuses an index outside of the playlist.
Remove(r) ==
    /\ up /\ r \in requests /\ r.to.path = "remove"
    /\ requests' = requests \ {r}
    /\ \/ /\ SongAt(r.to.id) # NULL
          /\ playlist' = SubSeq(playlist, 1, r.to.id)
                          \o SubSeq(playlist, r.to.id + 2, Len(playlist))
          /\ version' = version + 1
          /\ UNCHANGED up
       \/ SongAt(r.to.id) = NULL /\ UNCHANGED <<playlist, version, up>>
       \/ FindsNoOther(r.to.id) /\ up' = FALSE /\ UNCHANGED <<playlist, version>>
    /\ served' = [to |-> r.to, hit |-> SongAt(r.to.id),
                  before |-> version, left |-> Len(playlist')]
    /\ UNCHANGED <<answers, page>>

\* start_request: change_track is called with the index, and divides by the length.
Start(r) ==
    /\ up /\ r \in requests /\ r.to.path = "start"
    /\ requests' = requests \ {r}
    /\ up' = (playlist # <<>>)
    /\ served' = [to |-> r.to, hit |-> SongStarted(r.to.id),
                  before |-> version, left |-> Len(playlist)]
    /\ UNCHANGED <<playlist, version, answers, page>>

\* add_request: to the end of the playlist.
Add(r) ==
    /\ up /\ r \in requests /\ r.to.path = "add"
    /\ requests' = requests \ {r}
    /\ playlist' = Append(playlist, r.to.uri)
    /\ version' = version + 1
    /\ UNCHANGED <<up, served, answers, page>>

-----------------------------------------------------------------------------
(* The callbacks of $.getJSON that do something. *)

\* The rows appended for a list: the server numbered its songs from zero.
Rows(songs) == {[id |-> i - 1, song |-> songs[i]] : i \in 1..Len(songs)}

\* updateViews binds the suggestion once more.
UpdateViews(b) == research' = [research EXCEPT ![b] = @ + 1]

\* Bug: the array of the other list is not emptied first.
Bug_SearchPushes(a) ==
    /\ a \in answers /\ a.of = "search"
    /\ answers' = answers \ {a}
    /\ searchlistSongs' = [searchlistSongs EXCEPT ![a.to] = @ \o a.songs]
    /\ searchBody' = [searchBody EXCEPT ![a.to] = Rows(a.songs)]
    /\ playlistSongs' = [playlistSongs EXCEPT ![a.to] = <<>>]
    /\ playlistBody' = [playlistBody EXCEPT ![a.to] = {}]
    /\ seen' = [seen EXCEPT ![a.to] = NULL]
    /\ alternativeSearch' = [alternativeSearch EXCEPT ![a.to] = a.suggestion]
    /\ UpdateViews(a.to)
    /\ UNCHANGED <<server, requests, sent, tab, menu>>

\* The callback of makeSearchRequest, whichever division is displayed.
SearchArrives(a) ==
    /\ a \in answers /\ a.of = "search"
    /\ answers' = answers \ {a}
    /\ searchlistSongs' = [searchlistSongs EXCEPT ![a.to] = a.songs]
    /\ searchBody' = [searchBody EXCEPT ![a.to] = Rows(a.songs)]
    /\ playlistSongs' = [playlistSongs EXCEPT ![a.to] = <<>>]
    /\ playlistBody' = [playlistBody EXCEPT ![a.to] = {}]
    /\ seen' = [seen EXCEPT ![a.to] = NULL]
    /\ alternativeSearch' = [alternativeSearch EXCEPT ![a.to] = a.suggestion]
    /\ UpdateViews(a.to)
    /\ UNCHANGED <<server, requests, sent, tab, menu>>

\* The callback of populatePlaylistRequest.
PlaylistArrives(a) ==
    /\ a \in answers /\ a.of = "playlist"
    /\ answers' = answers \ {a}
    /\ playlistSongs' = [playlistSongs EXCEPT ![a.to] = a.songs]
    /\ playlistBody' = [playlistBody EXCEPT ![a.to] = Rows(a.songs)]
    /\ searchlistSongs' = [searchlistSongs EXCEPT ![a.to] = <<>>]
    /\ searchBody' = [searchBody EXCEPT ![a.to] = {}]
    /\ seen' = [seen EXCEPT ![a.to] = a.version]
    /\ UpdateViews(a.to)
    /\ UNCHANGED <<server, requests, sent, tab, alternativeSearch, menu>>

\* A connection fails: no handler, or no callback, will ever run.
Lose == /\ \/ \E r \in requests : requests' = requests \ {r} /\ UNCHANGED answers
           \/ \E a \in answers : answers' = answers \ {a} /\ UNCHANGED requests
        /\ UNCHANGED <<server, page>>

Next ==
    \/ \E b \in Browser :
         \/ ShowPlaylist(b) \/ ClickSuggestion(b) \/ ClickRow(b) \/ OpenMenu(b)
         \/ MenuPlay(b) \/ MenuRemove(b) \/ MenuAdd(b) \/ MenuElse(b)
         \/ \E q \in Query : SubmitSearch(b, q)
    \/ \E r \in requests : ServeList(r) \/ Remove(r) \/ Start(r) \/ Add(r)
    \/ \E a \in answers : SearchArrives(a) \/ PlaylistArrives(a)
    \/ Lose

Spec == Init /\ [][Next]_vars

-----------------------------------------------------------------------------
(* Properties. *)

\* However answers overtake each other, the rows of a page and its arrays are
\* the same list, and only one of the two lists is filled: an id that a row
\* carries means, in the array, the song that the row shows.
RowsMatchSongs ==
    \A b \in Browser : /\ playlistBody[b] = Rows(playlistSongs[b])
                       /\ searchBody[b] = Rows(searchlistSongs[b])
                       /\ playlistSongs[b] = <<>> \/ searchlistSongs[b] = <<>>

\* "... added!" names the song that is added, also when the list was replaced
\* while the menu was open.
AddedIsAnnounced == \A r \in requests : r.to.path = "add" => r.to.said = r.to.uri

Fresh == served # NULL /\ served.to.seen = served.before

\* A /start or /remove from a page that shows the playlist as it still is hits
\* the song that the page names, and a /remove that finds no such row hits nothing.
\* (A /start from a menu whose row has gone names no song, and plays one all the
\* same: the server wraps its index.)
FreshPickHits ==
    Fresh /\ (served.to.said # NULL \/ served.to.path = "remove")
        => served.hit = served.to.said

\* A pick from such a page of a song that is there never removes the last song, and
\* never stops the server.
FreshRemovalKeepsOne == Fresh /\ served.hit # NULL => served.left > 0 /\ up

(* What the page says, and the code does not do. *)

\* contextMenu.js: "You cannot remove the last song in the playlist".
LastSongStays == playlist # <<>>
=============================================================================
