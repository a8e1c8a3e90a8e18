------------------------------ MODULE Webserver ------------------------------
(***************************************************************************)
(* The HTTP side of the server: handle_request (ws-callbacks.c), the       *)
(* requests it routes (requests.c, server.c) and the answers that          *)
(* libspotify's callbacks send later.  All of it runs on the main thread,  *)
(* inside the event loop: an action is one handler or one callback, from   *)
(* beginning to end.  search_mutex and playlist_mutex are locked by one    *)
(* handler and unlocked by a later callback, so the main thread can meet   *)
(* a mutex that it holds itself: pthread_mutex_lock then never returns.    *)
(*                                                                         *)
(* What /start, /remove and /add do to the jukebox is in module Jukebox;   *)
(* here they lock, reply and unlock, or never return.  The JSON of an      *)
(* answer is reduced to what it is an answer to.                           *)
(***************************************************************************)
EXTENDS Integers, FiniteSets

CONSTANTS Request,  \* bound: the HTTP requests that arrive
          Query,    \* what a browser searches for
          Empty,    \* the query of a /search with nothing behind it: a null pointer
          NULL      \* no request, no kind, no answer

(***************************************************************************)
(* The objects of libspotify that a request may have to wait for: the      *)
(* playlist of g_playlist_uri, a user's starred playlist and a user's      *)
(* published container.                                                    *)
(***************************************************************************)
Source == {"home", "starred", "published"}

Kind == {"search", "edit", "fatal", "inbox", "bad", "unknown"} \cup Source

\* An sp_search, named by the request that created it: libspotify keeps no
\* other trace of it, for userdata is NULL.
Search == [by : Request, query : Query]

ASSUME WebserverAssumption ==
    /\ IsFiniteSet(Request) /\ "loop" \notin Request
    /\ Empty \in Query
    /\ Query \cap (Source \cup {"done", "error"}) = {}
    /\ NULL \notin Request \cup Query \cup Kind \cup {"done", "error"}

VARIABLES
    kind,           \* what each request asks for, NULL before it arrives
    query,          \* the query of each search request
    replies,        \* how often evhttp_send_reply was called for a request
    answer,         \* what its browser receives
    lost,           \* requests whose connection is gone
    main,           \* "loop", or the request whose handler does not return
    search_mutex,   \* locked or not; only the main thread locks it
    playlist_mutex, \* the same
    s_request,      \* the request that the search results go to
    searches,       \* libspotify: searches whose callback is due
    failed,         \* history: requests whose search ended with an error
    handlers,       \* struct playlist_handler, playlistcontainer_handler
    posts,          \* libspotify: inbox posts whose callback is due
    isLoaded        \* libspotify: the sources that are loaded

locks == <<search_mutex, playlist_mutex>>
pending == <<searches, failed, handlers, posts>>
vars == <<kind, query, replies, answer, lost, main, locks, s_request, pending, isLoaded>>

Init == /\ kind = [r \in Request |-> NULL]
        /\ query = [r \in Request |-> NULL]
        /\ replies = [r \in Request |-> 0]
        /\ answer = [r \in Request |-> NULL]
        /\ lost = {}
        /\ main = "loop"
        /\ search_mutex = FALSE
        /\ playlist_mutex = FALSE
        /\ s_request = NULL
        /\ searches = {}
        /\ failed = {}
        /\ handlers = {}
        /\ posts = {}
        /\ isLoaded \in SUBSET Source

(***************************************************************************)
(* send_reply, send_reply_json, send_error or evhttp_send_error to each of *)
(* the requests rs.  libevent frees the request, and drops the answer when *)
(* its connection is gone.                                                 *)
(***************************************************************************)
SendReply(rs, a) ==
    /\ replies' = [r \in Request |-> replies[r] + IF r \in rs THEN 1 ELSE 0]
    /\ answer' = [r \in Request |-> IF r \in rs \ lost THEN a ELSE answer[r]]

NoReply == UNCHANGED <<replies, answer>>

\* handle_request is called for r; its connection gets a timeout of 1 s.
Arrive(r, k) ==
    /\ main = "loop"
    /\ kind[r] = NULL
    /\ kind' = [kind EXCEPT ![r] = k]
    /\ UNCHANGED lost

\* A handler locks a mutex that is held: the main thread stops here for ever.
Block(r) == /\ main' = r
            /\ NoReply
            /\ UNCHANGED <<locks, s_request, pending>>

-----------------------------------------------------------------------------
(* The handlers. *)

\* Unsupported methods, a path without a word, /user without a name or an action,
\* and user requests that are not understood are refused at once.  The other paths
\* are never refused: what is missing behind them goes on as a null pointer.
BadRequest(r) ==
    /\ Arrive(r, "bad")
    /\ SendReply({r}, "error")
    /\ UNCHANGED <<query, main, locks, s_request, pending, isLoaded>>

\* A path that begins with none of the known words falls through.
UnknownRequest(r) ==
    /\ Arrive(r, "unknown")
    /\ NoReply
    /\ UNCHANGED <<query, main, locks, s_request, pending, isLoaded>>

\* search_request: the mutex stays locked until search_complete.  What libspotify
\* does without a query is not documented: it may crash, and it may not call back.
SearchRequest(r, s) ==
    /\ Arrive(r, "search")
    /\ query' = [query EXCEPT ![r] = s]
    /\ \/ search_mutex /\ Block(r)
       \/ /\ ~search_mutex
          /\ search_mutex' = TRUE
          /\ s_request' = r
          /\ searches' = searches \cup {[by |-> r, query |-> s]}
          /\ main' \in {"loop"} \cup (IF s = Empty THEN {r} ELSE {})
          /\ NoReply
          /\ UNCHANGED <<playlist_mutex, failed, handlers, posts>>
    /\ UNCHANGED isLoaded

\* start_request, remove_request, add_request, when the jukebox can do what they ask.
EditRequest(r) ==
    /\ Arrive(r, "edit")
    /\ \/ playlist_mutex /\ Block(r)
       \/ /\ ~playlist_mutex
          /\ SendReply({r}, "done")
          /\ UNCHANGED <<main, locks, s_request, pending>>
    /\ UNCHANGED <<query, isLoaded>>

(***************************************************************************)
(* The same, when they crash or loop for ever with the mutex locked: for   *)
(* want of an argument, for an argument of /add that is no link, for an    *)
(* empty playlist (the division of change_track) or for the removal of the *)
(* only track.  Module Jukebox says when.                                  *)
(***************************************************************************)
FatalEdit(r) ==
    /\ Arrive(r, "fatal")
    /\ \/ playlist_mutex /\ Block(r)
       \/ /\ ~playlist_mutex
          /\ playlist_mutex' = TRUE
          /\ main' = r
          /\ NoReply
          /\ UNCHANGED <<search_mutex, s_request, pending>>
    /\ UNCHANGED <<query, isLoaded>>

\* register_playlist_callbacks, register_playlistcontainer_callbacks.
Register(r, src) == handlers' = handlers \cup {[request |-> r, source |-> src]}

\* Bug: the playlist is asked for, but no callback is registered.
Bug_PlaylistNotAwaited(r) ==
    /\ Arrive(r, "home")
    /\ \/ playlist_mutex /\ Block(r)
       \/ /\ ~playlist_mutex
          /\ IF "home" \in isLoaded
             THEN SendReply({r}, "home") /\ UNCHANGED playlist_mutex
             ELSE NoReply /\ playlist_mutex' = TRUE
          /\ UNCHANGED <<main, search_mutex, s_request, pending>>
    /\ UNCHANGED <<query, isLoaded>>

\* playlist_request: answered at once, or locked until the playlist is loaded.
PlaylistRequest(r) ==
    /\ Arrive(r, "home")
    /\ \/ playlist_mutex /\ Block(r)
       \/ /\ ~playlist_mutex
          /\ IF "home" \in isLoaded
             THEN SendReply({r}, "home") /\ UNCHANGED <<playlist_mutex, handlers>>
             ELSE Register(r, "home") /\ NoReply /\ playlist_mutex' = TRUE
          /\ UNCHANGED <<main, search_mutex, s_request, searches, failed, posts>>
    /\ UNCHANGED <<query, isLoaded>>

\* GET of handle_user_request: /user/<name>/playlists and /user/<name>/starred.
UserRequest(r, src) ==
    /\ Arrive(r, src)
    /\ IF src \in isLoaded THEN SendReply({r}, src) /\ UNCHANGED handlers
                           ELSE Register(r, src) /\ NoReply
    /\ UNCHANGED <<query, main, locks, s_request, searches, failed, posts, isLoaded>>

\* put_user_inbox: refused, nothing to do, or posted and answered later.
InboxRequest(r) ==
    /\ Arrive(r, "inbox")
    /\ \/ SendReply({r}, "error") /\ UNCHANGED posts
       \/ SendReply({r}, "done") /\ UNCHANGED posts
       \/ posts' = posts \cup {r} /\ NoReply
    /\ UNCHANGED <<query, main, locks, s_request, searches, failed, handlers, isLoaded>>

-----------------------------------------------------------------------------
(* libspotify's callbacks, inside process_events, and libevent's. *)

\* Bug: the mutex is unlocked only when the search succeeded.
Bug_ErrorKeepsLock(x) ==
    /\ main = "loop"
    /\ x \in searches
    /\ searches' = searches \ {x}
    /\ \/ /\ SendReply({s_request}, x.query)
          /\ search_mutex' = FALSE
          /\ UNCHANGED failed
       \/ /\ NoReply
          /\ failed' = failed \cup {s_request}
          /\ UNCHANGED search_mutex
    /\ UNCHANGED <<kind, query, lost, main, playlist_mutex, s_request, handlers, posts,
                   isLoaded>>

\* Bug: the callback locks the mutex that its request has locked.
Bug_CompleteLocks(x) ==
    /\ main = "loop" /\ ~search_mutex
    /\ x \in searches
    /\ searches' = searches \ {x}
    /\ \/ SendReply({s_request}, x.query) /\ UNCHANGED failed
       \/ NoReply /\ failed' = failed \cup {s_request}
    /\ UNCHANGED <<kind, query, lost, main, locks, s_request, handlers, posts, isLoaded>>

\* search_complete: the results go to s_request; an error is only printed.
SearchComplete(x) ==
    /\ main = "loop"
    /\ x \in searches
    /\ searches' = searches \ {x}
    /\ search_mutex' = FALSE
    /\ \/ SendReply({s_request}, x.query) /\ UNCHANGED failed
       \/ NoReply /\ failed' = failed \cup {s_request}
    /\ UNCHANGED <<kind, query, lost, main, playlist_mutex, s_request, handlers, posts,
                   isLoaded>>

Waiting(src) == {h.request : h \in {h \in handlers : h.source = src}}

\* Bug: the callback stays registered after it was dispatched.
Bug_DispatchKeepsHandler(src) ==
    /\ main = "loop"
    /\ \E now \in BOOLEAN :
         /\ src = "published" => now
         /\ isLoaded' = IF now THEN isLoaded \cup {src} ELSE isLoaded
    /\ IF src \in isLoaded'
       THEN /\ SendReply(Waiting(src), src)
            /\ playlist_mutex' = (playlist_mutex /\ ~(src = "home" /\ Waiting(src) # {}))
       ELSE NoReply /\ UNCHANGED playlist_mutex
    /\ UNCHANGED <<kind, query, lost, main, search_mutex, s_request, pending>>

(***************************************************************************)
(* playlist_state_changed (playlist_dispatch_if_loaded) or                 *)
(* container_loaded: each handler that waits for src is removed and its    *)
(* request answered, by get_playlist_tracks, which also unlocks, by        *)
(* get_playlist or by get_user_playlists.  A playlist may change its state *)
(* before and after it is loaded.                                          *)
(***************************************************************************)
Dispatch(src) ==
    /\ main = "loop"
    /\ \E now \in BOOLEAN :
         /\ src = "published" => now
         /\ isLoaded' = IF now THEN isLoaded \cup {src} ELSE isLoaded
    /\ IF src \in isLoaded'
       THEN /\ SendReply(Waiting(src), src)
            /\ handlers' = {h \in handlers : h.source # src}
            /\ playlist_mutex' = (playlist_mutex /\ ~(src = "home" /\ Waiting(src) # {}))
       ELSE NoReply /\ UNCHANGED <<handlers, playlist_mutex>>
    /\ UNCHANGED <<kind, query, lost, main, search_mutex, s_request, searches, failed, posts>>

\* inbox_post_complete.
InboxPostComplete(r) ==
    /\ main = "loop"
    /\ r \in posts
    /\ posts' = posts \ {r}
    /\ SendReply({r}, "done") \/ SendReply({r}, "error")
    /\ UNCHANGED <<kind, query, lost, main, locks, s_request, searches, failed, handlers,
                   isLoaded>>

\* The browser closes the connection, or the timeout of 1 s does.
ConnectionLost(r) ==
    /\ main = "loop"
    /\ kind[r] # NULL /\ r \notin lost
    /\ lost' = lost \cup {r}
    /\ UNCHANGED <<kind, query, replies, answer, main, locks, s_request, pending, isLoaded>>

-----------------------------------------------------------------------------
Next ==
    \/ \E r \in Request :
         \/ BadRequest(r) \/ UnknownRequest(r) \/ EditRequest(r) \/ FatalEdit(r)
         \/ PlaylistRequest(r) \/ InboxRequest(r) \/ InboxPostComplete(r)
         \/ ConnectionLost(r)
         \/ \E s \in Query : SearchRequest(r, s)
         \/ \E src \in {"starred", "published"} : UserRequest(r, src)
    \/ \E x \in Search : SearchComplete(x)
    \/ \E src \in Source : Dispatch(src)

SafeSpec == Init /\ [][Next]_vars

\* While the main thread is not stuck, process_events keeps running, and
\* libspotify finishes each search for something and each post, and loads what was
\* asked for.
SearchEnds == \E x \in Search : x.query # Empty /\ SearchComplete(x)
SearchesEnd == WF_vars(SearchEnds)
PostEnds(r) == WF_vars(InboxPostComplete(r))
Loads(src) == WF_vars(Dispatch(src))

Spec == /\ SafeSpec
        /\ SearchesEnd
        /\ \A r \in Request : PostEnds(r)
        /\ \A src \in Source : Loads(src)

-----------------------------------------------------------------------------
(* Properties. *)

Answer == Query \cup Source \cup {"done", "error"}

\* The variables keep their types.
TypeOK ==
    /\ kind \in [Request -> Kind \cup {NULL}]
    /\ query \in [Request -> Query \cup {NULL}]
    /\ replies \in [Request -> Nat]
    /\ answer \in [Request -> Answer \cup {NULL}]
    /\ lost \subseteq Request
    /\ main \in Request \cup {"loop"}
    /\ search_mutex \in BOOLEAN /\ playlist_mutex \in BOOLEAN
    /\ s_request \in Request \cup {NULL}
    /\ searches \subseteq Search
    /\ handlers \subseteq [request : Request, source : Source]
    /\ posts \subseteq Request /\ failed \subseteq Request
    /\ isLoaded \subseteq Source

\* evhttp frees a request when it is replied to: no request is replied to a
\* second time, by no order of handlers, callbacks and lost connections.
AtMostOneReply == \A r \in Request : replies[r] <= 1

\* A browser receives the answer to its own request, although the search
\* results travel through the one global s_request.
OwnAnswer ==
    \A r \in Request : answer[r] # NULL =>
        /\ kind[r] = "search" => answer[r] = query[r]
        /\ kind[r] \in Source => answer[r] = kind[r]
        /\ kind[r] \in {"edit", "inbox", "bad"} => answer[r] \in {"done", "error"}

\* To its browsers the server is an Exchange: each request is answered at most once,
\* as it was asked, and a reply reaches every browser that is still connected.
Browsers == INSTANCE Exchange
ImplementsExchange == Browsers!ESpec

AwaitsHome == \E h \in handlers : h.source = "home"

Fatal == main # "loop" /\ kind[main] = "fatal"

\* A mutex is locked exactly while its operation is under way in libspotify, so
\* that every lock is followed by the callback that unlocks it; or in an edit that
\* never ends.
MutexMatchesPending ==
    /\ search_mutex <=> searches # {}
    /\ playlist_mutex <=> AwaitsHome \/ Fatal

Parked(r) == kind[r] # NULL /\ replies[r] = 0

\* A request that has no answer yet waits for something that is under way and
\* that knows of it; none falls between a handler and a callback.
NothingForgotten ==
    \A r \in Request :
        Parked(r) /\ kind[r] # "unknown" /\ main # r
            => \/ s_request = r /\ searches # {}
               \/ \E h \in handlers : h.request = r
               \/ r \in posts \cup failed

\* Once the playlist has been loaded, nobody waits for it or for playlist_mutex any
\* more: only a search, or an edit that the jukebox does not return from, can stop
\* the server then.
LoadedNeverWaits ==
    "home" \in isLoaded => /\ ~AwaitsHome
                           /\ main # "loop" => kind[main] \in {"search", "fatal"}

Awaiting ==
    {r \in Request : /\ Parked(r) /\ kind[r] # "unknown"
                     /\ r \notin failed /\ query[r] # Empty}

\* While the main thread runs the loop, nothing keeps back the callback that a
\* request waits for: not a mutex, not a lost connection, not another request.
AnswersAreDue ==
    main = "loop" =>
        /\ (\E x \in searches : x.query # Empty) => ENABLED <<SearchEnds>>_vars
        /\ \A r \in posts : ENABLED <<InboxPostComplete(r)>>_vars
        /\ \A src \in Source : Waiting(src) # {} => ENABLED <<Dispatch(src)>>_vars

\* No request that is understood waits for ever: it is answered in the end, unless
\* its search fails or is for nothing, or the main thread stops.
AnswerComes(r) == []<>(r \notin Awaiting \/ main # "loop")
AnswersCome == \A r \in Request : AnswerComes(r)

(* What the documents say, and the code does not do. *)

\* api.h: the main thread needs to go on calling sp_session_process_events.  This
\* is about the mutexes: a request that stops the server by itself is left out.
MainNeverBlocks == main = "loop" \/ Fatal \/ query[main] = Empty
=============================================================================
