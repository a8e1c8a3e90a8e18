--------------------------- MODULE Webserver_proofs ---------------------------
(***************************************************************************)
(* What holds of the answers and the mutexes of the web server for any     *)
(* number of requests and queries, in every behaviour of Webserver.        *)
(***************************************************************************)
EXTENDS Webserver, TLAPS

(***************************************************************************)
(* Each place in which libspotify keeps a request belongs to one kind of   *)
(* request, and what it keeps has not been answered.  That makes the       *)
(* places disjoint, so that no second callback finds a request again.      *)
(***************************************************************************)
NewSilent == \A r \in Request : kind[r] = NULL => replies[r] = 0 /\ answer[r] = NULL

\* search_mutex lets one search through at a time, and s_request is its request.
SearchOwed ==
    /\ \A x, y \in searches : x = y
    /\ \A x \in searches : /\ s_request = x.by
                           /\ kind[x.by] = "search"
                           /\ query[x.by] = x.query
                           /\ replies[x.by] = 0

HandlersOwed ==
    \A h \in handlers : kind[h.request] = h.source /\ replies[h.request] = 0

PostsOwed == \A r \in posts : kind[r] = "inbox" /\ replies[r] = 0

IInv ==
    /\ TypeOK
    /\ AtMostOneReply /\ OwnAnswer /\ MutexMatchesPending
    /\ NewSilent /\ SearchOwed /\ HandlersOwed /\ PostsOwed

LEMMA IInvInit == Init => IInv
<1>. SUFFICES ASSUME Init PROVE IInv
  OBVIOUS
<1>1. TypeOK
  BY DEF Init, TypeOK, Source
<1>2. AtMostOneReply /\ OwnAnswer
  BY DEF Init, AtMostOneReply, OwnAnswer
<1>3. MutexMatchesPending
  BY DEF Init, MutexMatchesPending, AwaitsHome, Fatal
<1>4. NewSilent /\ SearchOwed /\ HandlersOwed /\ PostsOwed
  BY DEF Init, NewSilent, SearchOwed, HandlersOwed, PostsOwed
<1>. QED  BY <1>1, <1>2, <1>3, <1>4 DEF IInv

-----------------------------------------------------------------------------
(* What an answer does, whoever sends it. *)

\* Answers to requests that have none leave nobody with two.
LEMMA ReplyOnce ==
    ASSUME NEW rs, NEW a \in Answer, TypeOK, AtMostOneReply, SendReply(rs, a),
           \A r \in rs : r \in Request /\ replies[r] = 0
    PROVE  /\ replies' \in [Request -> Nat]
           /\ answer' \in [Request -> Answer \cup {NULL}]
           /\ AtMostOneReply'
           /\ \A r \in Request \ rs : replies'[r] = replies[r] /\ answer'[r] = answer[r]
           /\ \A r \in rs : answer'[r] \in {answer[r], a}
  BY DEF TypeOK, AtMostOneReply, SendReply

-----------------------------------------------------------------------------
(* The handlers. *)

\* A request that has just arrived is nowhere yet.
LEMMA Newcomer ==
    ASSUME IInv, NEW r \in Request, kind[r] = NULL
    PROVE  /\ replies[r] = 0 /\ answer[r] = NULL
           /\ \A x \in searches : x.by # r
           /\ \A h \in handlers : h.request # r
           /\ r \notin posts
  BY WebserverAssumption DEF WebserverAssumption, IInv, TypeOK, NewSilent, SearchOwed,
     HandlersOwed, PostsOwed, Kind, Source

\* A request that is answered at once.
LEMMA AnsweredAtOnce ==
    ASSUME IInv, NEW r \in Request, NEW k \in Kind, NEW a \in Answer,
           Arrive(r, k), SendReply({r}, a), k # "search",
           k \in Source => a = k,
           k \notin Source => a \in {"done", "error"},
           UNCHANGED <<query, main, locks, s_request, pending, isLoaded>>
    PROVE  IInv'
<1>1. kind[r] = NULL /\ kind' = [kind EXCEPT ![r] = k]
  BY DEF Arrive
<1>2. UNCHANGED <<query, lost, main, search_mutex, playlist_mutex, s_request, searches, failed,
                  handlers, posts, isLoaded>>
  BY DEF Arrive, locks, pending
<1>3. /\ replies[r] = 0 /\ answer[r] = NULL
      /\ \A x \in searches : x.by # r
      /\ \A h \in handlers : h.request # r
      /\ r \notin posts
  BY <1>1, Newcomer
<1>4. /\ replies' \in [Request -> Nat]
      /\ answer' \in [Request -> Answer \cup {NULL}]
      /\ AtMostOneReply'
      /\ \A q \in Request \ {r} : replies'[q] = replies[q] /\ answer'[q] = answer[q]
      /\ answer'[r] \in {answer[r], a}
  BY <1>3, ReplyOnce DEF IInv
<1>5. TypeOK'
  BY <1>1, <1>2, <1>4 DEF IInv, TypeOK
<1>6. OwnAnswer'
  BY <1>1, <1>2, <1>3, <1>4 DEF IInv, TypeOK, OwnAnswer, Source, Kind
<1>7. MutexMatchesPending'
  <2>1. main = "loop" /\ main' = "loop"
    BY <1>2 DEF Arrive
  <2>. QED  BY <1>2, <2>1 DEF IInv, MutexMatchesPending, AwaitsHome, Fatal
<1>8. NewSilent' /\ SearchOwed' /\ HandlersOwed' /\ PostsOwed'
  BY <1>1, <1>2, <1>3, <1>4, WebserverAssumption
  DEF WebserverAssumption, IInv, TypeOK, NewSilent, SearchOwed, HandlersOwed, PostsOwed, Search
<1>. QED  BY <1>4, <1>5, <1>6, <1>7, <1>8 DEF IInv

\* A request that is not answered now: one that stops the main thread, at a mutex or
\* holding it, one that nobody understands, and one that leaves a handler or a post
\* behind.
LEMMA LeftForLater ==
    ASSUME IInv, NEW r \in Request, NEW k \in Kind, Arrive(r, k), NoReply,
           main' \in {"loop", r},
           UNCHANGED <<search_mutex, s_request, searches, failed, isLoaded>>,
           \A q \in Request \ {r} : query'[q] = query[q],
           query' \in [Request -> Query \cup {NULL}],
           posts' = posts \/ (k = "inbox" /\ posts' = posts \cup {r}),
           \/ UNCHANGED <<handlers, playlist_mutex>> /\ (k = "fatal" => playlist_mutex)
           \/ handlers' = handlers /\ playlist_mutex' = TRUE /\ k = "fatal" /\ main' = r
           \/ /\ k \in Source /\ Register(r, k)
              /\ playlist_mutex' = IF k = "home" THEN TRUE ELSE playlist_mutex
    PROVE  IInv'
<1>1. kind[r] = NULL /\ kind' = [kind EXCEPT ![r] = k] /\ lost' = lost
  BY DEF Arrive
<1>2. /\ replies[r] = 0 /\ answer[r] = NULL
      /\ \A x \in searches : x.by # r
      /\ \A h \in handlers : h.request # r
      /\ r \notin posts
  BY <1>1, Newcomer
<1>3. replies' = replies /\ answer' = answer
  BY DEF NoReply
<1>. DEFINE new == [request |-> r, source |-> k]
<1>4. handlers' = handlers \/ (k \in Source /\ handlers' = handlers \cup {new})
  BY DEF Register
<1>. HIDE DEF new
<1>5. new.request = r /\ new.source = k
  BY DEF new
<1>6. TypeOK'
  <2>1. handlers' \subseteq [request : Request, source : Source]
    BY <1>4 DEF IInv, TypeOK, new
  <2>2. playlist_mutex' \in BOOLEAN
    BY DEF IInv, TypeOK
  <2>3. posts' \subseteq Request /\ main' \in Request \cup {"loop"}
    BY DEF IInv, TypeOK
  <2>4. kind' \in [Request -> Kind \cup {NULL}]
    BY <1>1 DEF IInv, TypeOK
  <2>. QED  BY <1>1, <1>3, <2>1, <2>2, <2>3, <2>4 DEF IInv, TypeOK
<1>7. AtMostOneReply' /\ OwnAnswer'
  BY <1>1, <1>2, <1>3 DEF IInv, TypeOK, AtMostOneReply, OwnAnswer
<1>8. MutexMatchesPending'
  <2>1. search_mutex' <=> searches' # {}
    BY DEF IInv, MutexMatchesPending
  <2>2. playlist_mutex' <=> AwaitsHome' \/ Fatal'
    <3>0. /\ ~Fatal
          /\ Fatal' <=> main' = r /\ k = "fatal"
      BY <1>1, WebserverAssumption
      DEF WebserverAssumption, Arrive, Fatal, IInv, TypeOK
    <3>1. CASE UNCHANGED <<handlers, playlist_mutex>> /\ (k = "fatal" => playlist_mutex)
      BY <3>0, <3>1 DEF IInv, MutexMatchesPending, AwaitsHome
    <3>1a. CASE /\ handlers' = handlers /\ playlist_mutex' = TRUE
                /\ k = "fatal" /\ main' = r
      BY <3>0, <3>1a
    <3>2. CASE Register(r, k) /\ k = "home" /\ playlist_mutex' = TRUE
      <4>1. new \in handlers' /\ new.source = "home"
        BY <1>5, <3>2 DEF Register, new
      <4>. QED  BY <3>2, <4>1 DEF AwaitsHome
    <3>3. CASE /\ k \in Source /\ Register(r, k) /\ k # "home"
               /\ playlist_mutex' = playlist_mutex
      <4>1. AwaitsHome' <=> AwaitsHome
        BY <1>4, <1>5, <3>3 DEF AwaitsHome
      <4>2. k # "fatal"
        BY <3>3 DEF Source
      <4>. QED  BY <3>0, <3>3, <4>1, <4>2 DEF IInv, MutexMatchesPending
    <3>. QED  BY <3>1, <3>1a, <3>2, <3>3
  <2>. QED  BY <2>1, <2>2 DEF MutexMatchesPending
<1>9. NewSilent' /\ SearchOwed'
  BY <1>1, <1>2, <1>3, WebserverAssumption
  DEF WebserverAssumption, IInv, TypeOK, NewSilent, SearchOwed, Search
<1>10. HandlersOwed' /\ PostsOwed'
  <2>1. \A h \in handlers : h.request \in Request /\ h.request # r
    BY <1>2 DEF IInv, TypeOK
  <2>2. HandlersOwed'
    BY <1>1, <1>2, <1>3, <1>4, <1>5, <2>1 DEF IInv, TypeOK, HandlersOwed
  <2>3. PostsOwed'
    BY <1>1, <1>2, <1>3 DEF IInv, TypeOK, PostsOwed
  <2>. QED  BY <2>2, <2>3
<1>. QED  BY <1>6, <1>7, <1>8, <1>9, <1>10 DEF IInv

LEMMA SearchStep ==
    ASSUME IInv, NEW r \in Request, NEW s \in Query, SearchRequest(r, s) PROVE IInv'
<1>. DEFINE new == [by |-> r, query |-> s]
<1>1. /\ Arrive(r, "search") /\ kind[r] = NULL /\ lost' = lost
      /\ kind' = [kind EXCEPT ![r] = "search"]
      /\ query' = [query EXCEPT ![r] = s]
      /\ isLoaded' = isLoaded
  BY DEF SearchRequest, Arrive
<1>2. CASE search_mutex /\ Block(r)
  <2>1. /\ NoReply /\ main' = r
        /\ UNCHANGED <<search_mutex, playlist_mutex, s_request, searches, failed, handlers,
                       posts>>
    BY <1>2 DEF Block, locks, pending
  <2>2. \A q \in Request \ {r} : query'[q] = query[q]
    BY <1>1 DEF IInv, TypeOK
  <2>3. query' \in [Request -> Query \cup {NULL}] /\ "search" \in Kind
    BY <1>1 DEF IInv, TypeOK, Kind
  <2>. QED  BY <1>1, <2>1, <2>2, <2>3, LeftForLater
<1>3. CASE /\ ~search_mutex
           /\ search_mutex' = TRUE
           /\ s_request' = r
           /\ searches' = searches \cup {new}
           /\ main' \in {"loop", r}
           /\ NoReply
           /\ UNCHANGED <<playlist_mutex, failed, handlers, posts>>
  <2>1. searches = {}
    BY <1>3 DEF IInv, MutexMatchesPending
  <2>2. /\ replies[r] = 0 /\ answer[r] = NULL
        /\ \A h \in handlers : h.request # r
        /\ r \notin posts
    BY <1>1, Newcomer
  <2>3. replies' = replies /\ answer' = answer
    BY <1>3 DEF NoReply
  <2>4. TypeOK'
    BY <1>1, <1>3, <2>1, <2>3 DEF IInv, TypeOK, Search, Kind
  <2>5. AtMostOneReply' /\ OwnAnswer'
    BY <1>1, <2>2, <2>3 DEF IInv, TypeOK, AtMostOneReply, OwnAnswer
  <2>6. MutexMatchesPending'
    <3>1. AwaitsHome' <=> AwaitsHome
      BY <1>3 DEF AwaitsHome
    <3>2. search_mutex' /\ searches' # {}
      BY <1>3
    <3>3. ~Fatal /\ ~Fatal'
      BY <1>1, <1>3 DEF Arrive, Fatal, IInv, TypeOK
    <3>. QED  BY <1>3, <3>1, <3>2, <3>3 DEF IInv, MutexMatchesPending
  <2>7. NewSilent' /\ HandlersOwed' /\ PostsOwed'
    BY <1>1, <1>3, <2>2, <2>3, WebserverAssumption
    DEF WebserverAssumption, IInv, TypeOK, NewSilent, HandlersOwed, PostsOwed
  <2>8. SearchOwed'
    BY <1>1, <1>3, <2>1, <2>2, <2>3 DEF IInv, TypeOK, SearchOwed
  <2>. QED  BY <2>4, <2>5, <2>6, <2>7, <2>8 DEF IInv
<1>. QED  BY <1>2, <1>3 DEF SearchRequest

LEMMA OtherRequestSteps ==
    ASSUME IInv, NEW r \in Request, NEW src \in {"starred", "published"},
           \/ BadRequest(r) \/ UnknownRequest(r) \/ EditRequest(r) \/ FatalEdit(r)
           \/ PlaylistRequest(r) \/ InboxRequest(r) \/ UserRequest(r, src)
    PROVE  IInv'
<1>1. /\ {"bad", "unknown", "edit", "fatal", "inbox", "home", src} \subseteq Kind
      /\ {"done", "error", "home", src} \subseteq Answer
      /\ "home" \in Source /\ src \in Source /\ src # "home"
      /\ {"bad", "unknown", "edit", "inbox"} \cap Source = {}
      /\ "search" \notin {"bad", "unknown", "edit", "fatal", "inbox", "home", src}
      /\ "fatal" \notin {"bad", "unknown", "edit", "inbox", "home", src}
  BY DEF Kind, Answer, Source
<1>2. query \in [Request -> Query \cup {NULL}] /\ main \in Request \cup {"loop"}
  BY DEF IInv, TypeOK
<1>3. CASE BadRequest(r)
  BY <1>1, <1>3, AnsweredAtOnce DEF BadRequest
<1>4. CASE UnknownRequest(r)
  BY <1>1, <1>2, <1>4, LeftForLater DEF UnknownRequest, Arrive, locks, pending
<1>5. CASE EditRequest(r)
  <2>1. CASE Block(r)
    BY <1>1, <1>2, <1>5, <2>1, LeftForLater DEF EditRequest, Block, locks, pending
  <2>2. CASE ~Block(r)
    BY <1>1, <1>5, <2>2, AnsweredAtOnce DEF EditRequest
  <2>. QED  BY <2>1, <2>2
<1>5a. CASE FatalEdit(r)
  <2>1. /\ Arrive(r, "fatal") /\ NoReply /\ main' = r
        /\ UNCHANGED <<query, isLoaded, search_mutex, s_request, searches, failed, handlers,
                       posts>>
        /\ playlist_mutex' = TRUE
    BY <1>5a DEF FatalEdit, Block, locks, pending, IInv, TypeOK
  <2>. QED  BY <1>1, <1>2, <2>1, LeftForLater
<1>6. CASE PlaylistRequest(r)
  <2>1. CASE Block(r)
    BY <1>1, <1>2, <1>6, <2>1, LeftForLater DEF PlaylistRequest, Block, locks, pending
  <2>2. CASE ~Block(r) /\ "home" \in isLoaded
    BY <1>1, <1>6, <2>2, AnsweredAtOnce DEF PlaylistRequest, locks, pending
  <2>3. CASE ~Block(r) /\ "home" \notin isLoaded
    BY <1>1, <1>2, <1>6, <2>3, LeftForLater DEF PlaylistRequest, Arrive
  <2>. QED  BY <2>1, <2>2, <2>3
<1>7. CASE InboxRequest(r)
  <2>1. CASE UNCHANGED posts /\ ~NoReply
    BY <1>1, <1>7, <2>1, AnsweredAtOnce DEF InboxRequest, locks, pending
  <2>2. CASE NoReply
    BY <1>1, <1>2, <1>7, <2>2, LeftForLater DEF InboxRequest, Arrive, locks
  <2>. QED  BY <1>7, <2>1, <2>2 DEF InboxRequest
<1>8. CASE UserRequest(r, src)
  <2>1. CASE src \in isLoaded
    BY <1>1, <1>8, <2>1, AnsweredAtOnce DEF UserRequest, locks, pending
  <2>2. CASE src \notin isLoaded
    BY <1>1, <1>2, <1>8, <2>2, LeftForLater DEF UserRequest, Arrive, locks
  <2>. QED  BY <2>1, <2>2
<1>. QED  BY <1>3, <1>4, <1>5, <1>5a, <1>6, <1>7, <1>8

-----------------------------------------------------------------------------
(* The callbacks. *)

LEMMA SearchCompleteStep ==
    ASSUME IInv, NEW x \in Search, SearchComplete(x) PROVE IInv'
<1>1. /\ x \in searches /\ searches' = searches \ {x} /\ search_mutex' = FALSE
      /\ UNCHANGED <<kind, query, lost, main, playlist_mutex, s_request, handlers, posts,
                     isLoaded>>
  BY DEF SearchComplete
<1>2. /\ s_request = x.by /\ x.by \in Request /\ x.query \in Query
      /\ kind[x.by] = "search" /\ query[x.by] = x.query /\ replies[x.by] = 0
      /\ searches' = {}
  BY <1>1 DEF IInv, SearchOwed, Search
<1>3. \/ SendReply({x.by}, x.query) /\ failed' = failed
      \/ NoReply /\ failed' = failed \cup {x.by}
  BY <1>2 DEF SearchComplete
<1>4. /\ replies' \in [Request -> Nat]
      /\ answer' \in [Request -> Answer \cup {NULL}]
      /\ AtMostOneReply'
      /\ \A q \in Request \ {x.by} : replies'[q] = replies[q] /\ answer'[q] = answer[q]
      /\ answer'[x.by] \in {answer[x.by], x.query}
  <2>1. CASE SendReply({x.by}, x.query)
    BY <1>2, <2>1, ReplyOnce DEF IInv, Answer
  <2>2. CASE NoReply
    BY <2>2 DEF NoReply, IInv, TypeOK, AtMostOneReply
  <2>. QED  BY <1>3, <2>1, <2>2
<1>5. TypeOK'
  BY <1>1, <1>2, <1>3, <1>4 DEF IInv, TypeOK
<1>6. OwnAnswer'
  BY <1>1, <1>2, <1>4 DEF IInv, OwnAnswer, Source
<1>7. MutexMatchesPending'
  <2>1. (AwaitsHome' <=> AwaitsHome) /\ (Fatal' <=> Fatal)
    BY <1>1 DEF AwaitsHome, Fatal
  <2>. QED  BY <1>1, <1>2, <2>1 DEF IInv, MutexMatchesPending
<1>8. NewSilent' /\ SearchOwed'
  BY <1>1, <1>2, <1>4, WebserverAssumption
  DEF WebserverAssumption, IInv, NewSilent, SearchOwed, Kind
<1>9. HandlersOwed' /\ PostsOwed'
  BY <1>1, <1>2, <1>4 DEF IInv, TypeOK, HandlersOwed, PostsOwed, Source
<1>. QED  BY <1>4, <1>5, <1>6, <1>7, <1>8, <1>9 DEF IInv

LEMMA DispatchStep ==
    ASSUME IInv, NEW src \in Source, Dispatch(src) PROVE IInv'
<1>1. UNCHANGED <<kind, query, lost, main, search_mutex, s_request, searches, failed, posts>>
  BY DEF Dispatch
<1>2. isLoaded' \subseteq Source
  BY DEF Dispatch, IInv, TypeOK
<1>3. CASE src \notin isLoaded'
  <2>1. UNCHANGED <<replies, answer, handlers, playlist_mutex>>
    BY <1>3 DEF Dispatch, NoReply
  <2>2. TypeOK' /\ AtMostOneReply' /\ OwnAnswer'
    BY <1>1, <1>2, <2>1 DEF IInv, TypeOK, AtMostOneReply, OwnAnswer
  <2>3. MutexMatchesPending'
    BY <1>1, <2>1 DEF IInv, MutexMatchesPending, AwaitsHome, Fatal
  <2>4. NewSilent' /\ SearchOwed' /\ HandlersOwed' /\ PostsOwed'
    BY <1>1, <2>1 DEF IInv, NewSilent, SearchOwed, HandlersOwed, PostsOwed
  <2>. QED  BY <2>2, <2>3, <2>4 DEF IInv
<1>4. CASE src \in isLoaded'
  <2>1. /\ SendReply(Waiting(src), src)
        /\ handlers' = {h \in handlers : h.source # src}
        /\ playlist_mutex' = (playlist_mutex /\ ~(src = "home" /\ Waiting(src) # {}))
    BY <1>4 DEF Dispatch
  <2>2. \A r \in Waiting(src) : r \in Request /\ replies[r] = 0 /\ kind[r] = src
    BY DEF IInv, TypeOK, HandlersOwed, Waiting
  <2>3. \A h \in handlers' : h.request \notin Waiting(src) /\ h \in handlers
    BY <2>1, <2>2 DEF IInv, HandlersOwed
  <2>4. /\ replies' \in [Request -> Nat]
        /\ answer' \in [Request -> Answer \cup {NULL}]
        /\ AtMostOneReply'
        /\ \A r \in Request \ Waiting(src) : replies'[r] = replies[r] /\ answer'[r] = answer[r]
        /\ \A r \in Waiting(src) : answer'[r] \in {answer[r], src}
    BY <2>1, <2>2, ReplyOnce DEF IInv, Answer
  <2>5. playlist_mutex' \in BOOLEAN
    BY <2>1
  <2>6. TypeOK'
    BY <1>1, <1>2, <2>3, <2>4, <2>5 DEF IInv, TypeOK
  <2>7. OwnAnswer'
    BY <1>1, <2>2, <2>4 DEF IInv, OwnAnswer, Source
  <2>8. MutexMatchesPending'
    <3>1. AwaitsHome <=> Waiting("home") # {}
      BY DEF AwaitsHome, Waiting
    <3>2. AwaitsHome' <=> AwaitsHome /\ src # "home"
      BY <2>1 DEF AwaitsHome
    <3>3. ~Fatal /\ ~Fatal'
      BY <1>1 DEF Dispatch, Fatal
    <3>. QED  BY <1>1, <2>1, <3>1, <3>2, <3>3 DEF IInv, MutexMatchesPending
  <2>9. NewSilent' /\ SearchOwed'
    BY <1>1, <2>2, <2>4, WebserverAssumption
    DEF WebserverAssumption, IInv, TypeOK, NewSilent, SearchOwed, Search, Kind, Source
  <2>10. HandlersOwed' /\ PostsOwed'
    BY <1>1, <2>2, <2>3, <2>4 DEF IInv, TypeOK, HandlersOwed, PostsOwed, Source
  <2>. QED  BY <2>4, <2>6, <2>7, <2>8, <2>9, <2>10 DEF IInv
<1>. QED  BY <1>3, <1>4

LEMMA InboxPostStep ==
    ASSUME IInv, NEW r \in Request, InboxPostComplete(r) PROVE IInv'
<1>1. /\ r \in posts /\ posts' = posts \ {r}
      /\ UNCHANGED <<kind, query, lost, main, search_mutex, playlist_mutex, s_request, searches,
                     failed, handlers, isLoaded>>
  BY DEF InboxPostComplete, locks
<1>2. kind[r] = "inbox" /\ replies[r] = 0
  BY <1>1 DEF IInv, PostsOwed
<1>3. PICK a \in {"done", "error"} : SendReply({r}, a)
  BY DEF InboxPostComplete
<1>4. /\ replies' \in [Request -> Nat]
      /\ answer' \in [Request -> Answer \cup {NULL}]
      /\ AtMostOneReply'
      /\ \A q \in Request \ {r} : replies'[q] = replies[q] /\ answer'[q] = answer[q]
      /\ answer'[r] \in {answer[r], a}
  BY <1>2, <1>3, ReplyOnce DEF IInv, Answer
<1>5. TypeOK'
  BY <1>1, <1>4 DEF IInv, TypeOK
<1>6. OwnAnswer'
  BY <1>1, <1>2, <1>4 DEF IInv, OwnAnswer, Source
<1>7. MutexMatchesPending'
  BY <1>1 DEF IInv, MutexMatchesPending, AwaitsHome, Fatal
<1>8. NewSilent' /\ SearchOwed'
  BY <1>1, <1>2, <1>4, WebserverAssumption
  DEF WebserverAssumption, IInv, TypeOK, NewSilent, SearchOwed, Search, Kind
<1>9. HandlersOwed' /\ PostsOwed'
  BY <1>1, <1>2, <1>4 DEF IInv, TypeOK, HandlersOwed, PostsOwed, Source
<1>. QED  BY <1>4, <1>5, <1>6, <1>7, <1>8, <1>9 DEF IInv

LEMMA ConnectionLostStep ==
    ASSUME IInv, NEW r \in Request, ConnectionLost(r) PROVE IInv'
<1>1. /\ lost' = lost \cup {r}
      /\ UNCHANGED <<kind, query, replies, answer, main, search_mutex, playlist_mutex,
                     s_request, searches, failed, handlers, posts, isLoaded>>
  BY DEF ConnectionLost, locks, pending
<1>2. TypeOK' /\ AtMostOneReply' /\ OwnAnswer'
  BY <1>1 DEF IInv, TypeOK, AtMostOneReply, OwnAnswer
<1>3. MutexMatchesPending'
  BY <1>1 DEF IInv, MutexMatchesPending, AwaitsHome, Fatal
<1>4. NewSilent' /\ SearchOwed' /\ HandlersOwed' /\ PostsOwed'
  BY <1>1 DEF IInv, NewSilent, SearchOwed, HandlersOwed, PostsOwed
<1>. QED  BY <1>2, <1>3, <1>4 DEF IInv

-----------------------------------------------------------------------------
LEMMA IInvStep == IInv /\ [Next]_vars => IInv'
<1>. SUFFICES ASSUME IInv, [Next]_vars PROVE IInv'
  OBVIOUS
<1>1. CASE UNCHANGED vars
  <2>1. TypeOK' /\ AtMostOneReply' /\ OwnAnswer'
    BY <1>1 DEF vars, locks, pending, IInv, TypeOK, AtMostOneReply, OwnAnswer
  <2>2. MutexMatchesPending'
    BY <1>1 DEF vars, locks, pending, IInv, MutexMatchesPending, AwaitsHome, Fatal
  <2>3. NewSilent' /\ SearchOwed' /\ HandlersOwed' /\ PostsOwed'
    BY <1>1 DEF vars, pending, IInv, NewSilent, SearchOwed, HandlersOwed, PostsOwed
  <2>. QED  BY <2>1, <2>2, <2>3 DEF IInv
<1>2. CASE Next
  BY <1>2, SearchStep, OtherRequestSteps, SearchCompleteStep, DispatchStep, InboxPostStep,
     ConnectionLostStep
  DEF Next
<1>. QED  BY <1>1, <1>2

LEMMA SafeIInv == SafeSpec => []IInv
  BY IInvInit, IInvStep, PTL DEF SafeSpec

\* The variables of the web server keep their types.
THEOREM WebTyped == SafeSpec => []TypeOK
<1>1. IInv => TypeOK
  BY DEF IInv
<1>. QED  BY <1>1, SafeIInv, PTL

\* No order of handlers, callbacks and lost connections answers a request twice.
THEOREM AnswersAtMostOnce == SafeSpec => []AtMostOneReply
<1>1. IInv => AtMostOneReply
  BY DEF IInv
<1>. QED  BY <1>1, SafeIInv, PTL

\* What a browser receives is the answer to what it asked for.
THEOREM AnswersItsOwn == SafeSpec => []OwnAnswer
<1>1. IInv => OwnAnswer
  BY DEF IInv
<1>. QED  BY <1>1, SafeIInv, PTL

\* Each mutex is locked exactly while the operation that unlocks it is under way.
THEOREM LocksAreOwed == SafeSpec => []MutexMatchesPending
<1>1. IInv => MutexMatchesPending
  BY DEF IInv
<1>. QED  BY <1>1, SafeIInv, PTL

-----------------------------------------------------------------------------
(* Nobody is forgotten. *)

Kept(r) == \/ s_request = r /\ searches # {}
           \/ \E h \in handlers : h.request = r
           \/ r \in posts \cup failed

\* Who was parked before a step and is kept through it, is still kept.
LEMMA ForgetsNone ==
    ASSUME IInv, NothingForgotten, NEW r \in Request,
           kind'[r] = kind[r], replies'[r] >= replies[r], main \in {"loop", main'},
           Kept(r) => Kept(r)' \/ replies'[r] # 0,
           Parked(r)', kind'[r] # "unknown", main' # r
    PROVE  Kept(r)'
<1>1. replies[r] = 0 /\ kind[r] # NULL /\ replies'[r] = 0
  BY DEF Parked, IInv, TypeOK
<1>2. main # r
  BY WebserverAssumption DEF WebserverAssumption
<1>3. Kept(r)
  BY <1>1, <1>2 DEF NothingForgotten, Kept, Parked
<1>. QED  BY <1>1, <1>3

LEMMA ArrivalForgetsNone ==
    ASSUME IInv, NothingForgotten, NEW a \in Request, NEW k \in Kind, Arrive(a, k),
           \A r \in Request : replies'[r] >= replies[r],
           handlers \subseteq handlers', posts \subseteq posts', failed \subseteq failed',
           \/ UNCHANGED <<s_request, searches>>
           \/ searches = {},
           k = "unknown" \/ main' = a \/ replies'[a] # 0 \/ Kept(a)'
    PROVE  NothingForgotten'
<1>. SUFFICES ASSUME NEW r \in Request, Parked(r)', kind'[r] # "unknown", main' # r
              PROVE  Kept(r)'
  BY DEF NothingForgotten, Kept, Parked
<1>1. kind' = [kind EXCEPT ![a] = k] /\ main = "loop"
  BY DEF Arrive
<1>2. CASE r = a
  BY <1>1, <1>2 DEF Parked, IInv, TypeOK
<1>3. CASE r # a
  <2>1. kind'[r] = kind[r]
    BY <1>1, <1>3 DEF IInv, TypeOK
  <2>2. Kept(r) => Kept(r)'
    BY DEF Kept
  <2>. QED  BY <1>1, <2>1, <2>2, ForgetsNone
<1>. QED  BY <1>2, <1>3

LEMMA NothingForgottenStep ==
    ASSUME IInv, NothingForgotten, [Next]_vars
    PROVE  NothingForgotten'
<1>0. replies \in [Request -> Nat]
  BY DEF IInv, TypeOK
<1>1. CASE UNCHANGED vars
  BY <1>1 DEF vars, pending, NothingForgotten, Parked
<1>2. ASSUME NEW a \in Request, NEW s \in Query, SearchRequest(a, s)
      PROVE  NothingForgotten'
  <2>1. Arrive(a, "search") /\ NoReply /\ "search" \in Kind
    BY <1>2 DEF SearchRequest, Block, Kind
  <2>2. CASE search_mutex /\ Block(a)
    BY <1>0, <2>1, <2>2, ArrivalForgetsNone DEF Block, pending, NoReply
  <2>3. CASE ~search_mutex
    <3>1. /\ searches = {} /\ s_request' = a /\ searches' # {}
          /\ UNCHANGED <<failed, handlers, posts>>
      BY <1>2, <2>3 DEF SearchRequest, IInv, MutexMatchesPending
    <3>2. Kept(a)'
      BY <3>1 DEF Kept
    <3>. QED  BY <1>0, <2>1, <3>1, <3>2, ArrivalForgetsNone DEF NoReply
  <2>. QED  BY <1>2, <2>2, <2>3 DEF SearchRequest
<1>3. ASSUME NEW a \in Request, NEW k \in Kind, Arrive(a, k),
             UNCHANGED <<s_request, searches, failed, posts>>, handlers' = handlers,
             \/ NoReply /\ (k = "unknown" \/ main' = a)
             \/ \E x \in Answer : SendReply({a}, x)
      PROVE  NothingForgotten'
  <2>1. CASE NoReply /\ (k = "unknown" \/ main' = a)
    <3>1. \A r \in Request : replies'[r] >= replies[r]
      BY <1>0, <2>1 DEF NoReply
    <3>. QED  BY <1>3, <2>1, <3>1, ArrivalForgetsNone
  <2>2. CASE \E x \in Answer : SendReply({a}, x)
    <3>1. \A r \in Request : replies'[r] >= replies[r]
      BY <1>0, <2>2 DEF SendReply
    <3>2. replies'[a] # 0
      BY <1>0, <2>2 DEF SendReply
    <3>. QED  BY <1>3, <3>1, <3>2, ArrivalForgetsNone
  <2>. QED  BY <1>3, <2>1, <2>2
<1>4. ASSUME NEW a \in Request, NEW k \in Kind, Arrive(a, k), NoReply, Register(a, k),
             UNCHANGED <<s_request, searches, failed, posts>>
      PROVE  NothingForgotten'
  <2>1. Kept(a)'
    <3>1. [request |-> a, source |-> k] \in handlers'
      BY <1>4 DEF Register
    <3>2. [request |-> a, source |-> k].request = a
      OBVIOUS
    <3>. QED  BY <3>1, <3>2 DEF Kept
  <2>. QED  BY <1>0, <1>4, <2>1, ArrivalForgetsNone DEF NoReply, Register
<1>5. /\ {"bad", "unknown", "edit", "fatal", "inbox"} \subseteq Kind
      /\ {"home", "starred", "published"} \subseteq Kind
      /\ {"done", "error", "home", "starred", "published"} \subseteq Answer
  BY DEF Kind, Answer, Source
<1>6. ASSUME NEW a \in Request, BadRequest(a) \/ UnknownRequest(a) PROVE NothingForgotten'
  BY <1>3, <1>5, <1>6 DEF BadRequest, UnknownRequest, pending
<1>7. ASSUME NEW a \in Request, EditRequest(a) PROVE NothingForgotten'
  BY <1>3, <1>5, <1>7 DEF EditRequest, Block, pending
<1>7a. ASSUME NEW a \in Request, FatalEdit(a) PROVE NothingForgotten'
  <2>1. /\ Arrive(a, "fatal") /\ NoReply /\ main' = a /\ handlers' = handlers
        /\ UNCHANGED <<s_request, searches, failed, posts>>
    BY <1>7a DEF FatalEdit, Block, pending
  <2>. QED  BY <1>3, <1>5, <2>1
<1>8. ASSUME NEW a \in Request, PlaylistRequest(a) PROVE NothingForgotten'
  <2>1. CASE Block(a)
    BY <1>3, <1>5, <1>8, <2>1 DEF PlaylistRequest, Block, pending
  <2>2. CASE ~Block(a) /\ "home" \in isLoaded
    BY <1>3, <1>5, <1>8, <2>2 DEF PlaylistRequest
  <2>3. CASE ~Block(a) /\ "home" \notin isLoaded
    BY <1>4, <1>5, <1>8, <2>3 DEF PlaylistRequest
  <2>. QED  BY <2>1, <2>2, <2>3
<1>9. ASSUME NEW a \in Request, NEW src \in {"starred", "published"}, UserRequest(a, src)
      PROVE  NothingForgotten'
  <2>1. CASE src \in isLoaded
    BY <1>3, <1>5, <1>9, <2>1 DEF UserRequest
  <2>2. CASE src \notin isLoaded
    BY <1>4, <1>5, <1>9, <2>2 DEF UserRequest
  <2>. QED  BY <2>1, <2>2
<1>10. ASSUME NEW a \in Request, InboxRequest(a) PROVE NothingForgotten'
  <2>1. CASE \E x \in Answer : SendReply({a}, x) /\ UNCHANGED posts
    BY <1>3, <1>5, <1>10, <2>1 DEF InboxRequest
  <2>2. CASE posts' = posts \cup {a} /\ NoReply
    <3>1. Kept(a)'
      BY <2>2 DEF Kept
    <3>2. \A r \in Request : replies'[r] >= replies[r]
      BY <1>0, <2>2 DEF NoReply
    <3>. QED  BY <1>5, <1>10, <2>2, <3>1, <3>2, ArrivalForgetsNone DEF InboxRequest
  <2>. QED  BY <1>5, <1>10, <2>1, <2>2 DEF InboxRequest
<1>11. ASSUME NEW x \in Search, SearchComplete(x) PROVE NothingForgotten'
  <2>. SUFFICES ASSUME NEW r \in Request, Parked(r)', kind'[r] # "unknown", main' # r
                PROVE  Kept(r)'
    BY DEF NothingForgotten, Kept, Parked
  <2>1. /\ kind' = kind /\ main' = main /\ main = "loop"
        /\ UNCHANGED <<handlers, posts, s_request>>
    BY <1>11 DEF SearchComplete
  <2>2. \/ SendReply({s_request}, x.query) /\ failed' = failed
        \/ NoReply /\ failed' = failed \cup {s_request}
    BY <1>11 DEF SearchComplete
  <2>3. replies'[r] >= replies[r] /\ (r = s_request => Kept(r)' \/ replies'[r] # 0)
    BY <1>0, <2>2 DEF SendReply, NoReply, Kept
  <2>4. r # s_request => (Kept(r) => Kept(r)')
    BY <2>1, <2>2 DEF Kept
  <2>. QED  BY <2>1, <2>3, <2>4, ForgetsNone
<1>12. ASSUME NEW src \in Source, Dispatch(src) PROVE NothingForgotten'
  <2>. SUFFICES ASSUME NEW r \in Request, Parked(r)', kind'[r] # "unknown", main' # r
                PROVE  Kept(r)'
    BY DEF NothingForgotten, Kept, Parked
  <2>1. /\ kind' = kind /\ main' = main /\ main = "loop"
        /\ UNCHANGED <<s_request, searches, failed, posts>>
    BY <1>12 DEF Dispatch
  <2>2. CASE src \notin isLoaded'
    BY <1>0, <1>12, <2>1, <2>2, ForgetsNone DEF Dispatch, NoReply, Kept
  <2>3. CASE src \in isLoaded'
    <3>1. SendReply(Waiting(src), src) /\ handlers' = {h \in handlers : h.source # src}
      BY <1>12, <2>3 DEF Dispatch
    <3>2. replies'[r] >= replies[r] /\ (r \in Waiting(src) => replies'[r] # 0)
      BY <1>0, <3>1 DEF SendReply
    <3>3. r \notin Waiting(src) => (Kept(r) => Kept(r)')
      BY <2>1, <3>1 DEF Kept, Waiting
    <3>. QED  BY <2>1, <3>2, <3>3, ForgetsNone
  <2>. QED  BY <2>2, <2>3
<1>13. ASSUME NEW a \in Request, InboxPostComplete(a) PROVE NothingForgotten'
  <2>. SUFFICES ASSUME NEW r \in Request, Parked(r)', kind'[r] # "unknown", main' # r
                PROVE  Kept(r)'
    BY DEF NothingForgotten, Kept, Parked
  <2>1. /\ kind' = kind /\ main' = main /\ main = "loop" /\ posts' = posts \ {a}
        /\ UNCHANGED <<s_request, searches, failed, handlers>>
    BY <1>13 DEF InboxPostComplete
  <2>2. replies'[r] >= replies[r] /\ (r = a => replies'[r] # 0)
    BY <1>0, <1>13 DEF InboxPostComplete, SendReply
  <2>3. r # a => (Kept(r) => Kept(r)')
    BY <2>1 DEF Kept
  <2>. QED  BY <2>1, <2>2, <2>3, ForgetsNone
<1>14. ASSUME NEW a \in Request, ConnectionLost(a) PROVE NothingForgotten'
  BY <1>14 DEF ConnectionLost, pending, NothingForgotten, Parked
<1>. QED  BY <1>1, <1>2, <1>6, <1>7, <1>7a, <1>8, <1>9, <1>10, <1>11, <1>12, <1>13, <1>14
          DEF Next

\* A request without an answer is always known to something that is under way.
THEOREM ForgetsNobody == SafeSpec => []NothingForgotten
<1>1. Init => NothingForgotten
  BY DEF Init, NothingForgotten, Parked
<1>2. IInv /\ NothingForgotten /\ [Next]_vars => NothingForgotten'
  BY NothingForgottenStep
<1>. QED  BY <1>1, <1>2, SafeIInv, PTL DEF SafeSpec

-----------------------------------------------------------------------------
(* The playlist that is loaded does not block. *)

\* Nobody waits for a playlist that is there.
AwaitedIsAbsent == AwaitsHome => "home" \notin isLoaded

LEMMA AwaitedStep ==
    ASSUME IInv, AwaitedIsAbsent, [Next]_vars
    PROVE  AwaitedIsAbsent'
<1>1. ASSUME NEW a \in Request, PlaylistRequest(a) PROVE AwaitedIsAbsent'
  BY <1>1 DEF PlaylistRequest, Block, pending, AwaitedIsAbsent, AwaitsHome
<1>2. ASSUME NEW a \in Request, NEW src \in {"starred", "published"}, UserRequest(a, src)
      PROVE  AwaitedIsAbsent'
  BY <1>2 DEF UserRequest, Register, AwaitedIsAbsent, AwaitsHome
<1>3. ASSUME NEW src \in Source, Dispatch(src) PROVE AwaitedIsAbsent'
  <2>1. CASE src \in isLoaded'
    BY <1>3, <2>1 DEF Dispatch, AwaitedIsAbsent, AwaitsHome
  <2>2. CASE src \notin isLoaded'
    BY <1>3, <2>2 DEF Dispatch, AwaitedIsAbsent, AwaitsHome
  <2>. QED  BY <2>1, <2>2
<1>4. CASE handlers' = handlers /\ isLoaded' = isLoaded
  BY <1>4 DEF AwaitedIsAbsent, AwaitsHome
<1>. QED  BY <1>1, <1>2, <1>3, <1>4
          DEF Next, BadRequest, UnknownRequest, EditRequest, FatalEdit, InboxRequest,
              InboxPostComplete, ConnectionLost, SearchRequest, SearchComplete, Block, vars,
              pending

LEMMA SafeAwaited == SafeSpec => []AwaitedIsAbsent
<1>1. Init => AwaitedIsAbsent
  BY DEF Init, AwaitedIsAbsent, AwaitsHome
<1>2. IInv /\ AwaitedIsAbsent /\ [Next]_vars => AwaitedIsAbsent'
  BY AwaitedStep
<1>. QED  BY <1>1, <1>2, SafeIInv, PTL DEF SafeSpec

-----------------------------------------------------------------------------
(* What stops the server. *)

\* The request that stops the main thread has met a mutex of another request that
\* waits for libspotify (a second search, or a request for a playlist not yet
\* there), or it cannot be done: a search for nothing, or a fatal edit.
StopsForAReason ==
    main # "loop" =>
        \/ kind[main] = "search" /\ (query[main] = Empty \/ \E x \in searches : x.by # main)
        \/ /\ kind[main] \in {"edit", "home"}
           /\ \E h \in handlers : h.source = "home" /\ h.request # main
        \/ kind[main] = "fatal"

LEMMA StopStep ==
    ASSUME IInv, StopsForAReason, [Next]_vars
    PROVE  StopsForAReason'
<1>1. CASE main # "loop"
  <2>1. UNCHANGED vars
    BY <1>1 DEF Next, Arrive, BadRequest, UnknownRequest, EditRequest, FatalEdit,
                PlaylistRequest, InboxRequest, UserRequest, SearchRequest, InboxPostComplete,
                ConnectionLost, SearchComplete, Dispatch
  <2>. QED  BY <2>1 DEF vars, pending, StopsForAReason
<1>2. CASE main' = "loop"
  BY <1>2 DEF StopsForAReason
<1>3. NULL # "search" /\ NULL # "home"
  BY WebserverAssumption DEF WebserverAssumption, Kind, Source
<1>4. ASSUME main = "loop", main' # "loop", NEW a \in Request, NEW s \in Query,
             SearchRequest(a, s)
      PROVE  StopsForAReason'
  <2>1. main' = a
    BY <1>4 DEF SearchRequest, Block
  <2>2. kind[a] = NULL /\ kind'[a] = "search" /\ query'[a] = s
    BY <1>4 DEF SearchRequest, Arrive, IInv, TypeOK
  <2>3. CASE search_mutex
    <3>1. searches' = searches
      BY <1>4, <2>3 DEF SearchRequest, Block, pending
    <3>2. PICK x \in searches : TRUE
      BY <2>3 DEF IInv, MutexMatchesPending
    <3>3. kind[x.by] = "search"
      BY <3>2 DEF IInv, SearchOwed
    <3>4. x \in searches' /\ x.by # a
      BY <3>1, <3>2, <3>3, <2>2, <1>3
    <3>. QED  BY <2>1, <2>2, <3>4 DEF StopsForAReason
  <2>4. CASE ~search_mutex
    <3>1. s = Empty
      BY <1>4, <2>4 DEF SearchRequest
    <3>. QED  BY <2>1, <2>2, <3>1 DEF StopsForAReason
  <2>. QED  BY <2>3, <2>4
<1>5. ASSUME main = "loop", main' # "loop", NEW a \in Request,
             EditRequest(a) \/ PlaylistRequest(a)
      PROVE  StopsForAReason'
  <2>1. playlist_mutex /\ main' = a /\ handlers' = handlers
    BY <1>5 DEF EditRequest, PlaylistRequest, Block, pending
  <2>2. kind[a] = NULL /\ kind'[a] \in {"edit", "home"}
    BY <1>5 DEF EditRequest, PlaylistRequest, Arrive, IInv, TypeOK
  <2>3. \E h \in handlers : h.source = "home" /\ h.request # a
    <3>1. PICK h \in handlers : h.source = "home"
      BY <1>5, <2>1 DEF IInv, MutexMatchesPending, AwaitsHome, Fatal
    <3>2. kind[h.request] = "home"
      BY <3>1 DEF IInv, HandlersOwed
    <3>. QED  BY <3>1, <3>2, <2>2, <1>3
  <2>. QED  BY <2>1, <2>2, <2>3 DEF StopsForAReason
<1>6. ASSUME main = "loop", NEW a \in Request, FatalEdit(a)
      PROVE  StopsForAReason'
  <2>1. main' = a /\ kind'[a] = "fatal"
    BY <1>6 DEF FatalEdit, Arrive, Block, IInv, TypeOK
  <2>. QED  BY <2>1 DEF StopsForAReason
<1>. QED  BY <1>1, <1>2, <1>4, <1>5, <1>6
          DEF Next, BadRequest, UnknownRequest, InboxRequest, UserRequest, InboxPostComplete,
              ConnectionLost, SearchComplete, Dispatch, vars

\* The only ways to stop the server: a mutex that another request holds, a search
\* for nothing and an edit that cannot be done.  No callback, no lost connection and
\* no other sequence of requests makes the main thread stop.
THEOREM OnlyTheseStop == SafeSpec => []StopsForAReason
<1>1. Init => StopsForAReason
  BY DEF Init, StopsForAReason
<1>2. IInv /\ StopsForAReason /\ [Next]_vars => StopsForAReason'
  BY StopStep
<1>. QED  BY <1>1, <1>2, SafeIInv, PTL DEF SafeSpec

\* After the playlist is loaded nobody waits for it any more: what still stops the
\* server is a search, or an edit that the jukebox does not return from.
THEOREM LoadedIsWaitedForByNone == SafeSpec => []LoadedNeverWaits
<1>1. AwaitedIsAbsent /\ StopsForAReason => LoadedNeverWaits
  BY DEF AwaitedIsAbsent, StopsForAReason, LoadedNeverWaits, AwaitsHome
<1>. QED  BY <1>1, SafeAwaited, OnlyTheseStop, PTL

\* Browsers that send no search while another one is under way, and nothing about the
\* playlist while it is being loaded; and that ask for nothing that cannot be done: no
\* search for nothing, and no fatal edit.
Waited(r) == /\ kind'[r] # "fatal"
             /\ kind'[r] = "search" => searches = {} /\ query'[r] # Empty
             /\ kind'[r] \in {"edit", "home"} => \A h \in handlers : h.source # "home"

Considerate == [][\A r \in Request : kind[r] = NULL /\ kind'[r] # NULL => Waited(r)]_vars

LEMMA ConsiderateStep ==
    ASSUME IInv, main = "loop", [Next]_vars,
           [\A r \in Request : kind[r] = NULL /\ kind'[r] # NULL => Waited(r)]_vars
    PROVE  main' = "loop"
<1>. SUFFICES ASSUME main' # "loop" PROVE FALSE
  OBVIOUS
<1>1. \A r \in Request : kind[r] = NULL /\ kind'[r] # NULL => Waited(r)
  BY DEF vars
<1>2. NULL # "search" /\ NULL # "home" /\ NULL # "edit"
  BY WebserverAssumption DEF WebserverAssumption, Kind, Source
<1>3. ASSUME NEW a \in Request, NEW s \in Query, SearchRequest(a, s)
      PROVE  FALSE
  <2>1. search_mutex \/ s = Empty
    BY <1>3 DEF SearchRequest
  <2>2. searches # {} \/ s = Empty
    BY <2>1 DEF IInv, MutexMatchesPending
  <2>3. kind[a] = NULL /\ kind'[a] = "search" /\ query'[a] = s
    BY <1>3 DEF SearchRequest, Arrive, IInv, TypeOK
  <2>. QED  BY <1>1, <1>2, <2>2, <2>3 DEF Waited
<1>4. ASSUME NEW a \in Request, EditRequest(a) \/ PlaylistRequest(a)
      PROVE  FALSE
  <2>1. playlist_mutex
    BY <1>4 DEF EditRequest, PlaylistRequest
  <2>2. \E h \in handlers : h.source = "home"
    BY <2>1 DEF IInv, MutexMatchesPending, AwaitsHome, Fatal
  <2>3. kind[a] = NULL /\ kind'[a] \in {"edit", "home"}
    BY <1>4 DEF EditRequest, PlaylistRequest, Arrive, IInv, TypeOK
  <2>. QED  BY <1>1, <1>2, <2>2, <2>3 DEF Waited
<1>5. ASSUME NEW a \in Request, FatalEdit(a) PROVE FALSE
  <2>1. kind[a] = NULL /\ kind'[a] = "fatal" /\ NULL # "fatal"
    BY <1>5, WebserverAssumption
    DEF FatalEdit, Arrive, IInv, TypeOK, WebserverAssumption, Kind
  <2>. QED  BY <1>1, <2>1 DEF Waited
<1>. QED  BY <1>3, <1>4, <1>5
          DEF Next, BadRequest, UnknownRequest, InboxRequest, UserRequest, InboxPostComplete,
              ConnectionLost, SearchComplete, Dispatch, vars

LoopRuns == main = "loop"

\* What api.h asks for holds as long as the browsers are considerate: then the main
\* thread never waits for a mutex and never stops, whatever else they do, lose or repeat.
THEOREM ConsiderateNeverBlock == SafeSpec /\ Considerate => []LoopRuns
<1>1. Init => main = "loop"
  BY DEF Init
<1>2. IInv /\ main = "loop" /\ [Next]_vars
        /\ [\A r \in Request : kind[r] = NULL /\ kind'[r] # NULL => Waited(r)]_vars
        => (main = "loop")'
  BY ConsiderateStep
<1>. QED  BY <1>1, <1>2, SafeIInv, PTL DEF SafeSpec, Considerate, LoopRuns

-----------------------------------------------------------------------------
(* To its browsers the server is an Exchange. *)

\* A reply of the server, to requests that have none, is a reply of the exchange.
LEMMA ReplyIsReply ==
    ASSUME NEW rs \in SUBSET Request, NEW a, TypeOK, SendReply(rs, a),
           \A r \in rs : /\ kind'[r] # NULL /\ replies[r] = 0
                         /\ a \in Browsers!Right(kind'[r], query'[r])
    PROVE  Browsers!Reply(rs, a)
<1>1. replies' = [r \in Request |-> IF r \in rs THEN 1 ELSE replies[r]]
  BY DEF SendReply, TypeOK
<1>2. answer' = [r \in Request |-> IF r \in rs \ lost THEN a ELSE answer[r]]
  BY DEF SendReply
<1>. QED  BY <1>1, <1>2 DEF Browsers!Reply

LEMMA RightAnswers ==
    /\ \A s : Browsers!Right("search", s) = {s}
    /\ \A src \in Source : \A s : Browsers!Right(src, s) = {src}
    /\ \A k \in {"edit", "inbox", "bad"} : \A s : Browsers!Right(k, s) = {"done", "error"}
  BY DEF Browsers!Right, Source

\* A handler, whether it replies, waits or stops the main thread, is a request to
\* the exchange.
LEMMA HandlerAsks ==
    ASSUME IInv, NEW r \in Request, NEW k \in Kind, Arrive(r, k),
           IF k = "search" THEN \E s \in Query : query' = [query EXCEPT ![r] = s]
                           ELSE UNCHANGED query,
           \/ NoReply
           \/ \E a \in Browsers!Right(k, query'[r]) : SendReply({r}, a)
    PROVE  Browsers!Ask(r)
<1>1. kind[r] = NULL /\ kind' = [kind EXCEPT ![r] = k] /\ lost' = lost /\ kind'[r] = k
  BY DEF Arrive, IInv, TypeOK
<1>2. CASE NoReply
  BY <1>1, <1>2 DEF NoReply, Browsers!Ask, Kind
<1>3. ASSUME NEW a \in Browsers!Right(k, query'[r]), SendReply({r}, a)
      PROVE  Browsers!Ask(r)
  <2>1. k # NULL /\ replies[r] = 0
    BY <1>1, Newcomer, WebserverAssumption DEF WebserverAssumption
  <2>2. Browsers!Reply({r}, a)
    BY <1>1, <1>3, <2>1, ReplyIsReply DEF IInv
  <2>. QED  BY <1>1, <1>3, <2>2 DEF Browsers!Ask, Kind
<1>. QED  BY <1>2, <1>3

LEMMA RequestsAsk ==
    ASSUME IInv, NEW r \in Request, NEW src \in {"starred", "published"},
           \/ BadRequest(r) \/ UnknownRequest(r) \/ EditRequest(r) \/ FatalEdit(r)
           \/ PlaylistRequest(r) \/ InboxRequest(r) \/ UserRequest(r, src)
           \/ \E s \in Query : SearchRequest(r, s)
    PROVE  Browsers!Ask(r)
<1>1. /\ {"bad", "unknown", "edit", "fatal", "inbox", "home", "search", src} \subseteq Kind
      /\ "home" \in Source /\ src \in Source
      /\ "search" \notin {"bad", "unknown", "edit", "fatal", "inbox", "home", src}
  BY DEF Kind, Source
<1>2. CASE BadRequest(r)
  BY <1>1, <1>2, RightAnswers, HandlerAsks DEF BadRequest
<1>3. CASE UnknownRequest(r)
  BY <1>1, <1>3, HandlerAsks DEF UnknownRequest
<1>4. CASE EditRequest(r)
  BY <1>1, <1>4, RightAnswers, HandlerAsks DEF EditRequest, Block
<1>4a. CASE FatalEdit(r)
  BY <1>1, <1>4a, HandlerAsks DEF FatalEdit, Block
<1>5. CASE PlaylistRequest(r)
  BY <1>1, <1>5, RightAnswers, HandlerAsks DEF PlaylistRequest, Block
<1>6. CASE InboxRequest(r)
  BY <1>1, <1>6, RightAnswers, HandlerAsks DEF InboxRequest
<1>7. CASE UserRequest(r, src)
  BY <1>1, <1>7, RightAnswers, HandlerAsks DEF UserRequest
<1>8. CASE \E s \in Query : SearchRequest(r, s)
  <2>1. /\ Arrive(r, "search") /\ NoReply
        /\ \E s \in Query : query' = [query EXCEPT ![r] = s]
    BY <1>8 DEF SearchRequest, Block
  <2>. QED  BY <1>1, <2>1, HandlerAsks
<1>. QED  BY <1>2, <1>3, <1>4, <1>4a, <1>5, <1>6, <1>7, <1>8

\* A callback answers requests of the exchange that wait, or none of them.
LEMMA CallbacksAnswer ==
    ASSUME IInv, NEW rs \in SUBSET Request, NEW a, SendReply(rs, a),
           UNCHANGED <<kind, query, lost>>,
           \A r \in rs : /\ kind[r] # NULL /\ replies[r] = 0
                         /\ a \in Browsers!Right(kind[r], query[r])
    PROVE  Browsers!Answer(rs) \/ UNCHANGED Browsers!evars
<1>1. CASE rs = {}
  BY <1>1 DEF SendReply, IInv, TypeOK, Browsers!evars
<1>2. CASE rs # {}
  <2>1. Browsers!Reply(rs, a)
    BY ReplyIsReply DEF IInv
  <2>. QED  BY <1>2, <2>1 DEF Browsers!Answer
<1>. QED  BY <1>1, <1>2

LEMMA ExchangeStep ==
    ASSUME IInv, [Next]_vars
    PROVE  [Browsers!ENext]_Browsers!evars
<1>1. ASSUME NEW x \in Search, SearchComplete(x)
      PROVE  Browsers!Answer({x.by}) \/ UNCHANGED Browsers!evars
  <2>1. /\ s_request = x.by /\ x.by \in Request /\ query[x.by] = x.query
        /\ kind[x.by] = "search" /\ replies[x.by] = 0
    BY <1>1 DEF SearchComplete, IInv, SearchOwed, Search
  <2>2. kind[x.by] # NULL /\ x.query \in Browsers!Right(kind[x.by], query[x.by])
    BY <2>1, RightAnswers, WebserverAssumption DEF WebserverAssumption, Kind
  <2>3. UNCHANGED <<kind, query, lost>>
    BY <1>1 DEF SearchComplete
  <2>4. CASE SendReply({x.by}, x.query)
    BY <2>1, <2>2, <2>3, <2>4, CallbacksAnswer
  <2>5. CASE NoReply
    BY <2>3, <2>5 DEF NoReply, Browsers!evars
  <2>. QED  BY <1>1, <2>1, <2>4, <2>5 DEF SearchComplete
<1>2. ASSUME NEW src \in Source, Dispatch(src)
      PROVE  Browsers!Answer(Waiting(src)) \/ UNCHANGED Browsers!evars
  <2>1. UNCHANGED <<kind, query, lost>>
    BY <1>2 DEF Dispatch
  <2>2. CASE NoReply
    BY <2>1, <2>2 DEF NoReply, Browsers!evars
  <2>3. CASE SendReply(Waiting(src), src)
    <3>1. Waiting(src) \in SUBSET Request
      BY DEF Waiting, IInv, TypeOK
    <3>2. \A r \in Waiting(src) : kind[r] = src /\ replies[r] = 0
      BY DEF Waiting, IInv, HandlersOwed
    <3>3. src # NULL
      BY WebserverAssumption DEF WebserverAssumption, Kind
    <3>. QED  BY <2>1, <2>3, <3>1, <3>2, <3>3, RightAnswers, CallbacksAnswer
  <2>. QED  BY <1>2, <2>2, <2>3 DEF Dispatch
<1>3. ASSUME NEW r \in Request, InboxPostComplete(r)
      PROVE  Browsers!Answer({r}) \/ UNCHANGED Browsers!evars
  <2>1. kind[r] = "inbox" /\ replies[r] = 0 /\ UNCHANGED <<kind, query, lost>>
    BY <1>3 DEF InboxPostComplete, IInv, PostsOwed
  <2>2. kind[r] # NULL /\ {"done", "error"} \subseteq Browsers!Right(kind[r], query[r])
    BY <2>1, RightAnswers, WebserverAssumption DEF WebserverAssumption, Kind
  <2>. QED  BY <1>3, <2>1, <2>2, CallbacksAnswer DEF InboxPostComplete
<1>4. ASSUME NEW r \in Request, ConnectionLost(r) PROVE Browsers!Close(r)
  BY <1>4 DEF ConnectionLost, Browsers!Close
<1>5. ASSUME UNCHANGED vars PROVE UNCHANGED Browsers!evars
  BY <1>5 DEF vars, Browsers!evars
<1>6. ASSUME NEW r \in Request,
             \/ BadRequest(r) \/ UnknownRequest(r) \/ EditRequest(r) \/ FatalEdit(r)
             \/ PlaylistRequest(r) \/ InboxRequest(r) \/ (\E s \in Query : SearchRequest(r, s))
             \/ \E src \in {"starred", "published"} : UserRequest(r, src)
      PROVE  Browsers!Ask(r)
  BY <1>6, RequestsAsk
<1>7. \A rs \in SUBSET Request : Browsers!Answer(rs) => Browsers!ENext
  BY DEF Browsers!ENext
<1>8. ASSUME NEW src \in Source, Dispatch(src) PROVE [Browsers!ENext]_Browsers!evars
  <2>1. Waiting(src) \in SUBSET Request
    BY DEF Waiting, IInv, TypeOK
  <2>. QED  BY <1>2, <1>7, <1>8, <2>1
<1>9. ASSUME NEW x \in Search, SearchComplete(x) PROVE [Browsers!ENext]_Browsers!evars
  <2>1. {x.by} \in SUBSET Request
    BY DEF Search
  <2>. QED  BY <1>1, <1>7, <1>9, <2>1
<1>10. ASSUME NEW r \in Request, InboxPostComplete(r) PROVE [Browsers!ENext]_Browsers!evars
  BY <1>3, <1>7, <1>10
<1>11. \A r \in Request : Browsers!Ask(r) \/ Browsers!Close(r) => Browsers!ENext
  BY DEF Browsers!ENext
<1>. QED  BY <1>4, <1>5, <1>6, <1>8, <1>9, <1>10, <1>11 DEF Next

\* The handlers, callbacks, mutexes and globals of the server implement Exchange.
THEOREM WebRefines == SafeSpec => ImplementsExchange
<1>1. Init => Browsers!EInit
  BY DEF Init, Browsers!EInit
<1>2. IInv /\ [Next]_vars => [Browsers!ENext]_Browsers!evars
  BY ExchangeStep
<1>. QED  BY <1>1, <1>2, SafeIInv, PTL DEF SafeSpec, ImplementsExchange, Browsers!ESpec
-----------------------------------------------------------------------------
(* Every answer comes. *)

\* Where a request that waits is kept, and that it still has to wait.
Waits(r) == r \in Awaiting /\ main = "loop"
InSearch(r) == s_request = r /\ \E x \in searches : x.query # Empty
InHandler(r, src) == \E h \in handlers : h.request = r /\ h.source = src
InPost(r) == r \in posts

LEMMA WaitsSomewhere ==
    ASSUME IInv, NothingForgotten, NEW r \in Request, Waits(r)
    PROVE  \/ InSearch(r) \/ InPost(r)
           \/ InHandler(r, "home") \/ InHandler(r, "starred") \/ InHandler(r, "published")
<1>1. /\ main # r /\ Parked(r) /\ kind[r] # "unknown" /\ r \notin failed
      /\ query[r] # Empty
  BY WebserverAssumption DEF WebserverAssumption, Waits, Awaiting
<1>1a. \A x \in searches : x.by = s_request /\ x.query = query[x.by]
  BY DEF IInv, SearchOwed
<1>2. InSearch(r) \/ InPost(r) \/ \E h \in handlers : h.request = r
  BY <1>1, <1>1a DEF NothingForgotten, InSearch, InPost
<1>3. \A h \in handlers : h.source \in {"home", "starred", "published"}
  BY DEF IInv, TypeOK, Source
<1>. QED  BY <1>2, <1>3 DEF InHandler

\* A step of a handler leaves every request where it waits, or stops the main thread.
LEMMA ArrivalsDisturbNone ==
    ASSUME IInv, NEW a \in Request, NEW src \in {"starred", "published"},
           \/ BadRequest(a) \/ UnknownRequest(a) \/ EditRequest(a) \/ FatalEdit(a)
           \/ PlaylistRequest(a) \/ InboxRequest(a) \/ UserRequest(a, src) \/ ConnectionLost(a)
           \/ \E s \in Query : SearchRequest(a, s)
    PROVE  /\ handlers \subseteq handlers' /\ posts \subseteq posts'
           /\ searches # {} => \/ s_request' = s_request /\ searches' = searches
                               \/ main' = a
<1>1. CASE \E s \in Query : SearchRequest(a, s)
  BY <1>1 DEF SearchRequest, Block, pending, IInv, MutexMatchesPending
<1>2. CASE EditRequest(a) \/ FatalEdit(a) \/ PlaylistRequest(a)
  BY <1>2 DEF EditRequest, FatalEdit, PlaylistRequest, Block, Register, pending
<1>3. CASE \/ BadRequest(a) \/ UnknownRequest(a) \/ InboxRequest(a) \/ UserRequest(a, src)
           \/ ConnectionLost(a)
  BY <1>3 DEF BadRequest, UnknownRequest, InboxRequest, UserRequest, ConnectionLost, Register,
              pending
<1>. QED  BY <1>1, <1>2, <1>3

\* The one search that is under way belongs to the request that waits for it.
LEMMA SearchAnswers ==
    ASSUME IInv, NEW r \in Request, InSearch(r), Waits(r)
    PROVE  /\ [Next]_vars => InSearch(r)' \/ ~Waits(r)'
           /\ SearchEnds => ~Waits(r)'
<1>1. ASSUME NEW x \in Search, SearchComplete(x) PROVE ~Waits(r)'
  <2>1. CASE SendReply({s_request}, x.query)
    <3>1. replies'[r] = replies[r] + 1 /\ replies[r] \in Nat
      BY <2>1 DEF SendReply, InSearch, IInv, TypeOK
    <3>. QED  BY <3>1 DEF Waits, Awaiting, Parked
  <2>2. CASE failed' = failed \cup {s_request}
    BY <2>2 DEF InSearch, Waits, Awaiting
  <2>. QED  BY <1>1, <2>1, <2>2 DEF SearchComplete
<1>2. ASSUME NEW a \in Request, main' = a PROVE ~Waits(r)'
  BY <1>2, WebserverAssumption DEF WebserverAssumption, Waits
<1>3. s_request' = s_request /\ searches' = searches => InSearch(r)'
  BY DEF InSearch
<1>4. ASSUME NEW src \in Source, Dispatch(src) PROVE InSearch(r)'
  BY <1>3, <1>4 DEF Dispatch
<1>5. ASSUME NEW a \in Request, InboxPostComplete(a) PROVE InSearch(r)'
  BY <1>3, <1>5 DEF InboxPostComplete
<1>6. ASSUME [Next]_vars PROVE InSearch(r)' \/ ~Waits(r)'
  <2>1. UNCHANGED vars => InSearch(r)'
    BY <1>3 DEF vars, pending
  <2>. QED  BY <1>1, <1>2, <1>3, <1>4, <1>5, <1>6, <2>1, ArrivalsDisturbNone
            DEF Next, InSearch
<1>. QED  BY <1>1, <1>6 DEF SearchEnds

LEMMA HandlerAnswers ==
    ASSUME IInv, NEW r \in Request, NEW src \in Source, InHandler(r, src), Waits(r)
    PROVE  /\ [Next]_vars => InHandler(r, src)' \/ ~Waits(r)'
           /\ <<Dispatch(src)>>_vars => ~Waits(r)'
<1>1. r \in Waiting(src) /\ replies[r] \in Nat
  BY DEF InHandler, Waiting, IInv, TypeOK
<1>2. ASSUME Dispatch(src), src \in isLoaded' PROVE ~Waits(r)'
  <2>1. replies'[r] = replies[r] + 1
    BY <1>1, <1>2 DEF Dispatch, SendReply
  <2>. QED  BY <1>1, <2>1 DEF Waits, Awaiting, Parked
<1>3. ASSUME Dispatch(src), src \notin isLoaded' PROVE UNCHANGED vars
  BY <1>3 DEF Dispatch, NoReply, vars, locks, pending
<1>4. handlers \subseteq handlers' => InHandler(r, src)'
  BY DEF InHandler
<1>5. ASSUME NEW other \in Source \ {src}, Dispatch(other) PROVE InHandler(r, src)'
  BY <1>5 DEF Dispatch, InHandler
<1>6. ASSUME NEW x \in Search, SearchComplete(x) PROVE handlers' = handlers
  BY <1>6 DEF SearchComplete
<1>7. ASSUME NEW a \in Request, InboxPostComplete(a) PROVE handlers' = handlers
  BY <1>7 DEF InboxPostComplete
<1>8. UNCHANGED vars => handlers' = handlers
  BY DEF vars, pending
<1>9. ASSUME [Next]_vars PROVE InHandler(r, src)' \/ ~Waits(r)'
  BY <1>2, <1>3, <1>4, <1>5, <1>6, <1>7, <1>8, <1>9, ArrivalsDisturbNone DEF Next
<1>. QED  BY <1>2, <1>3, <1>9

LEMMA PostAnswers ==
    ASSUME IInv, NEW r \in Request, InPost(r), Waits(r)
    PROVE  /\ [Next]_vars => InPost(r)' \/ ~Waits(r)'
           /\ InboxPostComplete(r) => ~Waits(r)'
<1>1. ASSUME InboxPostComplete(r) PROVE ~Waits(r)'
  <2>1. replies'[r] = replies[r] + 1 /\ replies[r] \in Nat
    BY <1>1 DEF InboxPostComplete, SendReply, IInv, TypeOK
  <2>. QED  BY <2>1 DEF Waits, Awaiting, Parked
<1>2. ASSUME NEW a \in Request \ {r}, InboxPostComplete(a) PROVE InPost(r)'
  BY <1>2 DEF InboxPostComplete, InPost
<1>3. ASSUME NEW src \in Source, Dispatch(src) PROVE posts' = posts
  BY <1>3 DEF Dispatch
<1>4. ASSUME NEW x \in Search, SearchComplete(x) PROVE posts' = posts
  BY <1>4 DEF SearchComplete
<1>5. UNCHANGED vars => posts' = posts
  BY DEF vars, pending
<1>6. ASSUME [Next]_vars PROVE InPost(r)' \/ ~Waits(r)'
  BY <1>1, <1>2, <1>3, <1>4, <1>5, <1>6, ArrivalsDisturbNone DEF Next, InPost
<1>. QED  BY <1>1, <1>6

\* Fairness, one callback at a time.
LEMMA FairPosts == ASSUME NEW r \in Request PROVE Spec => PostEnds(r)
  BY DEF Spec
LEMMA FairLoads == ASSUME NEW src \in Source PROVE Spec => Loads(src)
  BY DEF Spec

LEMMA SpecIsSafe == Spec => [](IInv /\ NothingForgotten) /\ [][Next]_vars
<1>1. Spec => SafeSpec
  BY PTL DEF Spec
<1>. QED  BY <1>1, SafeIInv, ForgetsNobody, PTL DEF SafeSpec

LEMMA SearchComes ==
    ASSUME NEW r \in Request
    PROVE  Spec /\ []AnswersAreDue => (InSearch(r) ~> ~Waits(r))
<1>1. AnswersAreDue /\ InSearch(r) /\ Waits(r)
         => ENABLED <<SearchEnds>>_vars
  BY DEF AnswersAreDue, InSearch, Waits
<1>2. IInv /\ InSearch(r) /\ Waits(r) /\ [Next]_vars => InSearch(r)' \/ ~Waits(r)'
  BY SearchAnswers
<1>3. IInv /\ InSearch(r) /\ Waits(r) /\ <<SearchEnds>>_vars => ~Waits(r)'
  BY SearchAnswers
<1>4. Spec => SearchesEnd
  BY PTL DEF Spec
<1>. QED  BY <1>1, <1>2, <1>3, <1>4, SpecIsSafe, PTL DEF SearchesEnd

HandlerEnds(r, src) == InHandler(r, src) ~> ~Waits(r)

LEMMA HandlerComes ==
    ASSUME NEW r \in Request, NEW src \in Source
    PROVE  Spec /\ []AnswersAreDue => HandlerEnds(r, src)
<1>1. AnswersAreDue /\ InHandler(r, src) /\ Waits(r) => ENABLED <<Dispatch(src)>>_vars
  BY DEF AnswersAreDue, InHandler, Waiting, Waits
<1>2. IInv /\ InHandler(r, src) /\ Waits(r) /\ [Next]_vars
         => InHandler(r, src)' \/ ~Waits(r)'
  BY HandlerAnswers
<1>3. IInv /\ InHandler(r, src) /\ Waits(r) /\ <<Dispatch(src)>>_vars => ~Waits(r)'
  BY HandlerAnswers
<1>. QED  BY <1>1, <1>2, <1>3, SpecIsSafe, FairLoads, PTL DEF Loads, HandlerEnds

LEMMA PostComes ==
    ASSUME NEW r \in Request
    PROVE  Spec /\ []AnswersAreDue => (InPost(r) ~> ~Waits(r))
<1>1. AnswersAreDue /\ InPost(r) /\ Waits(r) => ENABLED <<InboxPostComplete(r)>>_vars
  BY DEF AnswersAreDue, InPost, Waits
<1>2. IInv /\ InPost(r) /\ Waits(r) /\ [Next]_vars => InPost(r)' \/ ~Waits(r)'
  BY PostAnswers
<1>3. IInv /\ InPost(r) /\ Waits(r) /\ <<InboxPostComplete(r)>>_vars => ~Waits(r)'
  BY PostAnswers
<1>. QED  BY <1>1, <1>2, <1>3, SpecIsSafe, FairPosts, PTL DEF PostEnds

LEMMA OneAnswerComes ==
    ASSUME NEW r \in Request
    PROVE  Spec /\ []AnswersAreDue => AnswerComes(r)
<1>1. IInv /\ NothingForgotten /\ Waits(r)
         => \/ InSearch(r) \/ InPost(r)
            \/ InHandler(r, "home") \/ InHandler(r, "starred") \/ InHandler(r, "published")
  BY WaitsSomewhere
<1>2. ~Waits(r) => r \notin Awaiting \/ main # "loop"
  BY DEF Waits
<1>3. "home" \in Source /\ "starred" \in Source /\ "published" \in Source
  BY DEF Source
<1>4. Spec /\ []AnswersAreDue => HandlerEnds(r, "home")
  BY <1>3, HandlerComes
<1>5. Spec /\ []AnswersAreDue => HandlerEnds(r, "starred")
  BY <1>3, HandlerComes
<1>6. Spec /\ []AnswersAreDue => HandlerEnds(r, "published")
  BY <1>3, HandlerComes
<1>. QED  BY <1>1, <1>2, <1>4, <1>5, <1>6, SearchComes, PostComes, SpecIsSafe, PTL
          DEF AnswerComes, HandlerEnds

\* When no callback that a request waits for is kept back (AnswersAreDue), every
\* request is answered, whatever other requests arrive and however many.
THEOREM EveryAnswerComes == Spec /\ []AnswersAreDue => AnswersCome
  BY OneAnswerComes DEF AnswersCome

AnswerIsSure(r) == []<>(r \notin Awaiting)

LEMMA OneAnswerIsSure ==
    ASSUME NEW r \in Request
    PROVE  Spec /\ []AnswersAreDue /\ Considerate => AnswerIsSure(r)
<1>1. LoopRuns => ~(main # "loop")
  BY DEF LoopRuns
<1>2. Spec => SafeSpec
  BY PTL DEF Spec
<1>. QED  BY <1>1, <1>2, OneAnswerComes, ConsiderateNeverBlock, PTL
          DEF AnswerComes, AnswerIsSure

\* Considerate browsers are all answered, but for failed searches.  (What they ask for
\* can be done: a fatal edit or a search for nothing is not considerate.)
THEOREM ConsiderateAreAnswered ==
    Spec /\ []AnswersAreDue /\ Considerate => \A r \in Request : AnswerIsSure(r)
  BY OneAnswerIsSure
===============================================================================
