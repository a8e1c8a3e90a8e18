--------------------------- MODULE Frontend_proofs ---------------------------
(***************************************************************************)
(* Theorems about the pages and the server they talk to, for any number of *)
(* pages, songs, queries and requests, any catalogue and any playlist.     *)
(***************************************************************************)
EXTENDS Frontend, SequenceTheorems, TLAPS

(***************************************************************************)
(* The inductive invariant.  A version is an edition of the playlist: what *)
(* carries the version of now carries the playlist of now, wherever it is, *)
(* on a page, in an answer or in the request of a click.                   *)
(***************************************************************************)
FTypeOK ==
    /\ playlist \in Seq(Song)
    /\ up \in BOOLEAN
    /\ version \in Nat
    /\ playlistSongs \in [Browser -> Seq(Song)]
    /\ searchlistSongs \in [Browser -> Seq(Song)]
    /\ playlistBody \in [Browser -> SUBSET [id : Nat, song : Song]]
    /\ searchBody \in [Browser -> SUBSET [id : Nat, song : Song]]
    /\ alternativeSearch \in [Browser -> Query \cup {NULL}]
    /\ research \in [Browser -> Nat]
    /\ menu \in [Browser -> [of : {"playlist", "search"}, id : Nat] \cup {NULL}]
    /\ seen \in [Browser -> Nat \cup {NULL}]

PagesDated ==
    \A b \in Browser : seen[b] # NULL => /\ seen[b] <= version
                                         /\ seen[b] = version => playlistSongs[b] = playlist

AnswersDated ==
    \A a \in answers :
        /\ a.to \in Browser
        /\ a.songs \in Seq(Song)
        /\ a.of = "playlist" => /\ a.version \in Nat /\ a.version <= version
                                /\ a.version = version => a.songs = playlist
        /\ a.of = "search" => a.suggestion \in Query \cup {NULL}

\* A pick of row to.id by a page that showed the version to.seen.
PickDated(to) ==
    /\ to.id \in Nat
    /\ to.seen \in Nat \cup {NULL}
    /\ to.seen # NULL =>
         /\ to.seen <= version
         /\ to.seen = version => /\ to.said = SongAt(to.id)
                                 /\ to.path = "remove" => Len(playlist) # 1

Meant(to) ==
    /\ to.path = "search" => to.query \in Query
    /\ to.path = "add" => to.said = to.uri /\ to.uri \in Song
    /\ to.path \in {"start", "remove"} => PickDated(to)

RequestsMeant == \A r \in requests : r.from \in Browser /\ Meant(r.to)

ServedRight == FreshPickHits /\ FreshRemovalKeepsOne

FInv == /\ FTypeOK /\ RowsMatchSongs /\ PagesDated
        /\ AnswersDated /\ RequestsMeant /\ ServedRight

-----------------------------------------------------------------------------
(* Rows and the songs they stand for. *)

LEMMA RowsTyped ==
    ASSUME NEW s \in Seq(Song)
    PROVE  Rows(s) \in SUBSET [id : Nat, song : Song]
<1>1. \A i \in 1..Len(s) : i - 1 \in Nat /\ s[i] \in Song
  OBVIOUS
<1>. QED  BY <1>1 DEF Rows

LEMMA RowInList ==
    ASSUME NEW s \in Seq(Song), NEW row \in Rows(s)
    PROVE  row.id \in Nat /\ row.id < Len(s)
<1>1. PICK i \in 1..Len(s) : row = [id |-> i - 1, song |-> s[i]]
  BY DEF Rows
<1>. QED  BY <1>1

\* The name in a row is that of the element of the array that its id means.
LEMMA NameInList ==
    ASSUME NEW s \in Seq(Song), NEW id \in Nat
    PROVE  Name(Rows(s), id) = IF id < Len(s) THEN s[id + 1] ELSE NULL
<1>1. CASE id < Len(s)
  <2>1. id + 1 \in 1..Len(s) /\ (id + 1) - 1 = id
    BY <1>1
  <2>2. [id |-> id, song |-> s[id + 1]] \in Rows(s)
    BY <2>1 DEF Rows
  <2>3. \E row \in Rows(s) : row.id = id
    BY <2>2
  <2>. DEFINE row == CHOOSE r \in Rows(s) : r.id = id
  <2>4. row \in Rows(s) /\ row.id = id
    BY <2>3
  <2>5. PICK i \in 1..Len(s) : row = [id |-> i - 1, song |-> s[i]]
    BY <2>4 DEF Rows
  <2>6. i = id + 1
    BY <2>4, <2>5
  <2>7. row.song = s[id + 1]
    <3>. HIDE DEF row
    <3>. QED  BY <2>5, <2>6
  <2>. QED  BY <1>1, <2>3, <2>7 DEF Name
<1>2. CASE ~(id < Len(s))
  <2>1. ~ \E row \in Rows(s) : row.id = id
    BY <1>2, RowInList
  <2>. QED  BY <1>2, <2>1 DEF Name
<1>. QED  BY <1>1, <1>2

-----------------------------------------------------------------------------
(* The clicks. *)

\* What is sent of requests that mean what they say leaves them all so.
LEMMA SendMeant ==
    ASSUME FInv, NEW b \in Browser, NEW T, NEW rs \in Seq(T), \A to \in T : Meant(to),
           Send(b, rs)
    PROVE  RequestsMeant'
<1>1. \A i \in 1..Len(rs) : rs[i] \in T
  OBVIOUS
<1>2. \A r \in requests' : r \in requests \/ (r.from = b /\ r.to \in T)
  BY <1>1 DEF Send
<1>3. \A r \in requests' : r.from \in Browser /\ Meant(r.to)
  BY <1>2 DEF FInv, RequestsMeant
<1>4. version' = version /\ playlist' = playlist
  BY DEF Send, server
<1>. QED  BY <1>3, <1>4 DEF RequestsMeant, Meant, PickDated, SongAt

LEMMA SendOneMeant ==
    ASSUME FInv, NEW b \in Browser, NEW to, Meant(to), Send(b, <<to>>)
    PROVE  RequestsMeant'
<1>. DEFINE rs == <<to>>
<1>1. rs \in Seq({to}) /\ Send(b, rs)
  OBVIOUS
<1>2. \A x \in {to} : Meant(x)
  OBVIOUS
<1>. HIDE DEF rs
<1>. QED  BY <1>1, <1>2, SendMeant

LEMMA SendTwoMeant ==
    ASSUME FInv, NEW b \in Browser, NEW t, NEW u, Meant(t), Meant(u), Send(b, <<t, u>>)
    PROVE  RequestsMeant'
<1>. DEFINE rs == <<t, u>>
<1>1. rs \in Seq({t, u}) /\ Send(b, rs)
  OBVIOUS
<1>2. \A x \in {t, u} : Meant(x)
  OBVIOUS
<1>. HIDE DEF rs
<1>. QED  BY <1>1, <1>2, SendMeant

\* A click changes no list, and nothing at the server.
LEMMA ClickKeeps ==
    ASSUME FInv, UNCHANGED <<server, answers, lists, suggestion>>, RequestsMeant',
           menu' \in [Browser -> [of : {"playlist", "search"}, id : Nat] \cup {NULL}]
    PROVE  FInv'
BY DEF FInv, FTypeOK, RowsMatchSongs, PagesDated, AnswersDated, ServedRight, FreshPickHits,
       FreshRemovalKeepsOne, Fresh, server, lists, suggestion

LEMMA ListsMeant == Meant(ToPlaylist) /\ \A x \in Query : Meant(ToSearch(x))
BY DEF Meant, ToPlaylist, ToSearch

\* A pick of a row, or of what was row id when the menu opened.
LEMMA PickMeant ==
    ASSUME FInv, NEW b \in Browser, NEW id \in Nat
    PROVE  /\ Meant(ToStart(b, id))
           /\ Len(playlistSongs[b]) # 1 => Meant(ToRemove(b, id))
<1>1. playlistSongs[b] \in Seq(Song) /\ seen[b] \in Nat \cup {NULL} /\ version \in Nat
  BY DEF FInv, FTypeOK
<1>2. Name(playlistBody[b], id)
        = IF id < Len(playlistSongs[b]) THEN playlistSongs[b][id + 1] ELSE NULL
  BY <1>1, NameInList DEF FInv, RowsMatchSongs
<1>3. seen[b] # NULL => /\ seen[b] <= version
                        /\ seen[b] = version => playlistSongs[b] = playlist
  BY DEF FInv, PagesDated
<1>4. seen[b] # NULL /\ seen[b] = version => Name(playlistBody[b], id) = SongAt(id)
  BY <1>2, <1>3 DEF SongAt
<1>5. Meant(ToStart(b, id))
  BY <1>1, <1>3, <1>4 DEF Meant, PickDated, ToStart
<1>6. ASSUME Len(playlistSongs[b]) # 1 PROVE Meant(ToRemove(b, id))
  BY <1>1, <1>3, <1>4, <1>6 DEF Meant, PickDated, ToRemove
<1>. QED  BY <1>5, <1>6

LEMMA AddMeant ==
    ASSUME FInv, NEW b \in Browser, NEW id \in Nat, id < Len(searchlistSongs[b])
    PROVE  Meant(ToAdd(b, id))
<1>1. searchlistSongs[b] \in Seq(Song)
  BY DEF FInv, FTypeOK
<1>2. Name(searchBody[b], id) = searchlistSongs[b][id + 1]
  BY <1>1, NameInList DEF FInv, RowsMatchSongs
<1>3. searchlistSongs[b][id + 1] \in Song
  BY <1>1
<1>. QED  BY <1>2, <1>3 DEF Meant, ToAdd

\* The ids of the rows of a page are natural numbers, within its array.
LEMMA RowOnPage ==
    ASSUME FInv, NEW b \in Browser
    PROVE  /\ \A row \in playlistBody[b] : row.id \in Nat
           /\ \A row \in searchBody[b] : row.id \in Nat /\ row.id < Len(searchlistSongs[b])
<1>1. playlistSongs[b] \in Seq(Song) /\ searchlistSongs[b] \in Seq(Song)
  BY DEF FInv, FTypeOK
<1>. QED  BY <1>1, RowInList DEF FInv, RowsMatchSongs

LEMMA ClickStep ==
    ASSUME FInv, NEW b \in Browser,
           \/ ShowPlaylist(b) \/ ClickSuggestion(b) \/ ClickRow(b) \/ OpenMenu(b)
           \/ MenuPlay(b) \/ MenuRemove(b) \/ MenuAdd(b) \/ MenuElse(b)
           \/ \E x \in Query : SubmitSearch(b, x)
    PROVE  FInv'
<1>. DEFINE Menus == [Browser -> [of : {"playlist", "search"}, id : Nat] \cup {NULL}]
<1>0. menu \in Menus
  BY DEF FInv, FTypeOK
<1>1. CASE ShowPlaylist(b)
  <2>2. RequestsMeant'
    BY <1>1, SendOneMeant, ListsMeant DEF ShowPlaylist
  <2>. QED  BY <1>0, <1>1, <2>2, ClickKeeps DEF ShowPlaylist, Send
<1>2. CASE \E x \in Query : SubmitSearch(b, x)
  <2>1. PICK x \in Query : SubmitSearch(b, x)
    BY <1>2
  <2>3. RequestsMeant'
    BY <2>1, SendOneMeant, ListsMeant DEF SubmitSearch
  <2>. QED  BY <1>0, <2>1, <2>3, ClickKeeps DEF SubmitSearch, Send
<1>3. CASE ClickSuggestion(b)
  <2>. DEFINE x == alternativeSearch[b]
              rs == [i \in 1..research[b] |-> ToSearch(x)]
  <2>1. x \in Query /\ research[b] \in Nat
    BY <1>3 DEF ClickSuggestion, FInv, FTypeOK
  <2>2. rs \in Seq({ToSearch(x)})
    <3>1. rs \in [1..research[b] -> {ToSearch(x)}]
      OBVIOUS
    <3>. HIDE DEF rs
    <3>. QED  BY <2>1, <3>1, SeqDef
  <2>3. Send(b, rs)
    BY <1>3 DEF ClickSuggestion
  <2>4. Meant(ToSearch(x))
    BY <2>1, ListsMeant
  <2>5. RequestsMeant'
    <3>. HIDE DEF rs, x
    <3>. QED  BY <2>2, <2>3, <2>4, SendMeant
  <2>6. UNCHANGED <<server, answers>>
    BY <2>3 DEF Send
  <2>. HIDE DEF rs, x
  <2>. QED  BY <1>0, <1>3, <2>5, <2>6, ClickKeeps DEF ClickSuggestion
<1>4. CASE ClickRow(b)
  <2>1. \E to : Meant(to) /\ Send(b, <<to>>)
    <3>1. CASE \E row \in playlistBody[b] : Send(b, <<ToStart(b, row.id)>>)
      BY <3>1, PickMeant, RowOnPage
    <3>2. CASE \E row \in searchBody[b] : Send(b, <<ToAdd(b, row.id)>>)
      BY <3>2, AddMeant, RowOnPage
    <3>. QED  BY <1>4, <3>1, <3>2 DEF ClickRow
  <2>2. PICK to : Meant(to) /\ Send(b, <<to>>)
    BY <2>1
  <2>4. RequestsMeant'
    BY <2>2, SendOneMeant
  <2>. QED  BY <1>0, <1>4, <2>2, <2>4, ClickKeeps DEF ClickRow, Send
<1>5. CASE OpenMenu(b)
  <2>1. menu' \in Menus
    BY <1>0, <1>5, RowOnPage DEF OpenMenu
  <2>2. RequestsMeant'
    BY <1>5 DEF OpenMenu, server, FInv, RequestsMeant, Meant, PickDated, SongAt
  <2>. QED  BY <1>5, <2>1, <2>2, ClickKeeps DEF OpenMenu
<1>6. CASE MenuPlay(b)
  <2>1. menu[b].id \in Nat /\ menu' \in Menus
    BY <1>0, <1>6 DEF MenuPlay, CloseMenu
  <2>3. RequestsMeant'
    BY <1>6, <2>1, SendOneMeant, PickMeant DEF MenuPlay
  <2>. QED  BY <1>6, <2>1, <2>3, ClickKeeps DEF MenuPlay, Send
<1>7. CASE MenuRemove(b)
  <2>1. menu[b].id \in Nat /\ menu' \in Menus
    BY <1>0, <1>7 DEF MenuRemove, CloseMenu
  <2>. DEFINE to == ToRemove(b, menu[b].id)
  <2>2. CASE Len(playlistSongs[b]) # 1
    <3>1. Meant(to) /\ Meant(ToPlaylist)
      BY <2>1, <2>2, PickMeant, ListsMeant
    <3>2. Send(b, <<to, ToPlaylist>>)
      BY <1>7, <2>2 DEF MenuRemove
    <3>. HIDE DEF to
    <3>4. RequestsMeant'
      BY <3>1, <3>2, SendTwoMeant
    <3>. QED  BY <1>7, <2>1, <3>2, <3>4, ClickKeeps DEF MenuRemove, Send
  <2>3. CASE Len(playlistSongs[b]) = 1
    <3>1. RequestsMeant'
      BY <1>7, <2>3 DEF MenuRemove, server, FInv, RequestsMeant, Meant, PickDated, SongAt
    <3>. QED  BY <1>7, <2>1, <2>3, <3>1, ClickKeeps DEF MenuRemove
  <2>. QED  BY <2>2, <2>3
<1>8. CASE MenuAdd(b)
  <2>1. menu[b].id \in Nat /\ menu' \in Menus
    BY <1>0, <1>8 DEF MenuAdd, CloseMenu
  <2>. DEFINE to == ToAdd(b, menu[b].id)
  <2>2. CASE menu[b].id < Len(searchlistSongs[b])
    <3>1. Meant(to)
      BY <2>1, <2>2, AddMeant
    <3>2. Send(b, <<to>>)
      BY <1>8, <2>2 DEF MenuAdd
    <3>. HIDE DEF to
    <3>4. RequestsMeant'
      BY <3>1, <3>2, SendOneMeant
    <3>. QED  BY <1>8, <2>1, <3>2, <3>4, ClickKeeps DEF MenuAdd, Send
  <2>3. CASE ~(menu[b].id < Len(searchlistSongs[b]))
    <3>1. RequestsMeant'
      BY <1>8, <2>3 DEF MenuAdd, server, FInv, RequestsMeant, Meant, PickDated, SongAt
    <3>. QED  BY <1>8, <2>1, <2>3, <3>1, ClickKeeps DEF MenuAdd
  <2>. QED  BY <2>2, <2>3
<1>9. CASE MenuElse(b)
  <2>1. menu' \in Menus
    BY <1>0, <1>9 DEF MenuElse, CloseMenu
  <2>2. RequestsMeant'
    BY <1>9 DEF MenuElse, server, FInv, RequestsMeant, Meant, PickDated, SongAt
  <2>. QED  BY <1>9, <2>1, <2>2, ClickKeeps DEF MenuElse
<1>. QED  BY <1>1, <1>2, <1>3, <1>4, <1>5, <1>6, <1>7, <1>8, <1>9

-----------------------------------------------------------------------------
(* The server. *)

LEMMA ServeListStep ==
    ASSUME FInv, NEW r \in requests, ServeList(r)
    PROVE  FInv'
<1>1. UNCHANGED <<server, lists, suggestion, menu>>
  BY DEF ServeList, page
<1>2. r.from \in Browser /\ (r.to.path = "search" => r.to.query \in Query)
  BY DEF FInv, RequestsMeant, Meant
<1>3. FTypeOK' /\ RowsMatchSongs' /\ PagesDated' /\ ServedRight'
  BY <1>1 DEF FInv, FTypeOK, RowsMatchSongs, PagesDated, ServedRight, FreshPickHits,
              FreshRemovalKeepsOne, Fresh, server, lists, suggestion
<1>4. RequestsMeant'
  BY <1>1 DEF ServeList, server, FInv, RequestsMeant, Meant, PickDated, SongAt
<1>5. AnswersDated'
  <2>. SUFFICES ASSUME NEW a \in answers'
                PROVE  /\ a.to \in Browser
                       /\ a.songs \in Seq(Song)
                       /\ a.of = "playlist" => /\ a.version \in Nat /\ a.version <= version
                                               /\ a.version = version => a.songs = playlist
                       /\ a.of = "search" => a.suggestion \in Query \cup {NULL}
    BY <1>1 DEF AnswersDated, server
  <2>1. CASE a \in answers
    BY <2>1 DEF FInv, AnswersDated
  <2>2. CASE r.to.path = "playlist" /\ a \notin answers
    <3>1. a = [n |-> r.n, to |-> r.from, of |-> "playlist",
               songs |-> playlist, version |-> version]
      BY <2>2 DEF ServeList
    <3>. QED  BY <1>2, <3>1 DEF FInv, FTypeOK
  <2>3. CASE r.to.path = "search" /\ a \notin answers
    <3>1. a = [n |-> r.n, to |-> r.from, of |-> "search",
               songs |-> Found[r.to.query], suggestion |-> DidYouMean[r.to.query]]
      BY <2>3 DEF ServeList
    <3>. QED  BY <1>2, <2>3, <3>1, FrontendAssumption DEF FrontendAssumption
  <2>. QED  BY <2>1, <2>2, <2>3 DEF ServeList
<1>. QED  BY <1>3, <1>4, <1>5 DEF FInv

\* A new version leaves everything that carries another one behind.
LEMMA NewVersion ==
    ASSUME FInv, version' = version + 1, requests' \subseteq requests, answers' = answers,
           UNCHANGED lists
    PROVE  PagesDated' /\ AnswersDated' /\ RequestsMeant'
<1>1. version \in Nat /\ seen \in [Browser -> Nat \cup {NULL}]
  BY DEF FInv, FTypeOK
<1>2. PagesDated'
  BY <1>1 DEF FInv, PagesDated, lists
<1>3. AnswersDated'
  BY <1>1 DEF FInv, AnswersDated
<1>4. \A r \in requests : r.from \in Browser /\ Meant(r.to)
  BY DEF FInv, RequestsMeant
<1>5. ASSUME NEW to, Meant(to) PROVE Meant(to)'
  BY <1>1, <1>5 DEF Meant, PickDated
<1>. QED  BY <1>2, <1>3, <1>4, <1>5 DEF RequestsMeant

\* The index in a pick is in the playlist exactly when it means a song.
LEMMA SongAtIndex ==
    ASSUME FInv, NEW id \in Nat
    PROVE  /\ SongAt(id) \in Song \cup {NULL}
           /\ SongAt(id) # NULL <=> id < Len(playlist)
BY FrontendAssumption DEF FInv, FTypeOK, SongAt, FrontendAssumption

LEMMA RemoveStep ==
    ASSUME FInv, NEW r \in requests, Remove(r)
    PROVE  FInv'
<1>1. PickDated(r.to) /\ r.to.path = "remove" /\ r.to.id \in Nat
  BY DEF Remove, FInv, RequestsMeant, Meant, PickDated
<1>. DEFINE id == r.to.id
<1>2. playlist \in Seq(Song) /\ version \in Nat /\ Len(playlist) \in Nat
  BY DEF FInv, FTypeOK
<1>3. UNCHANGED <<answers, lists, suggestion, menu>>
  BY DEF Remove, page
<1>4. CASE playlist' = playlist /\ version' = version
  <2>1. served' = [to |-> r.to, hit |-> SongAt(id), before |-> version,
                   left |-> Len(playlist)]
    BY <1>4 DEF Remove
  <2>2. r.to.seen = version => r.to.said = SongAt(id) /\ Len(playlist) # 1
    BY <1>1, <1>2, FrontendAssumption DEF PickDated, FrontendAssumption
  <2>3. SongAt(id) # NULL => id < Len(playlist)
    BY <1>1, SongAtIndex
  <2>4. up' \in BOOLEAN /\ (up' = TRUE \/ FindsNoOther(id))
    BY DEF Remove
  <2>5. Len(playlist) # 1 /\ SongAt(id) # NULL => up' = TRUE
    BY <1>1, <1>2, <2>3, <2>4 DEF FindsNoOther
  <2>6. ServedRight'
    <3>1. SongAt(id) # NULL => Len(playlist) > 0
      BY <1>1, <1>2, <2>3
    <3>. QED  BY <1>4, <2>1, <2>2, <2>5, <3>1
              DEF ServedRight, FreshPickHits, FreshRemovalKeepsOne, Fresh
  <2>7. RequestsMeant'
    BY <1>4 DEF Remove, FInv, RequestsMeant, Meant, PickDated, SongAt
  <2>. QED  BY <1>3, <1>4, <2>4, <2>6, <2>7
            DEF FInv, FTypeOK, RowsMatchSongs, PagesDated, AnswersDated, lists, suggestion
<1>5. CASE ~ (playlist' = playlist /\ version' = version)
  <2>0. SongAt(id) # NULL
    BY <1>5 DEF Remove
  <2>1. id < Len(playlist)
    BY <1>1, <2>0, SongAtIndex
  <2>2. /\ playlist' = SubSeq(playlist, 1, id) \o SubSeq(playlist, id + 2, Len(playlist))
        /\ version' = version + 1
        /\ up' = TRUE
        /\ served' = [to |-> r.to, hit |-> SongAt(id),
                      before |-> version, left |-> Len(playlist')]
    BY <1>5 DEF Remove
  <2>3. playlist' \in Seq(Song) /\ Len(playlist') = Len(playlist) - 1
    <3>1. /\ SubSeq(playlist, 1, id) \in Seq(Song)
          /\ Len(SubSeq(playlist, 1, id)) = id
      BY <1>1, <1>2, <2>1
    <3>2. /\ SubSeq(playlist, id + 2, Len(playlist)) \in Seq(Song)
          /\ Len(SubSeq(playlist, id + 2, Len(playlist))) = Len(playlist) - id - 1
      BY <1>1, <1>2, <2>1
    <3>. DEFINE before == SubSeq(playlist, 1, id)
    <3>. DEFINE after == SubSeq(playlist, id + 2, Len(playlist))
    <3>3. playlist' = before \o after
      BY <2>2
    <3>4. /\ before \in Seq(Song) /\ Len(before) = id
          /\ after \in Seq(Song) /\ Len(after) = Len(playlist) - id - 1
      BY <3>1, <3>2
    <3>. HIDE DEF before, after
    <3>5. playlist' \in Seq(Song) /\ Len(playlist') = Len(before) + Len(after)
      BY <3>3, <3>4, ConcatProperties
    <3>. QED  BY <1>1, <1>2, <3>4, <3>5
  <2>4. ServedRight'
    <3>1. r.to.seen = version => r.to.said = SongAt(id) /\ Len(playlist) # 1
      BY <1>1, <1>2, FrontendAssumption DEF PickDated, FrontendAssumption
    <3>2. Len(playlist) # 1 => Len(playlist') > 0
      BY <1>1, <1>2, <2>1, <2>3
    <3>. QED  BY <2>2, <3>1, <3>2 DEF ServedRight, FreshPickHits, FreshRemovalKeepsOne, Fresh
  <2>5. requests' \subseteq requests
    BY DEF Remove
  <2>6. PagesDated' /\ AnswersDated' /\ RequestsMeant'
    BY <1>3, <2>2, <2>5, NewVersion
  <2>7. version' \in Nat
    BY <1>2, <2>2
  <2>8. FTypeOK' /\ RowsMatchSongs'
    BY <1>3, <2>2, <2>3, <2>7 DEF FInv, FTypeOK, RowsMatchSongs, lists, suggestion
  <2>. QED  BY <2>4, <2>6, <2>8 DEF FInv
<1>. QED  BY <1>4, <1>5

\* An index in the playlist is not wrapped.
LEMMA WrapsNone ==
    ASSUME FInv, NEW id \in Nat, SongAt(id) # NULL
    PROVE  SongStarted(id) = SongAt(id)
<1>1. id < Len(playlist) /\ Len(playlist) \in Nat
  BY SongAtIndex DEF FInv, FTypeOK
<1>2. id % Len(playlist) = id
  BY <1>1
<1>3. playlist # <<>>
  BY <1>1
<1>. QED  BY <1>1, <1>2, <1>3 DEF SongStarted, SongAt

LEMMA StartStep ==
    ASSUME FInv, NEW r \in requests, Start(r)
    PROVE  FInv'
<1>1. PickDated(r.to) /\ r.to.id \in Nat
  BY DEF Start, FInv, RequestsMeant, Meant, PickDated
<1>2. UNCHANGED <<playlist, version, answers, lists, suggestion, menu>>
  BY DEF Start, page
<1>3. /\ served' = [to |-> r.to, hit |-> SongStarted(r.to.id),
                    before |-> version, left |-> Len(playlist)]
      /\ r.to.path = "start" /\ up' = (playlist # <<>>)
  BY DEF Start
<1>3a. playlist \in Seq(Song) /\ Len(playlist) \in Nat
  BY DEF FInv, FTypeOK
<1>4. ServedRight'
  <2>1. r.to.seen = version => r.to.said = SongAt(r.to.id)
    BY <1>1, FrontendAssumption DEF PickDated, FInv, FTypeOK, FrontendAssumption
  <2>2. SongAt(r.to.id) # NULL => SongStarted(r.to.id) = SongAt(r.to.id)
    BY <1>1, <1>3a, WrapsNone
  <2>3. SongStarted(r.to.id) # NULL => playlist # <<>> /\ Len(playlist) > 0
    BY <1>3a DEF SongStarted
  <2>. QED  BY <1>2, <1>3, <2>1, <2>2, <2>3
            DEF ServedRight, FreshPickHits, FreshRemovalKeepsOne, Fresh
<1>5. RequestsMeant'
  BY <1>2 DEF Start, FInv, RequestsMeant, Meant, PickDated, SongAt
<1>. QED  BY <1>2, <1>3, <1>4, <1>5
          DEF FInv, FTypeOK, RowsMatchSongs, PagesDated, AnswersDated, lists, suggestion

LEMMA AddStep ==
    ASSUME FInv, NEW r \in requests, Add(r)
    PROVE  FInv'
<1>1. r.to.uri \in Song
  BY DEF Add, FInv, RequestsMeant, Meant
<1>2. UNCHANGED <<up, served, answers, lists, suggestion, menu>>
  BY DEF Add, page
<1>3. playlist' \in Seq(Song) /\ version' = version + 1 /\ version' \in Nat
  BY <1>1 DEF Add, FInv, FTypeOK
<1>4. PagesDated' /\ AnswersDated' /\ RequestsMeant'
  BY <1>2, <1>3, NewVersion DEF Add
<1>5. ServedRight'
  BY <1>2 DEF FInv, ServedRight, FreshPickHits, FreshRemovalKeepsOne, Fresh
<1>. QED  BY <1>2, <1>3, <1>4, <1>5 DEF FInv, FTypeOK, RowsMatchSongs, lists, suggestion

-----------------------------------------------------------------------------
(* The answers. *)

\* An answer changes one page only, and nothing at the server.
LEMMA ArrivalKeeps ==
    ASSUME FInv, UNCHANGED <<server, requests>>, answers' \subseteq answers
    PROVE  AnswersDated' /\ RequestsMeant' /\ ServedRight'
<1>1. AnswersDated'
  BY DEF FInv, AnswersDated, server
<1>2. RequestsMeant'
  BY DEF FInv, RequestsMeant, Meant, PickDated, SongAt, server
<1>3. ServedRight'
  BY DEF FInv, ServedRight, FreshPickHits, FreshRemovalKeepsOne, Fresh, server
<1>. QED  BY <1>1, <1>2, <1>3

LEMMA SearchArrivesStep ==
    ASSUME FInv, NEW a \in answers, SearchArrives(a)
    PROVE  FInv'
<1>1. a.to \in Browser /\ a.songs \in Seq(Song) /\ a.suggestion \in Query \cup {NULL}
  BY DEF SearchArrives, FInv, AnswersDated
<1>2. Rows(a.songs) \in SUBSET [id : Nat, song : Song] /\ Rows(<<>>) = {}
  BY <1>1, RowsTyped DEF Rows
<1>3. AnswersDated' /\ RequestsMeant' /\ ServedRight'
  BY ArrivalKeeps DEF SearchArrives
<1>4. FTypeOK'
  BY <1>1, <1>2 DEF SearchArrives, UpdateViews, FInv, FTypeOK, server
<1>5. RowsMatchSongs'
  <2>. SUFFICES ASSUME NEW b \in Browser
                PROVE  /\ playlistBody'[b] = Rows(playlistSongs'[b])
                       /\ searchBody'[b] = Rows(searchlistSongs'[b])
                       /\ playlistSongs'[b] = <<>> \/ searchlistSongs'[b] = <<>>
    BY DEF RowsMatchSongs, Rows
  <2>1. CASE b = a.to
    BY <1>1, <1>2, <2>1 DEF SearchArrives, FInv, FTypeOK
  <2>2. CASE b # a.to
    BY <1>1, <2>2 DEF SearchArrives, FInv, FTypeOK, RowsMatchSongs
  <2>. QED  BY <2>1, <2>2
<1>6. PagesDated'
  BY <1>1 DEF SearchArrives, FInv, FTypeOK, PagesDated, server
<1>. QED  BY <1>3, <1>4, <1>5, <1>6 DEF FInv

LEMMA PlaylistArrivesStep ==
    ASSUME FInv, NEW a \in answers, PlaylistArrives(a)
    PROVE  FInv'
<1>1. /\ a.to \in Browser /\ a.songs \in Seq(Song)
      /\ a.version \in Nat /\ a.version <= version
      /\ a.version = version => a.songs = playlist
  BY DEF PlaylistArrives, FInv, AnswersDated
<1>2. Rows(a.songs) \in SUBSET [id : Nat, song : Song] /\ Rows(<<>>) = {}
  BY <1>1, RowsTyped DEF Rows
<1>3. AnswersDated' /\ RequestsMeant' /\ ServedRight'
  BY ArrivalKeeps DEF PlaylistArrives
<1>4. FTypeOK'
  BY <1>1, <1>2 DEF PlaylistArrives, UpdateViews, FInv, FTypeOK, server
<1>5. RowsMatchSongs'
  <2>. SUFFICES ASSUME NEW b \in Browser
                PROVE  /\ playlistBody'[b] = Rows(playlistSongs'[b])
                       /\ searchBody'[b] = Rows(searchlistSongs'[b])
                       /\ playlistSongs'[b] = <<>> \/ searchlistSongs'[b] = <<>>
    BY DEF RowsMatchSongs, Rows
  <2>1. CASE b = a.to
    BY <1>1, <1>2, <2>1 DEF PlaylistArrives, FInv, FTypeOK
  <2>2. CASE b # a.to
    BY <1>1, <2>2 DEF PlaylistArrives, FInv, FTypeOK, RowsMatchSongs
  <2>. QED  BY <2>1, <2>2
<1>6. PagesDated'
  BY <1>1 DEF PlaylistArrives, FInv, FTypeOK, PagesDated, server
<1>. QED  BY <1>3, <1>4, <1>5, <1>6 DEF FInv

LEMMA LoseStep ==
    ASSUME FInv, Lose
    PROVE  FInv'
<1>1. requests' \subseteq requests /\ answers' \subseteq answers
  BY DEF Lose
<1>2. UNCHANGED <<server, lists, suggestion, menu>>
  BY DEF Lose, page
<1>3. RequestsMeant' /\ AnswersDated'
  BY <1>1, <1>2 DEF FInv, RequestsMeant, Meant, PickDated, SongAt, AnswersDated, server
<1>. QED  BY <1>2, <1>3
          DEF FInv, FTypeOK, RowsMatchSongs, PagesDated, ServedRight, FreshPickHits,
              FreshRemovalKeepsOne, Fresh, server, lists, suggestion

-----------------------------------------------------------------------------
LEMMA InitFInv == Init => FInv
<1>. SUFFICES ASSUME Init PROVE FInv
  OBVIOUS
<1>1. Rows(<<>>) = {} /\ <<>> \in Seq(Song)
  BY DEF Rows
<1>2. FTypeOK
  BY <1>1, FrontendAssumption DEF Init, FTypeOK, FrontendAssumption
<1>3. RowsMatchSongs /\ PagesDated
  BY <1>1 DEF Init, RowsMatchSongs, PagesDated
<1>. QED  BY <1>2, <1>3 DEF Init, FInv, AnswersDated, RequestsMeant, ServedRight,
                            FreshPickHits, FreshRemovalKeepsOne, Fresh

LEMMA NextFInv == FInv /\ [Next]_vars => FInv'
<1>. SUFFICES ASSUME FInv, [Next]_vars PROVE FInv'
  OBVIOUS
<1>1. CASE UNCHANGED vars
  BY <1>1 DEF vars, FInv, FTypeOK, RowsMatchSongs, PagesDated, AnswersDated, RequestsMeant,
              Meant, PickDated, SongAt, ServedRight, FreshPickHits, FreshRemovalKeepsOne,
              Fresh, server, lists, suggestion
<1>. QED  BY <1>1, ClickStep, ServeListStep, RemoveStep, StartStep, AddStep,
             SearchArrivesStep, PlaylistArrivesStep, LoseStep DEF Next

LEMMA SpecFInv == Spec => []FInv
  BY InitFInv, NextFInv, PTL DEF Spec

(* The theorems. *)

\* The variables of the pages and of the server keep their types.
THEOREM FrontendTyped == Spec => []FTypeOK
<1>1. FInv => FTypeOK
  BY DEF FInv
<1>. QED  BY <1>1, SpecFInv, PTL

\* In whatever order the answers of getJSON run their callbacks, the table of a
\* page and its array are the same list.
THEOREM RowsAreSongs == Spec => []RowsMatchSongs
<1>1. FInv => RowsMatchSongs
  BY DEF FInv
<1>. QED  BY <1>1, SpecFInv, PTL

\* The name in "... added!" is that of the song whose uri /add carries.
THEOREM AnnouncesWhatItAdds == Spec => []AddedIsAnnounced
<1>1. FInv => AddedIsAnnounced
  BY DEF FInv, RequestsMeant, Meant, AddedIsAnnounced
<1>. QED  BY <1>1, SpecFInv, PTL

\* A pick of a song on an up-to-date page plays or removes the song it names, however
\* late it arrives, unless the playlist has changed before it does; and a removal of a
\* row that has gone removes nothing.
THEOREM FreshPicksHit == Spec => []FreshPickHits
<1>1. FInv => FreshPickHits
  BY DEF FInv, ServedRight
<1>. QED  BY <1>1, SpecFInv, PTL

\* The test in contextMenu.js protects the last song against removals from
\* pages that are up to date, and the server against the endless search for another.
THEOREM FreshRemovalsKeepOne == Spec => []FreshRemovalKeepsOne
<1>1. FInv => FreshRemovalKeepsOne
  BY DEF FInv, ServedRight
<1>. QED  BY <1>1, SpecFInv, PTL

=============================================================================
