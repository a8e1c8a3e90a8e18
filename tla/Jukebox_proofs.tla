---------------------------- MODULE Jukebox_proofs ----------------------------
(***************************************************************************)
(* What holds of the jukebox for any playlists, tracks and bounds, in      *)
(* every behaviour of Jukebox.                                             *)
(*                                                                         *)
(* Part 1: the player has the track of the jukebox.  Part 2: how tracks    *)
(* move when others are removed.  Part 3: what each function of the        *)
(* jukebox does to the record of its globals.  Part 4: every step keeps    *)
(* JInv.  Part 5: the steps that may not crash, interrupt or stop a song.  *)
(* Part 6: the end of a song is never forgotten, and another one follows.  *)
(***************************************************************************)
EXTENDS Jukebox, FiniteSetTheorems, TLAPS

-----------------------------------------------------------------------------
(* Part 1. *)

\* What the operators of the jukebox work on, whatever the values are.
Shaped(j) == j = [playlist |-> j.playlist, index |-> j.index, current |-> j.current,
                  player |-> j.player, status |-> j.status]

\* PlayerMatchesCurrent of a record, with the form of what is in the player.
Matched(j) == j.player # NULL => j.player \in [track : {j.current}, ended : BOOLEAN]

Good(j) == Shaped(j) /\ Matched(j)

IInv == Matched(Globals)

-----------------------------------------------------------------------------
(* The operators that handlers are composed of. *)

LEMMA GlobalsGood == ASSUME IInv PROVE Good(Globals)
  BY DEF IInv, Good, Shaped, Globals

LEMMA IndexGood ==
    ASSUME NEW j, Good(j), NEW i PROVE Good([j EXCEPT !.index = i])
  BY DEF Good, Shaped, Matched

LEMMA StatusGood ==
    ASSUME NEW j, Good(j), NEW s PROVE Good([j EXCEPT !.status = s])
  BY DEF Good, Shaped, Matched

LEMMA PlaylistGood ==
    ASSUME NEW j, Good(j), NEW p PROVE Good([j EXCEPT !.playlist = p])
  BY DEF Good, Shaped, Matched

LEMMA UnloadGood ==
    ASSUME NEW j, Good(j) PROVE Good(Unload(j))
<1>1. Unload(j) = [[j EXCEPT !.current = NULL] EXCEPT !.player = NULL]
  BY DEF Unload
<1>2. Unload(j) = [playlist |-> j.playlist, index |-> j.index, current |-> NULL,
                   player |-> NULL, status |-> j.status]
  BY <1>1 DEF Good, Shaped
<1>. QED  BY <1>2 DEF Good, Shaped, Matched

LEMMA LoadGood ==
    ASSUME NEW j, Good(j), NEW t PROVE Good(Load(j, t))
<1>. DEFINE pl == IF t \in Playable THEN [track |-> t, ended |-> FALSE] ELSE NULL
<1>1. Load(j, t) = [playlist |-> j.playlist, index |-> j.index, current |-> t,
                    player |-> pl, status |-> j.status]
  <2>1. Load(j, t) = [[j EXCEPT !.current = t] EXCEPT !.player = pl]
    BY DEF Load
  <2>. HIDE DEF pl
  <2>. QED  BY <2>1 DEF Good, Shaped
<1>2. pl # NULL => pl \in [track : {t}, ended : BOOLEAN]
  OBVIOUS
<1>. HIDE DEF pl
<1>. QED  BY <1>1, <1>2 DEF Good, Shaped, Matched

LEMMA StartTrackGood ==
    ASSUME NEW j, Good(j), NEW t, NEW ok PROVE Good(StartTrack(j, t, ok))
<1>. DEFINE j1 == IF j.current # NULL /\ t # j.current THEN Unload(j) ELSE j
<1>1. Good(j1)
  BY UnloadGood
<1>2. StartTrack(j, t, ok) \in {j1, Load(j1, t)}
  BY DEF StartTrack
<1>. HIDE DEF j1
<1>. QED  BY <1>1, <1>2, LoadGood

LEMMA TryStartGood ==
    ASSUME NEW j, Good(j), NEW lst, NEW ok PROVE Good(TryStart(j, lst, ok))
<1>. DEFINE t == TrackAt(lst[j.playlist], j.index)
<1>1. TryStart(j, lst, ok) \in {j, StartTrack(j, t, ok)}
  BY DEF TryStart
<1>. HIDE DEF t
<1>. QED  BY <1>1, StartTrackGood

LEMMA ChangeTrackGood ==
    ASSUME NEW j, Good(j), NEW i, NEW lst, NEW ok PROVE Good(ChangeTrack(j, i, lst, ok))
<1>. DEFINE j1 == [j EXCEPT !.index = CRem(i, Len(lst[j.playlist]))]
            dead == [j EXCEPT !.status = "crashed"]
<1>1. Good(j1) /\ Good(dead)
  BY IndexGood, StatusGood
<1>2. ChangeTrack(j, i, lst, ok) \in {dead, j1, TryStart(Unload(j1), lst, ok)}
  BY DEF ChangeTrack
<1>. HIDE DEF j1, dead
<1>. QED  BY <1>1, <1>2, UnloadGood, TryStartGood

LEMMA PickAnotherGood ==
    ASSUME NEW j, Good(j), NEW n, NEW lst, NEW ok, NEW k \in PickAnother(j, n, lst, ok)
    PROVE  Good(k)
<1>1. CASE n = 0 \/ (n = 1 /\ j.index = 0)
  <2>1. k = [j EXCEPT !.status = "crashed"] \/ k = [j EXCEPT !.status = "spinning"]
    BY <1>1 DEF PickAnother
  <2>. QED  BY <2>1, StatusGood
<1>2. CASE n # 0 /\ ~(n = 1 /\ j.index = 0)
  <2>1. PICK i : k = ChangeTrack([j EXCEPT !.index = i], i, lst, ok)
    BY <1>2 DEF PickAnother
  <2>2. Good([j EXCEPT !.index = i])
    BY IndexGood
  <2>. QED  BY <2>1, <2>2, ChangeTrackGood
<1>. QED  BY <1>1, <1>2

LEMMA EditedGood ==
    ASSUME NEW j, Good(j), NEW p, NEW lst PROVE Good(Edited(j, p, lst))
  BY TryStartGood DEF Edited

LEMMA RemovedGood ==
    ASSUME NEW j, Good(j), NEW p, NEW gone, NEW lst PROVE Good(Removed(j, p, gone, lst))
<1>. DEFINE k == Cardinality({i \in gone : i < j.index})
            j1 == [j EXCEPT !.index = j.index - k]
<1>1. Good(j1)
  BY IndexGood
<1>2. Removed(j, p, gone, lst) \in {j, TryStart(j1, lst, loaded)}
  BY DEF Removed
<1>. HIDE DEF j1
<1>. QED  BY <1>1, <1>2, TryStartGood

LEMMA RenamedGood ==
    ASSUME NEW j, Good(j), NEW p, NEW isNamed PROVE Good(Renamed(j, p, isNamed))
<1>. DEFINE j1 == [j EXCEPT !.playlist = p]
            j2 == [j1 EXCEPT !.index = 0]
            j3 == [j EXCEPT !.playlist = NULL]
<1>1. Good(j1) /\ Good(j3)
  BY PlaylistGood
<1>2. Good(j2)
  <2>. HIDE DEF j1
  <2>. QED  BY <1>1, IndexGood
<1>3. Renamed(j, p, isNamed) \in {TryStart(j2, list, loaded), Unload(j3), j}
  BY DEF Renamed
<1>. HIDE DEF j1, j2, j3
<1>. QED  BY <1>1, <1>2, <1>3, TryStartGood, UnloadGood

-----------------------------------------------------------------------------
(* The steps. *)

LEMMA BecomeGood ==
    ASSUME NEW j, Good(j), Become(j) PROVE IInv'
<1>1. Globals' = j
  BY DEF Become, Globals, Good, Shaped
<1>2. Matched(Globals')
  BY <1>1 DEF Good
<1>. QED  BY <1>2 DEF IInv, Matched

\* What a playlist that comes into view does: LoadPlaylist and PlaylistAdded.
LEMMA FoundGood ==
    ASSUME IInv, NEW p
    PROVE  Good(IF p \in named
                THEN TryStart([Globals EXCEPT !.playlist = p], list, loaded)
                ELSE Globals)
  BY GlobalsGood, PlaylistGood, TryStartGood

LEMMA PlaylistSteps ==
    ASSUME IInv, NEW p \in Playlist,
           \/ LoadPlaylist(p) \/ PlaylistAdded(p) \/ PlaylistRemoved(p) \/ PlaylistRenamed(p)
           \/ TracksAdded(p) \/ TracksMoved(p) \/ TracksRemoved(p)
    PROVE  IInv'
<1>. USE GlobalsGood
<1>1. CASE LoadPlaylist(p)
  BY <1>1, FoundGood, BecomeGood DEF LoadPlaylist
<1>2. CASE PlaylistAdded(p)
  BY <1>2, FoundGood, BecomeGood DEF PlaylistAdded
<1>3. CASE PlaylistRemoved(p)
  BY <1>3 DEF PlaylistRemoved, globals, IInv, Matched, Globals
<1>4. CASE PlaylistRenamed(p)
  BY <1>4, RenamedGood, BecomeGood DEF PlaylistRenamed
<1>5. CASE TracksAdded(p)
  BY <1>5, EditedGood, BecomeGood DEF TracksAdded
<1>6. CASE TracksMoved(p)
  BY <1>6, EditedGood, BecomeGood DEF TracksMoved
<1>7. CASE TracksRemoved(p)
  BY <1>7, RemovedGood, BecomeGood DEF TracksRemoved, RemoteRemove
<1>. QED  BY <1>1, <1>2, <1>3, <1>4, <1>5, <1>6, <1>7

LEMMA SessionSteps ==
    ASSUME IInv,
           \/ LoadPlaylistDone \/ MetadataUpdated \/ PlayTokenLost \/ EndOfTrack \/ Autoplay
           \/ MissingArgument
    PROVE  IInv'
<1>. USE GlobalsGood
<1>1. CASE LoadPlaylistDone
  BY <1>1, StatusGood, BecomeGood DEF LoadPlaylistDone
<1>2. CASE MetadataUpdated
  BY <1>2, TryStartGood, BecomeGood DEF MetadataUpdated
<1>3. CASE PlayTokenLost
  BY <1>3, UnloadGood, BecomeGood DEF PlayTokenLost
<1>4. CASE EndOfTrack
  <2>1. player \in [track : {g_currenttrack}, ended : BOOLEAN]
    BY <1>4 DEF EndOfTrack, IInv, Matched, Globals
  <2>2. player' \in [track : {g_currenttrack'}, ended : BOOLEAN]
    BY <1>4, <2>1 DEF EndOfTrack
  <2>. QED  BY <2>2 DEF IInv, Matched, Globals
<1>5. CASE Autoplay
  BY <1>5, PickAnotherGood, BecomeGood DEF Autoplay
<1>6. CASE MissingArgument
  BY <1>6, StatusGood, BecomeGood DEF MissingArgument
<1>. QED  BY <1>1, <1>2, <1>3, <1>4, <1>5, <1>6

LEMMA StartStep == ASSUME IInv, NEW i, StartRequest(i) PROVE IInv'
  BY GlobalsGood, ChangeTrackGood, BecomeGood DEF StartRequest

LEMMA RemoveStep == ASSUME IInv, NEW i, RemoveRequest(i) PROVE IInv'
<1>. DEFINE gone == {i} \cap 0..Len(list[Home]) - 1
            left == IF g_track_index # i THEN {Globals}
                    ELSE PickAnother(Globals, Len(list[Home]), list, loaded)
<1>1. \A j \in left : Good(j)
  BY GlobalsGood, PickAnotherGood
<1>2. PICK j \in left :
          \/ Become(j)
          \/ Become(Removed(j, Home, gone, list'))
  BY DEF RemoveRequest
<1>. HIDE DEF left, gone
<1>3. Good(j) /\ Good(Removed(j, Home, gone, list'))
  BY <1>1, RemovedGood
<1>. QED  BY <1>2, <1>3, BecomeGood

LEMMA AddStep == ASSUME IInv, NEW t, AddRequest(t) PROVE IInv'
  BY GlobalsGood, EditedGood, BecomeGood DEF AddRequest

LEMMA IInvStep == IInv /\ [Next]_vars => IInv'
<1>. SUFFICES ASSUME IInv, [Next]_vars PROVE IInv'
  OBVIOUS
<1>1. CASE UNCHANGED vars
  BY <1>1 DEF vars, globals, IInv, Matched, Globals
<1>2. CASE Next
  BY <1>2, PlaylistSteps, SessionSteps, StartStep, RemoveStep, AddStep DEF Next
<1>. QED  BY <1>1, <1>2

LEMMA IInvInit == Init => IInv
  BY DEF Init, IInv, Matched, Globals

\* libspotify never plays a track that the jukebox has forgotten, for all
\* playlists, sequences of edits and requests.
THEOREM PlayerMatches == SafeSpec => []PlayerMatchesCurrent
<1>1. IInv => PlayerMatchesCurrent
  BY DEF IInv, Matched, Globals, PlayerMatchesCurrent
<1>. QED  BY <1>1, IInvInit, IInvStep, PTL DEF SafeSpec

-----------------------------------------------------------------------------
(* Part 2: lists with fewer tracks. *)

\* The indices that are left of a list of n tracks, and how many come before i.
Kept(n, gone) == 0..n - 1 \ gone
Rank(n, gone, i) == Cardinality({h \in Kept(n, gone) : h < i})

LEMMA KeptFinite ==
    ASSUME NEW n \in Nat, NEW gone
    PROVE  /\ IsFiniteSet(Kept(n, gone))
           /\ Cardinality(Kept(n, gone)) \in 0..n
           /\ \A i : /\ IsFiniteSet({h \in Kept(n, gone) : h < i})
                     /\ Rank(n, gone, i) \in Nat
<1>1. IsFiniteSet(0..n - 1) /\ Cardinality(0..n - 1) = n
  BY FS_Interval
<1>2. /\ IsFiniteSet(Kept(n, gone))
      /\ Cardinality(Kept(n, gone)) <= n
  <2>1. Kept(n, gone) \in SUBSET (0..n - 1)
    BY DEF Kept
  <2>. QED BY <1>1, <2>1, FS_Subset
<1>3. ASSUME NEW i
      PROVE  IsFiniteSet({h \in Kept(n, gone) : h < i}) /\ Rank(n, gone, i) \in Nat
  <2>1. {h \in Kept(n, gone) : h < i} \in SUBSET Kept(n, gone)
    OBVIOUS
  <2>. QED BY <1>2, <2>1, FS_Subset, FS_CardinalityType DEF Rank
<1>. QED BY <1>2, <1>3, FS_CardinalityType

\* Tracks keep their order.
LEMMA RankGrows ==
    ASSUME NEW n \in Nat, NEW gone, NEW i \in Kept(n, gone), NEW k \in Kept(n, gone), i < k
    PROVE  Rank(n, gone, i) < Rank(n, gone, k)
<1>. DEFINE before(x) == {h \in Kept(n, gone) : h < x}
<1>1. IsFiniteSet(before(i)) /\ IsFiniteSet(before(k))
  BY KeptFinite
<1>2. i \notin before(i) /\ i \in before(k)
  BY DEF Kept
<1>3. before(i) \cup {i} \in SUBSET before(k)
  BY DEF Kept
<1>4. Cardinality(before(i) \cup {i}) = Cardinality(before(i)) + 1
  BY <1>1, <1>2, FS_AddElement
<1>5. Cardinality(before(i) \cup {i}) <= Cardinality(before(k))
  BY <1>1, <1>3, FS_Subset
<1>6. Cardinality(before(i)) \in Nat /\ Cardinality(before(k)) \in Nat
  BY <1>1, FS_CardinalityType
<1>. QED BY <1>4, <1>5, <1>6 DEF Rank

LEMMA RankInRange ==
    ASSUME NEW n \in Nat, NEW gone, NEW i \in Kept(n, gone)
    PROVE  Rank(n, gone, i) \in 0..Cardinality(Kept(n, gone)) - 1
<1>. DEFINE before == {h \in Kept(n, gone) : h < i}
<1>1. IsFiniteSet(before) /\ IsFiniteSet(Kept(n, gone))
  BY KeptFinite
<1>2. i \notin before
  BY DEF Kept
<1>3. before \cup {i} \in SUBSET Kept(n, gone)
  OBVIOUS
<1>4. Cardinality(before \cup {i}) = Cardinality(before) + 1
  BY <1>1, <1>2, FS_AddElement
<1>5. Cardinality(before \cup {i}) <= Cardinality(Kept(n, gone))
  BY <1>1, <1>3, FS_Subset
<1>6. Cardinality(before) \in Nat /\ Cardinality(Kept(n, gone)) \in Nat
  BY <1>1, FS_CardinalityType
<1>. QED BY <1>4, <1>5, <1>6 DEF Rank

\* Each place of the shorter list has exactly one track.
LEMMA RankIsOnto ==
    ASSUME NEW n \in Nat, NEW gone, NEW r \in 0..Cardinality(Kept(n, gone)) - 1
    PROVE  \E i \in Kept(n, gone) : Rank(n, gone, i) = r
<1>. DEFINE K == Kept(n, gone)
            R == 0..Cardinality(K) - 1
            f == [i \in K |-> Rank(n, gone, i)]
<1>1. IsFiniteSet(K) /\ Cardinality(K) \in Nat
  BY KeptFinite
<1>2. IsFiniteSet(R) /\ Cardinality(R) = Cardinality(K)
  BY <1>1, FS_Interval
<1>3. f \in [K -> R]
  BY RankInRange
<1>4. \A i, k \in K : f[i] = f[k] => i = k
  <2>. SUFFICES ASSUME NEW i \in K, NEW k \in K, i # k PROVE f[i] # f[k]
    OBVIOUS
  <2>1. i \in Int /\ k \in Int
    BY DEF Kept
  <2>2. Rank(n, gone, i) \in Nat /\ Rank(n, gone, k) \in Nat
    BY KeptFinite
  <2>3. CASE i < k
    BY <2>3, <2>2, RankGrows
  <2>4. CASE k < i
    BY <2>4, <2>2, RankGrows
  <2>. QED BY <2>1, <2>3, <2>4
<1>5. f \in Injection(K, R)
  BY <1>3, <1>4 DEF Injection, IsInjective
<1>6. f \in Surjection(K, R)
  <2>. HIDE DEF f, K, R
  <2>. QED BY <1>2, <1>5, FS_Injection, <1>1
<1>7. r \in R
  OBVIOUS
<1>. HIDE DEF R
<1>. QED BY <1>6, <1>7 DEF Surjection

\* How far a track moves to the front.
LEMMA RankIsShift ==
    ASSUME NEW n \in Nat, NEW gone \in SUBSET (0..n - 1), NEW i \in 0..n
    PROVE  /\ Cardinality({g \in gone : g < i}) \in 0..i
           /\ Rank(n, gone, i) = i - Cardinality({g \in gone : g < i})
<1>. DEFINE G == {g \in gone : g < i}
            B == {h \in Kept(n, gone) : h < i}
<1>1. IsFiniteSet(0..i - 1) /\ Cardinality(0..i - 1) = i
  BY FS_Interval
<1>2. G \in SUBSET (0..i - 1) /\ (0..i - 1) \cap G = G
  <2>1. \A g \in G : g \in 0..i - 1
    OBVIOUS
  <2>. HIDE DEF G
  <2>. QED BY <2>1
<1>3. IsFiniteSet(G) /\ Cardinality(G) <= i
  BY <1>1, <1>2, FS_Subset
<1>4. B = (0..i - 1) \ G
  BY DEF Kept
<1>5. Cardinality((0..i - 1) \ G) = Cardinality(0..i - 1) - Cardinality((0..i - 1) \cap G)
  BY <1>1, FS_Difference
<1>6. Cardinality(G) \in Nat
  BY <1>3, FS_CardinalityType
<1>7. Cardinality(B) = i - Cardinality(G)
  BY <1>1, <1>2, <1>4, <1>5
<1>. QED BY <1>3, <1>6, <1>7 DEF Rank

LEMMA ListsAreSequences ==
    ASSUME NEW s PROVE s \in Lists <=> s \in Seq(Track) /\ Len(s) <= MaxTracks
<1>1. ASSUME s \in Lists PROVE s \in Seq(Track) /\ Len(s) <= MaxTracks
  <2>1. PICK n \in 0..MaxTracks : s \in [1..n -> Track]
    BY <1>1 DEF Lists
  <2>2. n \in Nat /\ n <= MaxTracks
    BY <2>1, JukeboxAssumption
  <2>3. s \in Seq(Track)
    BY <2>1, <2>2
  <2>4. Len(s) = n
    BY <2>1, <2>2
  <2>. QED BY <2>2, <2>3, <2>4
<1>2. ASSUME s \in Seq(Track), Len(s) <= MaxTracks PROVE s \in Lists
  <2>1. Len(s) \in 0..MaxTracks /\ s \in [1..Len(s) -> Track]
    BY <1>2, JukeboxAssumption
  <2>. QED BY <2>1 DEF Lists
<1>. QED BY <1>1, <1>2

LEMMA WithoutKept ==
    ASSUME NEW s \in Seq(Track), NEW gone \in SUBSET (0..Len(s) - 1)
    PROVE  /\ Without(s, gone) \in Seq(Track)
           /\ Len(Without(s, gone)) = Cardinality(Kept(Len(s), gone))
           /\ Len(Without(s, gone)) <= Len(s)
           /\ \A i \in Kept(Len(s), gone) :
                 /\ Rank(Len(s), gone, i) \in 0..Len(Without(s, gone)) - 1
                 /\ Without(s, gone)[Rank(Len(s), gone, i) + 1] = s[i + 1]
<1>. DEFINE n == Len(s)
            K == Kept(n, gone)
            at(k) == CHOOSE i \in K : Rank(n, gone, i) = k - 1
<1>1. n \in Nat /\ Cardinality(K) \in 0..n
  BY KeptFinite
<1>2. Without(s, gone) = [k \in 1..Cardinality(K) |-> s[1 + at(k)]]
  BY DEF Without, Kept, Rank
<1>3. \A k \in 1..Cardinality(K) : at(k) \in K /\ Rank(n, gone, at(k)) = k - 1
  <2>. TAKE k \in 1..Cardinality(K)
  <2>1. k - 1 \in 0..Cardinality(K) - 1
    BY <1>1
  <2>2. \E i \in K : Rank(n, gone, i) = k - 1
    BY <2>1, <1>1, RankIsOnto
  <2>. QED BY <2>2
<1>4. \A i \in K : i \in Nat /\ s[1 + i] \in Track /\ 1 + i = i + 1
  BY DEF Kept
<1>5. Without(s, gone) \in [1..Cardinality(K) -> Track]
  <2>. HIDE DEF at, K
  <2>. QED BY <1>2, <1>3, <1>4
<1>6. Without(s, gone) \in Seq(Track) /\ Len(Without(s, gone)) = Cardinality(K)
  <2>. HIDE DEF K
  <2>. QED BY <1>1, <1>5
<1>7. ASSUME NEW i \in K
      PROVE  /\ Rank(n, gone, i) \in 0..Cardinality(K) - 1
             /\ Without(s, gone)[Rank(n, gone, i) + 1] = s[i + 1]
  <2>. DEFINE k == Rank(n, gone, i) + 1
  <2>1. Rank(n, gone, i) \in 0..Cardinality(K) - 1
    BY <1>1, RankInRange
  <2>2. k \in 1..Cardinality(K) /\ k - 1 = Rank(n, gone, i)
    BY <2>1, <1>1
  <2>3. at(k) \in K /\ Rank(n, gone, at(k)) = Rank(n, gone, i)
    BY <1>3, <2>2
  <2>4. at(k) = i
    <3>1. at(k) \in Int /\ i \in Int
      BY <2>3 DEF Kept
    <3>2. ~(at(k) < i) /\ ~(i < at(k))
      <4>. HIDE DEF at, k
      <4>1. Rank(n, gone, i) \in Nat
        BY <1>1, KeptFinite
      <4>. QED BY <2>3, <4>1, <1>1, RankGrows
    <3>. HIDE DEF at
    <3>. QED BY <3>1, <3>2
  <2>5. Without(s, gone)[k] = s[1 + i]
    <3>. HIDE DEF at, K, k
    <3>. QED BY <1>2, <2>2, <2>4
  <2>. QED BY <2>1, <2>5, <1>4
<1>. QED BY <1>1, <1>6, <1>7

\* Where no track goes, the list stays the same.
LEMMA WithoutNothing ==
    ASSUME NEW s \in Seq(Track) PROVE Without(s, {}) = s
<1>1. Kept(Len(s), {}) = 0..Len(s) - 1 /\ Len(s) \in Nat
  BY DEF Kept
<1>2. Len(Without(s, {})) = Len(s)
  <2>. DEFINE n == Len(s)
  <2>1. n \in Nat
    OBVIOUS
  <2>2. {} \in SUBSET (0..n - 1)
    OBVIOUS
  <2>3. Cardinality(0..n - 1) = n
    <3>. HIDE DEF n
    <3>. QED BY <2>1, FS_Interval
  <2>4. Len(Without(s, {})) = Cardinality(Kept(n, {}))
    BY <2>2, WithoutKept
  <2>. QED BY <1>1, <2>3, <2>4
<1>3. ASSUME NEW i \in 0..Len(s) - 1 PROVE Rank(Len(s), {}, i) = i
  <2>1. {g \in {} : g < i} = {} /\ {} \in SUBSET (0..Len(s) - 1) /\ i \in 0..Len(s)
    BY <1>1
  <2>2. Rank(Len(s), {}, i) = i - Cardinality({})
    BY <2>1, <1>1, RankIsShift
  <2>. QED BY <2>2, FS_EmptySet, <1>1
<1>4. \A i \in 0..Len(s) - 1 : Without(s, {})[i + 1] = s[i + 1]
  <2>1. {} \in SUBSET (0..Len(s) - 1)
    OBVIOUS
  <2>2. \A i \in Kept(Len(s), {}) :
           Without(s, {})[Rank(Len(s), {}, i) + 1] = s[i + 1]
    BY <2>1, WithoutKept
  <2>. QED BY <1>1, <1>3, <2>2
<1>5. \A k \in 1..Len(s) : Without(s, {})[k] = s[k]
  <2>. TAKE k \in 1..Len(s)
  <2>1. k - 1 \in 0..Len(s) - 1 /\ (k - 1) + 1 = k
    BY <1>1
  <2>. QED BY <2>1, <1>4
<1>6. Without(s, {}) \in Seq(Track)
  BY WithoutKept
<1>. QED BY <1>2, <1>5, <1>6

LEMMA InsertTyped ==
    ASSUME NEW s \in Seq(Track), NEW t \in Track, NEW at \in 1..Len(s) + 1
    PROVE  InsertAt(s, at, t) \in Seq(Track) /\ Len(InsertAt(s, at, t)) = Len(s) + 1
<1>. DEFINE a == SubSeq(s, 1, at - 1)
            b == SubSeq(s, at, Len(s))
<1>1. a \in Seq(Track) /\ Len(a) = at - 1
  OBVIOUS
<1>2. b \in Seq(Track) /\ Len(b) = Len(s) - at + 1
  OBVIOUS
<1>3. InsertAt(s, at, t) = (a \o <<t>>) \o b
  BY DEF InsertAt
<1>. HIDE DEF a, b
<1>4. a \o <<t>> \in Seq(Track) /\ Len(a \o <<t>>) = at
  BY <1>1
<1>. QED BY <1>2, <1>3, <1>4

LEMMA RemoveTyped ==
    ASSUME NEW s \in Seq(Track), NEW at \in 1..Len(s)
    PROVE  RemoveAt(s, at) \in Seq(Track) /\ Len(RemoveAt(s, at)) = Len(s) - 1
<1>. DEFINE a == SubSeq(s, 1, at - 1)
            b == SubSeq(s, at + 1, Len(s))
<1>1. a \in Seq(Track) /\ Len(a) = at - 1
  OBVIOUS
<1>2. b \in Seq(Track) /\ Len(b) = Len(s) - at
  OBVIOUS
<1>3. RemoveAt(s, at) = a \o b
  BY DEF RemoveAt
<1>. HIDE DEF a, b
<1>. QED BY <1>1, <1>2, <1>3

-----------------------------------------------------------------------------
(* Part 3: the functions of the jukebox. *)

\* The values of the globals, and of the playlists.
State == [playlist : Playlist \cup {NULL}, index : Int, current : Track \cup {NULL},
          player : [track : Track, ended : BOOLEAN] \cup {NULL},
          status : {"login", "run", "crashed", "spinning", "misread"}]

Contents == [Playlist -> Seq(Track)]

\* There is a track at the index; and the test of try_jukebox_start, which is weaker.
InList(j, lst) == j.playlist # NULL /\ j.index \in 0..Len(lst[j.playlist]) - 1
LooksUp(j, lst) == /\ j.playlist # NULL
                   /\ lst[j.playlist] # <<>>
                   /\ j.index <= Len(lst[j.playlist])
Here(j, lst) == TrackAt(lst[j.playlist], j.index)

\* CurrentIsIndexed of a record: the track it plays is the one at its index.
Indexed(j, lst) == j.current # NULL /\ LooksUp(j, lst) => j.current = Here(j, lst)

LEMMA StateFields ==
    ASSUME NEW j \in State
    PROVE  /\ j = [playlist |-> j.playlist, index |-> j.index, current |-> j.current,
                   player |-> j.player, status |-> j.status]
           /\ j.playlist \in Playlist \cup {NULL}
           /\ j.index \in Int
           /\ j.current \in Track \cup {NULL}
           /\ j.player \in [track : Track, ended : BOOLEAN] \cup {NULL}
           /\ j.status \in {"login", "run", "crashed", "spinning", "misread"}
  BY DEF State

LEMMA HereTyped ==
    ASSUME NEW j \in State, NEW lst \in Contents, InList(j, lst)
    PROVE  /\ Here(j, lst) \in Track
           /\ Here(j, lst) # NULL
           /\ Here(j, lst) = lst[j.playlist][j.index + 1]
<1>1. /\ lst[j.playlist] \in Seq(Track)
      /\ j.index \in 0..Len(lst[j.playlist]) - 1
  BY StateFields DEF InList, Contents
<1>2. /\ j.index \in 0..Len(lst[j.playlist]) - 1
      /\ lst[j.playlist][j.index + 1] \in Track
  BY <1>1
<1>. QED BY <1>2, JukeboxAssumption DEF Here, TrackAt

LEMMA UnloadDoes ==
    ASSUME NEW j \in State
    PROVE  Unload(j) = [playlist |-> j.playlist, index |-> j.index, current |-> NULL,
                        player |-> NULL, status |-> j.status]
<1>1. Unload(j) = [[j EXCEPT !.current = NULL] EXCEPT !.player = NULL]
  BY DEF Unload
<1>. QED BY <1>1, StateFields

LEMMA LoadDoes ==
    ASSUME NEW j \in State, NEW t \in Track
    PROVE  /\ Load(j, t) \in State
           /\ Load(j, t).playlist = j.playlist
           /\ Load(j, t).index = j.index
           /\ Load(j, t).current = t
           /\ Load(j, t).status = j.status
           /\ t \in Playable => Load(j, t).player = [track |-> t, ended |-> FALSE]
<1>. DEFINE pl == IF t \in Playable THEN [track |-> t, ended |-> FALSE] ELSE NULL
<1>1. Load(j, t) = [[j EXCEPT !.current = t] EXCEPT !.player = pl]
  BY DEF Load
<1>2. pl \in [track : Track, ended : BOOLEAN] \cup {NULL}
  OBVIOUS
<1>3. t \in Playable => pl = [track |-> t, ended |-> FALSE]
  OBVIOUS
<1>. HIDE DEF pl
<1>4. Load(j, t) = [playlist |-> j.playlist, index |-> j.index, current |-> t,
                    player |-> pl, status |-> j.status]
  BY <1>1, StateFields
<1>. QED BY <1>2, <1>3, <1>4, StateFields DEF State

\* try_jukebox_start: the track at the index plays or none does, if there is one.
LEMMA TryStartDoes ==
    ASSUME NEW j \in State, NEW lst \in Contents, NEW ok
    PROVE  LET k == TryStart(j, lst, ok)
           IN  /\ k \in State
               /\ k.playlist = j.playlist /\ k.index = j.index /\ k.status = j.status
               /\ Indexed(k, lst)
               /\ j.current # NULL /\ InList(j, lst) /\ j.current = Here(j, lst) => k = j
               /\ j.current = NULL /\ InList(j, lst) /\ Here(j, lst) \in ok \cap Playable
                    => /\ k.current = Here(j, lst)
                       /\ k.player = [track |-> Here(j, lst), ended |-> FALSE]
<1>. DEFINE k == TryStart(j, lst, ok)
<1>0. k = TryStart(j, lst, ok)
  OBVIOUS
<1>. HIDE DEF k
<1>. SUFFICES /\ k \in State
              /\ k.playlist = j.playlist /\ k.index = j.index /\ k.status = j.status
              /\ Indexed(k, lst)
              /\ j.current # NULL /\ InList(j, lst) /\ j.current = Here(j, lst) => k = j
              /\ j.current = NULL /\ InList(j, lst) /\ Here(j, lst) \in ok \cap Playable
                   => /\ k.current = Here(j, lst)
                      /\ k.player = [track |-> Here(j, lst), ended |-> FALSE]
  BY DEF k
<1>. DEFINE t == Here(j, lst)
            j1 == IF j.current # NULL /\ t # j.current THEN Unload(j) ELSE j
<1>1. CASE j.playlist = NULL \/ Len(lst[j.playlist]) = 0 \/ Len(lst[j.playlist]) < j.index
  <2>1. k = j
    BY <1>0, <1>1 DEF TryStart
  <2>2. ~InList(j, lst) /\ ~LooksUp(j, lst)
    BY <1>1, StateFields DEF InList, LooksUp, Contents
  <2>. QED BY <2>1, <2>2 DEF Indexed
<1>2. CASE ~(j.playlist = NULL \/ Len(lst[j.playlist]) = 0 \/ Len(lst[j.playlist]) < j.index)
  <2>0. t \in Track \cup {NULL}
    <3>1. lst[j.playlist] \in Seq(Track) /\ j.index \in Int
      BY <1>2, StateFields DEF Contents
    <3>. HIDE DEF t
    <3>2. t = IF j.index \in 0..Len(lst[j.playlist]) - 1 THEN lst[j.playlist][j.index + 1]
              ELSE NULL
      BY DEF t, Here, TrackAt
    <3>. QED BY <3>1, <3>2
  <2>1. k = StartTrack(j, t, ok)
    BY <1>0, <1>2 DEF TryStart, Here
  <2>2. k = IF t = NULL \/ t \notin ok \/ j1.current = t THEN j1 ELSE Load(j1, t)
    BY <2>1 DEF StartTrack
  <2>3. /\ j1 \in State
        /\ j1.playlist = j.playlist /\ j1.index = j.index /\ j1.status = j.status
        /\ j1.current \in {NULL, t}
        /\ j.current \in {NULL, t} => j1 = j
    <3>1. CASE j.current # NULL /\ t # j.current
      <4>1. j1 = [playlist |-> j.playlist, index |-> j.index, current |-> NULL,
                  player |-> NULL, status |-> j.status]
        BY <3>1, UnloadDoes
      <4>. HIDE DEF t, j1
      <4>. QED BY <4>1, <3>1, StateFields DEF State
    <3>2. CASE ~(j.current # NULL /\ t # j.current)
      BY <3>2
    <3>. QED BY <3>1, <3>2
  <2>4. ASSUME NEW x \in State, x.playlist = j.playlist, x.index = j.index,
               x.current \in {NULL, t}
        PROVE  Indexed(x, lst)
    BY <2>4 DEF Indexed, Here
  <2>5. InList(j, lst) => t # NULL
    BY HereTyped
  <2>. HIDE DEF t, j1
  <2>6. CASE k = j1
    <3>1. ~(j.current = NULL /\ InList(j, lst) /\ t \in ok \cap Playable)
      <4>. SUFFICES ASSUME j.current = NULL, InList(j, lst), t \in ok \cap Playable PROVE FALSE
        OBVIOUS
      <4>1. j1 = j /\ t # NULL /\ t \in Track
        BY <2>0, <2>3, <2>5
      <4>2. k = Load(j, t)
        BY <2>2, <4>1
      <4>3. k.current = t
        BY <4>1, <4>2, LoadDoes
      <4>. QED BY <2>6, <4>1, <4>3
    <3>. QED BY <3>1, <2>3, <2>4, <2>6 DEF t
  <2>7. CASE k = Load(j1, t) /\ t # NULL /\ j1.current # t
    <3>1. /\ k \in State
          /\ k.playlist = j.playlist /\ k.index = j.index /\ k.status = j.status
          /\ k.current = t
          /\ t \in Playable => k.player = [track |-> t, ended |-> FALSE]
      BY <2>7, <2>3, <2>0, LoadDoes
    <3>2. j.current # t
      BY <2>7, <2>3
    <3>3. Indexed(k, lst)
      BY <3>1, <2>4
    <3>. QED BY <3>1, <3>2, <3>3 DEF t
  <2>. QED BY <2>2, <2>6, <2>7
<1>. QED BY <1>1, <1>2

\* There is something to divide by and to look up.
HasTracks(j, lst) == j.playlist # NULL /\ Len(lst[j.playlist]) > 0

\* The track at i of the list that is played, and that it plays.
CanPlay(j, i, lst, ok) == /\ j.playlist # NULL
                          /\ i \in 0..Len(lst[j.playlist]) - 1
                          /\ lst[j.playlist][i + 1] \in ok \cap Playable

Sounds(k, t) == k.current = t /\ k.player = [track |-> t, ended |-> FALSE]

\* What C computes as a remainder.
LEMMA RemTyped ==
    ASSUME NEW i \in Int, NEW n \in Nat, n > 0
    PROVE  CRem(i, n) \in Int /\ (i \in 0..n - 1 => CRem(i, n) = i)
<1>1. CASE i >= 0
  BY <1>1 DEF CRem
<1>2. CASE i < 0
  <2>1. (-i) % n \in 0..n - 1
    BY <1>2
  <2>. QED BY <1>2, <2>1 DEF CRem
<1>. QED BY <1>1, <1>2

\* change_track, to any number; and to a track of a list that is there.
LEMMA ChangeTrackDoes ==
    ASSUME NEW j \in State, NEW i \in Int, NEW lst \in Contents, NEW ok
    PROVE  LET k == ChangeTrack(j, i, lst, ok)
           IN  /\ k \in State
               /\ Indexed(k, lst)
               /\ HasTracks(j, lst) => k.status = j.status
               /\ k.playlist = j.playlist
               /\ j.current # NULL /\ CanPlay(j, i, lst, ok)
                    => k.index = i /\ Sounds(k, lst[j.playlist][i + 1])
<1>. DEFINE k == ChangeTrack(j, i, lst, ok)
<1>0. k = ChangeTrack(j, i, lst, ok)
  OBVIOUS
<1>. HIDE DEF k
<1>. SUFFICES /\ k \in State
              /\ Indexed(k, lst)
              /\ HasTracks(j, lst) => k.status = j.status
              /\ k.playlist = j.playlist
              /\ j.current # NULL /\ CanPlay(j, i, lst, ok)
                   => k.index = i /\ Sounds(k, lst[j.playlist][i + 1])
  BY DEF k
<1>1. CASE j.playlist = NULL \/ lst[j.playlist] = <<>>
  <2>1. k = [j EXCEPT !.status = "crashed"]
    BY <1>0, <1>1 DEF ChangeTrack
  <2>2. k = [playlist |-> j.playlist, index |-> j.index, current |-> j.current,
             player |-> j.player, status |-> "crashed"]
    BY <2>1, StateFields
  <2>3. k \in State /\ Indexed(k, lst)
    BY <1>1, <2>2, StateFields DEF State, Indexed, LooksUp, InList
  <2>4. ~HasTracks(j, lst) /\ ~CanPlay(j, i, lst, ok)
    BY <1>1 DEF HasTracks, CanPlay
  <2>. QED BY <2>2, <2>3, <2>4
<1>2. CASE j.playlist # NULL /\ lst[j.playlist] # <<>>
  <2>. DEFINE n == Len(lst[j.playlist])
              at == CRem(i, n)
              j1 == [j EXCEPT !.index = at]
              u == [playlist |-> j.playlist, index |-> at, current |-> NULL,
                    player |-> NULL, status |-> j.status]
  <2>1. n \in Nat /\ n > 0 /\ lst[j.playlist] \in Seq(Track)
    BY <1>2, StateFields DEF Contents
  <2>2. at \in Int /\ (i \in 0..n - 1 => at = i)
    <3>. HIDE DEF n
    <3>. QED BY <2>1, RemTyped
  <2>3. k = IF j.current = NULL THEN j1 ELSE TryStart(Unload(j1), lst, ok)
    BY <1>0, <1>2 DEF ChangeTrack
  <2>. HIDE DEF at
  <2>4. j1 = [playlist |-> j.playlist, index |-> at, current |-> j.current,
              player |-> j.player, status |-> j.status]
    BY StateFields
  <2>5. j1 \in State /\ at \in Int
    BY <2>2, <2>4, StateFields DEF State
  <2>. HIDE DEF j1
  <2>6. Unload(j1) = u /\ u \in State
    BY <2>4, <2>5, UnloadDoes, StateFields DEF State
  <2>. HIDE DEF u
  <2>7. CASE j.current = NULL
    BY <2>3, <2>4, <2>5, <2>7 DEF Indexed
  <2>8. CASE j.current # NULL
    <3>1. k = TryStart(u, lst, ok)
      BY <2>3, <2>6, <2>8
    <3>2. /\ u.playlist = j.playlist /\ u.index = at /\ u.current = NULL
          /\ u.status = j.status
      BY DEF u
    <3>3. /\ k \in State /\ Indexed(k, lst)
          /\ k.playlist = j.playlist /\ k.index = at /\ k.status = j.status
      <4>1. u \in State
        BY <2>6
      <4>. DEFINE r == TryStart(u, lst, ok)
      <4>2. r \in State /\ r.playlist = u.playlist /\ r.index = u.index /\ r.status = u.status
        BY <4>1, TryStartDoes
      <4>3. Indexed(r, lst)
        BY <4>1, TryStartDoes
      <4>4. r = k
        BY <3>1
      <4>. HIDE DEF r
      <4>. QED BY <4>2, <4>3, <4>4, <3>2
    <3>4. ASSUME i \in 0..n - 1
          PROVE  InList(u, lst) /\ Here(u, lst) = lst[j.playlist][i + 1]
      <4>1. InList(u, lst)
        BY <1>2, <2>2, <3>2, <3>4 DEF InList
      <4>. QED BY <4>1, <2>2, <3>2, <3>4, <2>6, HereTyped
    <3>5. ASSUME i \in 0..n - 1, lst[j.playlist][i + 1] \in ok \cap Playable
          PROVE  k.index = i /\ Sounds(k, lst[j.playlist][i + 1])
      <4>1. at = i
        BY <3>5, <2>2
      <4>2. InList(u, lst) /\ Here(u, lst) \in ok \cap Playable
        BY <3>4, <3>5
      <4>3. k.current = Here(u, lst) /\ k.player = [track |-> Here(u, lst), ended |-> FALSE]
        BY <4>2, <3>1, <3>2, <2>6, TryStartDoes
      <4>. QED BY <4>1, <4>3, <3>3, <3>4, <3>5 DEF Sounds
    <3>. QED BY <3>3, <3>5 DEF CanPlay
  <2>. QED BY <2>7, <2>8
<1>. QED BY <1>1, <1>2

\* A record with another index or status.
LEMMA IndexDoes ==
    ASSUME NEW j \in State, NEW i \in Int
    PROVE  [j EXCEPT !.index = i] =
             [playlist |-> j.playlist, index |-> i, current |-> j.current,
              player |-> j.player, status |-> j.status]
  BY StateFields

LEMMA StatusDoes ==
    ASSUME NEW j \in State, NEW lst,
           NEW s \in {"login", "run", "crashed", "spinning", "misread"}
    PROVE  /\ [j EXCEPT !.status = s] \in State
           /\ [j EXCEPT !.status = s].playlist = j.playlist
           /\ [j EXCEPT !.status = s].status = s
           /\ Indexed(j, lst) => Indexed([j EXCEPT !.status = s], lst)
<1>1. [j EXCEPT !.status = s] =
        [playlist |-> j.playlist, index |-> j.index, current |-> j.current,
         player |-> j.player, status |-> s]
  BY StateFields
<1>. QED BY <1>1, StateFields DEF State, Indexed, LooksUp, InList, Here

LEMMA PickAnotherDoes ==
    ASSUME NEW j \in State, NEW n \in Nat, NEW lst \in Contents, NEW ok,
           NEW k \in PickAnother(j, n, lst, ok)
    PROVE  /\ k \in State
           /\ Indexed(j, lst) => Indexed(k, lst)
           /\ k.playlist = j.playlist
           /\ n >= 2 /\ HasTracks(j, lst) => k.status = j.status
<1>1. CASE n = 0 \/ (n = 1 /\ j.index = 0)
  <2>1. PICK s \in {"crashed", "spinning"} : k = [j EXCEPT !.status = s]
    BY <1>1 DEF PickAnother
  <2>2. k \in State /\ k.playlist = j.playlist
    <3>1. s \in {"login", "run", "crashed", "spinning", "misread"}
      OBVIOUS
    <3>2. [j EXCEPT !.status = s] \in State
      BY <3>1, StatusDoes
    <3>. QED BY <2>1, <3>1, <3>2, StatusDoes
  <2>3. Indexed(j, lst) => Indexed(k, lst)
    BY <2>1, StatusDoes
  <2>. QED BY <1>1, <2>2, <2>3
<1>2. CASE n # 0 /\ ~(n = 1 /\ j.index = 0)
  <2>1. PICK i \in 0..n - 1 : k = ChangeTrack([j EXCEPT !.index = i], i, lst, ok)
    BY <1>2 DEF PickAnother
  <2>. DEFINE j1 == [j EXCEPT !.index = i]
  <2>2. /\ j1 \in State /\ j1.playlist = j.playlist /\ j1.status = j.status
        /\ i \in Nat
    BY IndexDoes, StateFields DEF State
  <2>. HIDE DEF j1
  <2>3. k = ChangeTrack(j1, i, lst, ok)
    BY <2>1 DEF j1
  <2>4. /\ k \in State
        /\ k.playlist = j1.playlist
        /\ HasTracks(j1, lst) => k.status = j1.status
    <3>. DEFINE r == ChangeTrack(j1, i, lst, ok)
    <3>0. j1 \in State /\ i \in Nat
      BY <2>2
    <3>1. r \in State /\ r.playlist = j1.playlist
      BY <3>0, ChangeTrackDoes
    <3>2. HasTracks(j1, lst) => r.status = j1.status
      BY <3>0, ChangeTrackDoes
    <3>. QED BY <3>1, <3>2, <2>3
  <2>5. Indexed(k, lst)
    <3>1. Indexed(ChangeTrack(j1, i, lst, ok), lst)
      BY <2>2, ChangeTrackDoes
    <3>. QED BY <3>1, <2>3
  <2>. QED BY <2>2, <2>4, <2>5 DEF HasTracks
<1>. QED BY <1>1, <1>2

\* Where all tracks can be played, another one plays.
LEMMA PickAnotherPlays ==
    ASSUME NEW j \in State, NEW lst \in Contents, NEW ok, j.playlist # NULL,
           NEW n \in Nat, n >= 2, n <= Len(lst[j.playlist]), j.current # NULL,
           \A i \in 0..n - 1 : lst[j.playlist][i + 1] \in ok \cap Playable,
           NEW k \in PickAnother(j, n, lst, ok)
    PROVE  /\ k.index \in 0..n - 1 \ {j.index}
           /\ Sounds(k, lst[j.playlist][k.index + 1])
<1>1. PICK i \in 0..n - 1 \ {j.index} : k = ChangeTrack([j EXCEPT !.index = i], i, lst, ok)
  <2>1. n # 0 /\ n # 1
    OBVIOUS
  <2>. QED BY <2>1 DEF PickAnother
<1>. DEFINE j1 == [j EXCEPT !.index = i]
<1>2. /\ j1 \in State /\ j1.playlist = j.playlist /\ j1.current = j.current
      /\ i \in Nat
  BY IndexDoes, StateFields DEF State
<1>. HIDE DEF j1
<1>3. k = ChangeTrack(j1, i, lst, ok)
  BY <1>1 DEF j1
<1>4. CanPlay(j1, i, lst, ok)
  BY <1>2 DEF CanPlay
<1>5. /\ k.index = i
      /\ Sounds(k, lst[j1.playlist][i + 1])
  BY <1>2, <1>3, <1>4, ChangeTrackDoes
<1>. QED BY <1>2, <1>5

LEMMA ShiftIsInt ==
    ASSUME NEW i \in Int, NEW n \in Nat, NEW gone \in SUBSET (0..n - 1)
    PROVE  i - Cardinality({g \in gone : g < i}) \in Int
<1>. DEFINE G == {g \in gone : g < i}
<1>1. IsFiniteSet(0..n - 1)
  BY FS_Interval
<1>2. G \in SUBSET (0..n - 1)
  OBVIOUS
<1>. HIDE DEF G
<1>3. Cardinality(G) \in Nat
  BY <1>1, <1>2, FS_Subset, FS_CardinalityType
<1>. QED BY <1>3 DEF G

\* Where the track at the index goes when those at gone leave.
Shift(j, gone) == j.index - Cardinality({g \in gone : g < j.index})

\* A song plays, and it is the one at the index; and k goes on with the song of j.
Playing(j, lst) == j.current # NULL /\ InList(j, lst) /\ j.current = Here(j, lst)
SameSong(k, j) == k.current = j.current /\ k.player = j.player

\* The tracks at the indices gone leave p.
Loses(lst, p, gone, lst2) ==
    /\ gone \in SUBSET (0..Len(lst[p]) - 1)
    /\ lst2[p] = Without(lst[p], gone)
    /\ \A q \in Playlist \ {p} : lst2[q] = lst[q]

\* tracks_removed: a song that stays is followed to its new place.
LEMMA RemovedDoes ==
    ASSUME NEW j \in State, NEW lst \in Contents, NEW p \in Playlist, NEW gone,
           NEW lst2 \in Contents, Loses(lst, p, gone, lst2)
    PROVE  LET k == Removed(j, p, gone, lst2)
           IN  /\ k \in State
               /\ k.playlist = j.playlist /\ k.status = j.status
               /\ j.playlist \in watched /\ Indexed(j, lst) => Indexed(k, lst2)
               /\ p \in watched /\ p = j.playlist /\ Playing(j, lst) /\ j.index \notin gone
                    => SameSong(k, j) /\ Playing(k, lst2)
<1>. DEFINE k == Removed(j, p, gone, lst2)
<1>0. /\ gone \in SUBSET (0..Len(lst[p]) - 1)
      /\ lst2[p] = Without(lst[p], gone)
      /\ \A q \in Playlist \ {p} : lst2[q] = lst[q]
  BY DEF Loses
<1>1. CASE p \in watched /\ p = j.playlist
  <2>. DEFINE j1 == [j EXCEPT !.index = Shift(j, gone)]
  <2>1. j.index \in Int /\ Len(lst[p]) \in Nat /\ lst[p] \in Seq(Track)
    BY <1>0, StateFields DEF Contents
  <2>2. Shift(j, gone) \in Int
    BY <1>0, <2>1, ShiftIsInt DEF Shift
  <2>3. k = TryStart(j1, lst2, loaded)
    BY <1>1 DEF Removed, Shift
  <2>4. j1 = [playlist |-> j.playlist, index |-> Shift(j, gone), current |-> j.current,
              player |-> j.player, status |-> j.status]
    BY <2>2, IndexDoes
  <2>5. j1 \in State
    BY <2>2, <2>4, StateFields DEF State
  <2>6. /\ j1.playlist = p /\ j1.index = Shift(j, gone) /\ j1.current = j.current
        /\ j1.player = j.player /\ j1.status = j.status
    BY <1>1, <2>4
  <2>. HIDE DEF j1
  <2>7. /\ k \in State
        /\ k.playlist = j1.playlist /\ k.index = j1.index /\ k.status = j1.status
    <3>1. LET r == TryStart(j1, lst2, loaded)
          IN  /\ r \in State
              /\ r.playlist = j1.playlist /\ r.index = j1.index /\ r.status = j1.status
      BY <2>5, TryStartDoes
    <3>. HIDE DEF k
    <3>. QED BY <3>1, <2>3
  <2>8. Indexed(k, lst2)
    <3>1. Indexed(TryStart(j1, lst2, loaded), lst2)
      BY <2>5, TryStartDoes
    <3>. HIDE DEF k
    <3>. QED BY <3>1, <2>3
  <2>9. ASSUME Playing(j, lst), j.index \notin gone
        PROVE  k = j1 /\ InList(j1, lst2) /\ Here(j1, lst2) = j.current
    <3>. DEFINE s == lst[p]
                r == Rank(Len(s), gone, j.index)
    <3>1. j.index \in 0..Len(s) - 1 /\ j.current = s[j.index + 1] /\ p # NULL
      BY <2>9, <1>1, HereTyped DEF InList, Playing
    <3>2. j.index \in Kept(Len(s), gone) /\ j.index \in 0..Len(s) /\ Len(s) \in Nat
      BY <2>1, <2>9, <3>1 DEF Kept
    <3>3. r = Shift(j, gone)
      BY <1>0, <3>2, RankIsShift DEF Shift
    <3>4. lst2[p] = Without(s, gone)
      BY <1>0
    <3>5. /\ r \in 0..Len(Without(s, gone)) - 1
          /\ Without(s, gone)[r + 1] = s[j.index + 1]
          /\ Len(Without(s, gone)) \in Nat
      BY <1>0, <2>1, <3>2, WithoutKept
    <3>. HIDE DEF r, s
    <3>6. InList(j1, lst2)
      BY <2>6, <3>1, <3>3, <3>4, <3>5 DEF InList
    <3>7. Here(j1, lst2) = j.current
      <4>1. Here(j1, lst2) = lst2[j1.playlist][j1.index + 1]
        BY <2>5, <3>6, HereTyped
      <4>. QED BY <4>1, <2>6, <3>1, <3>3, <3>4, <3>5
    <3>8. k = j1
      <4>1. TryStart(j1, lst2, loaded) = j1
        <5>1. j1.current # NULL /\ j1.current = Here(j1, lst2)
          BY <2>6, <2>9, <3>7 DEF Playing
        <5>. QED BY <5>1, <2>5, <3>6, TryStartDoes
      <4>. HIDE DEF k
      <4>. QED BY <4>1, <2>3
    <3>. QED BY <3>6, <3>7, <3>8
  <2>. HIDE DEF k
  <2>10. Playing(j, lst) /\ j.index \notin gone => SameSong(k, j) /\ Playing(k, lst2)
    BY <2>6, <2>9 DEF Playing, SameSong
  <2>. QED BY <1>1, <2>6, <2>7, <2>8, <2>10 DEF k
<1>2. CASE ~(p \in watched /\ p = j.playlist)
  <2>1. k = j
    BY <1>2 DEF Removed
  <2>2. ASSUME j.playlist \in watched, Indexed(j, lst) PROVE Indexed(j, lst2)
    <3>1. lst2[j.playlist] = lst[j.playlist] \/ j.playlist = NULL
      BY <1>0, <1>2, <2>2, StateFields DEF Contents
    <3>. QED BY <2>2, <3>1 DEF Indexed, LooksUp, InList, Here
  <2>. QED BY <1>2, <2>1, <2>2
<1>. QED BY <1>1, <1>2

-----------------------------------------------------------------------------
(* Part 4: the invariant. *)

\* The types of what is not one of the globals, and CurrentIsIndexed.
Rest == /\ g_playback_done \in {0, 1}
        /\ lookAt \subseteq Playlist
        /\ list \in [Playlist -> Lists]
        /\ named \subseteq Playlist
        /\ container \subseteq Playlist
        /\ watched \subseteq Playlist
        /\ loaded \subseteq Track
        /\ tokenLost \in BOOLEAN

Follows == g_playlist \in named \cap watched => Indexed(Globals, list)

JInv == Globals \in State /\ Rest /\ Follows

LEMMA GlobalsFields ==
    /\ Globals.playlist = g_playlist
    /\ Globals.index = g_track_index
    /\ Globals.current = g_currenttrack
    /\ Globals.player = player
    /\ Globals.status = status
  BY DEF Globals

LEMMA ListsContents == ASSUME NEW lst \in [Playlist -> Lists] PROVE lst \in Contents
  BY ListsAreSequences DEF Contents

LEMMA EditTyped ==
    ASSUME NEW lst \in [Playlist -> Lists], NEW p \in Playlist,
           NEW s \in Seq(Track), Len(s) <= MaxTracks
    PROVE  [lst EXCEPT ![p] = s] \in [Playlist -> Lists]
  BY ListsAreSequences

\* What an edit of another list, or of one that nobody watches, leaves as it was.
LEMMA ElsewhereIndexed ==
    ASSUME NEW j \in State, NEW lst, NEW p, NEW lst2,
           \A q \in Playlist \ {p} : lst2[q] = lst[q],
           j.playlist \in Playlist \ {p}, Indexed(j, lst)
    PROVE  Indexed(j, lst2)
  BY DEF Indexed, LooksUp, InList, Here

LEMMA EditedDoes ==
    ASSUME NEW j \in State, NEW lst, NEW p, NEW lst2 \in Contents,
           \A q \in Playlist \ {p} : lst2[q] = lst[q], watched \subseteq Playlist
    PROVE  LET k == Edited(j, p, lst2)
           IN  /\ k \in State
               /\ k.playlist = j.playlist
               /\ k.status = j.status
               /\ j.playlist \in watched /\ Indexed(j, lst) => Indexed(k, lst2)
<1>. DEFINE k == Edited(j, p, lst2)
<1>1. CASE p \in watched /\ p = j.playlist
  <2>1. k = TryStart(j, lst2, loaded)
    BY <1>1 DEF Edited
  <2>. DEFINE r == TryStart(j, lst2, loaded)
  <2>2. r \in State /\ r.playlist = j.playlist /\ r.status = j.status
    BY TryStartDoes
  <2>3. Indexed(r, lst2)
    BY TryStartDoes
  <2>. HIDE DEF r
  <2>4. k = r
    BY <2>1 DEF r
  <2>. QED BY <2>2, <2>3, <2>4
<1>2. CASE ~(p \in watched /\ p = j.playlist)
  <2>1. k = j
    BY <1>2 DEF Edited
  <2>2. j.playlist \in watched /\ Indexed(j, lst) => Indexed(j, lst2)
    BY <1>2, ElsewhereIndexed
  <2>. QED BY <2>1, <2>2
<1>. QED BY <1>1, <1>2

LEMMA FoundDoes ==
    ASSUME JInv, NEW p \in Playlist
    PROVE  LET k == IF p \in named
                    THEN TryStart([Globals EXCEPT !.playlist = p], list, loaded)
                    ELSE Globals
           IN  /\ k \in State
               /\ k.playlist \in named \cap (watched \cup {p}) => Indexed(k, list)
<1>. DEFINE j == [Globals EXCEPT !.playlist = p]
            r == TryStart(j, list, loaded)
<1>1. list \in Contents
  BY ListsContents DEF JInv, Rest
<1>2. j \in State
  <2>1. j = [playlist |-> p, index |-> g_track_index, current |-> g_currenttrack,
             player |-> player, status |-> status]
    BY DEF Globals
  <2>. QED BY <2>1, StateFields, GlobalsFields DEF JInv, State
<1>3. CASE p \in named
  <2>. HIDE DEF j
  <2>1. r \in State
    BY <1>1, <1>2, TryStartDoes
  <2>2. Indexed(r, list)
    BY <1>1, <1>2, TryStartDoes
  <2>. HIDE DEF r
  <2>. QED BY <1>3, <2>1, <2>2 DEF r, j
<1>4. CASE p \notin named
  BY <1>4, GlobalsFields DEF JInv, Follows
<1>. QED BY <1>3, <1>4

LEMMA RenamedDoes ==
    ASSUME JInv, NEW p \in Playlist, NEW isNamed \in BOOLEAN
    PROVE  LET k == Renamed(Globals, p, isNamed)
               n == IF isNamed THEN named \cup {p} ELSE named \ {p}
           IN  /\ k \in State
               /\ k.status = status
               /\ k.playlist \in n \cap watched => Indexed(k, list)
<1>. DEFINE k == Renamed(Globals, p, isNamed)
            j1 == [Globals EXCEPT !.playlist = p]
            j == [j1 EXCEPT !.index = 0]
            r == TryStart(j, list, loaded)
            h == [Globals EXCEPT !.playlist = NULL]
<1>1. list \in Contents
  BY ListsContents DEF JInv, Rest
<1>2. j = [playlist |-> p, index |-> 0, current |-> g_currenttrack,
           player |-> player, status |-> status]
  <2>1. j1 = [playlist |-> p, index |-> g_track_index, current |-> g_currenttrack,
              player |-> player, status |-> status]
    BY DEF Globals
  <2>. HIDE DEF j1
  <2>. QED BY <2>1
<1>3. h = [playlist |-> NULL, index |-> g_track_index, current |-> g_currenttrack,
           player |-> player, status |-> status]
  BY DEF Globals
<1>4. j \in State /\ h \in State
  BY <1>2, <1>3, StateFields, GlobalsFields DEF JInv, State
<1>5. CASE isNamed
  <2>1. k = r
    BY <1>5 DEF Renamed
  <2>. HIDE DEF j
  <2>2. r \in State /\ r.status = j.status
    BY <1>1, <1>4, TryStartDoes
  <2>3. Indexed(r, list)
    BY <1>1, <1>4, TryStartDoes
  <2>. HIDE DEF r, k
  <2>. QED BY <1>2, <2>1, <2>2, <2>3 DEF k
<1>6. CASE ~isNamed /\ g_playlist = p
  <2>1. k = Unload(h)
    BY <1>6, GlobalsFields DEF Renamed
  <2>. HIDE DEF h, k
  <2>2. Unload(h) = [playlist |-> NULL, index |-> g_track_index, current |-> NULL,
                     player |-> NULL, status |-> status]
    BY <1>3, <1>4, UnloadDoes
  <2>3. k \in State /\ k.status = status /\ k.current = NULL
    BY <2>1, <2>2, StateFields, GlobalsFields DEF JInv, State
  <2>. QED BY <2>3 DEF Indexed, k
<1>7. CASE ~isNamed /\ g_playlist # p
  <2>1. k = Globals
    BY <1>7, GlobalsFields DEF Renamed
  <2>. HIDE DEF k
  <2>. QED BY <1>7, <2>1, GlobalsFields DEF JInv, Follows, k
<1>. QED BY <1>5, <1>6, <1>7

LEMMA StepTo ==
    ASSUME NEW k \in State, Become(k), Rest',
           k.playlist \in named' \cap watched' => Indexed(k, list')
    PROVE  JInv'
<1>1. Globals' = k
  BY StateFields DEF Become, Globals
<1>2. g_playlist' = k.playlist
  BY DEF Become
<1>. QED BY <1>1, <1>2 DEF JInv, Follows, Indexed, LooksUp, InList, Here

LEMMA LoadPlaylistStep == ASSUME JInv, NEW p \in Playlist, LoadPlaylist(p) PROVE JInv'
<1>. DEFINE k == IF p \in named
                 THEN TryStart([Globals EXCEPT !.playlist = p], list, loaded)
                 ELSE Globals
<1>1. /\ k \in State
      /\ k.playlist \in named \cap (watched \cup {p}) => Indexed(k, list)
  BY FoundDoes
<1>2. Become(k)
  BY DEF LoadPlaylist
<1>. HIDE DEF k
<1>3. Rest'
  BY DEF LoadPlaylist, JInv, Rest
<1>4. named' = named /\ watched' = watched \cup {p} /\ list' = list
  BY DEF LoadPlaylist
<1>. QED BY <1>1, <1>2, <1>3, <1>4, StepTo

LEMMA AddedStep == ASSUME JInv, NEW p \in Playlist, PlaylistAdded(p) PROVE JInv'
<1>. DEFINE k == IF p \in named
                 THEN TryStart([Globals EXCEPT !.playlist = p], list, loaded)
                 ELSE Globals
<1>1. /\ k \in State
      /\ k.playlist \in named \cap (watched \cup {p}) => Indexed(k, list)
  BY FoundDoes
<1>2. Become(k)
  BY DEF PlaylistAdded
<1>. HIDE DEF k
<1>3. Rest'
  BY DEF PlaylistAdded, JInv, Rest
<1>4. named' = named /\ watched' = watched \cup {p} /\ list' = list
  BY DEF PlaylistAdded
<1>. QED BY <1>1, <1>2, <1>3, <1>4, StepTo

\* A step that leaves the jukebox and the playlists alone.
LEMMA AsideStep ==
    ASSUME JInv, UNCHANGED globals, Rest', list' = list,
           named' \cap watched' \subseteq named \cap watched
    PROVE  JInv'
  BY DEF globals, Globals, JInv, Follows, Indexed, LooksUp, InList, Here

LEMMA RenamedStep == ASSUME JInv, NEW p \in Playlist, PlaylistRenamed(p) PROVE JInv'
<1>1. PICK isNamed \in BOOLEAN :
         /\ named' = IF isNamed THEN named \cup {p} ELSE named \ {p}
         /\ Become(IF p \in watched THEN Renamed(Globals, p, isNamed) ELSE Globals)
  BY DEF PlaylistRenamed
<1>2. Rest'
  BY <1>1 DEF PlaylistRenamed, JInv, Rest
<1>3. watched' = watched /\ list' = list
  BY DEF PlaylistRenamed
<1>. DEFINE k == Renamed(Globals, p, isNamed)
<1>4. CASE p \in watched
  <2>1. /\ k \in State
        /\ k.playlist \in named' \cap watched => Indexed(k, list)
    BY <1>1, RenamedDoes
  <2>2. Become(k)
    BY <1>1, <1>4
  <2>. HIDE DEF k
  <2>. QED BY <1>2, <1>3, <2>1, <2>2, StepTo
<1>5. CASE p \notin watched
  <2>1. Become(Globals) /\ Globals \in State
    BY <1>1, <1>5 DEF JInv
  <2>2. Globals.playlist \in named' \cap watched' => Indexed(Globals, list')
    BY <1>1, <1>3, <1>5, GlobalsFields DEF JInv, Follows
  <2>. QED BY <1>2, <2>1, <2>2, StepTo
<1>. QED BY <1>4, <1>5

\* The list of p becomes s, and tracks_added or tracks_moved is called.
LEMMA EditStep ==
    ASSUME JInv, NEW p \in Playlist, NEW s \in Seq(Track), Len(s) <= MaxTracks,
           list' = [list EXCEPT ![p] = s],
           Become(Edited(Globals, p, list')),
           UNCHANGED <<named, container, watched, loaded, g_playback_done, lookAt, tokenLost>>
    PROVE  JInv'
<1>. DEFINE k == Edited(Globals, p, list')
<1>1. list' \in [Playlist -> Lists]
  BY EditTyped DEF JInv, Rest
<1>2. list' \in Contents
  BY <1>1, ListsContents
<1>3. \A q \in Playlist \ {p} : list'[q] = list[q]
  BY DEF JInv, Rest
<1>4. Globals \in State /\ watched \subseteq Playlist
  BY DEF JInv, Rest
<1>5. k \in State /\ k.playlist = g_playlist
  BY <1>2, <1>3, <1>4, EditedDoes, GlobalsFields
<1>6. g_playlist \in watched /\ Indexed(Globals, list) => Indexed(k, list')
  BY <1>2, <1>3, <1>4, EditedDoes, GlobalsFields
<1>7. Rest'
  BY <1>1 DEF JInv, Rest
<1>8. k.playlist \in named' \cap watched' => Indexed(k, list')
  BY <1>5, <1>6 DEF JInv, Follows
<1>. HIDE DEF k
<1>9. Become(k)
  BY DEF k
<1>. QED BY <1>5, <1>7, <1>8, <1>9, StepTo

LEMMA TracksAddedStep == ASSUME JInv, NEW p \in Playlist, TracksAdded(p) PROVE JInv'
<1>1. PICK t \in Track, at \in 1..Len(list[p]) + 1 :
         /\ list' = [list EXCEPT ![p] = InsertAt(list[p], at, t)]
         /\ Become(Edited(Globals, p, list'))
  BY DEF TracksAdded
<1>2. list[p] \in Seq(Track) /\ Len(list[p]) < MaxTracks
  BY ListsContents DEF JInv, Rest, Contents, TracksAdded
<1>. DEFINE s == InsertAt(list[p], at, t)
<1>3. s \in Seq(Track) /\ Len(s) <= MaxTracks
  BY <1>2, InsertTyped, JukeboxAssumption
<1>. HIDE DEF s
<1>4. list' = [list EXCEPT ![p] = s]
  BY <1>1 DEF s
<1>. QED BY <1>1, <1>3, <1>4, EditStep DEF TracksAdded

LEMMA TracksMovedStep == ASSUME JInv, NEW p \in Playlist, TracksMoved(p) PROVE JInv'
<1>1. PICK from \in 1..Len(list[p]), to \in 1..Len(list[p]) :
         /\ list' = [list EXCEPT ![p] = InsertAt(RemoveAt(list[p], from), to, list[p][from])]
         /\ Become(Edited(Globals, p, list'))
  BY DEF TracksMoved
<1>2. list[p] \in Seq(Track) /\ list[p] \in Lists /\ Len(list[p]) <= MaxTracks
  BY ListsContents, ListsAreSequences DEF JInv, Rest, Contents
<1>. DEFINE less == RemoveAt(list[p], from)
            s == InsertAt(less, to, list[p][from])
<1>3. less \in Seq(Track) /\ Len(less) = Len(list[p]) - 1
  BY <1>2, RemoveTyped
<1>4. list[p][from] \in Track
  BY <1>2
<1>5. s \in Seq(Track) /\ Len(s) = Len(list[p])
  <2>. HIDE DEF less
  <2>1. to \in 1..Len(less) + 1
    BY <1>2, <1>3
  <2>. QED BY <1>2, <1>3, <1>4, <2>1, InsertTyped
<1>. HIDE DEF s
<1>6. list' = [list EXCEPT ![p] = s]
  BY <1>1 DEF s
<1>. QED BY <1>1, <1>2, <1>5, <1>6, EditStep DEF TracksMoved

LEMMA AddRequestStep == ASSUME JInv, NEW t \in Track, AddRequest(t) PROVE JInv'
<1>1. list[Home] \in Seq(Track) /\ Len(list[Home]) < MaxTracks /\ Home \in Playlist
  BY ListsContents, JukeboxAssumption DEF JInv, Rest, Contents, AddRequest
<1>. DEFINE s == Append(list[Home], t)
<1>2. s \in Seq(Track) /\ Len(s) <= MaxTracks
  BY <1>1, JukeboxAssumption
<1>. HIDE DEF s
<1>3. list' = [list EXCEPT ![Home] = s]
  BY DEF s, AddRequest
<1>. QED BY <1>1, <1>2, <1>3, EditStep DEF AddRequest

\* The tracks at the indices gone leave p, after the jukebox became j.
LEMMA RemovalStep ==
    ASSUME JInv, NEW p \in Playlist, NEW gone \in SUBSET (0..Len(list[p]) - 1),
           NEW j \in State, j.playlist = g_playlist,
           g_playlist \in named \cap watched => Indexed(j, list),
           list' = [list EXCEPT ![p] = Without(@, gone)],
           Become(Removed(j, p, gone, list')),
           UNCHANGED <<named, container, watched, loaded, g_playback_done, lookAt, tokenLost>>
    PROVE  JInv'
<1>1. list \in Contents /\ list[p] \in Seq(Track) /\ Len(list[p]) <= MaxTracks
  BY ListsContents, ListsAreSequences DEF JInv, Rest, Contents
<1>. DEFINE s == Without(list[p], gone)
            k == Removed(j, p, gone, list')
<1>2. s \in Seq(Track) /\ Len(s) <= MaxTracks
  <2>1. Len(list[p]) \in Nat /\ s \in Seq(Track) /\ Len(s) <= Len(list[p])
    BY <1>1, WithoutKept
  <2>. HIDE DEF s
  <2>. QED BY <1>1, <2>1, JukeboxAssumption
<1>3. list' \in [Playlist -> Lists]
  <2>. HIDE DEF s
  <2>1. list' = [list EXCEPT ![p] = s]
    BY DEF s
  <2>. QED BY <1>2, <2>1, EditTyped DEF JInv, Rest
<1>4. /\ list' \in Contents
      /\ Loses(list, p, gone, list')
  BY <1>1, <1>3, ListsContents DEF JInv, Rest, Loses
<1>. HIDE DEF s
<1>5. k \in State /\ k.playlist = g_playlist
  <2>1. k \in State
    BY <1>1, <1>4, RemovedDoes
  <2>2. k.playlist = j.playlist
    BY <1>1, <1>4, RemovedDoes
  <2>. QED BY <2>1, <2>2
<1>6. j.playlist \in watched /\ Indexed(j, list) => Indexed(k, list')
  BY <1>1, <1>4, RemovedDoes
<1>7. Rest'
  BY <1>3 DEF JInv, Rest
<1>8. k.playlist \in named' \cap watched' => Indexed(k, list')
  BY <1>5, <1>6
<1>. HIDE DEF k
<1>9. Become(k)
  BY DEF k
<1>. QED BY <1>5, <1>7, <1>8, <1>9, StepTo

LEMMA RemoteRemoveStep ==
    ASSUME JInv, NEW p \in Playlist, TracksRemoved(p) PROVE JInv'
<1>1. PICK gone \in SUBSET (0..Len(list[p]) - 1) : RemoteRemove(p, gone)
  BY DEF TracksRemoved
<1>. QED BY <1>1, GlobalsFields, RemovalStep DEF RemoteRemove, JInv, Follows

\* The jukebox changes, and nothing else.
LEMMA GlobalStep ==
    ASSUME JInv, NEW k \in State, Become(k), k.playlist = g_playlist,
           Indexed(Globals, list) => Indexed(k, list),
           Rest', UNCHANGED <<list, named, watched>>
    PROVE  JInv'
  BY StepTo DEF JInv, Follows

LEMMA MetadataStep == ASSUME JInv, MetadataUpdated PROVE JInv'
<1>1. list \in Contents
  BY ListsContents DEF JInv, Rest
<1>. DEFINE k == TryStart(Globals, list, loaded')
<1>2. k \in State /\ k.playlist = g_playlist
  BY <1>1, TryStartDoes, GlobalsFields DEF JInv
<1>3. Indexed(k, list)
  BY <1>1, TryStartDoes DEF JInv
<1>4. Become(k)
  BY DEF MetadataUpdated
<1>. HIDE DEF k
<1>5. Rest'
  BY DEF MetadataUpdated, JInv, Rest
<1>. QED BY <1>2, <1>3, <1>4, <1>5, GlobalStep DEF MetadataUpdated

LEMMA TokenStep == ASSUME JInv, PlayTokenLost PROVE JInv'
<1>. DEFINE k == IF g_currenttrack # NULL THEN Unload(Globals) ELSE Globals
<1>1. Become(k)
  BY DEF PlayTokenLost
<1>2. k \in State /\ k.playlist = g_playlist /\ (Indexed(Globals, list) => Indexed(k, list))
  <2>1. Unload(Globals) = [playlist |-> g_playlist, index |-> g_track_index, current |-> NULL,
                           player |-> NULL, status |-> status]
    BY UnloadDoes, GlobalsFields DEF JInv
  <2>2. Unload(Globals) \in State
    BY <2>1, StateFields, GlobalsFields DEF JInv, State
  <2>3. Indexed(Unload(Globals), list)
    BY <2>1 DEF Indexed
  <2>. QED BY <2>1, <2>2, <2>3, GlobalsFields DEF JInv
<1>. HIDE DEF k
<1>3. Rest'
  BY DEF PlayTokenLost, spotify, JInv, Rest
<1>. QED BY <1>1, <1>2, <1>3, GlobalStep DEF PlayTokenLost, spotify

LEMMA EndStep == ASSUME JInv, EndOfTrack PROVE JInv'
<1>. DEFINE k == [playlist |-> g_playlist, index |-> g_track_index, current |-> g_currenttrack,
                  player |-> player', status |-> status]
<1>1. player \in [track : Track, ended : BOOLEAN]
  BY StateFields, GlobalsFields DEF JInv, EndOfTrack
<1>2. player' \in [track : Track, ended : BOOLEAN]
  BY <1>1 DEF EndOfTrack
<1>3. k \in State
  BY <1>2, StateFields, GlobalsFields DEF JInv, State
<1>4. Globals' = k
  BY DEF EndOfTrack, Globals
<1>5. Rest'
  BY DEF EndOfTrack, spotify, JInv, Rest
<1>6. Follows'
  BY DEF EndOfTrack, spotify, JInv, Follows, Globals, Indexed, LooksUp, InList, Here
<1>. QED BY <1>3, <1>4, <1>5, <1>6 DEF JInv

LEMMA AutoplayStep == ASSUME JInv, Autoplay PROVE JInv'
<1>. DEFINE n == Len(list[Home])
<1>1. list \in Contents /\ n \in Nat
  BY ListsContents, JukeboxAssumption DEF JInv, Rest, Contents
<1>2. PICK k \in PickAnother(Globals, n, list, loaded) :
         /\ Become(k)
         /\ g_playback_done' = IF k.status = "run" THEN 0 ELSE g_playback_done
  BY DEF Autoplay
<1>. HIDE DEF n
<1>3. k \in State /\ k.playlist = g_playlist
  BY <1>1, <1>2, PickAnotherDoes, GlobalsFields DEF JInv
<1>4. Indexed(Globals, list) => Indexed(k, list)
  BY <1>1, <1>2, PickAnotherDoes DEF JInv
<1>5. Rest'
  BY <1>2 DEF Autoplay, spotify, JInv, Rest
<1>. QED BY <1>2, <1>3, <1>4, <1>5, GlobalStep DEF Autoplay, spotify

LEMMA StartRequestStep == ASSUME JInv, NEW i \in Int, StartRequest(i) PROVE JInv'
<1>1. list \in Contents
  BY ListsContents DEF JInv, Rest
<1>. DEFINE k == ChangeTrack(Globals, i, list, loaded)
<1>2. k \in State /\ k.playlist = g_playlist
  BY <1>1, ChangeTrackDoes, GlobalsFields DEF JInv
<1>3. Indexed(k, list)
  BY <1>1, ChangeTrackDoes DEF JInv
<1>4. Become(k)
  BY DEF StartRequest
<1>. HIDE DEF k
<1>5. Rest'
  BY DEF StartRequest, spotify, JInv, Rest
<1>. QED BY <1>2, <1>3, <1>4, <1>5, GlobalStep DEF StartRequest, spotify

LEMMA RemoveRequestStep == ASSUME JInv, NEW i \in Int, RemoveRequest(i) PROVE JInv'
<1>. DEFINE n == Len(list[Home])
            gone == {i} \cap 0..n - 1
            left == IF g_track_index # i THEN {Globals}
                    ELSE PickAnother(Globals, n, list, loaded)
<1>1. list \in Contents /\ list[Home] \in Seq(Track) /\ n \in Nat /\ Home \in Playlist
  BY ListsContents, JukeboxAssumption DEF JInv, Rest, Contents
<1>2. PICK j \in left :
         IF j.status = "run"
         THEN /\ list' = [list EXCEPT ![Home] = Without(@, gone)]
              /\ Become(IF gone = {} THEN j ELSE Removed(j, Home, gone, list'))
         ELSE Become(j) /\ UNCHANGED list
  BY DEF RemoveRequest
<1>3. UNCHANGED <<named, container, watched, loaded, g_playback_done, lookAt, tokenLost>>
  BY DEF RemoveRequest
<1>4. j \in State /\ j.playlist = g_playlist
  BY <1>1, <1>2, PickAnotherDoes, GlobalsFields DEF JInv
<1>5. Indexed(Globals, list) => Indexed(j, list)
  <2>1. CASE j = Globals
    BY <2>1
  <2>2. CASE j \in PickAnother(Globals, n, list, loaded)
    BY <2>2, <1>1, PickAnotherDoes DEF JInv
  <2>. QED BY <1>2, <2>1, <2>2
<1>6. gone \in SUBSET (0..Len(list[Home]) - 1)
  OBVIOUS
<1>. HIDE DEF left, gone
<1>7. CASE j.status = "run" /\ gone # {}
  <2>1. /\ list' = [list EXCEPT ![Home] = Without(@, gone)]
        /\ Become(Removed(j, Home, gone, list'))
    BY <1>2, <1>7
  <2>2. g_playlist \in named \cap watched => Indexed(j, list)
    BY <1>5 DEF JInv, Follows
  <2>. QED BY <1>1, <1>3, <1>4, <1>6, <2>1, <2>2, RemovalStep
<1>8. CASE ~(j.status = "run" /\ gone # {})
  <2>1. list' = list
    <3>1. Without(list[Home], {}) = list[Home]
      BY <1>1, WithoutNothing
    <3>2. [list EXCEPT ![Home] = list[Home]] = list
      BY <1>1 DEF JInv, Rest
    <3>. QED BY <1>2, <1>8, <3>1, <3>2
  <2>2. Become(j)
    BY <1>2, <1>8
  <2>3. Rest'
    BY <1>3, <2>1 DEF JInv, Rest
  <2>. QED BY <1>3, <1>4, <1>5, <2>1, <2>2, <2>3, GlobalStep
<1>. QED BY <1>7, <1>8

LEMMA IndicesTyped == Indices \subseteq Int
  BY JukeboxAssumption DEF Indices

LEMMA JInit == Init => JInv
<1>. SUFFICES ASSUME Init PROVE JInv
  OBVIOUS
<1>1. Globals \in State
  BY DEF Init, Globals, State
<1>2. Rest
  BY DEF Init, Rest
<1>3. Follows
  BY GlobalsFields DEF Init, Follows, Indexed
<1>. QED BY <1>1, <1>2, <1>3 DEF JInv

LEMMA JStep == JInv /\ [Next]_vars => JInv'
<1>. SUFFICES ASSUME JInv, [Next]_vars PROVE JInv'
  OBVIOUS
<1>1. CASE UNCHANGED vars
  BY <1>1 DEF vars, globals, spotify, JInv, Rest, Follows, Globals, Indexed, LooksUp, Here
<1>2. ASSUME NEW p \in Playlist, PlaylistRemoved(p) PROVE JInv'
  <2>1. Rest'
    BY <1>2 DEF PlaylistRemoved, JInv, Rest
  <2>. QED BY <1>2, <2>1, AsideStep DEF PlaylistRemoved
<1>3. CASE LoadPlaylistDone \/ MissingArgument
  <2>1. PICK v \in {"run", "misread"} : Become([Globals EXCEPT !.status = v])
    BY <1>3 DEF LoadPlaylistDone, MissingArgument
  <2>. DEFINE k == [Globals EXCEPT !.status = v]
  <2>2. k \in State /\ k.playlist = g_playlist
    <3>1. v \in {"login", "run", "crashed", "spinning", "misread"} /\ Globals \in State
      BY DEF JInv
    <3>2. k \in State
      BY <3>1, StatusDoes
    <3>3. k.playlist = Globals.playlist
      BY <3>1, StatusDoes
    <3>. QED BY <3>2, <3>3, GlobalsFields
  <2>3. Indexed(Globals, list) => Indexed(k, list)
    BY StatusDoes DEF JInv
  <2>4. Become(k)
    BY <2>1
  <2>. HIDE DEF k
  <2>5. Rest' /\ UNCHANGED <<list, named, watched>>
    BY <1>3 DEF LoadPlaylistDone, MissingArgument, spotify, JInv, Rest
  <2>. QED BY <2>2, <2>3, <2>4, <2>5, GlobalStep
<1>4. CASE \E p \in Playlist :
              \/ LoadPlaylist(p) \/ PlaylistAdded(p) \/ PlaylistRemoved(p)
              \/ PlaylistRenamed(p)
              \/ TracksAdded(p) \/ TracksMoved(p) \/ TracksRemoved(p)
  BY <1>2, <1>4, LoadPlaylistStep, AddedStep, RenamedStep, TracksAddedStep, TracksMovedStep,
     RemoteRemoveStep
<1>5. CASE MetadataUpdated \/ PlayTokenLost \/ EndOfTrack \/ Autoplay
  BY <1>5, MetadataStep, TokenStep, EndStep, AutoplayStep
<1>6. CASE \E i \in Indices : StartRequest(i) \/ RemoveRequest(i)
  <2>1. PICK i \in Int : StartRequest(i) \/ RemoveRequest(i)
    BY <1>6, IndicesTyped
  <2>. QED BY <2>1, StartRequestStep, RemoveRequestStep
<1>7. CASE \E t \in Track : AddRequest(t)
  BY <1>7, AddRequestStep
<1>. QED BY <1>1, <1>3, <1>4, <1>5, <1>6, <1>7 DEF Next

-----------------------------------------------------------------------------
(* Part 5: the theorems. *)

\* The invariant holds always.
THEOREM JInvariant == SafeSpec => []JInv
  BY JInit, JStep, PTL DEF SafeSpec

LEMMA TypedLists ==
    ASSUME JInv
    PROVE  /\ list \in Contents
           /\ Home \in Playlist /\ list[Home] \in Seq(Track) /\ Len(list[Home]) \in Nat
           /\ Globals \in State
  BY ListsContents, JukeboxAssumption DEF JInv, Rest, Contents

\* The variables of the jukebox keep their types, whatever numbers the requests bring,
\* and no edit makes a list of anything but tracks.
THEOREM JukeboxTyped == SafeSpec => []TypeOK
<1>1. JInv => TypeOK
  BY StateFields, GlobalsFields DEF JInv, Rest, TypeOK
<1>. QED BY <1>1, JInvariant, PTL

\* A jukebox that plays plays the track at its index, after any sequence of callbacks
\* and requests, and plays nothing when the list has no track there: each one ends in
\* try_jukebox_start or stops the player.
THEOREM PlaysTheIndexed == SafeSpec => []CurrentIsIndexed
<1>1. JInv => CurrentIsIndexed
  BY GlobalsFields DEF JInv, Follows, CurrentIsIndexed, Tested, Indexed, LooksUp, Here
<1>. QED BY <1>1, JInvariant, PTL

-----------------------------------------------------------------------------
(* Steps of the jukebox. *)

LEMMA BecomeFields ==
    ASSUME NEW k, Become(k)
    PROVE  /\ g_playlist' = k.playlist
           /\ g_track_index' = k.index
           /\ g_currenttrack' = k.current
           /\ player' = k.player
           /\ status' = k.status
  BY DEF Become

LEMMA SettledPlays ==
    ASSUME JInv, Settled
    PROVE  /\ Playing(Globals, list)
           /\ g_playlist \in Playlist
           /\ g_playlist \in watched
<1>1. Indexed(Globals, list)
  BY DEF JInv, Follows, Settled
<1>2. /\ Globals.current # NULL
      /\ InList(Globals, list) /\ LooksUp(Globals, list)
  <2>1. g_playlist \in Playlist
    BY DEF JInv, Rest, Settled
  <2>2. list[g_playlist] \in Seq(Track)
    BY <2>1, TypedLists DEF Contents
  <2>. QED BY <2>2, GlobalsFields DEF Settled, InRange, InList, LooksUp
<1>3. g_playlist \in Playlist /\ g_playlist \in watched
  BY DEF JInv, Rest, Settled
<1>. QED BY <1>1, <1>2, <1>3 DEF Playing, Indexed

LEMMA PlaylistsSurvive ==
    ASSUME JInv, status = "run", NEW p \in Playlist,
           \/ LoadPlaylist(p) \/ PlaylistAdded(p) \/ PlaylistRemoved(p) \/ PlaylistRenamed(p)
           \/ TracksAdded(p) \/ TracksMoved(p) \/ TracksRemoved(p)
    PROVE  status' = "run"
<1>0. JInv' /\ list \in Contents /\ Globals \in State /\ watched \subseteq Playlist
  BY LoadPlaylistStep, AddedStep, RenamedStep, TracksAddedStep, TracksMovedStep,
     RemoteRemoveStep, JStep, TypedLists DEF JInv, Rest, Next
<1>1. CASE PlaylistAdded(p)
  <2>. DEFINE j == [Globals EXCEPT !.playlist = p]
              r == TryStart(j, list, loaded)
  <2>1. j = [playlist |-> p, index |-> g_track_index, current |-> g_currenttrack,
             player |-> player, status |-> status]
    BY DEF Globals
  <2>2. j \in State /\ j.status = status
    BY <1>0, <2>1, StateFields, GlobalsFields DEF State
  <2>. HIDE DEF j
  <2>3. r.status = status
    BY <1>0, <2>2, TryStartDoes
  <2>. HIDE DEF r
  <2>4. Become(r) \/ Become(Globals)
    BY <1>1 DEF PlaylistAdded, r, j
  <2>. QED BY <2>3, <2>4, BecomeFields, GlobalsFields
<1>2. CASE PlaylistRemoved(p)
  BY <1>2 DEF PlaylistRemoved, globals
<1>3. CASE PlaylistRenamed(p)
  <2>1. PICK isNamed \in BOOLEAN : Become(Renamed(Globals, p, isNamed)) \/ Become(Globals)
    BY <1>3 DEF PlaylistRenamed
  <2>. DEFINE r == Renamed(Globals, p, isNamed)
  <2>2. r.status = status
    BY RenamedDoes
  <2>. HIDE DEF r
  <2>3. Become(r) \/ Become(Globals)
    BY <2>1 DEF r
  <2>. QED BY <2>2, <2>3, BecomeFields, GlobalsFields
<1>4. CASE TracksAdded(p) \/ TracksMoved(p)
  <2>. DEFINE r == Edited(Globals, p, list')
  <2>1. Become(r)
    BY <1>4 DEF TracksAdded, TracksMoved
  <2>2. list' \in Contents
    BY <1>0, ListsContents DEF JInv, Rest
  <2>3. \A q \in Playlist \ {p} : list'[q] = list[q]
    BY <1>0, <1>4 DEF TracksAdded, TracksMoved, Contents
  <2>4. r.status = status
    BY <1>0, <2>2, <2>3, EditedDoes, GlobalsFields
  <2>. HIDE DEF r
  <2>. QED BY <2>1, <2>4, BecomeFields
<1>5. CASE TracksRemoved(p)
  <2>1. PICK gone \in SUBSET (0..Len(list[p]) - 1) : RemoteRemove(p, gone)
    BY <1>5 DEF TracksRemoved
  <2>. DEFINE r == Removed(Globals, p, gone, list')
  <2>2. Become(r) /\ list' = [list EXCEPT ![p] = Without(@, gone)]
    BY <2>1 DEF RemoteRemove
  <2>3. list' \in Contents
    BY <1>0, ListsContents DEF JInv, Rest
  <2>4. Loses(list, p, gone, list')
    BY <1>0, <2>2 DEF Loses, Contents
  <2>5. r.status = status
    BY <1>0, <2>3, <2>4, RemovedDoes, GlobalsFields
  <2>. HIDE DEF r
  <2>. QED BY <2>2, <2>5, BecomeFields
<1>. QED BY <1>1, <1>2, <1>3, <1>4, <1>5 DEF LoadPlaylist

LEMMA OthersSurvive ==
    ASSUME JInv, status = "run", HasTracks(Globals, list), Len(list[Home]) >= 2,
           \/ MetadataUpdated \/ PlayTokenLost \/ EndOfTrack \/ Autoplay
           \/ \E t \in Track : AddRequest(t)
    PROVE  status' = "run"
<1>0. list \in Contents /\ Globals \in State /\ watched \subseteq Playlist /\ Home \in Playlist
  BY TypedLists DEF JInv, Rest
<1>1. CASE MetadataUpdated
  <2>. DEFINE r == TryStart(Globals, list, loaded')
  <2>1. r.status = status
    BY <1>0, TryStartDoes, GlobalsFields
  <2>. HIDE DEF r
  <2>2. Become(r)
    BY <1>1 DEF MetadataUpdated, r
  <2>. QED BY <2>1, <2>2, BecomeFields
<1>2. CASE PlayTokenLost
  <2>. DEFINE r == Unload(Globals)
  <2>1. r.status = status
    BY <1>0, UnloadDoes, GlobalsFields
  <2>. HIDE DEF r
  <2>2. Become(r) \/ Become(Globals)
    BY <1>2 DEF PlayTokenLost, r
  <2>. QED BY <2>1, <2>2, BecomeFields, GlobalsFields
<1>3. CASE EndOfTrack
  BY <1>3 DEF EndOfTrack
<1>4. CASE Autoplay
  <2>. DEFINE n == Len(list[Home])
  <2>1. n \in Nat /\ n >= 2
    BY TypedLists
  <2>2. PICK k \in PickAnother(Globals, n, list, loaded) : Become(k)
    BY <1>4 DEF Autoplay
  <2>. HIDE DEF n
  <2>3. k.status = status
    BY <1>0, <2>1, <2>2, PickAnotherDoes, GlobalsFields
  <2>. QED BY <2>2, <2>3, BecomeFields
<1>5. CASE \E t \in Track : AddRequest(t)
  <2>1. PICK t \in Track : AddRequest(t)
    BY <1>5
  <2>. DEFINE r == Edited(Globals, Home, list')
  <2>2. Become(r)
    BY <2>1 DEF AddRequest
  <2>3. list' \in Contents
    <3>1. JInv'
      BY <2>1, AddRequestStep
    <3>. QED BY <3>1, ListsContents DEF JInv, Rest
  <2>4. \A q \in Playlist \ {Home} : list'[q] = list[q]
    BY <1>0, <2>1 DEF AddRequest, Contents
  <2>5. r.status = status
    BY <1>0, <2>3, <2>4, EditedDoes, GlobalsFields
  <2>. HIDE DEF r
  <2>. QED BY <2>2, <2>5, BecomeFields
<1>. QED BY <1>1, <1>2, <1>3, <1>4, <1>5

\* What a /remove does: the jukebox becomes j, then loses the track.
LEMMA RemoveDoes ==
    ASSUME JInv, NEW i \in Int, RemoveRequest(i)
    PROVE  \E j \in State :
             /\ IF g_track_index # i THEN j = Globals
                ELSE j \in PickAnother(Globals, Len(list[Home]), list, loaded)
             /\ \/ /\ i \notin 0..Len(list[Home]) - 1 \/ j.status # "run"
                   /\ Become(j)
                \/ /\ i \in 0..Len(list[Home]) - 1
                   /\ j.status = "run"
                   /\ list' \in Contents
                   /\ Loses(list, Home, {i}, list')
                   /\ Become(Removed(j, Home, {i}, list'))
<1>. DEFINE n == Len(list[Home])
            gone == {i} \cap 0..n - 1
            left == IF g_track_index # i THEN {Globals}
                    ELSE PickAnother(Globals, n, list, loaded)
<1>1. PICK j \in left :
         IF j.status = "run"
         THEN /\ list' = [list EXCEPT ![Home] = Without(@, gone)]
              /\ Become(IF gone = {} THEN j ELSE Removed(j, Home, gone, list'))
         ELSE Become(j) /\ UNCHANGED list
  BY DEF RemoveRequest
<1>2. j \in State
  BY <1>1, TypedLists, PickAnotherDoes
<1>3. CASE i \notin 0..n - 1 \/ j.status # "run"
  BY <1>1, <1>2, <1>3
<1>4. CASE i \in 0..n - 1 /\ j.status = "run"
  <2>1. gone = {i}
    BY <1>4
  <2>2. list' = [list EXCEPT ![Home] = Without(@, {i})]
    BY <1>1, <1>4, <2>1
  <2>3. Become(Removed(j, Home, {i}, list'))
    BY <1>1, <1>4, <2>1
  <2>4. list' \in Contents
    <3>1. JInv'
      BY RemoveRequestStep
    <3>. QED BY <3>1, ListsContents DEF JInv, Rest
  <2>5. Loses(list, Home, {i}, list')
    BY <1>4, <2>2, TypedLists DEF Loses, Contents
  <2>. QED BY <1>1, <1>2, <1>4, <2>3, <2>4, <2>5
<1>. QED BY <1>3, <1>4

LEMMA RequestsSurvive ==
    ASSUME JInv, status = "run", HasTracks(Globals, list), Len(list[Home]) >= 2,
           NEW i \in Int, StartRequest(i) \/ RemoveRequest(i)
    PROVE  status' = "run"
<1>0. /\ list \in Contents /\ Globals \in State /\ Home \in Playlist
      /\ Len(list[Home]) \in Nat
  BY TypedLists
<1>1. CASE StartRequest(i)
  <2>. DEFINE r == ChangeTrack(Globals, i, list, loaded)
  <2>1. r.status = status
    BY <1>0, ChangeTrackDoes, GlobalsFields
  <2>. HIDE DEF r
  <2>2. Become(r)
    BY <1>1 DEF StartRequest, r
  <2>. QED BY <2>1, <2>2, BecomeFields
<1>2. CASE RemoveRequest(i)
  <2>1. PICK j \in State :
             /\ IF g_track_index # i THEN j = Globals
                ELSE j \in PickAnother(Globals, Len(list[Home]), list, loaded)
             /\ \/ Become(j)
                \/ /\ list' \in Contents
                   /\ Loses(list, Home, {i}, list')
                   /\ Become(Removed(j, Home, {i}, list'))
    BY <1>2, RemoveDoes
  <2>2. j.status = status
    <3>1. CASE j = Globals
      BY <3>1, GlobalsFields
    <3>2. CASE j \in PickAnother(Globals, Len(list[Home]), list, loaded)
      BY <1>0, <3>2, PickAnotherDoes, GlobalsFields
    <3>. QED BY <2>1, <3>1, <3>2
  <2>3. CASE Become(j)
    BY <2>2, <2>3, BecomeFields
  <2>4. CASE /\ list' \in Contents
             /\ Loses(list, Home, {i}, list')
             /\ Become(Removed(j, Home, {i}, list'))
    <3>. DEFINE r == Removed(j, Home, {i}, list')
    <3>1. r.status = status
      BY <1>0, <2>2, <2>4, RemovedDoes
    <3>. HIDE DEF r
    <3>2. Become(r)
      BY <2>4 DEF r
    <3>. QED BY <3>1, <3>2, BecomeFields
  <2>. QED BY <2>1, <2>3, <2>4
<1>. QED BY <1>1, <1>2

\* No request with a number in it, no callback and no autoplay crashes or hangs the
\* server, for any lists of at least two tracks: no division by zero, no lookup in no
\* playlist, no endless loop.  Only a request without its argument does.
THEOREM TwoTracksSuffice == SafeSpec => SurvivesWithTwoTracks
<1>1. ASSUME JInv, [Next]_vars, status = "run",
             g_playlist # NULL, Len(list[g_playlist]) >= 1, Len(list[Home]) >= 2
      PROVE  status' \in {"run", "misread"}
  <2>1. HasTracks(Globals, list)
    <3>1. list[g_playlist] \in Seq(Track)
      BY <1>1, TypedLists, StateFields, GlobalsFields DEF Contents
    <3>. QED BY <1>1, <3>1, GlobalsFields DEF HasTracks
  <2>2. CASE UNCHANGED vars
    BY <1>1, <2>2 DEF vars, globals
  <2>3. ASSUME NEW i \in Indices, StartRequest(i) \/ RemoveRequest(i)
        PROVE  status' = "run"
    BY <1>1, <2>1, <2>3, RequestsSurvive, IndicesTyped
  <2>4. CASE MissingArgument
    BY <2>4 DEF MissingArgument, Become, Globals
  <2>5. CASE Next
    BY <1>1, <2>1, <2>3, <2>4, <2>5, PlaylistsSurvive, OthersSurvive
       DEF Next, LoadPlaylistDone
  <2>. QED BY <1>1, <2>2, <2>5
<1>2. JInv /\ [Next]_vars
      => [ /\ status = "run"
           /\ g_playlist # NULL
           /\ Len(list[g_playlist]) >= 1 /\ Len(list[Home]) >= 2
           => status' \in {"run", "misread"} ]_vars
  BY <1>1
<1>. QED BY <1>2, JInvariant, PTL DEF SafeSpec, SurvivesWithTwoTracks

LEMMA RemovedKeeps ==
    ASSUME JInv, Settled, NEW p \in Playlist, NEW gone, g_track_index \notin gone,
           list' \in Contents, Loses(list, p, gone, list'),
           Become(Removed(Globals, p, gone, list'))
    PROVE  UNCHANGED <<g_currenttrack, player>>
<1>. DEFINE k == Removed(Globals, p, gone, list')
<1>1. CASE p = g_playlist
  <2>1. SameSong(k, Globals)
    BY <1>1, TypedLists, SettledPlays, GlobalsFields, RemovedDoes
  <2>. HIDE DEF k
  <2>2. Become(k)
    BY DEF k
  <2>. QED BY <2>1, <2>2, BecomeFields, GlobalsFields DEF SameSong
<1>2. CASE p # g_playlist
  <2>1. Become(Globals)
    BY <1>2, GlobalsFields DEF Removed
  <2>. QED BY <2>1, BecomeFields, GlobalsFields
<1>. QED BY <1>1, <1>2

\* A song goes on, in libspotify's player and in the jukebox, when others are removed
\* before or after it, in any number at once, or when one is added.
THEOREM SongsSurviveEdits == SafeSpec => EditsKeepSong
<1>1. ASSUME JInv, Settled,
             NEW gone \in SUBSET (0..Len(list[g_playlist]) - 1 \ {g_track_index}),
             RemoteRemove(g_playlist, gone)
      PROVE  UNCHANGED <<g_currenttrack, player>>
  <2>1. /\ g_playlist \in Playlist
        /\ gone \in SUBSET (0..Len(list[g_playlist]) - 1)
        /\ g_track_index \notin gone
    BY <1>1, SettledPlays
  <2>2. gone # {} => JInv'
    <3>1. gone # {} => TracksRemoved(g_playlist)
      <4>. SUFFICES ASSUME gone # {} PROVE TracksRemoved(g_playlist)
        OBVIOUS
      <4>1. gone \in (SUBSET (0..Len(list[g_playlist]) - 1)) \ {{}}
        BY <2>1
      <4>. QED BY <1>1, <4>1, Zenon DEF TracksRemoved
    <3>. QED BY <1>1, <2>1, <3>1, RemoteRemoveStep
  <2>3. gone = {} => list' = list
    BY <1>1, <2>1, TypedLists, WithoutNothing DEF RemoteRemove, Contents
  <2>4. list' \in Contents
    BY <1>1, <2>2, <2>3, TypedLists, ListsContents DEF JInv, Rest
  <2>5. Loses(list, g_playlist, gone, list')
    BY <1>1, <2>1, TypedLists DEF Loses, RemoteRemove, Contents
  <2>. QED BY <1>1, <2>1, <2>4, <2>5, RemovedKeeps DEF RemoteRemove
<1>2. ASSUME JInv, Settled, NEW i \in Indices \ {g_track_index}, RemoveRequest(i)
      PROVE  UNCHANGED <<g_currenttrack, player>>
  <2>1. i \in Int /\ g_track_index # i
    BY <1>2, IndicesTyped
  <2>2. \/ Become(Globals)
        \/ /\ list' \in Contents
           /\ Loses(list, Home, {i}, list')
           /\ Become(Removed(Globals, Home, {i}, list'))
    BY <1>2, <2>1, RemoveDoes
  <2>3. CASE Become(Globals)
    BY <2>3, BecomeFields, GlobalsFields
  <2>. QED BY <1>2, <2>1, <2>2, <2>3, RemovedKeeps, TypedLists
<1>3. ASSUME JInv, Settled, NEW t \in Track, AddRequest(t)
      PROVE  UNCHANGED <<g_currenttrack, player>>
  <2>1. JInv'
    BY <1>3, AddRequestStep
  <2>2. list' \in Contents /\ Globals \in State
    BY <1>3, <2>1, ListsContents, TypedLists DEF JInv, Rest
  <2>3. Become(Edited(Globals, Home, list'))
    BY <1>3 DEF AddRequest
  <2>4. Edited(Globals, Home, list') = Globals
    <3>1. CASE Home = g_playlist
      <4>1. Playing(Globals, list)
        BY <1>3, SettledPlays
      <4>2. /\ g_track_index \in 0..Len(list[Home]) - 1
            /\ g_currenttrack = list[Home][g_track_index + 1]
            /\ Home # NULL
        BY <1>3, <3>1, <4>1, TypedLists, HereTyped, StateFields, GlobalsFields
           DEF Playing, InList
      <4>3. list'[Home] = Append(list[Home], t)
        BY <1>3, TypedLists DEF AddRequest, Contents
      <4>4. /\ g_track_index \in 0..Len(list'[Home]) - 1
            /\ list'[Home][g_track_index + 1] = list[Home][g_track_index + 1]
        BY <1>3, <4>2, <4>3, TypedLists
      <4>5. InList(Globals, list')
        BY <3>1, <4>2, <4>4, GlobalsFields DEF InList
      <4>6. Here(Globals, list') = g_currenttrack
        BY <2>2, <3>1, <4>2, <4>4, <4>5, HereTyped, GlobalsFields
      <4>7. Globals.current # NULL /\ Globals.current = Here(Globals, list')
        BY <4>1, <4>6, GlobalsFields DEF Playing
      <4>8. TryStart(Globals, list', loaded) = Globals
        BY <2>2, <4>5, <4>7, TryStartDoes
      <4>. QED BY <4>8 DEF Edited
    <3>2. CASE Home # g_playlist
      BY <3>2, GlobalsFields DEF Edited
    <3>. QED BY <3>1, <3>2
  <2>. QED BY <2>3, <2>4, BecomeFields, GlobalsFields
<1>4. JInv => [ /\ Settled
                /\ \/ \E gone \in SUBSET (0..Len(list[g_playlist]) - 1 \ {g_track_index}) :
                         RemoteRemove(g_playlist, gone)
                   \/ \E i \in Indices \ {g_track_index} : RemoveRequest(i)
                   \/ \E t \in Track : AddRequest(t)
                => UNCHANGED <<g_currenttrack, player>> ]_vars
  BY <1>1, <1>2, <1>3
<1>. QED BY <1>4, JInvariant, PTL DEF EditsKeepSong

\* Nothing stands in the way: the autoplay finds a track that plays.
LEMMA HealthyPicks ==
    ASSUME JInv, Healthy, Settled,
           NEW j \in PickAnother(Globals, Len(list[Home]), list, loaded)
    PROVE  /\ j \in State /\ j.playlist = Home /\ j.status = "run"
           /\ j.index \in 0..Len(list[Home]) - 1 \ {g_track_index}
           /\ Sounds(j, list[Home][j.index + 1])
<1>. DEFINE n == Len(list[Home])
<1>1. /\ list \in Contents /\ Globals \in State /\ n \in Nat /\ list[Home] \in Seq(Track)
      /\ Home \in Playlist
  BY TypedLists
<1>2. n >= 2 /\ g_playlist = Home /\ status = "run" /\ g_currenttrack # NULL
  BY DEF Healthy, Settled
<1>3. \A i \in 0..n - 1 : list[Home][i + 1] \in loaded \cap Playable
  <2>1. \A i \in 1..n : list[Home][i] \in ToSet(list[Home])
    BY <1>1 DEF ToSet
  <2>2. \A i \in 1..n : list[Home][i] \in loaded \cap Playable
    BY <2>1 DEF Healthy
  <2>. TAKE i \in 0..n - 1
  <2>3. i + 1 \in 1..n
    BY <1>1
  <2>. QED BY <2>2, <2>3
<1>4. Home # NULL
  BY JukeboxAssumption
<1>5. HasTracks(Globals, list)
  BY <1>1, <1>2, <1>4, GlobalsFields DEF HasTracks
<1>. HIDE DEF n
<1>6. j \in PickAnother(Globals, n, list, loaded)
  BY DEF n
<1>7. j \in State /\ j.playlist = Home /\ j.status = "run"
  <2>1. j \in State /\ j.playlist = Globals.playlist
    BY <1>1, <1>6, PickAnotherDoes
  <2>2. j.status = Globals.status
    BY <1>1, <1>2, <1>5, <1>6, PickAnotherDoes
  <2>. QED BY <1>2, <2>1, <2>2, GlobalsFields
<1>8. /\ Globals.playlist = Home /\ n <= Len(list[Globals.playlist])
      /\ Globals.current # NULL /\ Globals.playlist # NULL
  BY <1>1, <1>2, <1>4, GlobalsFields DEF n
<1>9. /\ j.index \in 0..n - 1 \ {g_track_index}
      /\ Sounds(j, list[Home][j.index + 1])
  <2>1. \A i \in 0..n - 1 : list[Globals.playlist][i + 1] \in loaded \cap Playable
    BY <1>3, <1>8
  <2>. QED BY <1>1, <1>2, <1>6, <1>8, <2>1, PickAnotherPlays, GlobalsFields
<1>. QED BY <1>7, <1>9 DEF n

\* After the end of a track the autoplay starts another place of the list, for lists of
\* any length.
THEOREM AutoplayStartsAnother == SafeSpec => AutoplayMovesOn
<1>1. ASSUME JInv, Healthy, Settled, Autoplay
      PROVE  /\ g_track_index' # g_track_index
             /\ player' # NULL
             /\ ~player'.ended
  <2>1. PICK j \in PickAnother(Globals, Len(list[Home]), list, loaded) : Become(j)
    BY <1>1 DEF Autoplay
  <2>2. /\ j.index \in 0..Len(list[Home]) - 1 \ {g_track_index}
        /\ Sounds(j, list[Home][j.index + 1]) /\ j \in State
    BY <1>1, <2>1, HealthyPicks
  <2>3. g_track_index' = j.index /\ player' = j.player
    BY <2>1, BecomeFields
  <2>4. player' = [track |-> list[Home][j.index + 1], ended |-> FALSE]
    BY <2>2, <2>3 DEF Sounds
  <2>5. player' # NULL
    <3>1. j.index + 1 \in 1..Len(list[Home]) /\ list[Home] \in Seq(Track)
      BY <1>1, <2>2, TypedLists
    <3>2. list[Home][j.index + 1] \in Track
      BY <3>1
    <3>3. player' \in [track : Track, ended : BOOLEAN]
      <4>. DEFINE t == list[Home][j.index + 1]
      <4>1. t \in Track
        BY <3>2
      <4>. HIDE DEF t
      <4>2. [track |-> t, ended |-> FALSE] \in [track : Track, ended : BOOLEAN]
        BY <4>1
      <4>. QED BY <2>4, <4>2 DEF t
    <3>. QED BY <3>3, JukeboxAssumption
  <2>. QED BY <2>2, <2>3, <2>4, <2>5
<1>2. JInv => [ Healthy /\ Settled /\ Autoplay
                => /\ g_track_index' # g_track_index
                   /\ player' # NULL
                   /\ ~player'.ended ]_vars
  BY <1>1
<1>. QED BY <1>2, JInvariant, PTL DEF AutoplayMovesOn

\* When a browser removes the song that plays, another one of the list that is left
\* plays at once, and the index says which.
THEOREM RemovalPlaysOn == SafeSpec => RemovePlaysOn
<1>1. ASSUME JInv, Healthy, Settled, RemoveRequest(g_track_index)
      PROVE  /\ InRange' /\ player' # NULL
             /\ ~player'.ended
             /\ player'.track = TrackAt(list'[Home], g_track_index')
  <2>0. /\ list \in Contents /\ Home \in Playlist /\ Home # NULL /\ Home \in watched
        /\ g_track_index \in 0..Len(list[Home]) - 1 /\ g_track_index \in Int
        /\ g_playlist = Home
    BY <1>1, TypedLists, StateFields, GlobalsFields, JukeboxAssumption
       DEF Settled, InRange, Healthy
  <2>1. PICK j \in State :
          /\ j \in PickAnother(Globals, Len(list[Home]), list, loaded)
          /\ \/ j.status # "run"
             \/ /\ list' \in Contents
                /\ Loses(list, Home, {g_track_index}, list')
                /\ Become(Removed(j, Home, {g_track_index}, list'))
    BY <1>1, <2>0, RemoveDoes
  <2>2. /\ j.playlist = Home /\ j.status = "run"
        /\ j.index \in 0..Len(list[Home]) - 1 \ {g_track_index}
        /\ Sounds(j, list[Home][j.index + 1])
    BY <1>1, <2>1, HealthyPicks
  <2>. DEFINE k == Removed(j, Home, {g_track_index}, list')
              t == list[Home][j.index + 1]
  <2>3. j.index + 1 \in 1..Len(list[Home]) /\ t \in Track
    BY <1>1, <2>2, TypedLists
  <2>4. Playing(j, list)
    <3>1. InList(j, list)
      BY <1>1, <2>0, <2>2, TypedLists DEF InList
    <3>2. Here(j, list) = t
      BY <2>0, <2>1, <2>2, <3>1, HereTyped
    <3>3. j.current = t /\ t # NULL
      BY <2>2, <2>3, JukeboxAssumption DEF Sounds
    <3>. QED BY <3>1, <3>2, <3>3 DEF Playing
  <2>5. j.index \notin {g_track_index}
    BY <2>2
  <2>6. SameSong(k, j) /\ Playing(k, list')
    BY <2>0, <2>1, <2>2, <2>4, <2>5, RemovedDoes
  <2>7. k.playlist = Home
    BY <2>0, <2>1, <2>2, RemovedDoes
  <2>8. Become(k)
    BY <2>1, <2>2
  <2>. HIDE DEF k
  <2>9. /\ g_playlist' = Home /\ g_track_index' = k.index /\ player' = k.player
        /\ g_currenttrack' = k.current
    BY <2>7, <2>8, BecomeFields
  <2>10. player' = [track |-> t, ended |-> FALSE] /\ k.current = t
    <3>. HIDE DEF t
    <3>. QED BY <2>2, <2>6, <2>9 DEF SameSong, Sounds, t
  <2>11. InRange'
    BY <2>0, <2>6, <2>7, <2>9 DEF InRange, Playing, InList
  <2>12. k.current = TrackAt(list'[Home], g_track_index')
    BY <2>6, <2>7, <2>9 DEF Playing, Here
  <2>13. player' # NULL
    <3>. HIDE DEF t
    <3>1. player' \in [track : Track, ended : BOOLEAN]
      BY <2>3, <2>10
    <3>. QED BY <3>1, JukeboxAssumption
  <2>. HIDE DEF t
  <2>. QED BY <2>10, <2>11, <2>12, <2>13
<1>2. JInv => [ Healthy /\ Settled /\ RemoveRequest(g_track_index)
                => /\ InRange' /\ player' # NULL
                   /\ ~player'.ended
                   /\ player'.track = TrackAt(list[Home], g_track_index)' ]_vars
  BY <1>1
<1>. QED BY <1>2, JInvariant, PTL DEF RemovePlaysOn
-----------------------------------------------------------------------------
(* Part 6: the end of a song. *)

\* Ended, of a record.
Over(j) == j.player # NULL /\ j.player.ended

\* What a function of the jukebox never does: end a song.  The track in the player has
\* ended afterwards only if it is the same as before.
NoneEnds(j, k) == Over(k) => k.player = j.player

LEMMA SameEndsNone ==
    ASSUME NEW j, NEW k, k.player = j.player PROVE NoneEnds(j, k)
  BY DEF NoneEnds

LEMMA EndsNoneTwice ==
    ASSUME NEW j, NEW k, NEW m, NoneEnds(j, k), NoneEnds(k, m) PROVE NoneEnds(j, m)
  BY DEF NoneEnds, Over

LEMMA UpdateKeepsPlayer ==
    ASSUME NEW j, Good(j), NEW v
    PROVE  /\ [j EXCEPT !.index = v].player = j.player
           /\ [j EXCEPT !.status = v].player = j.player
           /\ [j EXCEPT !.playlist = v].player = j.player
           /\ [j EXCEPT !.index = v].current = j.current
           /\ [j EXCEPT !.status = v].status = v
  BY DEF Good, Shaped

LEMMA UnloadSilences ==
    ASSUME NEW j, Good(j) PROVE Unload(j).player = NULL
<1>1. Unload(j) = [[j EXCEPT !.current = NULL] EXCEPT !.player = NULL]
  BY DEF Unload
<1>. QED  BY <1>1 DEF Good, Shaped

LEMMA LoadIsNew ==
    ASSUME NEW j, Good(j), NEW t PROVE ~Over(Load(j, t))
<1>. DEFINE pl == IF t \in Playable THEN [track |-> t, ended |-> FALSE] ELSE NULL
<1>1. Load(j, t).player = pl
  <2>1. Load(j, t) = [[j EXCEPT !.current = t] EXCEPT !.player = pl]
    BY DEF Load
  <2>. HIDE DEF pl
  <2>. QED  BY <2>1 DEF Good, Shaped
<1>2. pl = NULL \/ ~pl.ended
  OBVIOUS
<1>. HIDE DEF pl
<1>. QED  BY <1>1, <1>2 DEF Over

LEMMA StartTrackEndsNone ==
    ASSUME NEW j, Good(j), NEW t, NEW ok PROVE NoneEnds(j, StartTrack(j, t, ok))
<1>. DEFINE j1 == IF j.current # NULL /\ t # j.current THEN Unload(j) ELSE j
<1>1. Good(j1) /\ NoneEnds(j, j1)
  BY UnloadGood, UnloadSilences DEF NoneEnds, Over
<1>2. StartTrack(j, t, ok) \in {j1, Load(j1, t)}
  BY DEF StartTrack
<1>. HIDE DEF j1
<1>3. NoneEnds(j, Load(j1, t))
  BY <1>1, LoadIsNew DEF NoneEnds
<1>. QED  BY <1>1, <1>2, <1>3

LEMMA TryStartEndsNone ==
    ASSUME NEW j, Good(j), NEW lst, NEW ok PROVE NoneEnds(j, TryStart(j, lst, ok))
<1>. DEFINE t == TrackAt(lst[j.playlist], j.index)
<1>1. TryStart(j, lst, ok) \in {j, StartTrack(j, t, ok)}
  BY DEF TryStart
<1>. HIDE DEF t
<1>. QED  BY <1>1, StartTrackEndsNone, SameEndsNone

\* A change of track silences the player or starts another song, unless it crashes or
\* there is nothing to silence.
LEMMA ChangeTrackEndsNone ==
    ASSUME NEW j, Good(j), NEW i, NEW lst, NEW ok
    PROVE  /\ NoneEnds(j, ChangeTrack(j, i, lst, ok))
           /\ \/ ~Over(ChangeTrack(j, i, lst, ok))
              \/ j.current = NULL
              \/ ChangeTrack(j, i, lst, ok).status = "crashed"
<1>. DEFINE j1 == [j EXCEPT !.index = CRem(i, Len(lst[j.playlist]))]
            dead == [j EXCEPT !.status = "crashed"]
            k == TryStart(Unload(j1), lst, ok)
<1>1. /\ Good(j1) /\ j1.player = j.player /\ j1.current = j.current
      /\ dead.player = j.player /\ dead.status = "crashed"
  BY IndexGood, UpdateKeepsPlayer
<1>2. \/ ChangeTrack(j, i, lst, ok) = dead
      \/ ChangeTrack(j, i, lst, ok) = j1 /\ j.current = NULL
      \/ ChangeTrack(j, i, lst, ok) = k
  <2>1. CASE j.playlist = NULL \/ lst[j.playlist] = <<>>
    BY <2>1 DEF ChangeTrack
  <2>2. CASE ~(j.playlist = NULL \/ lst[j.playlist] = <<>>)
    BY <2>2 DEF ChangeTrack
  <2>. QED  BY <2>1, <2>2
<1>3. ~Over(k)
  <2>. HIDE DEF j1
  <2>1. NoneEnds(Unload(j1), k) /\ Unload(j1).player = NULL
    BY <1>1, UnloadGood, UnloadSilences, TryStartEndsNone
  <2>. QED  BY <2>1 DEF NoneEnds, Over
<1>. HIDE DEF j1, dead, k
<1>. QED  BY <1>1, <1>2, <1>3 DEF NoneEnds

LEMMA PickAnotherEndsNone ==
    ASSUME NEW j, Good(j), NEW n, NEW lst, NEW ok, NEW k \in PickAnother(j, n, lst, ok)
    PROVE  /\ NoneEnds(j, k)
           /\ ~Over(k) \/ j.current = NULL \/ k.status \in {"crashed", "spinning"}
<1>1. CASE n = 0 \/ (n = 1 /\ j.index = 0)
  <2>1. k = [j EXCEPT !.status = "crashed"] \/ k = [j EXCEPT !.status = "spinning"]
    BY <1>1 DEF PickAnother
  <2>2. PICK v \in {"crashed", "spinning"} : k = [j EXCEPT !.status = v]
    BY <2>1
  <2>3. k.player = j.player /\ k.status = v
    BY <2>2, UpdateKeepsPlayer
  <2>. QED  BY <2>3 DEF NoneEnds
<1>2. CASE n # 0 /\ ~(n = 1 /\ j.index = 0)
  <2>1. PICK i : k = ChangeTrack([j EXCEPT !.index = i], i, lst, ok)
    BY <1>2 DEF PickAnother
  <2>. DEFINE j1 == [j EXCEPT !.index = i]
  <2>2. Good(j1) /\ j1.player = j.player /\ j1.current = j.current
    BY IndexGood, UpdateKeepsPlayer
  <2>3. k = ChangeTrack(j1, i, lst, ok)
    BY <2>1
  <2>. HIDE DEF j1
  <2>4. /\ NoneEnds(j1, k)
        /\ ~Over(k) \/ j1.current = NULL \/ k.status = "crashed"
    BY <2>2, <2>3, ChangeTrackEndsNone
  <2>. QED  BY <2>2, <2>4 DEF NoneEnds
<1>. QED  BY <1>1, <1>2

LEMMA EditedEndsNone ==
    ASSUME NEW j, Good(j), NEW p, NEW lst PROVE NoneEnds(j, Edited(j, p, lst))
  BY TryStartEndsNone, SameEndsNone DEF Edited

LEMMA RemovedEndsNone ==
    ASSUME NEW j, Good(j), NEW p, NEW gone, NEW lst
    PROVE  NoneEnds(j, Removed(j, p, gone, lst))
<1>. DEFINE j1 == [j EXCEPT !.index = j.index - Cardinality({i \in gone : i < j.index})]
<1>1. Good(j1) /\ j1.player = j.player
  BY IndexGood, UpdateKeepsPlayer
<1>2. Removed(j, p, gone, lst) \in {j, TryStart(j1, lst, loaded)}
  BY DEF Removed
<1>. HIDE DEF j1
<1>3. NoneEnds(j, TryStart(j1, lst, loaded))
  BY <1>1, TryStartEndsNone DEF NoneEnds
<1>. QED  BY <1>2, <1>3, SameEndsNone

LEMMA FoundEndsNone ==
    ASSUME NEW j, Good(j), NEW p, NEW lst, NEW ok
    PROVE  NoneEnds(j, TryStart([j EXCEPT !.playlist = p], lst, ok))
<1>. DEFINE j1 == [j EXCEPT !.playlist = p]
<1>1. Good(j1) /\ j1.player = j.player
  BY PlaylistGood, UpdateKeepsPlayer
<1>. HIDE DEF j1
<1>2. NoneEnds(j, TryStart(j1, lst, ok))
  BY <1>1, TryStartEndsNone DEF NoneEnds
<1>. QED  BY <1>2 DEF j1

LEMMA RenamedEndsNone ==
    ASSUME NEW j, Good(j), NEW p, NEW isNamed PROVE NoneEnds(j, Renamed(j, p, isNamed))
<1>. DEFINE j1 == [j EXCEPT !.playlist = p]
            j2 == [j1 EXCEPT !.index = 0]
            j3 == [j EXCEPT !.playlist = NULL]
<1>1. /\ Good(j1) /\ j1.player = j.player
      /\ Good(j3) /\ j3.player = j.player
  BY PlaylistGood, UpdateKeepsPlayer
<1>2. Good(j2) /\ j2.player = j.player
  <2>. HIDE DEF j1
  <2>. QED  BY <1>1, IndexGood, UpdateKeepsPlayer
<1>3. Renamed(j, p, isNamed) \in {TryStart(j2, list, loaded), Unload(j3), j}
  BY DEF Renamed
<1>. HIDE DEF j1, j2, j3
<1>4. NoneEnds(j, TryStart(j2, list, loaded))
  BY <1>2, TryStartEndsNone DEF NoneEnds
<1>5. NoneEnds(j, Unload(j3))
  BY <1>1, UnloadSilences DEF NoneEnds, Over
<1>. QED  BY <1>3, <1>4, <1>5, SameEndsNone
\* The end of a song is noted until the autoplay has read it.
EndNoted == Ended => g_playback_done = 1

LEMMA BecomeEndsNone ==
    ASSUME NEW j, NoneEnds(Globals, j), Become(j)
    PROVE  Ended' => Ended
  BY DEF NoneEnds, Over, Become, Globals, Ended

\* The callbacks and requests but end_of_track and the autoplay.
LEMMA OthersEndNone ==
    ASSUME IInv, Next, ~EndOfTrack, ~Autoplay
    PROVE  (Ended' => Ended) /\ g_playback_done' = g_playback_done
<1>. USE GlobalsGood
<1>1. ASSUME NEW p \in Playlist, LoadPlaylist(p) \/ PlaylistAdded(p)
      PROVE  (Ended' => Ended) /\ g_playback_done' = g_playback_done
  <2>1. NoneEnds(Globals, IF p \in named
                          THEN TryStart([Globals EXCEPT !.playlist = p], list, loaded)
                          ELSE Globals)
    BY FoundEndsNone, SameEndsNone
  <2>. QED  BY <1>1, <2>1, BecomeEndsNone DEF LoadPlaylist, PlaylistAdded
<1>2. ASSUME NEW p \in Playlist, PlaylistRemoved(p)
      PROVE  (Ended' => Ended) /\ g_playback_done' = g_playback_done
  BY <1>2 DEF PlaylistRemoved, globals, Ended
<1>3. ASSUME NEW p \in Playlist, PlaylistRenamed(p)
      PROVE  (Ended' => Ended) /\ g_playback_done' = g_playback_done
  BY <1>3, RenamedEndsNone, SameEndsNone, BecomeEndsNone DEF PlaylistRenamed
<1>4. ASSUME NEW p \in Playlist, TracksAdded(p) \/ TracksMoved(p) \/ TracksRemoved(p)
      PROVE  (Ended' => Ended) /\ g_playback_done' = g_playback_done
  BY <1>4, EditedEndsNone, RemovedEndsNone, BecomeEndsNone
  DEF TracksAdded, TracksMoved, TracksRemoved, RemoteRemove
<1>5. ASSUME LoadPlaylistDone
      PROVE  (Ended' => Ended) /\ g_playback_done' = g_playback_done
  <2>1. [Globals EXCEPT !.status = "run"].player = Globals.player
    BY UpdateKeepsPlayer
  <2>2. NoneEnds(Globals, [Globals EXCEPT !.status = "run"])
    BY <2>1, SameEndsNone
  <2>. QED  BY <1>5, <2>2, BecomeEndsNone DEF LoadPlaylistDone
<1>6. ASSUME MetadataUpdated
      PROVE  (Ended' => Ended) /\ g_playback_done' = g_playback_done
  BY <1>6, TryStartEndsNone, BecomeEndsNone DEF MetadataUpdated
<1>7. ASSUME PlayTokenLost
      PROVE  (Ended' => Ended) /\ g_playback_done' = g_playback_done
  <2>1. NoneEnds(Globals, Unload(Globals)) /\ NoneEnds(Globals, Globals)
    BY UnloadSilences DEF NoneEnds, Over
  <2>. QED  BY <1>7, <2>1, BecomeEndsNone DEF PlayTokenLost
<1>8. ASSUME NEW i, StartRequest(i)
      PROVE  (Ended' => Ended) /\ g_playback_done' = g_playback_done
  BY <1>8, ChangeTrackEndsNone, BecomeEndsNone DEF StartRequest
<1>9. ASSUME NEW i, RemoveRequest(i)
      PROVE  (Ended' => Ended) /\ g_playback_done' = g_playback_done
  <2>. DEFINE gone == {i} \cap 0..Len(list[Home]) - 1
              left == IF g_track_index # i THEN {Globals}
                      ELSE PickAnother(Globals, Len(list[Home]), list, loaded)
  <2>1. \A j \in left : Good(j) /\ NoneEnds(Globals, j)
    BY PickAnotherGood, PickAnotherEndsNone, SameEndsNone
  <2>2. PICK j \in left :
            \/ Become(j)
            \/ Become(Removed(j, Home, gone, list'))
    BY <1>9 DEF RemoveRequest
  <2>3. g_playback_done' = g_playback_done
    BY <1>9 DEF RemoveRequest
  <2>. HIDE DEF left, gone
  <2>4. NoneEnds(Globals, Removed(j, Home, gone, list'))
    BY <2>1, RemovedEndsNone, EndsNoneTwice
  <2>. QED  BY <2>1, <2>2, <2>3, <2>4, BecomeEndsNone
<1>10. ASSUME NEW t, AddRequest(t)
       PROVE  (Ended' => Ended) /\ g_playback_done' = g_playback_done
  BY <1>10, EditedEndsNone, BecomeEndsNone DEF AddRequest
<1>11. ASSUME MissingArgument
       PROVE  (Ended' => Ended) /\ g_playback_done' = g_playback_done
  <2>1. [Globals EXCEPT !.status = "misread"].player = Globals.player
    BY UpdateKeepsPlayer
  <2>2. NoneEnds(Globals, [Globals EXCEPT !.status = "misread"])
    BY <2>1, SameEndsNone
  <2>. QED  BY <1>11, <2>2, BecomeEndsNone DEF MissingArgument
<1>. QED  BY <1>1, <1>2, <1>3, <1>4, <1>5, <1>6, <1>7, <1>8, <1>9, <1>10, <1>11 DEF Next

\* The autoplay of a server that does not crash or hang has no ended song left.
LEMMA AutoplayEndsNone ==
    ASSUME JInv, IInv, Autoplay
    PROVE  /\ status' = "run" => ~Ended'
           /\ status' # "run" => g_playback_done' = g_playback_done
<1>1. PICK j \in PickAnother(Globals, Len(list[Home]), list, loaded) :
          /\ Become(j)
          /\ g_playback_done' = IF j.status = "run" THEN 0 ELSE g_playback_done
  BY DEF Autoplay
<1>2. player' = j.player /\ status' = j.status
  BY <1>1, BecomeFields
<1>3. /\ NoneEnds(Globals, j)
      /\ ~Over(j) \/ Globals.current = NULL \/ j.status \in {"crashed", "spinning"}
  BY <1>1, GlobalsGood, PickAnotherEndsNone
<1>4. CASE Globals.current = NULL
  <2>1. player = NULL
    <3>1. Globals \in State
      BY TypedLists
    <3>2. player \in [track : Track, ended : BOOLEAN] \cup {NULL}
      BY <3>1, StateFields, GlobalsFields
    <3>3. player # NULL => player.track = NULL
      BY <1>4 DEF IInv, Matched, Globals
    <3>. QED  BY <3>2, <3>3, JukeboxAssumption
  <2>. QED  BY <1>1, <1>2, <1>3, <2>1 DEF NoneEnds, Over, Globals, Ended
<1>. QED  BY <1>1, <1>2, <1>3, <1>4 DEF Over, Ended

\* Whatever callbacks and requests come between end_of_track and process_events, the
\* end of the song that is in the player stays noted.
THEOREM EndsAreNoted == SafeSpec => []EndNoted
<1>1. Init => EndNoted
  BY DEF Init, EndNoted, Ended
<1>2. ASSUME JInv, IInv, EndNoted, [Next]_vars PROVE EndNoted'
  <2>1. CASE EndOfTrack
    BY <2>1 DEF EndOfTrack, EndNoted
  <2>2. CASE Autoplay
    <3>1. g_playback_done = 1
      BY <2>2 DEF Autoplay
    <3>. QED  BY <1>2, <2>2, <3>1, AutoplayEndsNone DEF EndNoted
  <2>3. CASE Next /\ ~EndOfTrack /\ ~Autoplay
    BY <1>2, <2>3, OthersEndNone DEF EndNoted
  <2>4. CASE UNCHANGED vars
    BY <1>2, <2>4 DEF vars, globals, EndNoted, Ended
  <2>. QED  BY <1>2, <2>1, <2>2, <2>3, <2>4
<1>3. JInv /\ IInv /\ EndNoted /\ [Next]_vars => EndNoted'
  BY <1>2
<1>. QED  BY <1>1, <1>3, JInvariant, IInvInit, IInvStep, PTL DEF SafeSpec

\* When the autoplay is not kept back from a song that has ended (MusicIsDue), the
\* music continues: fairness of the event loop is enough, whatever else happens.
THEOREM MusicGoesOn == Spec /\ []MusicIsDue => MusicContinues
<1>1. JInv /\ IInv /\ <<Autoplay>>_vars => ~(Healthy /\ Ended)'
  BY AutoplayEndsNone DEF Healthy
<1>2. MusicIsDue /\ Healthy /\ Ended => ENABLED <<Autoplay>>_vars
  BY DEF MusicIsDue
<1>3. Spec => SafeSpec /\ WF_vars(Autoplay)
  BY PTL DEF Spec
<1>. QED  BY <1>1, <1>2, <1>3, JInvariant, IInvInit, IInvStep, PTL
          DEF SafeSpec, MusicContinues
===============================================================================
