------------------------------ MODULE Playback ------------------------------
(***************************************************************************)
(* The way of a song from libspotify to the sound card: the fifo and its   *)
(* threads (AudioFifo) put together with what the jukebox does to the      *)
(* player (jukebox.c, playlist-callbacks.c, sp-callbacks.c) and with the   *)
(* loop of the audio thread around the ALSA device (alsa-audio.c).         *)
(*                                                                         *)
(* The songs are numbered as they are loaded.  A change of song is not one *)
(* step: the main thread flushes, unloads and loads one after the other,   *)
(* while libspotify's thread delivers and the audio thread plays.  Which   *)
(* track is chosen is in module Jukebox.                                   *)
(***************************************************************************)
EXTENDS AudioFifo

CONSTANTS Format,       \* rate and channels of a song
          FirstFormat,  \* those of the first song: which, makes no difference
          MaxLoads,     \* bound: songs that are loaded
          MaxUnderruns  \* bound: times the sound card runs dry

ASSUME PlaybackAssumption ==
    /\ FirstFormat \in Format
    /\ MaxLoads \in Nat
    /\ MaxUnderruns \in Nat
    /\ None \notin Format
    /\ None \notin [load : Nat, format : Format]

VARIABLES
    current,    \* whether the jukebox has a g_currenttrack
    loads,      \* history: songs loaded so far
    song,       \* libspotify: the song whose frames it delivers, or None
    source,     \* the song of the music_delivery call in progress, or None
    songs,      \* the song of each chunk of q
    hand,       \* the song of afd, or None
    todo,       \* what the jukebox has still to call
    gone,       \* history: the songs up to this one have been unloaded
    stale,      \* history: frames of them given to the device since the last unload
    h,          \* the format the ALSA device is open for, or None
    ready,      \* whether the device has been waited for
    xrun,       \* ALSA: the device ran dry and has to be prepared again
    underruns,  \* history: how often it ran dry
    unheard,    \* history: chunks that a dry device refused
    alive       \* FALSE after exit(1)

jukebox == <<current, loads, song, todo, gone>>
card == <<h, ready, xrun, underruns, unheard, alive>>
pvars == <<vars, jukebox, source, songs, hand, stale, card>>

Song == [load : 1..MaxLoads, format : Format]

PInit == /\ Init
         /\ current = FALSE
         /\ loads = 0
         /\ song = None
         /\ source = None
         /\ songs = <<>>
         /\ hand = None
         /\ todo = <<>>
         /\ gone = 0
         /\ stale = 0
         /\ h = None
         /\ ready = FALSE
         /\ xrun = FALSE
         /\ underruns = 0
         /\ unheard = 0
         /\ alive = TRUE

-----------------------------------------------------------------------------
(* libspotify's thread delivers the song that is loaded. *)

\* A call of music_delivery, for frames of the song or for a discontinuity.
Deliver == /\ song # None
           /\ DeliveryCall
           /\ source' = song
           /\ UNCHANGED <<jukebox, songs, hand, stale, card>>

Offer == Deliver /\ frames' # 0

\* Bug: TAILQ_INSERT_HEAD in place of TAILQ_INSERT_TAIL.
Bug_AcceptAtHead == /\ Bug_InsertHead
                    /\ songs' = <<source>> \o songs
                    /\ UNCHANGED <<jukebox, source, hand, stale, card>>

\* Its frames may find their song unloaded.
Accept == /\ DeliveryInsert
          /\ songs' = Append(songs, source)
          /\ UNCHANGED <<jukebox, source, hand, stale, card>>

Return == /\ DeliveryDiscontinuity \/ DeliveryRefuse \/ DeliveryUnlock
          /\ source' = None
          /\ UNCHANGED <<jukebox, songs, hand, stale, card>>

DeliverInside == /\ DeliveryLock \/ DeliverySignal
                 /\ UNCHANGED <<jukebox, source, songs, hand, stale, card>>

\* All of the song has been delivered; end_of_track leaves g_currenttrack alone.
SongEnds == /\ song # None
            /\ song' = None
            /\ UNCHANGED <<vars, current, loads, todo, gone, source, songs, hand, stale, card>>

-----------------------------------------------------------------------------
(* The audio thread and the ALSA device. *)

AudioInside == /\ AudioLock \/ AudioWait \/ AudioSpuriousWakeup \/ AudioUnlock
               /\ UNCHANGED <<jukebox, source, songs, hand, stale, card>>

TakeChunk == /\ AudioTake
             /\ hand' = Head(songs)
             /\ songs' = Tail(songs)
             /\ UNCHANGED <<jukebox, source, stale, card>>

\* Bug: the device stays open for the format of the first song.
Bug_NeverReopen ==
    /\ pc["audio"] = "play"
    /\ ~ready
    /\ h' = IF h = None THEN hand.format ELSE h
    /\ ready' = TRUE
    /\ xrun' = FALSE
    /\ UNCHANGED <<vars, jukebox, source, songs, hand, stale, underruns, unheard, alive>>

(***************************************************************************)
(* The device is opened again when the format changes, which may fail, and *)
(* then the server exits; snd_pcm_wait and snd_pcm_avail_update report an  *)
(* underrun, and snd_pcm_prepare repairs it.  That it does, and that ALSA  *)
(* reports nothing else, is assumed: the code reads no other result.       *)
(***************************************************************************)
GetReady ==
    /\ pc["audio"] = "play"
    /\ ~ready
    /\ \/ /\ h' = hand.format
          /\ ready' = TRUE
          /\ xrun' = FALSE
          /\ UNCHANGED alive
       \/ /\ h # hand.format
          /\ alive' = FALSE
          /\ h' = None
          /\ UNCHANGED <<ready, xrun>>
    /\ UNCHANGED <<vars, jukebox, source, songs, hand, stale, underruns, unheard>>

IsGone(s) == s.load <= gone

\* snd_pcm_writei, whose result nobody reads, and free(afd).
Write == /\ ready
         /\ AudioPlay
         /\ hand' = None
         /\ ready' = FALSE
         /\ unheard' = unheard + IF xrun THEN 1 ELSE 0
         /\ stale' = stale + IF IsGone(hand) THEN afd.nsamples ELSE 0
         /\ UNCHANGED <<jukebox, source, songs, h, xrun, underruns, alive>>

\* The device has played all that was written, and nothing more came in time.
Underrun == /\ h # None /\ ~xrun
            /\ underruns < MaxUnderruns
            /\ xrun' = TRUE
            /\ underruns' = underruns + 1
            /\ UNCHANGED <<vars, jukebox, source, songs, hand, stale, h, ready, unheard, alive>>

-----------------------------------------------------------------------------
(* The main thread: what the callbacks and requests make the jukebox call. *)

\* try_jukebox_start: it looks at the next track after the unload, and may not
\* be able to play it.
TryStart == IF current THEN {<<"flush", "unload">>, <<"flush", "unload", "load">>}
                       ELSE {<<"load">>}

\* change_track: it unloads, and try_jukebox_start then has no track to flush.
ChangeTrack == IF current THEN {<<"unload">>, <<"unload", "load">>} ELSE {}

\* playlist_renamed, when the playlist loses the name of the jukebox.
Renamed == {<<"unload">>}

PlayTokenLost == {IF current THEN <<"flush", "unload">> ELSE <<"flush">>}

Handle == /\ todo = <<>>
          /\ todo' \in TryStart \cup ChangeTrack \cup Renamed \cup PlayTokenLost
          /\ loads = MaxLoads => \A i \in 1..Len(todo') : todo'[i] # "load"
          /\ UNCHANGED <<vars, current, loads, song, gone, source, songs, hand, stale, card>>

Calls(f) == todo # <<>> /\ Head(todo) = f

FlushBegins == /\ Calls("flush")
               /\ FlushCall
               /\ UNCHANGED <<jukebox, source, songs, hand, stale, card>>

FlushInside == /\ FlushLock
               /\ UNCHANGED <<jukebox, source, songs, hand, stale, card>>

FlushOne == /\ FlushDrain
            /\ songs' = Tail(songs)
            /\ UNCHANGED <<jukebox, source, hand, stale, card>>

FlushReturns == /\ FlushDone
                /\ todo' = Tail(todo)
                /\ UNCHANGED <<current, loads, song, gone, source, songs, hand, stale, card>>

\* Bug: the player goes on with the old song.
Bug_NoUnload ==
    /\ Calls("unload")
    /\ todo' = Tail(todo)
    /\ current' = FALSE
    /\ gone' = loads
    /\ stale' = 0
    /\ UNCHANGED <<vars, loads, song, source, songs, hand, card>>

\* sp_session_player_unload and g_currenttrack = NULL.
Unload == /\ Calls("unload")
          /\ todo' = Tail(todo)
          /\ current' = FALSE
          /\ song' = None
          /\ gone' = loads
          /\ stale' = 0
          /\ UNCHANGED <<vars, loads, source, songs, hand, card>>

NthSongs(n) == {s \in Song : s.load = n /\ (n = 1 => s.format = FirstFormat)}

\* sp_session_player_load and _play; libspotify may refuse the track.
Load == /\ Calls("load")
        /\ todo' = Tail(todo)
        /\ current' = TRUE
        /\ loads' = loads + 1
        /\ song' \in NthSongs(loads') \cup {None}
        /\ UNCHANGED <<vars, gone, source, songs, hand, stale, card>>

-----------------------------------------------------------------------------
DeliveryThread == Offer \/ Deliver \/ DeliverInside \/ Accept \/ Return \/ SongEnds
AudioThread == AudioInside \/ TakeChunk \/ GetReady \/ Write \/ Underrun
MainThread == \/ Handle \/ FlushBegins \/ FlushInside \/ FlushOne \/ FlushReturns
              \/ Unload \/ Load

PNext == alive /\ (DeliveryThread \/ AudioThread \/ MainThread)

PSafeSpec == PInit /\ [][PNext]_pvars

(***************************************************************************)
(* The fairness of AudioFifo, for a server that lives; libspotify goes on  *)
(* offering the frames of its song ("The library will retry delivery",     *)
(* api.h), and the jukebox finishes what it began.                         *)
(***************************************************************************)
DeliveryGoesOn == Accept \/ Return \/ (DeliverySignal /\ DeliverInside)
AudioGoesOn == \/ TakeChunk \/ GetReady \/ Write
               \/ (AudioWait \/ AudioUnlock) /\ AudioInside
JukeboxGoesOn == FlushBegins \/ FlushOne \/ FlushReturns \/ Unload \/ Load

PSpec == /\ PSafeSpec
         /\ SF_pvars(alive /\ Offer)
         /\ SF_pvars(alive /\ DeliveryLock /\ DeliverInside)
         /\ WF_pvars(alive /\ DeliveryGoesOn)
         /\ SF_pvars(alive /\ AudioLock /\ AudioInside)
         /\ WF_pvars(alive /\ AudioGoesOn)
         /\ SF_pvars(alive /\ FlushInside)
         /\ WF_pvars(alive /\ JukeboxGoesOn)

-----------------------------------------------------------------------------
(* Properties. *)

\* The variables have their types, and songs names the song of each chunk.
PTypeOK ==
    /\ TypeOK
    /\ current \in BOOLEAN /\ ready \in BOOLEAN /\ xrun \in BOOLEAN /\ alive \in BOOLEAN
    /\ loads \in 0..MaxLoads /\ gone \in 0..loads
    /\ {song, source, hand} \subseteq Song \cup {None}
    /\ songs \in Seq(Song) /\ Len(songs) = Len(q)
    /\ stale \in Nat /\ underruns \in Nat /\ unheard \in Nat
    /\ h \in Format \cup {None}

\* The songs on their way to the listener, the one in hand first.
One(s) == IF s = None THEN <<>> ELSE <<s>>
Pipeline == One(hand) \o songs \o One(source) \o One(song)

\* Songs are never mixed: no frame of a song is heard after one of a later song,
\* although the thread that delivers learns nothing of the flush, the unload and
\* the load of the thread that changes the song.
SongsInOrder ==
    \A i, j \in 1..Len(Pipeline) : i < j => Pipeline[i].load <= Pipeline[j].load

\* After an unload the sound card is given of the old song no more than one second
\* and three deliveries: the chunk in the hand of the audio thread, what the fifo
\* holds, and the delivery in progress.  change_track does not flush the fifo, and
\* try_jukebox_start flushes it while the old song is still being delivered.  (What
\* the device holds in its own buffer comes on top.)
DelayBounded == stale <= SampleRate + 3 * MaxFrames

\* The audio thread writes a chunk only to a device opened for its format, and
\* every time the device runs dry costs at most the one chunk that finds it so.
CardKeepsUp ==
    /\ ready => h = hand.format
    /\ unheard <= underruns

\* A song that is loaded is heard in the end: what is left of earlier songs is
\* played or flushed, and the fifo does not go on refusing the new one.
NewSongHeard ==
    song # None ~> hand = song \/ song = None \/ ~alive \/ produced = MaxProduced
=============================================================================
