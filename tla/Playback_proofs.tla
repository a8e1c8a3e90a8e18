--------------------------- MODULE Playback_proofs ---------------------------
(***************************************************************************)
(* Theorems about Playback, for every sample rate and delivery size, every *)
(* set of formats and any number of songs and underruns.                   *)
(***************************************************************************)
EXTENDS Playback, AudioFifo_proofs

(***************************************************************************)
(* The inductive invariant, on top of that of the fifo.                    *)
(***************************************************************************)
PTyped ==
    /\ loads \in Nat /\ gone \in Nat /\ gone <= loads
    /\ song \in Song \cup {None} /\ source \in Song \cup {None} /\ hand \in Song \cup {None}
    /\ songs \in Seq(Song) /\ Len(songs) = Len(q)
    /\ stale \in Nat /\ underruns \in Nat /\ unheard \in Nat
    /\ source # None <=> pc["delivery"] # "idle"
    /\ hand # None <=> afd # None

\* The songs come in the order of their loads, wherever they are.
InOrder ==
    /\ song # None => song.load = loads /\ gone < song.load
    /\ source # None => source.load <= loads
    /\ \A i \in 1..Len(songs) : songs[i].load <= loads
    /\ \A i \in 1..Len(songs) : source # None => songs[i].load <= source.load
    /\ \A i, j \in 1..Len(songs) : i < j => songs[i].load <= songs[j].load
    /\ hand # None => /\ hand.load <= loads
                      /\ source # None => hand.load <= source.load
                      /\ \A i \in 1..Len(songs) : hand.load <= songs[i].load

\* Frames of an unloaded song that music_delivery may still insert.
Coming == pc["delivery"] \in {"called", "test"} /\ source # None /\ IsGone(source)
Inflight == IF Coming THEN frames ELSE 0

\* Frames of unloaded songs that the device has, or is about to be given.
Given == stale + IF hand # None /\ IsGone(hand) THEN afd.nsamples ELSE 0

\* The frames that wait, up to the end of chunk i.
Upto(i) == (q[i].pos + q[i].nsamples) - out
Bound == SampleRate + 3 * MaxFrames

\* What the device is given of unloaded songs, what waits up to their last chunk, and
\* what is on its way into the fifo, are together within the bound.
Within ==
    /\ Given + Inflight <= Bound
    /\ \A i \in 1..Len(songs) : IsGone(songs[i]) => Given + Upto(i) + Inflight <= Bound

\* An underrun costs a chunk only when it comes between the wait and the write.
CardInv ==
    /\ ready => pc["audio"] = "play" /\ h = hand.format
    /\ unheard <= underruns
    /\ ready /\ xrun => unheard + 1 <= underruns

PInv == PTyped /\ InOrder /\ Within /\ CardInv

-----------------------------------------------------------------------------
\* Every step of Playback is a step of the fifo or leaves it alone.
LEMMA StepOfFifo == [PNext]_pvars => [Next]_vars
BY DEF PNext, pvars, vars, DeliveryThread, AudioThread, MainThread, Offer, Deliver,
       DeliverInside, Accept, Return, SongEnds, AudioInside, TakeChunk, GetReady, Write,
       Underrun, Handle, FlushBegins, FlushInside, FlushOne, FlushReturns, Unload, Load,
       Next, Delivery, Audio, Flush

\* All that is proved of AudioFifo holds while songs are loaded and changed.
THEOREM PlaybackIsFifo == PSafeSpec => SafeSpec
<1>1. PInit => Init
  BY DEF PInit
<1>. QED  BY <1>1, StepOfFifo, PTL DEF PSafeSpec, SafeSpec

\* Whatever the jukebox and the sound card do, libspotify sees the stream it was promised.
THEOREM PlaybackImplementsStream == PSafeSpec => ImplementsStream
  BY PlaybackIsFifo, FifoRefines, PTL

LEMMA NoneIsNoSong == None \notin Song
BY PlaybackAssumption DEF Song, PlaybackAssumption

\* The records in q, in numbers.
LEMMA ChunksTyped ==
    ASSUME IInv
    PROVE  /\ q \in Seq(Chunk) /\ Len(q) \in Nat /\ out \in Nat /\ produced \in Nat
           /\ frames \in Nat /\ frames <= MaxFrames
           /\ SampleRate \in Nat /\ MaxFrames \in Nat
           /\ \A i \in 1..Len(q) : q[i].pos \in Nat /\ q[i].nsamples \in Nat
           /\ \A i \in 1..Len(q) : Upto(i) \in Int
           /\ Bound \in Nat /\ MaxFrames <= Bound
<1>1. q \in Seq(Chunk) /\ Len(q) \in Nat /\ \A i \in 1..Len(q) : q[i] \in Chunk
  BY DEF IInv, TypeOK
<1>2. \A i \in 1..Len(q) : q[i].pos \in Nat /\ q[i].nsamples \in Nat
  BY <1>1 DEF Chunk
<1>3. /\ out \in Nat /\ produced \in Nat /\ frames \in Nat /\ frames <= MaxFrames
      /\ SampleRate \in Nat /\ MaxFrames \in Nat
  BY FifoAssumption DEF IInv, TypeOK, FifoAssumption
<1>4. Bound \in Nat /\ MaxFrames <= Bound
  BY <1>3 DEF Bound
<1>5. \A i \in 1..Len(q) : Upto(i) \in Int
  BY <1>2, <1>3 DEF Upto
<1>. QED  BY <1>1, <1>2, <1>3, <1>4, <1>5

LEMMA SongsTyped ==
    ASSUME PTyped
    PROVE  /\ Len(songs) \in Nat
           /\ \A i \in 1..Len(songs) : songs[i] \in Song /\ songs[i].load \in Nat
           /\ song # None => song.load \in Nat
           /\ source # None => source.load \in Nat
           /\ hand # None => hand.load \in Nat
<1>1. \A s \in Song : s.load \in Nat
  BY PlaybackAssumption DEF Song, PlaybackAssumption
<1>. QED  BY <1>1 DEF PTyped

LEMMA InflightTyped ==
    ASSUME IInv
    PROVE  Inflight \in Nat /\ Inflight <= frames
BY ChunksTyped DEF Inflight

LEMMA HandTyped ==
    ASSUME IInv, PTyped, hand # None
    PROVE  afd.nsamples \in Nat /\ afd.nsamples <= MaxFrames
<1>1. afd \in Chunk
  BY DEF PTyped, IInv, TypeOK
<1>. QED  BY <1>1, FifoAssumption DEF Chunk, FifoAssumption

LEMMA GivenTyped ==
    ASSUME IInv, PTyped
    PROVE  Given \in Nat /\ stale <= Given
BY HandTyped DEF Given, PTyped

\* While the audio thread neither takes a chunk nor writes one.
LEMMA GivenStays ==
    ASSUME IInv, PTyped, UNCHANGED <<stale, hand, afd, gone>>
    PROVE  Given' = Given /\ Given \in Nat
BY GivenTyped DEF Given, IsGone

-----------------------------------------------------------------------------
(* One lemma for each kind of step. *)

\* Steps that touch neither list, nor what is inside it or comes into it.
LEMMA Elsewhere ==
    ASSUME IInv, PInv,
           UNCHANGED <<q, out, songs, hand, song, source, loads, gone, stale, frames>>,
           pc'["delivery"] = "idle" <=> pc["delivery"] = "idle",
           pc'["delivery"] \in {"called", "test"} => pc["delivery"] \in {"called", "test"},
           UNCHANGED afd, underruns' \in Nat, unheard' \in Nat, CardInv'
    PROVE  PInv'
<1>1. PTyped' /\ InOrder'
  BY DEF PInv, PTyped, InOrder
<1>2. Within'
  <2>1. Inflight' \in Nat /\ Inflight' <= Inflight /\ Inflight \in Nat
    BY InflightTyped, ChunksTyped DEF Inflight, Coming, IsGone
  <2>2. /\ Given \in Nat /\ Given' = Given /\ q' = q /\ out' = out
        /\ songs' = songs /\ gone' = gone
    BY GivenStays DEF PInv, PTyped
  <2>. HIDE DEF Inflight, Given
  <2>3. Given' + Inflight' <= Bound
    BY <2>1, <2>2, ChunksTyped DEF PInv, Within
  <2>4. ASSUME NEW i \in 1..Len(songs), IsGone(songs[i])
        PROVE  Given + Upto(i) + Inflight' <= Bound
    <3>1. Given + Upto(i) + Inflight <= Bound /\ Upto(i) \in Int
      BY <2>4, ChunksTyped DEF PInv, PTyped, Within
    <3>2. Bound \in Int /\ Given \in Int /\ Inflight \in Int /\ Inflight' \in Int
      BY <2>1, <2>2, ChunksTyped
    <3>. QED  BY <2>1, <3>1, <3>2
  <2>. QED  BY <2>2, <2>3, <2>4 DEF Within, IsGone, Upto, Bound
<1>. QED  BY <1>1, <1>2 DEF PInv

\* A call of music_delivery begins, for the song that is loaded.
LEMMA DeliverStep ==
    ASSUME IInv, IInv', PInv, Deliver
    PROVE  PInv'
<1>1. /\ pc["delivery"] = "idle" /\ pc'["delivery"] = "called" /\ pc'["audio"] = pc["audio"]
      /\ song # None /\ source' = song
      /\ UNCHANGED <<q, out, afd, songs, hand, song, loads, gone, stale>>
      /\ UNCHANGED card
  BY DEF Deliver, DeliveryCall, Goto, IInv, TypeOK, PcOk, Thread, jukebox
<1>2. source = None /\ ~ (song.load <= gone) /\ song.load = loads
  BY <1>1, SongsTyped DEF PInv, PTyped, InOrder
<1>3. PTyped'
  BY <1>1 DEF PInv, PTyped, card
<1>4. InOrder'
  BY <1>1, <1>2, SongsTyped DEF PInv, InOrder, PTyped
<1>5. Inflight = 0 /\ Inflight' = 0 /\ Given' = Given
  BY <1>1, <1>2, GivenStays DEF Inflight, Coming, IsGone, PInv
<1>6. Within'
  BY <1>1, <1>5 DEF PInv, Within, IsGone, Upto, Bound
<1>7. CardInv'
  BY <1>1 DEF PInv, CardInv, card
<1>. QED  BY <1>3, <1>4, <1>6, <1>7 DEF PInv

\* music_delivery inserts its frames, perhaps of a song that is gone.
LEMMA AcceptStep ==
    ASSUME IInv, IInv', PInv, Accept
    PROVE  PInv'
<1>. DEFINE n == Len(songs)
<1>1. /\ pc["delivery"] = "test" /\ pc'["delivery"] = "signal" /\ pc'["audio"] = pc["audio"]
      /\ q' = Append(q, NewChunk) /\ songs' = Append(songs, source)
      /\ produced' = produced + frames
      /\ UNCHANGED <<out, afd, source, hand, song, loads, gone, stale, frames>>
      /\ UNCHANGED card
  BY DEF Accept, DeliveryInsert, Goto, IInv, TypeOK, PcOk, Thread, jukebox
<1>2. source \in Song /\ source # None /\ source.load \in Nat
  BY <1>1, NoneIsNoSong, SongsTyped DEF PInv, PTyped
<1>3. /\ songs' \in Seq(Song) /\ Len(songs') = n + 1 /\ n \in Nat /\ Len(q) = n
      /\ songs'[n + 1] = source /\ \A i \in 1..n : songs'[i] = songs[i]
  BY <1>1, <1>2 DEF PInv, PTyped
<1>4. /\ Len(q') = n + 1 /\ q'[n + 1] = NewChunk /\ \A i \in 1..n : q'[i] = q[i]
  BY <1>1, <1>3, ChunksTyped
<1>5. \A i \in 1..n + 1 : i \in 1..n \/ i = n + 1
  BY <1>3
<1>6. PTyped'
  BY <1>1, <1>3, <1>4 DEF PInv, PTyped, card
<1>7. InOrder'
  <2>1. \A i \in 1..Len(songs') : songs'[i].load <= loads /\ songs'[i].load <= source.load
    BY <1>2, <1>3, <1>5 DEF PInv, InOrder
  <2>2. \A i, j \in 1..Len(songs') : i < j => songs'[i].load <= songs'[j].load
    BY <1>2, <1>3, <1>5, <2>1 DEF PInv, InOrder
  <2>3. hand # None => /\ hand.load <= source.load
                       /\ \A i \in 1..Len(songs') : hand.load <= songs'[i].load
    BY <1>2, <1>3, <1>5 DEF PInv, InOrder
  <2>. QED  BY <1>1, <2>1, <2>2, <2>3 DEF PInv, InOrder
<1>8. Within'
  <2>1. Inflight' = 0
    BY <1>1 DEF Inflight, Coming
  <2>2. Inflight \in Nat /\ Given \in Nat /\ Given' = Given /\ n \in Nat
    BY <1>1, InflightTyped, GivenStays, <1>3 DEF PInv
  <2>3. Given' + Inflight' <= Bound
    <3>. HIDE DEF Inflight
    <3>. QED  BY <1>1, <2>1, <2>2, ChunksTyped DEF PInv, Within
  <2>4. ASSUME NEW i \in 1..n, IsGone(songs[i])
        PROVE  Given + Upto(i) <= Bound
    <3>1. Given + Upto(i) + Inflight <= Bound /\ Upto(i) \in Int
      BY <1>3, <2>4, ChunksTyped DEF PInv, Within
    <3>. HIDE DEF Inflight
    <3>. QED  BY <2>2, <3>1, ChunksTyped
  <2>5. ASSUME IsGone(source)
        PROVE  Given + ((produced + frames) - out) <= Bound
    <3>1. Inflight = frames
      BY <1>1, <1>2, <2>5 DEF Inflight, Coming
    <3>2. CASE n = 0
      <4>1. produced = out
        <5>1. q = <<>>
          BY <1>3, <3>2, ChunksTyped
        <5>. QED  BY <5>1 DEF IInv, StreamIntact
      <4>. QED  BY <2>2, <3>1, <4>1, ChunksTyped DEF PInv, Within
    <3>3. CASE n # 0
      <4>1. n \in 1..n /\ q # <<>>
        BY <1>3, <3>3
      <4>2. Upto(n) = produced - out
        <5>1. q[n].pos + q[n].nsamples = produced
          BY <1>3, <4>1 DEF IInv, StreamIntact
        <5>. QED  BY <5>1 DEF Upto
      <4>3. IsGone(songs[n])
        <5>1. songs[n].load <= source.load /\ source.load <= gone
          BY <1>2, <2>5, <4>1 DEF PInv, InOrder, IsGone
        <5>2. songs[n].load \in Nat /\ gone \in Nat
          BY <4>1, SongsTyped DEF PInv, PTyped
        <5>. QED  BY <1>2, <5>1, <5>2 DEF IsGone
      <4>4. Given + Upto(n) + Inflight <= Bound
        BY <4>1, <4>3 DEF PInv, Within
      <4>5. Given + (produced - out) + frames <= Bound
        BY <3>1, <4>2, <4>4
      <4>. QED  BY <2>2, <4>5, ChunksTyped
    <3>. QED  BY <3>2, <3>3
  <2>6. ASSUME NEW i \in 1..n + 1, songs'[i].load <= gone
        PROVE  Given + Upto(i)' <= Bound
    <3>1. CASE i \in 1..n
      <4>1. songs'[i] = songs[i] /\ Upto(i)' = Upto(i)
        BY <1>1, <1>3, <1>4, <3>1 DEF Upto
      <4>. QED  BY <2>4, <2>6, <3>1, <4>1 DEF IsGone
    <3>2. CASE i = n + 1
      <4>1. songs'[i] = source /\ q'[i] = NewChunk
        BY <1>3, <1>4, <3>2
      <4>2. Upto(i)' = (q'[i].pos + q'[i].nsamples) - out'
        BY DEF Upto
      <4>3. q'[i].pos = produced /\ q'[i].nsamples = frames
        BY <4>1 DEF NewChunk
      <4>4. Upto(i)' = (produced + frames) - out
        BY <1>1, <4>2, <4>3
      <4>. QED  BY <2>5, <2>6, <4>1, <4>4 DEF IsGone
    <3>. QED  BY <1>5, <3>1, <3>2
  <2>7. ASSUME NEW i \in 1..n + 1, songs'[i].load <= gone
        PROVE  Given + Upto(i)' + 0 <= Bound
    <3>1. q'[i] \in Chunk
      BY <1>4 DEF IInv, TypeOK
    <3>2. q'[i].pos \in Nat /\ q'[i].nsamples \in Nat
      BY <3>1 DEF Chunk
    <3>3. Upto(i)' \in Int
      <4>1. Upto(i)' = (q'[i].pos + q'[i].nsamples) - out'
        BY DEF Upto
      <4>2. out' \in Nat
        BY <1>1, ChunksTyped
      <4>. QED  BY <3>2, <4>1, <4>2
    <3>4. Given + Upto(i)' <= Bound
      BY <2>6, <2>7
    <3>. QED  BY <2>2, <3>3, <3>4, ChunksTyped
  <2>. QED  BY <1>1, <1>3, <2>1, <2>2, <2>3, <2>7 DEF Within, IsGone, Bound
<1>9. CardInv'
  BY <1>1 DEF PInv, CardInv, card
<1>. QED  BY <1>6, <1>7, <1>8, <1>9 DEF PInv

\* music_delivery returns.
LEMMA ReturnStep ==
    ASSUME IInv, IInv', PInv, Return
    PROVE  PInv'
<1>1. /\ pc'["delivery"] = "idle" /\ pc'["audio"] = pc["audio"]
      /\ source' = None
      /\ UNCHANGED <<q, out, afd, songs, hand, song, loads, gone, stale, frames>>
      /\ UNCHANGED card
  BY DEF Return, DeliveryDiscontinuity, DeliveryRefuse, DeliveryUnlock, Goto, IInv, TypeOK,
         PcOk, Thread, jukebox
<1>2. PTyped' /\ InOrder'
  BY <1>1 DEF PInv, PTyped, InOrder, card
<1>3. Within'
  <2>1. Inflight' = 0 /\ Inflight \in Nat /\ Given \in Nat /\ Given' = Given
    BY <1>1, InflightTyped, GivenStays DEF Inflight, Coming, PInv
  <2>. HIDE DEF Inflight
  <2>2. Given' + Inflight' <= Bound
    BY <1>1, <2>1, ChunksTyped DEF PInv, Within
  <2>3. ASSUME NEW i \in 1..Len(songs), IsGone(songs[i])
        PROVE  Given + Upto(i) + Inflight' <= Bound
    <3>1. Given + Upto(i) + Inflight <= Bound /\ Upto(i) \in Int
      BY <2>3, ChunksTyped DEF PInv, PTyped, Within
    <3>. QED  BY <2>1, <3>1, ChunksTyped
  <2>. QED  BY <1>1, <2>1, <2>2, <2>3 DEF Within, IsGone, Upto, Bound
<1>4. CardInv'
  BY <1>1 DEF PInv, CardInv, card
<1>. QED  BY <1>2, <1>3, <1>4 DEF PInv

\* All of a song has been delivered.
LEMMA SongEndsStep ==
    ASSUME IInv, IInv', PInv, SongEnds
    PROVE  PInv'
<1>1. song' = None /\ UNCHANGED <<vars, loads, gone, source, songs, hand, stale, card>>
  BY DEF SongEnds
<1>. QED  BY <1>1 DEF vars, card, PInv, PTyped, InOrder, Within, CardInv, Inflight, Coming,
                      IsGone, Given, Upto, Bound

\* audio_get takes the first chunk, whose song may be gone.
LEMMA TakeChunkStep ==
    ASSUME IInv, IInv', PInv, TakeChunk
    PROVE  PInv'
<1>. DEFINE n == Len(songs)
<1>1. /\ pc["audio"] = "test" /\ pc'["delivery"] = pc["delivery"]
      /\ q # <<>> /\ q' = Tail(q) /\ afd' = Head(q) /\ out' = out + Head(q).nsamples
      /\ hand' = Head(songs) /\ songs' = Tail(songs)
      /\ UNCHANGED <<source, song, loads, gone, stale, frames, card>>
  BY DEF TakeChunk, AudioTake, Goto, IInv, TypeOK, PcOk, Thread, jukebox
<1>2. n \in Nat /\ Len(q) = n /\ n # 0 /\ 1 \in 1..n
  <2>1. Len(q) # 0
    BY <1>1, ChunksTyped
  <2>. QED  BY <2>1, ChunksTyped DEF PInv, PTyped
<1>3. /\ Head(q) = q[1] /\ Head(songs) = songs[1] /\ Head(q).nsamples \in Nat
      /\ afd' # None /\ hand' \in Song /\ hand' # None
  <2>1. Head(q) = q[1] /\ Head(songs) = songs[1] /\ songs[1] \in Song
    BY <1>2, ChunksTyped DEF PInv, PTyped
  <2>2. Head(q).nsamples \in Nat
    BY <1>2, <2>1, ChunksTyped
  <2>3. Head(q) # None
    BY <1>1, HeadIsChunk DEF IInv
  <2>. QED  BY <1>1, <2>1, <2>2, <2>3, NoneIsNoSong
<1>3a. /\ songs' \in Seq(Song) /\ Len(songs') = n - 1 /\ Len(q') = n - 1
       /\ \A i \in 1..n - 1 : i + 1 \in 1..n /\ songs'[i] = songs[i + 1] /\ q'[i] = q[i + 1]
  BY <1>1, <1>2, ChunksTyped DEF PInv, PTyped
<1>4. \A i \in 1..n - 1 : Upto(i)' = Upto(i + 1) - Head(q).nsamples
  <2>. SUFFICES ASSUME NEW i \in 1..n - 1
                PROVE  Upto(i)' = Upto(i + 1) - Head(q).nsamples
    OBVIOUS
  <2>1. q[i + 1].pos \in Nat /\ q[i + 1].nsamples \in Nat
    BY <1>2, <1>3, <1>3a, ChunksTyped
  <2>2. Upto(i)' = (q[i + 1].pos + q[i + 1].nsamples) - (out + Head(q).nsamples)
    BY <1>1, <1>3, <1>3a DEF Upto
  <2>3. Upto(i + 1) = (q[i + 1].pos + q[i + 1].nsamples) - out
    BY DEF Upto
  <2>4. out \in Nat
    BY ChunksTyped
  <2>. QED  BY <1>3, <2>1, <2>2, <2>3, <2>4
<1>5. Upto(1) = Head(q).nsamples
  BY <1>1, <1>2, <1>3, <1>3a, ChunksTyped DEF IInv, StreamIntact, Upto
<1>6. PTyped'
  BY <1>1, <1>3, <1>3a DEF PInv, PTyped, card
<1>7. InOrder'
  <2>1. \A i \in 1..n - 1 : /\ songs'[i].load <= loads
                            /\ source # None => songs'[i].load <= source.load
                            /\ songs[1].load <= songs'[i].load
    <3>. SUFFICES ASSUME NEW i \in 1..n - 1
                  PROVE  /\ songs'[i].load <= loads
                         /\ source # None => songs'[i].load <= source.load
                         /\ songs[1].load <= songs'[i].load
      OBVIOUS
    <3>1. i + 1 \in 1..n /\ 1 < i + 1 /\ songs'[i] = songs[i + 1]
      BY <1>2, <1>3a
    <3>. QED  BY <1>2, <3>1 DEF PInv, InOrder
  <2>2. \A i, j \in 1..n - 1 : i < j => songs'[i].load <= songs'[j].load
    BY <1>2, <1>3, <1>3a DEF PInv, InOrder
  <2>3. hand' = songs[1] /\ songs[1].load <= loads
        /\ (source # None => songs[1].load <= source.load)
    BY <1>1, <1>2, <1>3, <1>3a DEF PInv, InOrder
  <2>. QED  BY <1>1, <1>3, <1>3a, <2>1, <2>2, <2>3 DEF PInv, InOrder
<1>0. hand = None
  BY <1>1 DEF PInv, PTyped, IInv, InHand
<1>8. Within'
  <2>1. Inflight' = Inflight /\ Inflight \in Nat /\ Given \in Nat
    BY <1>1, InflightTyped, GivenTyped DEF Inflight, Coming, IsGone, PInv, PTyped
  <2>. HIDE DEF Inflight
  <2>2. CASE IsGone(songs[1])
    <3>1. Given' = Given + Head(q).nsamples
      BY <1>0, <1>1, <1>3, <2>2 DEF Given, IsGone, PInv, PTyped
    <3>2. Given' + Inflight <= Bound
      BY <1>2, <1>5, <2>1, <2>2, <3>1 DEF PInv, Within
    <3>3. ASSUME NEW i \in 1..n - 1, songs'[i].load <= gone
          PROVE  Given' + Upto(i)' + Inflight <= Bound
      <4>1. i + 1 \in 1..n /\ IsGone(songs[i + 1])
        BY <1>3, <1>3a, <3>3 DEF IsGone
      <4>2. Given + Upto(i + 1) + Inflight <= Bound
        BY <4>1 DEF PInv, Within
      <4>3. Upto(i + 1) \in Int /\ Upto(i)' = Upto(i + 1) - Head(q).nsamples
        BY <1>2, <1>4, <4>1, ChunksTyped
      <4>4. Head(q).nsamples \in Nat /\ Bound \in Nat
        BY <1>3, ChunksTyped
      <4>. HIDE DEF Upto
      <4>. QED  BY <2>1, <3>1, <4>2, <4>3, <4>4
    <3>. QED  BY <1>1, <1>3, <1>3a, <2>1, <3>2, <3>3 DEF Within, IsGone, Bound
  <2>3. CASE ~ IsGone(songs[1])
    <3>1. Given' = Given
      BY <1>0, <1>1, <1>3, <2>3 DEF Given, IsGone, PInv, PTyped
    <3>2. ASSUME NEW i \in 1..n - 1 PROVE ~ (songs'[i].load <= gone)
      <4>1. i + 1 \in 1..n /\ songs[1].load <= songs[i + 1].load /\ songs'[i] = songs[i + 1]
        BY <1>2, <1>3, <1>3a DEF PInv, InOrder
      <4>2. songs[1].load \in Nat /\ songs[i + 1].load \in Nat /\ gone \in Nat
        BY <1>2, <4>1, SongsTyped DEF PInv, PTyped
      <4>. QED  BY <2>3, <4>1, <4>2 DEF IsGone
    <3>. QED  BY <1>1, <1>3, <1>3a, <2>1, <3>1, <3>2 DEF PInv, Within, IsGone, Bound
  <2>. QED  BY <2>2, <2>3
<1>9. CardInv'
  BY <1>1 DEF PInv, CardInv, card
<1>. QED  BY <1>6, <1>7, <1>8, <1>9 DEF PInv

\* audio_fifo_flush unlinks the first chunk.
LEMMA FlushOneStep ==
    ASSUME IInv, IInv', PInv, FlushOne
    PROVE  PInv'
<1>. DEFINE n == Len(songs)
<1>1. /\ pc' = pc
      /\ q # <<>> /\ q' = Tail(q) /\ out' = out + Head(q).nsamples
      /\ songs' = Tail(songs)
      /\ UNCHANGED <<afd, source, hand, stale, song, loads, gone, frames, card>>
  BY DEF FlushOne, FlushDrain, jukebox
<1>2. n \in Nat /\ Len(q) = n /\ n # 0
  <2>1. Len(q) # 0
    BY <1>1, ChunksTyped
  <2>. QED  BY <2>1, ChunksTyped DEF PInv, PTyped
<1>3. /\ Head(q).nsamples \in Nat
      /\ songs' \in Seq(Song) /\ Len(songs') = n - 1 /\ Len(q') = n - 1
      /\ \A i \in 1..n - 1 : i + 1 \in 1..n /\ songs'[i] = songs[i + 1] /\ q'[i] = q[i + 1]
  BY <1>1, <1>2, ChunksTyped, SongsTyped DEF PInv, PTyped
<1>4. PTyped'
  BY <1>1, <1>3 DEF PInv, PTyped, card
<1>5. InOrder'
  <2>1. \A i \in 1..n - 1 : /\ songs'[i].load <= loads
                            /\ source # None => songs'[i].load <= source.load
                            /\ hand # None => hand.load <= songs'[i].load
    BY <1>2, <1>3 DEF PInv, InOrder
  <2>2. \A i, j \in 1..n - 1 : i < j => songs'[i].load <= songs'[j].load
    BY <1>2, <1>3 DEF PInv, InOrder
  <2>. QED  BY <1>1, <1>3, <2>1, <2>2 DEF PInv, InOrder
<1>6. Within'
  <2>1. /\ Inflight' = Inflight /\ Inflight \in Nat
        /\ Given' = Given /\ Given \in Nat
    BY <1>1, InflightTyped, GivenStays DEF Inflight, Coming, IsGone, PInv, PTyped
  <2>. HIDE DEF Inflight
  <2>2. ASSUME NEW i \in 1..n - 1, songs'[i].load <= gone
        PROVE  Given + Upto(i)' + Inflight <= Bound
    <3>1. i + 1 \in 1..n /\ IsGone(songs[i + 1])
      BY <1>3, <2>2 DEF IsGone
    <3>2. Given + Upto(i + 1) + Inflight <= Bound
      BY <3>1 DEF PInv, Within
    <3>3. q[i + 1].pos \in Nat /\ q[i + 1].nsamples \in Nat /\ Upto(i + 1) \in Int
      BY <1>2, <3>1, ChunksTyped
    <3>4. Upto(i)' = (q[i + 1].pos + q[i + 1].nsamples) - (out + Head(q).nsamples)
      BY <1>1, <1>3 DEF Upto
    <3>5. Upto(i)' \in Int /\ Upto(i)' <= Upto(i + 1)
      <4>1. Upto(i + 1) = (q[i + 1].pos + q[i + 1].nsamples) - out
        BY DEF Upto
      <4>2. out \in Nat
        BY ChunksTyped
      <4>3. Head(q).nsamples \in Nat
        BY <1>3
      <4>4. PICK a \in Nat, m \in Nat : a = q[i + 1].pos /\ m = q[i + 1].nsamples
        BY <3>3
      <4>5. Upto(i)' = (a + m) - (out + Head(q).nsamples) /\ Upto(i + 1) = (a + m) - out
        BY <3>4, <4>1, <4>4
      <4>. QED  BY <4>2, <4>3, <4>5
    <3>. QED  BY <2>1, <3>2, <3>3, <3>5, ChunksTyped
  <2>. QED  BY <1>1, <1>3, <2>1, <2>2 DEF PInv, Within, IsGone, Bound
<1>7. CardInv'
  BY <1>1 DEF PInv, CardInv, card
<1>. QED  BY <1>4, <1>5, <1>6, <1>7 DEF PInv

\* snd_pcm_writei, and the chunk is freed.
LEMMA WriteStep ==
    ASSUME IInv, IInv', PInv, Write
    PROVE  PInv'
<1>1. /\ pc'["delivery"] = pc["delivery"] /\ ready /\ afd' = None /\ hand' = None /\ ~ready'
      /\ unheard' = unheard + IF xrun THEN 1 ELSE 0
      /\ stale' = stale + IF IsGone(hand) THEN afd.nsamples ELSE 0
      /\ pc["audio"] = "play"
      /\ UNCHANGED <<q, out, songs, song, source, loads, gone, frames, xrun, underruns>>
  BY DEF Write, AudioPlay, Goto, IInv, TypeOK, PcOk, Thread, jukebox
<1>2. hand # None /\ afd.nsamples \in Nat
  BY <1>1, HandTyped DEF PInv, PTyped, IInv, InHand
<1>2a. PTyped' /\ InOrder'
  <2>1. stale' \in Nat
    BY <1>1, <1>2 DEF PInv, PTyped
  <2>. QED  BY <1>1, <2>1 DEF PInv, PTyped, InOrder
<1>2b. Given' = Given
  BY <1>1, <1>2, <1>2a DEF Given, PTyped
<1>3. Within'
  BY <1>1, <1>2b DEF PInv, Within, Inflight, Coming, IsGone, Upto, Bound
<1>4. CardInv'
  <2>1. unheard <= underruns /\ (xrun => unheard + 1 <= underruns)
    BY <1>1 DEF PInv, CardInv
  <2>2. unheard' <= underruns'
    <3>1. CASE xrun
      BY <1>1, <2>1, <3>1
    <3>2. CASE ~xrun
      <4>1. unheard' = unheard + 0
        BY <1>1, <3>2
      <4>. QED  BY <1>1, <2>1, <4>1 DEF PInv, PTyped
    <3>. QED  BY <3>1, <3>2
  <2>. QED  BY <1>1, <2>2 DEF CardInv
<1>. QED  BY <1>2a, <1>3, <1>4 DEF PInv

\* The player is unloaded: everything that waits is gone at once, no more than
\* the chunk in hand, what the fifo holds and one delivery.
LEMMA UnloadStep ==
    ASSUME IInv, IInv', PInv, Unload
    PROVE  PInv'
<1>1. /\ song' = None /\ gone' = loads /\ stale' = 0
      /\ UNCHANGED <<vars, loads, source, songs, hand, card>>
  BY DEF Unload
<1>2. PTyped' /\ InOrder'
  BY <1>1 DEF vars, card, PInv, PTyped, InOrder
<1>3. Within'
  <2>1. Inflight' \in Nat /\ Inflight' <= MaxFrames
    BY <1>1, ChunksTyped DEF vars, Inflight, Coming
  <2>2. ASSUME NEW i \in 1..Len(songs)
        PROVE  Upto(i) \in Int /\ Upto(i) <= SampleRate + MaxFrames
    <3>1. i \in 1..Len(q) /\ q[i].pos \in Nat /\ q[i].nsamples \in Nat
      BY ChunksTyped DEF PInv, PTyped
    <3>2. q[i].pos + q[i].nsamples <= produced
      BY <3>1 DEF IInv, Ordered
    <3>3. produced - out <= SampleRate + MaxFrames
      BY DEF IInv, BoundedBacklog
    <3>4. /\ produced \in Nat /\ out \in Nat /\ SampleRate \in Nat /\ MaxFrames \in Nat
          /\ Upto(i) \in Int
      BY <3>1, ChunksTyped
    <3>5. Upto(i) <= produced - out
      BY <3>1, <3>2, <3>4 DEF Upto
    <3>. HIDE DEF Upto
    <3>. QED  BY <3>3, <3>4, <3>5
  <2>2a. Given' \in Nat /\ Given' <= MaxFrames
    BY <1>1, HandTyped, ChunksTyped DEF vars, Given, PInv
  <2>. HIDE DEF Inflight, Given
  <2>3. Given' + Inflight' <= Bound
    BY <2>1, <2>2a, ChunksTyped DEF Bound
  <2>4. ASSUME NEW i \in 1..Len(songs) PROVE Given' + Upto(i) + Inflight' <= Bound
    <3>1. Upto(i) \in Int /\ Upto(i) <= SampleRate + MaxFrames
      BY <2>2
    <3>2. SampleRate \in Nat /\ MaxFrames \in Nat
      BY FifoAssumption DEF FifoAssumption
    <3>. QED  BY <2>1, <2>2a, <3>1, <3>2, SMT DEF Bound
  <2>. QED  BY <1>1, <2>3, <2>4 DEF vars, Within, Upto, Bound
<1>4. CardInv'
  BY <1>1 DEF vars, card, PInv, CardInv
<1>. QED  BY <1>2, <1>3, <1>4 DEF PInv

\* A new song is loaded, which comes after all the others.
LEMMA LoadStep ==
    ASSUME IInv, IInv', PInv, Load
    PROVE  PInv'
<1>1. /\ loads' = loads + 1
      /\ song' \in {s \in Song : s.load = loads'} \cup {None}
      /\ UNCHANGED <<vars, gone, source, songs, hand, stale, card>>
  BY DEF Load, NthSongs
<1>2. PTyped'
  BY <1>1 DEF vars, card, PInv, PTyped
<1>3. InOrder'
  <2>1. song' # None => song'.load = loads' /\ gone < song'.load
    BY <1>1 DEF PInv, PTyped
  <2>2. /\ source # None => source.load <= loads'
        /\ hand # None => hand.load <= loads'
        /\ \A i \in 1..Len(songs) : songs[i].load <= loads'
    BY <1>1, SongsTyped DEF PInv, PTyped, InOrder
  <2>. QED  BY <1>1, <2>1, <2>2 DEF PInv, InOrder
<1>4. Within' /\ CardInv'
  BY <1>1 DEF vars, card, PInv, Within, CardInv, Inflight, Coming, IsGone, Given,
                 Upto, Bound
<1>. QED  BY <1>2, <1>3, <1>4 DEF PInv

-----------------------------------------------------------------------------
LEMMA InitPInv == PInit => PInv
<1>. SUFFICES ASSUME PInit PROVE PInv
  OBVIOUS
<1>1. songs \in Seq(Song) /\ Len(songs) = 0 /\ Len(q) = 0
  BY DEF PInit, Init
<1>2. PTyped /\ CardInv
  <2>1. PTyped
    BY <1>1 DEF PInit, Init, PTyped
  <2>2. ~ready /\ unheard = 0 /\ underruns = 0
    BY DEF PInit
  <2>. QED  BY <2>1, <2>2 DEF CardInv
<1>2a. InOrder
  BY <1>1 DEF PInit, InOrder
<1>3. Inflight = 0 /\ Given = 0
  BY DEF PInit, Init, Inflight, Coming, Given
<1>. QED  BY <1>1, <1>2, <1>2a, <1>3, FifoAssumption
          DEF PInit, PInv, Within, Bound, FifoAssumption

LEMMA NextPInv ==
    ASSUME IInv, IInv', PInv, [PNext]_pvars
    PROVE  PInv'
<1>1. CASE Deliver
  BY <1>1, DeliverStep
<1>2. CASE DeliverInside
  <2>1. /\ pc["delivery"] \in {"called", "signal"} /\ pc'["delivery"] \in {"test", "unlock"}
        /\ pc["delivery"] = "signal" => pc'["delivery"] = "unlock"
        /\ pc["audio"] = "play" => pc'["audio"] = "play"
        /\ UNCHANGED <<q, out, frames, afd>>
        /\ UNCHANGED <<jukebox, source, songs, hand, stale, card>>
    BY <1>2 DEF DeliverInside, DeliveryLock, DeliverySignal, Goto, IInv, TypeOK, PcOk, Thread
  <2>. QED  BY <2>1, Elsewhere DEF jukebox, card, PInv, PTyped, CardInv
<1>3. CASE Accept
  BY <1>3, AcceptStep
<1>4. CASE Return
  BY <1>4, ReturnStep
<1>5. CASE SongEnds
  BY <1>5, SongEndsStep
<1>6. CASE AudioInside
  <2>1. /\ pc'["delivery"] = pc["delivery"] /\ pc["audio"] # "play"
        /\ UNCHANGED <<q, out, frames, afd>>
        /\ UNCHANGED <<jukebox, source, songs, hand, stale, card>>
    BY <1>6 DEF AudioInside, AudioLock, AudioWait, AudioSpuriousWakeup, AudioUnlock, Goto,
                IInv, TypeOK, PcOk, Thread
  <2>. QED  BY <2>1, Elsewhere DEF jukebox, card, PInv, PTyped, CardInv
<1>7. CASE TakeChunk
  BY <1>7, TakeChunkStep
<1>8. CASE GetReady
  <2>1. /\ pc' = pc /\ hand' = hand /\ unheard' = unheard /\ underruns' = underruns
        /\ pc["audio"] = "play" /\ ~ready
        /\ \/ h' = hand.format /\ ready' = TRUE /\ xrun' = FALSE
           \/ ready' = ready /\ xrun' = xrun
    BY <1>8 DEF GetReady, vars
  <2>2. CardInv'
    <3>1. unheard <= underruns
      BY DEF PInv, CardInv
    <3>2. CASE h' = hand.format /\ ready' = TRUE /\ xrun' = FALSE
      <4>1. ready' => pc'["audio"] = "play" /\ h' = hand'.format
        BY <2>1, <3>2
      <4>2. ~xrun' /\ unheard' <= underruns'
        BY <2>1, <3>1, <3>2
      <4>. QED  BY <4>1, <4>2 DEF CardInv
    <3>3. CASE ready' = ready /\ xrun' = xrun
      <4>1. ~ready' /\ unheard' <= underruns'
        BY <2>1, <3>1, <3>3
      <4>. QED  BY <4>1 DEF CardInv
    <3>. QED  BY <2>1, <3>2, <3>3
  <2>. QED  BY <1>8, <2>2, Elsewhere DEF GetReady, vars, jukebox, PInv, PTyped
<1>9. CASE Write
  BY <1>9, WriteStep
<1>10. CASE Underrun
  <2>1. CardInv' /\ underruns' \in Nat
    BY <1>10 DEF Underrun, vars, PInv, PTyped, CardInv
  <2>. QED  BY <1>10, <2>1, Elsewhere DEF Underrun, vars, jukebox, PInv, PTyped
<1>11. CASE Handle
  BY <1>11, Elsewhere DEF Handle, vars, card, PInv, PTyped, CardInv
<1>12. CASE FlushBegins \/ FlushInside \/ FlushReturns
  <2>1. /\ pc'["delivery"] = pc["delivery"] /\ pc'["audio"] = pc["audio"]
        /\ UNCHANGED <<q, out, frames, afd>>
        /\ UNCHANGED <<loads, song, gone, source, songs, hand, stale, card>>
    BY <1>12 DEF FlushBegins, FlushCall, FlushInside, FlushLock, FlushReturns, FlushDone,
                 Goto, IInv, TypeOK, PcOk, Thread, jukebox
  <2>. QED  BY <2>1, Elsewhere DEF card, PInv, PTyped, CardInv
<1>13. CASE FlushOne
  BY <1>13, FlushOneStep
<1>14. CASE Unload
  BY <1>14, UnloadStep
<1>15. CASE Load
  BY <1>15, LoadStep
<1>16. CASE UNCHANGED pvars
  BY <1>16, Elsewhere DEF pvars, vars, jukebox, card, PInv, PTyped, CardInv
<1>. QED  BY <1>1, <1>2, <1>3, <1>4, <1>5, <1>6, <1>7, <1>8, <1>9, <1>10, <1>11, <1>12,
              <1>13, <1>14, <1>15, <1>16
           DEF PNext, DeliveryThread, AudioThread, MainThread, Offer

LEMMA SafePInv == PSafeSpec => [](IInv /\ PInv)
<1>1. PSafeSpec => []IInv
  BY PlaybackIsFifo, SafeIInv, PTL
<1>2. IInv /\ IInv' /\ PInv /\ [PNext]_pvars => PInv'
  BY NextPInv
<1>. QED  BY <1>1, <1>2, InitPInv, PTL DEF PSafeSpec

-----------------------------------------------------------------------------
(* From the order of the parts to the order of the pipeline. *)

Sorted(s) == \A i, j \in 1..Len(s) : i < j => s[i].load <= s[j].load
Before(s, t) == \A i \in 1..Len(s), j \in 1..Len(t) : s[i].load <= t[j].load

LEMMA ConcatSorted ==
    ASSUME NEW s \in Seq(Song), NEW t \in Seq(Song), Sorted(s), Sorted(t), Before(s, t)
    PROVE  s \o t \in Seq(Song) /\ Sorted(s \o t)
<1>1. /\ s \o t \in Seq(Song) /\ Len(s \o t) = Len(s) + Len(t)
      /\ Len(s) \in Nat /\ Len(t) \in Nat
      /\ \A i \in 1..Len(s) : (s \o t)[i] = s[i]
      /\ \A i \in 1..Len(s) + Len(t) : i > Len(s) => /\ (s \o t)[i] = t[i - Len(s)]
                                                     /\ i - Len(s) \in 1..Len(t)
  OBVIOUS
<1>2. ASSUME NEW i \in 1..Len(s) + Len(t), NEW j \in 1..Len(s) + Len(t), i < j
      PROVE  (s \o t)[i].load <= (s \o t)[j].load
  <2>1. CASE j <= Len(s)
    <3>1. i \in 1..Len(s) /\ j \in 1..Len(s)
      BY <1>1, <1>2, <2>1
    <3>. QED  BY <1>1, <1>2, <3>1 DEF Sorted
  <2>2. CASE i <= Len(s) /\ j > Len(s)
    <3>1. i \in 1..Len(s) /\ j - Len(s) \in 1..Len(t)
      BY <1>1, <2>2
    <3>. QED  BY <1>1, <2>2, <3>1 DEF Before
  <2>3. CASE i > Len(s)
    <3>1. j > Len(s) /\ i - Len(s) < j - Len(s)
      BY <1>1, <1>2, <2>3
    <3>2. i - Len(s) \in 1..Len(t) /\ j - Len(s) \in 1..Len(t)
      BY <1>1, <2>3, <3>1
    <3>. QED  BY <1>1, <2>3, <3>1, <3>2 DEF Sorted
  <2>. QED  BY <1>1, <1>2, <2>1, <2>2, <2>3
<1>. QED  BY <1>1, <1>2 DEF Sorted

LEMMA ConcatBefore ==
    ASSUME NEW s \in Seq(Song), NEW t \in Seq(Song), NEW u \in Seq(Song),
           Before(s, u), Before(t, u)
    PROVE  Before(s \o t, u)
<1>1. /\ Len(s \o t) = Len(s) + Len(t) /\ Len(s) \in Nat /\ Len(t) \in Nat
      /\ \A i \in 1..Len(s) + Len(t) : \/ i \in 1..Len(s) /\ (s \o t)[i] = s[i]
                                       \/ /\ i - Len(s) \in 1..Len(t)
                                          /\ (s \o t)[i] = t[i - Len(s)]
  OBVIOUS
<1>. QED  BY <1>1 DEF Before

LEMMA PipelineSorted ==
    ASSUME PInv
    PROVE  SongsInOrder
<1>. DEFINE a == One(hand)
            b == songs
            c == One(source)
            d == One(song)
<1>1. a \in Seq(Song) /\ b \in Seq(Song) /\ c \in Seq(Song) /\ d \in Seq(Song)
  BY DEF One, PInv, PTyped
<1>2. Sorted(a) /\ Sorted(b) /\ Sorted(c) /\ Sorted(d)
  BY DEF One, Sorted, PInv, InOrder
<1>3. Before(a, b) /\ Before(a, c) /\ Before(a, d)
  BY SongsTyped DEF One, Before, PInv, PTyped, InOrder
<1>4. Before(b, c) /\ Before(b, d) /\ Before(c, d)
  BY SongsTyped DEF One, Before, PInv, PTyped, InOrder
<1>. HIDE DEF a, b, c, d
<1>5. a \o b \in Seq(Song) /\ Sorted(a \o b) /\ Before(a \o b, c) /\ Before(a \o b, d)
  BY <1>1, <1>2, <1>3, <1>4, ConcatSorted, ConcatBefore
<1>. DEFINE ab == a \o b
<1>. HIDE DEF ab
<1>6. ab \o c \in Seq(Song) /\ Sorted(ab \o c) /\ Before(ab \o c, d)
  BY <1>1, <1>2, <1>4, <1>5, ConcatSorted, ConcatBefore DEF ab
<1>7. Sorted(ab \o c \o d)
  BY <1>1, <1>2, <1>6, ConcatSorted
<1>. QED  BY <1>7 DEF a, b, c, d, ab, Sorted, SongsInOrder, Pipeline

(* The theorems. *)

\* However the deliveries, the flushes and the changes of song interleave, no
\* frame of a song is heard after one of a later song.
THEOREM NeverMixed == PSafeSpec => []SongsInOrder
<1>1. IInv /\ PInv => SongsInOrder
  BY PipelineSorted
<1>. QED  BY <1>1, SafePInv, PTL

\* After its unload the device is given no more than a second and three deliveries
\* of a song.
THEOREM OldSongEnds == PSafeSpec => []DelayBounded
<1>1. IInv /\ PInv => DelayBounded
  BY ChunksTyped, InflightTyped, GivenTyped DEF PInv, PTyped, Within, Bound, DelayBounded
<1>. QED  BY <1>1, SafePInv, PTL

\* The device is open for the format of the chunk it is given, and an underrun
\* costs one chunk at most.
THEOREM CardInTime == PSafeSpec => []CardKeepsUp
<1>1. IInv /\ PInv => CardKeepsUp
  BY DEF PInv, CardInv, CardKeepsUp
<1>. QED  BY <1>1, SafePInv, PTL

-----------------------------------------------------------------------------
(* The types of what the invariant leaves out. *)

\* What the jukebox has still to call ends with its only load, which is within the
\* bound.
Todo ==
    /\ todo \in Seq({"flush", "unload", "load"})
    /\ loads \in 0..MaxLoads
    /\ \A i \in 1..Len(todo) : todo[i] = "load" => i = Len(todo) /\ loads < MaxLoads

CardTyped ==
    /\ current \in BOOLEAN /\ ready \in BOOLEAN /\ xrun \in BOOLEAN /\ alive \in BOOLEAN
    /\ h \in Format \cup {None}

LEMMA NothingTodo == ASSUME todo = <<>>, loads \in 0..MaxLoads PROVE Todo
<1>1. todo \in Seq({"flush", "unload", "load"}) /\ Len(todo) = 0
  OBVIOUS
<1>2. 1..Len(todo) = {}
  BY <1>1
<1>. QED  BY <1>1, <1>2 DEF Todo

LEMMA Todos ==
    ASSUME NEW t \in {<<"flush", "unload">>, <<"flush", "unload", "load">>, <<"load">>,
                      <<"unload">>, <<"unload", "load">>, <<"flush">>}
    PROVE  /\ t \in Seq({"flush", "unload", "load"})
           /\ \A i \in 1..Len(t) : t[i] = "load" => i = Len(t)
<1>1. CASE t = <<"flush", "unload">>
  BY <1>1
<1>2. CASE t = <<"flush", "unload", "load">>
  BY <1>2
<1>3. CASE t = <<"load">>
  BY <1>3
<1>4. CASE t = <<"unload">>
  BY <1>4
<1>5. CASE t = <<"unload", "load">>
  BY <1>5
<1>6. CASE t = <<"flush">>
  BY <1>6
<1>. QED  BY <1>1, <1>2, <1>3, <1>4, <1>5, <1>6

LEMMA HandleTodo == ASSUME Todo, Handle PROVE Todo'
<1>1. /\ TryStart \cup ChangeTrack \cup Renamed \cup PlayTokenLost
           \subseteq {<<"flush", "unload">>, <<"flush", "unload", "load">>, <<"load">>,
                      <<"unload">>, <<"unload", "load">>, <<"flush">>}
      /\ todo' \in TryStart \cup ChangeTrack \cup Renamed \cup PlayTokenLost
      /\ loads' = loads
  BY DEF Handle, TryStart, ChangeTrack, Renamed, PlayTokenLost
<1>2. /\ todo' \in Seq({"flush", "unload", "load"})
      /\ \A i \in 1..Len(todo') : todo'[i] = "load" => i = Len(todo')
  BY <1>1, Todos
<1>3. (\E i \in 1..Len(todo') : todo'[i] = "load") => loads # MaxLoads
  BY DEF Handle
<1>. QED  BY <1>1, <1>2, <1>3, PlaybackAssumption DEF Todo, PlaybackAssumption

\* The jukebox has made its first call.
LEMMA CallTodo ==
    ASSUME Todo, todo # <<>>, todo' = Tail(todo), loads' = loads PROVE Todo'
<1>1. /\ todo' \in Seq({"flush", "unload", "load"})
      /\ Len(todo) \in Nat /\ Len(todo') = Len(todo) - 1 /\ Len(todo') \in Nat
      /\ \A i \in 1..Len(todo') : todo'[i] = todo[i + 1] /\ i + 1 \in 1..Len(todo)
  BY DEF Todo
<1>2. ASSUME NEW i \in 1..Len(todo'), todo'[i] = "load"
      PROVE  i = Len(todo') /\ loads < MaxLoads
  <2>1. todo[i + 1] = "load" /\ i + 1 \in 1..Len(todo)
    BY <1>1, <1>2
  <2>2. i + 1 = Len(todo) /\ loads < MaxLoads
    BY <2>1 DEF Todo
  <2>3. i \in Int /\ Len(todo) \in Int /\ Len(todo') = Len(todo) - 1
    BY <1>1
  <2>4. i = Len(todo')
    BY <2>2, <2>3
  <2>. QED  BY <2>2, <2>4
<1>3. loads' \in 0..MaxLoads
  BY DEF Todo
<1>. QED  BY <1>1, <1>2, <1>3 DEF Todo

\* The load is the last call.
LEMMA LoadTodo == ASSUME Todo, Load PROVE Todo'
<1>1. todo # <<>> /\ todo[1] = "load" /\ todo' = Tail(todo) /\ loads' = loads + 1
  BY DEF Load, Calls, Todo
<1>2. todo \in Seq({"flush", "unload", "load"}) /\ loads \in 0..MaxLoads
  BY DEF Todo
<1>3. Len(todo) \in Nat /\ 1 \in 1..Len(todo)
  BY <1>1, <1>2
<1>4. Len(todo) = 1 /\ loads < MaxLoads
  BY <1>1, <1>3 DEF Todo
<1>5. Len(todo') = 0 /\ todo' \in Seq({"flush", "unload", "load"})
  BY <1>1, <1>2, <1>4
<1>6. todo' = <<>> /\ loads' \in 0..MaxLoads
  BY <1>1, <1>2, <1>4, <1>5, PlaybackAssumption DEF PlaybackAssumption
<1>7. 1..Len(todo') = {}
  BY <1>5
<1>. QED  BY <1>5, <1>6, <1>7 DEF Todo

\* As long as the main thread is in the flush, the flush is the call it makes.
InFlush == pc["main"] # "idle" => todo # <<>> /\ todo[1] = "flush"

LEMMA OthersLeaveMain ==
    ASSUME IInv, DeliveryThread \/ AudioThread
    PROVE  pc'["main"] = pc["main"] /\ todo' = todo
<1>1. "main" \in DOMAIN pc
  BY DEF IInv, TypeOK, PcOk, Thread
<1>. QED
  BY <1>1 DEF DeliveryThread, Offer, Deliver, DeliverInside, Accept, Return, SongEnds,
              AudioThread, AudioInside, TakeChunk, GetReady, Write, Underrun, jukebox, vars,
              DeliveryCall, DeliveryLock, DeliverySignal, DeliveryInsert, DeliveryRefuse,
              DeliveryDiscontinuity, DeliveryUnlock, AudioLock, AudioWait,
              AudioSpuriousWakeup, AudioUnlock, AudioTake, AudioPlay, Goto

LEMMA InFlushStep == ASSUME IInv, InFlush, [PNext]_pvars PROVE InFlush'
<1>1. "main" \in DOMAIN pc
  BY DEF IInv, TypeOK, PcOk, Thread
<1>2. CASE DeliveryThread \/ AudioThread
  BY <1>2, OthersLeaveMain DEF InFlush
<1>3. CASE Handle \/ Unload \/ Load
  <2>1. pc["main"] = "idle" /\ pc' = pc
    BY <1>3 DEF Handle, Unload, Load, Calls, InFlush, vars
  <2>. QED  BY <2>1 DEF InFlush
<1>4. CASE FlushBegins \/ FlushInside \/ FlushOne
  BY <1>1, <1>4 DEF FlushBegins, FlushInside, FlushOne, FlushCall, FlushLock, FlushDrain,
                    Calls, Goto, jukebox, InFlush
<1>5. CASE FlushReturns
  BY <1>1, <1>5 DEF FlushReturns, FlushDone, Goto, InFlush
<1>6. CASE UNCHANGED pvars
  BY <1>6 DEF pvars, vars, jukebox, InFlush
<1>. QED  BY <1>2, <1>3, <1>4, <1>5, <1>6 DEF PNext, MainThread

LEMMA TodoStep == ASSUME IInv, Todo, InFlush, [PNext]_pvars PROVE Todo'
<1>1. CASE FlushReturns
  <2>1. todo # <<>>
    BY <1>1 DEF FlushReturns, FlushDone, Goto, InFlush
  <2>. QED  BY <1>1, <2>1, CallTodo DEF FlushReturns
<1>2. CASE Unload
  BY <1>2, CallTodo DEF Unload, Calls
<1>3. CASE DeliveryThread \/ AudioThread \/ FlushBegins \/ FlushInside \/ FlushOne
           \/ UNCHANGED pvars
  <2>1. UNCHANGED <<todo, loads>>
    BY <1>3 DEF DeliveryThread, Offer, Deliver, DeliverInside, Accept, Return, SongEnds,
                AudioThread, AudioInside, TakeChunk, GetReady, Write, Underrun,
                FlushBegins, FlushInside, FlushOne, pvars, jukebox
  <2>. QED  BY <2>1 DEF Todo
<1>. QED  BY <1>1, <1>2, <1>3, HandleTodo, LoadTodo DEF PNext, MainThread

LEMMA CardTypedStep == ASSUME IInv, PInv, CardTyped, [PNext]_pvars PROVE CardTyped'
<1>1. CASE GetReady
  <2>1. afd # None /\ hand \in Song
    BY <1>1 DEF GetReady, IInv, InHand, PInv, PTyped
  <2>2. hand.format \in Format
    BY <2>1 DEF Song
  <2>. QED  BY <1>1, <2>2 DEF GetReady, jukebox, CardTyped
<1>2. CASE Write \/ Underrun
  BY <1>2 DEF Write, Underrun, jukebox, CardTyped
<1>3. CASE MainThread
  BY <1>3 DEF MainThread, Handle, FlushBegins, FlushInside, FlushOne, FlushReturns, Unload,
              Load, jukebox, card, CardTyped
<1>4. CASE DeliveryThread \/ AudioInside \/ TakeChunk
  BY <1>4 DEF DeliveryThread, Offer, Deliver, DeliverInside, Accept, Return, SongEnds,
              AudioInside, TakeChunk, jukebox, card, CardTyped
<1>5. CASE UNCHANGED pvars
  BY <1>5 DEF pvars, jukebox, card, CardTyped
<1>. QED  BY <1>1, <1>2, <1>3, <1>4, <1>5 DEF PNext, AudioThread

\* The variables of the composition have their types, songs names the song of each
\* chunk, and no song is loaded beyond the bound.
THEOREM PlaybackTyped == PSafeSpec => []PTypeOK
<1>1. PInit => Todo /\ InFlush /\ CardTyped
  <2>1. PInit => todo = <<>> /\ loads \in 0..MaxLoads
    BY PlaybackAssumption DEF PInit, PlaybackAssumption
  <2>2. PInit => pc["main"] = "idle"
    BY DEF PInit, Init
  <2>. QED  BY <2>1, <2>2, NothingTodo DEF PInit, InFlush, CardTyped
<1>2. IInv /\ PInv /\ Todo /\ InFlush /\ CardTyped /\ [PNext]_pvars
         => Todo' /\ InFlush' /\ CardTyped'
  BY TodoStep, InFlushStep, CardTypedStep
<1>3. IInv /\ PInv /\ Todo /\ CardTyped => PTypeOK
  BY DEF IInv, PInv, PTyped, Todo, CardTyped, PTypeOK
<1>. QED  BY <1>1, <1>2, <1>3, SafePInv, PTL DEF PSafeSpec

=============================================================================
