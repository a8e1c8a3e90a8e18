------------------------------ MODULE AudioFifo ------------------------------
(***************************************************************************)
(* The audio fifo g_audiofifo (audio.h) and the three threads that meet in *)
(* it:                                                                     *)
(*   "delivery"  libspotify's internal thread, inside music_delivery       *)
(*               (sp-callbacks.c),                                         *)
(*   "audio"     the thread that plays, inside audio_get (audio.c) or      *)
(*               writing to the sound card (alsa-audio.c),                 *)
(*   "main"      the event loop, inside audio_fifo_flush (audio.c), which  *)
(*               try_jukebox_start and play_token_lost call.               *)
(* A step is what a thread does between two points where another thread    *)
(* can see a difference: taking the mutex, each write of the list and of   *)
(* qlen, the signal, the wait, the release.  A chunk stands for its        *)
(* audio_fifo_data_t; its samples are named by their position in the       *)
(* stream of frames that music_delivery accepted.                          *)
(***************************************************************************)
EXTENDS Integers, Sequences

CONSTANTS SampleRate,   \* format->sample_rate: frames in one second of audio
          MaxFrames,    \* largest num_frames libspotify delivers at once
          MaxProduced,  \* bound: frames the delivery thread offers in all
          None          \* no thread, no chunk

ASSUME FifoAssumption ==
    /\ SampleRate \in Nat
    /\ MaxFrames \in Nat \ {0}
    /\ MaxProduced \in Nat
    /\ None \notin [pos : Nat, nsamples : Nat]
    /\ None \notin {"delivery", "audio", "main"}

VARIABLES
    q,         \* af->q, the TAILQ of chunks, first element first
    qlen,      \* af->qlen, the frames in q
    mutex,     \* af->mutex: the thread that holds it, or None
    pc,        \* where each thread is
    frames,    \* num_frames of the music_delivery call in progress
    afd,       \* the chunk the audio thread took and has not freed, or None
    produced,  \* history: frames accepted since the start
    out        \* history: position of the first frame neither taken nor flushed

vars == <<q, qlen, mutex, pc, frames, afd, produced, out>>

Thread == {"delivery", "audio", "main"}
Chunk  == [pos : Nat, nsamples : 1..MaxFrames]

Goto(t, from, to) == /\ pc[t] = from
                     /\ pc' = [pc EXCEPT ![t] = to]

Lock(t)   == mutex = None /\ mutex' = t
Unlock(t) == mutex = t /\ mutex' = None

Init == /\ q = <<>>
        /\ qlen = 0
        /\ mutex = None
        /\ pc = [delivery |-> "idle", audio |-> "lock", main |-> "idle"]
        /\ frames = 0
        /\ afd = None
        /\ produced = 0
        /\ out = 0

-----------------------------------------------------------------------------
(* music_delivery, on libspotify's thread. *)

DeliveryCall ==
    /\ Goto("delivery", "idle", "called")
    /\ \E n \in 0..MaxFrames :
         /\ produced + n <= MaxProduced
         /\ frames' = n
    /\ UNCHANGED <<q, qlen, mutex, afd, produced, out>>

\* num_frames = 0 is an audio discontinuity: return at once.
DeliveryDiscontinuity ==
    /\ frames = 0
    /\ Goto("delivery", "called", "idle")
    /\ UNCHANGED <<q, qlen, mutex, frames, afd, produced, out>>

DeliveryLock ==
    /\ frames # 0
    /\ Goto("delivery", "called", "test")
    /\ Lock("delivery")
    /\ UNCHANGED <<q, qlen, frames, afd, produced, out>>

\* More than a second of audio is waiting: unlock and refuse the frames.
DeliveryRefuse ==
    /\ qlen > SampleRate
    /\ Goto("delivery", "test", "idle")
    /\ Unlock("delivery")
    /\ UNCHANGED <<q, qlen, frames, afd, produced, out>>

NewChunk == [pos |-> produced, nsamples |-> frames]

\* Bug: TAILQ_INSERT_HEAD in place of TAILQ_INSERT_TAIL.
Bug_InsertHead ==
    /\ qlen <= SampleRate
    /\ Goto("delivery", "test", "signal")
    /\ q' = <<NewChunk>> \o q
    /\ qlen' = qlen + frames
    /\ produced' = produced + frames
    /\ UNCHANGED <<mutex, frames, afd, out>>

\* Bug: the test of qlen is dropped.
Bug_InsertUnbounded ==
    /\ Goto("delivery", "test", "signal")
    /\ q' = Append(q, NewChunk)
    /\ qlen' = qlen + frames
    /\ produced' = produced + frames
    /\ UNCHANGED <<mutex, frames, afd, out>>

DeliveryInsert ==
    /\ qlen <= SampleRate
    /\ Goto("delivery", "test", "signal")
    /\ q' = Append(q, NewChunk)
    /\ qlen' = qlen + frames
    /\ produced' = produced + frames
    /\ UNCHANGED <<mutex, frames, afd, out>>

\* Bug: no signal.
Bug_NoSignal ==
    /\ pc["delivery"] = "signal"
    /\ pc' = [pc EXCEPT !["delivery"] = "unlock"]
    /\ UNCHANGED <<q, qlen, mutex, frames, afd, produced, out>>

\* pthread_cond_signal: a thread that waits is woken and has to lock again.
DeliverySignal ==
    /\ pc["delivery"] = "signal"
    /\ pc' = [pc EXCEPT !["delivery"] = "unlock",
                        !["audio"] = IF @ = "waiting" THEN "lock" ELSE @]
    /\ UNCHANGED <<q, qlen, mutex, frames, afd, produced, out>>

DeliveryUnlock ==
    /\ Goto("delivery", "unlock", "idle")
    /\ Unlock("delivery")
    /\ UNCHANGED <<q, qlen, frames, afd, produced, out>>

Delivery == \/ DeliveryCall \/ DeliveryDiscontinuity \/ DeliveryLock
            \/ DeliveryRefuse \/ DeliveryInsert \/ DeliverySignal
            \/ DeliveryUnlock

-----------------------------------------------------------------------------
(* audio_get and the loop around it, on the audio thread. *)

AudioLock ==
    /\ Goto("audio", "lock", "test")
    /\ Lock("audio")
    /\ UNCHANGED <<q, qlen, frames, afd, produced, out>>

\* Bug: the thread sleeps without releasing the mutex.
Bug_WaitKeepsLock ==
    /\ q = <<>>
    /\ Goto("audio", "test", "waiting")
    /\ UNCHANGED <<q, qlen, mutex, frames, afd, produced, out>>

\* pthread_cond_wait releases the mutex and starts to wait in one step.
AudioWait ==
    /\ q = <<>>
    /\ Goto("audio", "test", "waiting")
    /\ Unlock("audio")
    /\ UNCHANGED <<q, qlen, frames, afd, produced, out>>

\* POSIX lets pthread_cond_wait return without a signal.
AudioSpuriousWakeup ==
    /\ Goto("audio", "waiting", "lock")
    /\ UNCHANGED <<q, qlen, mutex, frames, afd, produced, out>>

AudioTake ==
    /\ q # <<>>
    /\ Goto("audio", "test", "unlock")
    /\ afd' = Head(q)
    /\ q' = Tail(q)
    /\ qlen' = qlen - Head(q).nsamples
    /\ out' = out + Head(q).nsamples
    /\ UNCHANGED <<mutex, frames, produced>>

AudioUnlock ==
    /\ Goto("audio", "unlock", "play")
    /\ Unlock("audio")
    /\ UNCHANGED <<q, qlen, frames, afd, produced, out>>

\* snd_pcm_writei and free(afd), then audio_get again.
AudioPlay ==
    /\ Goto("audio", "play", "lock")
    /\ afd' = None
    /\ UNCHANGED <<q, qlen, mutex, frames, produced, out>>

Audio == \/ AudioLock \/ AudioWait \/ AudioSpuriousWakeup \/ AudioTake
         \/ AudioUnlock \/ AudioPlay

-----------------------------------------------------------------------------
(* audio_fifo_flush, on the main thread. *)

FlushCall ==
    /\ Goto("main", "idle", "lock")
    /\ UNCHANGED <<q, qlen, mutex, frames, afd, produced, out>>

\* Bug: the flush does not take the mutex.
Bug_FlushUnlocked ==
    /\ Goto("main", "lock", "drain")
    /\ UNCHANGED <<q, qlen, mutex, frames, afd, produced, out>>

FlushLock ==
    /\ Goto("main", "lock", "drain")
    /\ Lock("main")
    /\ UNCHANGED <<q, qlen, frames, afd, produced, out>>

\* One turn of the loop: unlink and free the first chunk; qlen is left alone.
FlushDrain ==
    /\ pc["main"] = "drain"
    /\ q # <<>>
    /\ q' = Tail(q)
    /\ out' = out + Head(q).nsamples
    /\ UNCHANGED <<qlen, mutex, pc, frames, afd, produced>>

\* Bug: qlen is not reset.
Bug_FlushKeepsQlen ==
    /\ q = <<>>
    /\ Goto("main", "drain", "idle")
    /\ Unlock("main")
    /\ UNCHANGED <<q, qlen, frames, afd, produced, out>>

FlushDone ==
    /\ q = <<>>
    /\ Goto("main", "drain", "idle")
    /\ qlen' = 0
    /\ Unlock("main")
    /\ UNCHANGED <<q, frames, afd, produced, out>>

Flush == FlushCall \/ FlushLock \/ FlushDrain \/ FlushDone

-----------------------------------------------------------------------------
Next == Delivery \/ Audio \/ Flush

(***************************************************************************)
(* Every thread that can run does run; a thread that keeps finding the     *)
(* mutex free gets it in the end.  The delivery thread need not be called, *)
(* the main thread need not flush and no wakeup is ever spurious unless    *)
(* the system chooses so: those steps have no fairness.                    *)
(***************************************************************************)
Fairness ==
    /\ WF_vars(DeliveryDiscontinuity) /\ SF_vars(DeliveryLock)
    /\ WF_vars(DeliveryRefuse \/ DeliveryInsert)
    /\ WF_vars(DeliverySignal) /\ WF_vars(DeliveryUnlock)
    /\ SF_vars(AudioLock) /\ WF_vars(AudioWait \/ AudioTake)
    /\ WF_vars(AudioUnlock) /\ WF_vars(AudioPlay)
    /\ SF_vars(FlushLock) /\ WF_vars(FlushDrain \/ FlushDone)

SafeSpec == Init /\ [][Next]_vars
Spec == SafeSpec /\ Fairness

-----------------------------------------------------------------------------
(* Properties. *)

PcOk ==
    /\ pc \in [Thread -> {"idle", "called", "lock", "test", "signal",
                          "unlock", "waiting", "play", "drain"}]
    /\ pc["delivery"] \in {"idle", "called", "test", "signal", "unlock"}
    /\ pc["audio"] \in {"lock", "test", "waiting", "unlock", "play"}
    /\ pc["main"] \in {"idle", "lock", "drain"}

\* Each variable has the type its C declaration gives it.
TypeOK ==
    /\ q \in Seq(Chunk)
    /\ qlen \in Int
    /\ mutex \in Thread \cup {None}
    /\ PcOk
    /\ frames \in 0..MaxFrames
    /\ afd \in Chunk \cup {None}
    /\ produced \in Nat
    /\ out \in Nat

InCritical(t) ==
    \/ t = "delivery" /\ pc[t] \in {"test", "signal", "unlock"}
    \/ t = "audio" /\ pc[t] \in {"test", "unlock"}
    \/ t = "main" /\ pc[t] = "drain"

\* A thread is between its lock and its unlock exactly while it owns the
\* mutex: no path of music_delivery, audio_get or audio_fifo_flush leaves with
\* the mutex held, and the wait inside audio_get gives it up.
CriticalOwner == \A t \in Thread : InCritical(t) <=> mutex = t

\* The chunks that wait are one unbroken run of the accepted stream, in order,
\* from the first frame not yet taken to the last one accepted: nothing is
\* lost, doubled or reordered between music_delivery and audio_get.
StreamIntact ==
    /\ q = <<>> => out = produced
    /\ q # <<>> => /\ q[1].pos = out
                   /\ q[Len(q)].pos + q[Len(q)].nsamples = produced
    /\ \A i \in 1..Len(q) - 1 : q[i + 1].pos = q[i].pos + q[i].nsamples

\* Except inside audio_fifo_flush, qlen counts the frames that wait: the
\* decrement in audio_get and the reset at the end of the flush never let the
\* counter drift from the list, whatever the order of the three threads.
QlenExact == pc["main"] # "drain" => qlen = produced - out

\* "Buffer one second of audio": music_delivery lets the fifo grow beyond one
\* second by less than one delivery.
BoundedBacklog == produced - out <= SampleRate + MaxFrames

\* The audio thread sleeps only on an empty fifo, but for the moment between
\* the insertion and the signal.
NoLostWakeup ==
    pc["audio"] = "waiting" => q = <<>> \/ pc["delivery"] = "signal"

\* An accepted frame is in the end taken by the audio thread or flushed.
FramesDrain ==
    \A p \in 0..MaxProduced - 1 :
        (out <= p /\ p < produced) ~> (out > p)

\* music_delivery always returns to libspotify (api.h: "This function must
\* never block"), and a flush always returns to the event loop.
CallsReturn ==
    /\ pc["delivery"] # "idle" ~> pc["delivery"] = "idle"
    /\ pc["main"] # "idle" ~> pc["main"] = "idle"

\* No thread is held up but by a mutex that another thread owns, by an empty fifo, or
\* by having nothing to do: whoever owns the mutex can go on to its unlock, and when
\* nobody does, each thread that wants it can have it.
ThreadsGoOn ==
    /\ pc["delivery"] = "called" =>
         /\ frames = 0 => ENABLED <<DeliveryDiscontinuity>>_vars
         /\ frames # 0 /\ mutex = None => ENABLED <<DeliveryLock>>_vars
    /\ pc["delivery"] = "test" => ENABLED <<DeliveryRefuse \/ DeliveryInsert>>_vars
    /\ pc["delivery"] = "signal" => ENABLED <<DeliverySignal>>_vars
    /\ pc["delivery"] = "unlock" => ENABLED <<DeliveryUnlock>>_vars
    /\ pc["audio"] = "lock" /\ mutex = None => ENABLED <<AudioLock>>_vars
    /\ pc["audio"] = "test" => ENABLED <<AudioWait \/ AudioTake>>_vars
    /\ pc["audio"] = "unlock" => ENABLED <<AudioUnlock>>_vars
    /\ pc["audio"] = "play" => ENABLED <<AudioPlay>>_vars
    /\ pc["main"] = "lock" /\ mutex = None => ENABLED <<FlushLock>>_vars
    /\ pc["main"] = "drain" => ENABLED <<FlushDrain \/ FlushDone>>_vars

\* The fifo implements the stream of SampleStream.  A flush takes effect when
\* it gets the mutex: from there on nobody sees the chunks it unlinks.
Stream == INSTANCE SampleStream WITH
    accepted <- produced,
    released <- IF pc["main"] = "drain" THEN produced ELSE out,
    playing  <- afd

ImplementsStream == Stream!SSpec
=============================================================================
