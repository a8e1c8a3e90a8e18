---------------------------- MODULE OpenAlPlayer ----------------------------
(***************************************************************************)
(* The audio thread of the OSX backend (openal-audio.c): three buffers go  *)
(* round between the thread, which fills them with the chunks of the fifo, *)
(* and the queue of an OpenAL source, which plays them.  The fifo is seen  *)
(* from its end: audio_get returns the chunks one after the other.         *)
(*                                                                         *)
(* OpenAL is external.  A source stops when its queue runs dry and only    *)
(* alSourcePlay starts it again; while it is stopped every buffer of its   *)
(* queue counts as processed.  A queue holds buffers of one format, the    *)
(* content of a queued buffer cannot be changed, and AL_BUFFER = 0 empties *)
(* the queue, but may be refused while the source plays.  Nobody learns of *)
(* a refusal: the thread reads alcGetError, which reports the device only. *)
(***************************************************************************)
EXTENDS Integers, Sequences

CONSTANTS Format,     \* rate and channels of a chunk
          MaxChunks,  \* bound: chunks that are played
          FrameWrap,  \* 2^32, where the unsigned frame begins again
          None        \* no chunk

ASSUME OpenAlAssumption ==
    /\ MaxChunks \in Nat
    /\ FrameWrap \in Nat /\ FrameWrap > MaxChunks
    /\ None \notin [pos : Nat, format : Format, intact : BOOLEAN]

VARIABLES
    pc,        \* "pre"buffer, "play", "poll", "get" or "exit"
    filled,    \* how many buffers the prebuffering has queued
    frame,     \* counts the buffers that went round
    buffers,   \* the names in the thread's array
    content,   \* OpenAL: the chunk that was copied into each buffer
    queue,     \* OpenAL: the queue of the source
    played,    \* OpenAL: how many of its buffers have been played to the end
    source,    \* OpenAL: "initial", "playing" or "stopped"
    refused,   \* history: OpenAL has refused a buffer
    taken,     \* history: chunks taken from the fifo
    dry,       \* history: the queue ran dry since alSourcePlay
    skipped    \* history: a buffer was removed unplayed since alSourcePlay

thread == <<pc, filled, frame, buffers, taken>>
al == <<content, queue, played, source, refused>>
vars == <<thread, al, dry, skipped>>

NUM_BUFFERS == 3
Slot == 0..NUM_BUFFERS - 1
Chunk == [pos : Nat, format : Format, intact : BOOLEAN]

Init == /\ pc = "pre"
        /\ filled = 0
        /\ frame = 0
        /\ buffers = [i \in Slot |-> i]
        /\ content = [b \in Slot |-> None]
        /\ queue = <<>>
        /\ played = 0
        /\ source = "initial"
        /\ refused = FALSE
        /\ taken = 0
        /\ dry = FALSE
        /\ skipped = FALSE

-----------------------------------------------------------------------------
(* OpenAL. *)

Processed == IF source = "stopped" THEN Len(queue) ELSE played

\* alBufferData and alSourceQueueBuffers of buffer b, after which q is queued.
Submit(b, chunk, q) ==
    LET free == \A i \in 1..Len(q) : q[i] # b
        now  == IF free THEN chunk ELSE content[b]
        fits == q = <<>> \/ content[q[1]].format = now.format
    IN  /\ content' = [content EXCEPT ![b] = now]
        /\ queue' = IF fits THEN Append(q, b) ELSE q
        /\ refused' = (refused \/ ~free \/ ~fits)

PlayBuffer ==
    /\ source = "playing"
    /\ played < Len(queue)
    /\ played' = played + 1
    /\ source' = IF played' = Len(queue) THEN "stopped" ELSE source
    /\ dry' = (dry \/ source' = "stopped")
    /\ UNCHANGED <<thread, content, queue, refused, skipped>>

-----------------------------------------------------------------------------
(* The audio thread. *)

\* audio_get.
Get == taken < MaxChunks /\ taken' = taken + 1
NewChunk(f) == [pos |-> taken, format |-> f, intact |-> TRUE]

\* queue_buffer, three times before the start and twice after a reset.
Prebuffer ==
    /\ pc = "pre"
    /\ Get
    /\ \E f \in Format : Submit(buffers[filled], NewChunk(f), queue)
    /\ filled' = filled + 1
    /\ pc' = IF filled' = NUM_BUFFERS THEN "play" ELSE "pre"
    /\ UNCHANGED <<frame, buffers, played, source, dry, skipped>>

\* Bug: alSourcePlay is called once, before the outer loop.
Bug_PlayOnce ==
    /\ pc = "play"
    /\ pc' = "poll"
    /\ source' = IF source = "initial" THEN "playing" ELSE source
    /\ dry' = FALSE
    /\ skipped' = FALSE
    /\ UNCHANGED <<filled, frame, buffers, taken, content, queue, played, refused>>

\* Bug: alSourcePlay is not called.
Bug_NeverPlay ==
    /\ pc = "play"
    /\ pc' = "poll"
    /\ UNCHANGED <<filled, frame, buffers, taken, al, dry, skipped>>

Play ==
    /\ pc = "play"
    /\ pc' = "poll"
    /\ source' = "playing"
    /\ played' = 0
    /\ dry' = FALSE
    /\ skipped' = FALSE
    /\ UNCHANGED <<filled, frame, buffers, taken, content, queue, refused>>

\* The thread has seen AL_BUFFERS_PROCESSED and calls alSourceUnqueueBuffers, which
\* writes the name of the oldest buffer into the array.
Unqueue ==
    /\ pc = "poll"
    /\ Processed > 0
    /\ pc' = "get"
    /\ buffers' = [buffers EXCEPT ![frame % NUM_BUFFERS] = queue[1]]
    /\ queue' = Tail(queue)
    /\ played' = IF played = 0 THEN 0 ELSE played - 1
    /\ skipped' = (skipped \/ played = 0)
    /\ UNCHANGED <<filled, frame, taken, content, source, refused, dry>>

Current == buffers[frame % NUM_BUFFERS]

\* A chunk of the same format is copied into the buffer that is free, which is
\* queued again; when the device has failed the server ends.
Refill ==
    /\ pc = "get"
    /\ Get
    /\ Submit(Current, NewChunk(content[Current].format), queue)
    /\ \/ pc' = "poll" /\ frame' = (frame + 1) % FrameWrap
       \/ pc' = "exit" /\ UNCHANGED frame
    /\ UNCHANGED <<filled, buffers, played, source, dry, skipped>>

\* Bug: the count of the buffers goes on.
Bug_ResetKeepsFrame ==
    /\ pc = "get"
    /\ Get
    /\ \E f \in Format \ {content[Current].format} : Submit(buffers[0], NewChunk(f), <<>>)
    /\ pc' = "pre"
    /\ filled' = 1
    /\ played' = 0
    /\ source' = "stopped"
    /\ UNCHANGED <<frame, buffers, dry, skipped>>

(***************************************************************************)
(* The chunk has another format: it is freed, the source emptied and       *)
(* stopped, and then the freed memory is copied into the first buffer.  It *)
(* may still hold the chunk, or whatever another thread put there.         *)
(***************************************************************************)
Reset ==
    /\ pc = "get"
    /\ Get
    /\ \E f \in Format \ {content[Current].format}, left \in {<<>>, queue} :
         \E found \in {NewChunk(f)} \cup [pos : {taken}, format : Format, intact : {FALSE}] :
            /\ left # <<>> => source = "playing"
            /\ Submit(buffers[0], found, left)
    /\ pc' = "pre"
    /\ filled' = 1
    /\ frame' = 0
    /\ played' = 0
    /\ source' = "stopped"
    /\ UNCHANGED <<buffers, dry, skipped>>

AudioThread == Prebuffer \/ Play \/ Unqueue \/ Refill \/ Reset

Next == AudioThread \/ PlayBuffer

SafeSpec == Init /\ [][Next]_vars

\* The thread runs and the sound card plays.
Spec == SafeSpec /\ WF_vars(AudioThread) /\ WF_vars(PlayBuffer)

-----------------------------------------------------------------------------
(* Properties. *)

\* The variables have their types.
TypeOK ==
    /\ pc \in {"pre", "play", "poll", "get", "exit"}
    /\ filled \in 0..NUM_BUFFERS /\ frame \in 0..FrameWrap - 1 /\ taken \in 0..MaxChunks
    /\ buffers \in [Slot -> Slot]
    /\ content \in [Slot -> Chunk \cup {None}]
    /\ queue \in Seq(Slot)
    /\ played \in 0..Len(queue)
    /\ source \in {"initial", "playing", "stopped"}
    /\ refused \in BOOLEAN /\ dry \in BOOLEAN /\ skipped \in BOOLEAN

\* Until OpenAL refuses a buffer, they go round in the order of the array,
\* over any number of rounds, underruns and resets: the one the thread compares and
\* fills is not in the queue, and the queue plays the chunks in the order of the fifo.
BuffersGoRound ==
    ~refused =>
        /\ \A i, j \in Slot : buffers[i] = buffers[j] => i = j
        /\ pc = "poll" => /\ Len(queue) = NUM_BUFFERS
                          /\ \A i \in Slot : queue[i + 1] = buffers[(frame + i) % NUM_BUFFERS]
        /\ pc = "get" => \A i \in 1..Len(queue) : queue[i] # Current
        /\ \A i \in 1..Len(queue) - 1 : content[queue[i]].pos < content[queue[i + 1]].pos

\* A buffer is taken out of the queue unplayed only when the queue ran dry after
\* the last alSourcePlay: from then on the thread feeds a source that has stopped.
SkipsOnlyWhenDry == skipped => dry

\* A thread that polls can take a buffer out of the queue, or else the source can play
\* one: neither a dry queue nor a refused buffer leaves it with nothing to wait for.
PollIsFed ==
    pc = "poll" => IF Processed > 0 THEN ENABLED <<AudioThread>>_vars
                                    ELSE ENABLED <<PlayBuffer>>_vars

\* The thread does not wait for ever for a buffer to be processed.
PollEnds == pc = "poll" ~> pc # "poll"

(* What a comment says, and the code does not do. *)

\* openal-audio.c: "Make sure we don't lose the audio packet that caused the change".
PacketKept == \A i \in 1..Len(queue) : content[queue[i]].intact
=============================================================================
