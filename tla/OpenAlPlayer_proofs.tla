------------------------- MODULE OpenAlPlayer_proofs -------------------------
(***************************************************************************)
(* Theorems about OpenAlPlayer, for all formats, numbers of chunks and      *)
(* widths of the counter.                                                   *)
(*                                                                          *)
(* The invariant RoundInv says what the names in the array and in the queue *)
(* are, at each place of the thread: until OpenAL refuses a buffer the      *)
(* array never changes, and the queue is a rotation of it that begins at    *)
(* frame.  It needs the counter not to wrap (Counted), and everywhere the   *)
(* chunks of the queue to be older than the next one (Rising).              *)
(***************************************************************************)
EXTENDS OpenAlPlayer, TLAPS

Names == [i \in Slot |-> i]

Typed ==
    /\ pc \in {"pre", "play", "poll", "get", "exit"}
    /\ filled \in 0..NUM_BUFFERS
    /\ pc = "pre" => filled < NUM_BUFFERS
    /\ buffers \in [Slot -> Slot]
    /\ content \in [Slot -> Chunk \cup {None}]
    /\ queue \in Seq(Slot)
    /\ played \in 0..Len(queue)
    /\ source \in {"initial", "playing", "stopped"}
    /\ refused \in BOOLEAN
    /\ dry \in BOOLEAN
    /\ skipped \in BOOLEAN

\* The buffers that have been filled hold a chunk: all of them, but in the first
\* prebuffering.
Filled == \/ content \in [Slot -> Chunk]
          \/ /\ pc = "pre"
             /\ buffers = Names
             /\ \A i \in Slot : i < filled => content[i] \in Chunk
             /\ \A i \in 1..Len(queue) : content[queue[i]] \in Chunk

\* Each round takes a chunk.
Counted == /\ taken \in 0..MaxChunks
           /\ frame \in Nat
           /\ frame <= taken
           /\ pc \in {"pre", "play"} => frame = 0

\* While the thread feeds the source, the source plays or ran dry.
Fed == /\ skipped => dry
       /\ pc \in {"poll", "get", "exit"} => \/ source = "playing"
                                            \/ source = "stopped" /\ dry

Pos(i) == content[queue[i]].pos

Rising == /\ \A i \in 1..Len(queue) : Pos(i) \in Nat /\ Pos(i) < taken
          /\ \A i \in 1..Len(queue) - 1 : Pos(i) < Pos(i + 1)

\* The third case is that of a source that could not be emptied, whose first
\* buffer is the second of the array: the next buffer will be refused.
Rotated ==
    /\ pc = "pre" => \/ /\ Len(queue) = filled
                        /\ \A i \in 1..Len(queue) : queue[i] = i - 1
                     \/ /\ filled = 1
                        /\ Len(queue) = 3
                        /\ queue[1] = 1
    /\ pc = "play" => /\ Len(queue) = 3
                      /\ \A i \in 1..3 : queue[i] = i - 1
    /\ pc = "poll" => /\ Len(queue) = 3
                      /\ \A i \in Slot : queue[i + 1] = (frame + i) % 3
    /\ pc = "get"  => /\ Len(queue) = 2
                      /\ queue[1] = (frame + 1) % 3
                      /\ queue[2] = (frame + 2) % 3

RoundInv == ~refused => buffers = Names /\ Rotated /\ Rising

OInv == Typed /\ Filled /\ Counted /\ Fed /\ RoundInv

-----------------------------------------------------------------------------
(* Numbers modulo three, and what a call of OpenAL does. *)

LEMMA Modulo ==
    ASSUME NEW n \in Nat
    PROVE  /\ n % 3 \in 0..2
           /\ (n + 3) % 3 = n % 3
           /\ n % 3 = 0 => (n + 1) % 3 = 1 /\ (n + 2) % 3 = 2
           /\ n % 3 = 1 => (n + 1) % 3 = 2 /\ (n + 2) % 3 = 0
           /\ n % 3 = 2 => (n + 1) % 3 = 0 /\ (n + 2) % 3 = 1
BY SMT

LEMMA AppendAt ==
    ASSUME NEW q \in Seq(Slot), NEW b \in Slot
    PROVE  /\ Len(Append(q, b)) = Len(q) + 1
           /\ \A i \in 1..Len(q) : Append(q, b)[i] = q[i]
           /\ Append(q, b)[Len(q) + 1] = b
OBVIOUS

LEMMA AppendThird ==
    ASSUME NEW q \in Seq(Slot), NEW b \in Slot, Len(q) = 2
    PROVE  /\ Len(Append(q, b)) = 3
           /\ Append(q, b)[1] = q[1]
           /\ Append(q, b)[2] = q[2]
           /\ Append(q, b)[3] = b
<1>. HIDE DEF Slot
<1>1. /\ Len(Append(q, b)) = Len(q) + 1
      /\ \A i \in 1..Len(q) : Append(q, b)[i] = q[i]
      /\ Append(q, b)[Len(q) + 1] = b
  BY AppendAt
<1>. DEFINE r == Append(q, b)
<1>2. Len(r) = Len(q) + 1 /\ (\A i \in 1..Len(q) : r[i] = q[i]) /\ r[Len(q) + 1] = b
  BY <1>1
<1>. HIDE DEF r
<1>3. Len(r) = 3 /\ r[1] = q[1] /\ r[2] = q[2] /\ r[3] = b
  BY <1>2
<1>. QED BY <1>3 DEF r

LEMMA NewChunkTyped ==
    ASSUME taken \in Nat, NEW f \in Format
    PROVE  NewChunk(f) \in Chunk /\ NewChunk(f).pos = taken
BY DEF NewChunk, Chunk

LEMMA SubmitTyped ==
    ASSUME NEW b \in Slot, NEW chunk \in Chunk, NEW q \in Seq(Slot),
           content \in [Slot -> Chunk \cup {None}],
           \A i \in 1..Len(q) : content[q[i]] \in Chunk,
           refused \in BOOLEAN,
           Submit(b, chunk, q)
    PROVE  /\ content' \in [Slot -> Chunk \cup {None}]
           /\ content'[b] \in Chunk
           /\ \A x \in Slot : content[x] \in Chunk => content'[x] \in Chunk
           /\ queue' \in Seq(Slot)
           /\ Len(queue') >= Len(q)
           /\ queue' = q \/ queue' = Append(q, b)
           /\ refused' \in BOOLEAN
<1>1. \A i \in 1..Len(q) : q[i] \in Slot
  OBVIOUS
<1>. DEFINE free == \A i \in 1..Len(q) : q[i] # b
            now  == IF free THEN chunk ELSE content[b]
<1>2. now \in Chunk
  <2>1. CASE free
    BY <2>1
  <2>2. CASE ~free
    BY <2>2
  <2>. QED BY <2>1, <2>2
<1>3. /\ content' = [content EXCEPT ![b] = now]
      /\ queue' = q \/ queue' = Append(q, b)
      /\ refused' \in BOOLEAN
  BY DEF Submit
<1>. HIDE DEF now
<1>4. /\ content' \in [Slot -> Chunk \cup {None}]
      /\ content'[b] \in Chunk
      /\ \A x \in Slot : content[x] \in Chunk => content'[x] \in Chunk
  BY <1>2, <1>3
<1>5. /\ queue' \in Seq(Slot)
      /\ Len(queue') >= Len(q)
  BY <1>3
<1>. QED BY <1>3, <1>4, <1>5

LEMMA SubmitTaken ==
    ASSUME NEW b, NEW chunk, NEW q, Submit(b, chunk, q), ~refused'
    PROVE  /\ ~refused
           /\ \A i \in 1..Len(q) : q[i] # b
           /\ content' = [content EXCEPT ![b] = chunk]
           /\ queue' = Append(q, b)
BY Zenon DEF Submit

\* The chunk just taken is the youngest of the queue.
LEMMA SubmitRising ==
    ASSUME NEW b \in Slot, NEW chunk \in Chunk, NEW q \in Seq(Slot),
           content \in [Slot -> Chunk \cup {None}],
           taken \in Nat, taken' = taken + 1, chunk.pos = taken,
           \A i \in 1..Len(q) : content[q[i]].pos \in Nat /\ content[q[i]].pos < taken,
           \A i \in 1..Len(q) - 1 : content[q[i]].pos < content[q[i + 1]].pos,
           Submit(b, chunk, q), ~refused'
    PROVE  Rising'
<1>1. /\ \A i \in 1..Len(q) : q[i] # b
      /\ content' = [content EXCEPT ![b] = chunk]
      /\ queue' = Append(q, b)
  BY SubmitTaken
<1>2. /\ Len(queue') = Len(q) + 1
      /\ \A i \in 1..Len(q) : queue'[i] = q[i] /\ q[i] \in Slot
      /\ queue'[Len(q) + 1] = b
      /\ Len(q) \in Nat
  BY <1>1
<1>3. \A i \in 1..Len(q) : content'[queue'[i]] = content[q[i]]
  BY <1>1, <1>2
<1>4. content'[queue'[Len(q) + 1]].pos = taken
  BY <1>1, <1>2
<1>5. \A i \in 1..Len(queue') : Pos(i)' \in Nat /\ Pos(i)' < taken'
  <2>. TAKE i \in 1..Len(queue')
  <2>1. CASE i = Len(q) + 1
    BY <2>1, <1>4 DEF Pos
  <2>2. CASE i \in 1..Len(q)
    BY <2>2, <1>3 DEF Pos
  <2>. QED BY <2>1, <2>2, <1>2
<1>6. \A i \in 1..Len(queue') - 1 : Pos(i)' < Pos(i + 1)'
  <2>. TAKE i \in 1..Len(queue') - 1
  <2>1. CASE i = Len(q)
    BY <2>1, <1>3, <1>4, <1>2 DEF Pos
  <2>2. CASE i \in 1..Len(q) - 1
    <3>1. i \in 1..Len(q) /\ i + 1 \in 1..Len(q)
      BY <2>2, <1>2
    <3>. QED BY <3>1, <2>2, <1>3 DEF Pos
  <2>. QED BY <2>1, <2>2, <1>2
<1>. QED BY <1>5, <1>6 DEF Rising

-----------------------------------------------------------------------------
(* The steps. *)

LEMMA InitInv == Init => OInv
<1>. SUFFICES ASSUME Init PROVE OInv
  OBVIOUS
<1>. USE DEF Init
<1>1. Typed
  BY DEF Typed, Slot, NUM_BUFFERS
<1>2. Filled
  BY DEF Filled, Names, Slot, NUM_BUFFERS
<1>3. Counted
  BY OpenAlAssumption DEF Counted
<1>4. Fed
  BY DEF Fed
<1>5. RoundInv
  BY DEF RoundInv, Names, Rotated, Rising
<1>. QED BY <1>1, <1>2, <1>3, <1>4, <1>5 DEF OInv

LEMMA PlayBufferStep == OInv /\ PlayBuffer => OInv'
<1>. SUFFICES ASSUME OInv, PlayBuffer PROVE OInv'
  OBVIOUS
<1>. USE DEF OInv, PlayBuffer, thread
<1>1. Typed'
  <2>1. played' \in 0..Len(queue')
    BY DEF Typed
  <2>. QED BY <2>1 DEF Typed
<1>2. Filled'
  BY DEF Filled
<1>3. Counted'
  BY DEF Counted
<1>4. Fed'
  BY DEF Fed, Typed
<1>5. RoundInv'
  BY DEF RoundInv, Rotated, Rising, Pos
<1>. QED BY <1>1, <1>2, <1>3, <1>4, <1>5

LEMMA PrebufferStep == OInv /\ Prebuffer => OInv'
<1>. SUFFICES ASSUME OInv, Prebuffer PROVE OInv'
  OBVIOUS
<1>. USE DEF OInv
<1>1. PICK f \in Format : Submit(buffers[filled], NewChunk(f), queue)
  BY DEF Prebuffer
<1>2. /\ filled \in 0..2 /\ filled \in Slot /\ buffers[filled] \in Slot
      /\ taken \in Nat /\ taken' = taken + 1 /\ taken < MaxChunks
      /\ frame = 0
      /\ NewChunk(f) \in Chunk /\ NewChunk(f).pos = taken
  BY NewChunkTyped DEF Typed, Counted, Prebuffer, Slot, NUM_BUFFERS, Get
<1>3. \A i \in 1..Len(queue) : content[queue[i]] \in Chunk
  BY DEF Filled, Typed
<1>4. /\ content' \in [Slot -> Chunk \cup {None}]
      /\ content'[buffers[filled]] \in Chunk
      /\ \A x \in Slot : content[x] \in Chunk => content'[x] \in Chunk
      /\ queue' \in Seq(Slot)
      /\ Len(queue') >= Len(queue)
      /\ queue' = queue \/ queue' = Append(queue, buffers[filled])
      /\ refused' \in BOOLEAN
  BY <1>1, <1>2, <1>3, SubmitTyped DEF Typed
<1>5. Typed'
  <2>1. played' \in 0..Len(queue')
    BY <1>4 DEF Typed, Prebuffer
  <2>. QED BY <2>1, <1>2, <1>4 DEF Typed, Prebuffer, NUM_BUFFERS
<1>6. Filled'
  <2>1. CASE content \in [Slot -> Chunk]
    BY <2>1, <1>4 DEF Filled, Typed
  <2>2. CASE /\ buffers = Names
             /\ \A i \in Slot : i < filled => content[i] \in Chunk
    <3>1. buffers[filled] = filled
      BY <2>2, <1>2 DEF Names
    <3>2. \A i \in Slot : i < filled + 1 => content'[i] \in Chunk
      BY <2>2, <3>1, <1>2, <1>4 DEF Slot, NUM_BUFFERS
    <3>3. \A i \in 1..Len(queue') : content'[queue'[i]] \in Chunk
      <4>1. CASE queue' = queue
        BY <4>1, <1>3, <1>4 DEF Typed
      <4>2. CASE queue' = Append(queue, buffers[filled])
        <5>1. /\ Len(queue') = Len(queue) + 1
              /\ \A i \in 1..Len(queue) : queue'[i] = queue[i] /\ queue[i] \in Slot
              /\ queue'[Len(queue) + 1] = buffers[filled]
          BY <4>2, <1>2 DEF Typed
        <5>. QED BY <5>1, <1>3, <1>4 DEF Typed
      <4>. QED BY <4>1, <4>2, <1>4
    <3>4. CASE filled = 2
      BY <3>2, <3>4, <1>4 DEF Filled, Slot, NUM_BUFFERS
    <3>5. CASE filled # 2
      BY <3>2, <3>3, <3>5, <2>2, <1>2 DEF Filled, Prebuffer, NUM_BUFFERS
    <3>. QED BY <3>4, <3>5
  <2>. QED BY <2>1, <2>2 DEF Filled
<1>7. Counted'
  BY <1>2, OpenAlAssumption DEF Counted, Prebuffer
<1>8. Fed'
  BY DEF Fed, Prebuffer
<1>9. RoundInv'
  <2>. SUFFICES ASSUME ~refused' PROVE (buffers = Names /\ Rotated /\ Rising)'
    BY DEF RoundInv
  <2>1. /\ buffers = Names /\ Rotated /\ Rising
        /\ \A i \in 1..Len(queue) : queue[i] # buffers[filled]
        /\ queue' = Append(queue, buffers[filled])
    BY <1>1, SubmitTaken DEF RoundInv
  <2>2. buffers[filled] = filled /\ buffers' = Names
    BY <2>1, <1>2 DEF Names, Prebuffer
  <2>3. Rising'
    BY <1>1, <1>2, <2>1, SubmitRising DEF Rising, Pos, Typed
  <2>4. ~(filled = 1 /\ Len(queue) = 3 /\ queue[1] = 1)
    BY <2>1, <2>2
  <2>5. Len(queue) = filled /\ \A i \in 1..Len(queue) : queue[i] = i - 1
    BY <2>1, <2>4 DEF Rotated, Prebuffer
  <2>6. /\ Len(queue') = filled + 1
        /\ \A i \in 1..filled + 1 : queue'[i] = i - 1
    BY <2>1, <2>2, <2>5, <1>2 DEF Typed
  <2>7. Rotated'
    BY <2>6, <1>2 DEF Rotated, Prebuffer, NUM_BUFFERS
  <2>. QED BY <2>2, <2>3, <2>7
<1>. QED BY <1>5, <1>6, <1>7, <1>8, <1>9

LEMMA PlayStep == OInv /\ Play => OInv'
<1>. SUFFICES ASSUME OInv, Play PROVE OInv'
  OBVIOUS
<1>. USE DEF OInv, Play
<1>1. Typed'
  <2>1. played' \in 0..Len(queue')
    BY DEF Typed
  <2>. QED BY <2>1 DEF Typed
<1>2. Filled'
  BY DEF Filled
<1>3. Counted'
  BY DEF Counted
<1>4. Fed'
  BY DEF Fed
<1>5. RoundInv'
  <2>. SUFFICES ASSUME ~refused' PROVE (buffers = Names /\ Rotated /\ Rising)'
    BY DEF RoundInv
  <2>1. buffers = Names /\ Rotated /\ Rising
    BY DEF RoundInv
  <2>2. frame = 0 /\ frame' = 0
    BY DEF Counted
  <2>3. \A i \in Slot : (0 + i) % 3 = i
    BY DEF Slot, NUM_BUFFERS
  <2>4. \A i \in Slot : queue[i + 1] = i
    BY <2>1 DEF Rotated, Slot, NUM_BUFFERS
  <2>5. Rotated'
    BY <2>1, <2>2, <2>3, <2>4 DEF Rotated
  <2>. QED BY <2>1, <2>5 DEF Rising, Pos
<1>. QED BY <1>1, <1>2, <1>3, <1>4, <1>5

LEMMA UnqueueStep == OInv /\ Unqueue => OInv'
<1>. SUFFICES ASSUME OInv, Unqueue PROVE OInv'
  OBVIOUS
<1>. USE DEF OInv
<1>1. /\ Len(queue) \in Nat /\ Len(queue) > 0
      /\ queue[1] \in Slot
      /\ queue' = Tail(queue)
      /\ Tail(queue) \in Seq(Slot)
      /\ Len(Tail(queue)) = Len(queue) - 1
      /\ \A i \in 1..Len(Tail(queue)) : Tail(queue)[i] = queue[i + 1]
  BY DEF Unqueue, Typed, Processed
<1>2. /\ frame % 3 \in Slot
      /\ frame \in Nat
  BY Modulo DEF Counted, Slot, NUM_BUFFERS
<1>3. Typed'
  <2>1. played' \in 0..Len(queue')
    BY <1>1 DEF Typed, Unqueue
  <2>2. skipped' \in BOOLEAN
    BY DEF Unqueue
  <2>. QED BY <2>1, <2>2, <1>1 DEF Typed, Unqueue
<1>4. Filled'
  BY DEF Filled, Unqueue
<1>5. Counted'
  BY DEF Counted, Unqueue
<1>6. Fed'
  <2>1. CASE played = 0
    <3>1. source = "stopped"
      BY <2>1 DEF Unqueue, Processed
    <3>. QED BY <3>1 DEF Fed, Unqueue
  <2>2. CASE played # 0
    BY <2>2 DEF Fed, Unqueue, Typed
  <2>. QED BY <2>1, <2>2
<1>7. RoundInv'
  <2>. SUFFICES ASSUME ~refused' PROVE (buffers = Names /\ Rotated /\ Rising)'
    BY DEF RoundInv
  <2>1. buffers = Names /\ Rotated /\ Rising
    BY DEF RoundInv, Unqueue
  <2>2. /\ Len(queue) = 3
        /\ \A i \in Slot : queue[i + 1] = (frame + i) % 3
    BY <2>1 DEF Rotated, Unqueue
  <2>3. /\ queue[1] = frame % 3
        /\ queue[2] = (frame + 1) % 3
        /\ queue[3] = (frame + 2) % 3
    BY <2>2, <1>2 DEF Slot, NUM_BUFFERS
  <2>4. buffers' = Names
    BY <2>1, <2>3, <1>2 DEF Unqueue, Names, NUM_BUFFERS
  <2>5. Rotated'
    BY <2>2, <2>3, <1>1 DEF Rotated, Unqueue
  <2>6. Rising'
    BY <2>1, <1>1 DEF Rising, Pos, Unqueue
  <2>. QED BY <2>4, <2>5, <2>6
<1>. QED BY <1>3, <1>4, <1>5, <1>6, <1>7

LEMMA RefillStep == OInv /\ Refill => OInv'
<1>. SUFFICES ASSUME OInv, Refill PROVE OInv'
  OBVIOUS
<1>. USE DEF OInv
<1>1. /\ content \in [Slot -> Chunk]
      /\ frame \in Nat /\ frame % 3 \in Slot
      /\ Current \in Slot
      /\ taken \in Nat /\ taken' = taken + 1 /\ taken < MaxChunks
      /\ pc = "get"
  BY Modulo DEF Filled, Typed, Counted, Refill, Get, Slot, NUM_BUFFERS, Current
<1>2. PICK chunk \in Chunk : chunk.pos = taken /\ Submit(Current, chunk, queue)
  <2>1. content[Current].format \in Format
    BY <1>1 DEF Chunk
  <2>2. /\ NewChunk(content[Current].format) \in Chunk
        /\ NewChunk(content[Current].format).pos = taken
    BY <2>1, <1>1, NewChunkTyped
  <2>. QED BY <2>2 DEF Refill
<1>3. \A i \in 1..Len(queue) : content[queue[i]] \in Chunk
  BY <1>1 DEF Typed
<1>4. /\ content' \in [Slot -> Chunk \cup {None}]
      /\ \A x \in Slot : content'[x] \in Chunk
      /\ queue' \in Seq(Slot)
      /\ Len(queue') >= Len(queue)
      /\ refused' \in BOOLEAN
  BY <1>1, <1>2, <1>3, SubmitTyped DEF Typed
<1>5. frame + 1 \in Nat /\ (frame + 1) % FrameWrap = frame + 1
  BY <1>1, OpenAlAssumption DEF Counted
<1>6. Typed'
  <2>1. played' \in 0..Len(queue')
    BY <1>4 DEF Typed, Refill
  <2>. QED BY <2>1, <1>4 DEF Typed, Refill
<1>7. Filled'
  BY <1>4 DEF Filled
<1>8. Counted'
  BY <1>1, <1>5, OpenAlAssumption DEF Counted, Refill
<1>9. Fed'
  BY <1>1 DEF Fed, Refill
<1>10. RoundInv'
  <2>. SUFFICES ASSUME ~refused' PROVE (buffers = Names /\ Rotated /\ Rising)'
    BY DEF RoundInv
  <2>1. /\ buffers = Names /\ Rotated /\ Rising
        /\ queue' = Append(queue, Current)
    BY <1>2, SubmitTaken DEF RoundInv
  <2>2. Rising'
    BY <1>1, <1>2, <2>1, SubmitRising DEF Rising, Pos, Typed
  <2>3. Current = frame % 3
    BY <2>1, <1>1 DEF Current, Names, NUM_BUFFERS
  <2>4. /\ Len(queue') = 3
        /\ queue'[1] = (frame + 1) % 3
        /\ queue'[2] = (frame + 2) % 3
        /\ queue'[3] = (frame + 3) % 3
    <3>1. (frame + 3) % 3 = frame % 3
      BY <1>1, Modulo
    <3>2. /\ Len(queue) = 2
          /\ queue[1] = (frame + 1) % 3
          /\ queue[2] = (frame + 2) % 3
      BY <2>1, <1>1 DEF Rotated
    <3>3. /\ Len(queue') = 3
          /\ queue'[1] = queue[1]
          /\ queue'[2] = queue[2]
          /\ queue'[3] = Current
      <4>1. queue \in Seq(Slot)
        BY DEF Typed
      <4>2. Len(queue) = 2 /\ queue' = Append(queue, Current)
        BY <2>1, <3>2
      <4>. QED BY <4>1, <4>2, <1>1, AppendThird
    <3>. QED BY <3>1, <3>2, <3>3, <2>3
  <2>5. CASE pc' = "poll" /\ frame' = frame + 1
    <3>1. \A i \in Slot : queue'[i + 1] = (frame' + i) % 3
      <4>1. /\ (frame + 1) + 0 = frame + 1
            /\ (frame + 1) + 1 = frame + 2
            /\ (frame + 1) + 2 = frame + 3
        BY <1>1
      <4>. QED BY <4>1, <2>4, <2>5 DEF Slot, NUM_BUFFERS
    <3>. QED BY <3>1, <2>1, <2>2, <2>4, <2>5 DEF Rotated, Refill
  <2>6. CASE pc' = "exit"
    BY <2>1, <2>2, <2>6 DEF Rotated, Refill
  <2>. QED BY <2>5, <2>6, <1>5 DEF Refill
<1>. QED BY <1>6, <1>7, <1>8, <1>9, <1>10

LEMMA ResetStep == OInv /\ Reset => OInv'
<1>. SUFFICES ASSUME OInv, Reset PROVE OInv'
  OBVIOUS
<1>. USE DEF OInv
<1>1. /\ content \in [Slot -> Chunk]
      /\ frame \in Nat /\ frame % 3 \in Slot
      /\ taken \in Nat /\ taken' = taken + 1 /\ taken < MaxChunks
      /\ 0 \in Slot /\ buffers[0] \in Slot
      /\ pc = "get"
  BY Modulo DEF Filled, Typed, Counted, Reset, Get, Slot, NUM_BUFFERS
<1>2. PICK left \in {<<>>, queue}, found \in Chunk :
         found.pos = taken /\ Submit(buffers[0], found, left)
  <2>1. PICK f \in Format, left \in {<<>>, queue} :
          \E found \in {NewChunk(f)} \cup [pos : {taken}, format : Format, intact : {FALSE}] :
             Submit(buffers[0], found, left)
    BY DEF Reset
  <2>2. \A found \in {NewChunk(f)} \cup [pos : {taken}, format : Format, intact : {FALSE}] :
           found \in Chunk /\ found.pos = taken
    <3>1. NewChunk(f) \in Chunk /\ NewChunk(f).pos = taken
      BY <1>1, NewChunkTyped
    <3>2. \A found \in [pos : {taken}, format : Format, intact : {FALSE}] :
             found \in Chunk /\ found.pos = taken
      BY <1>1 DEF Chunk
    <3>. QED BY <3>1, <3>2
  <2>. QED BY <2>1, <2>2
<1>3. /\ left \in Seq(Slot)
      /\ \A i \in 1..Len(left) : content[left[i]] \in Chunk
  BY <1>1 DEF Typed
<1>4. /\ content' \in [Slot -> Chunk \cup {None}]
      /\ \A x \in Slot : content'[x] \in Chunk
      /\ queue' \in Seq(Slot)
      /\ refused' \in BOOLEAN
  BY <1>1, <1>2, <1>3, SubmitTyped DEF Typed
<1>5. Typed'
  <2>1. played' \in 0..Len(queue')
    BY <1>4 DEF Reset
  <2>. QED BY <2>1, <1>4 DEF Typed, Reset, NUM_BUFFERS
<1>6. Filled'
  BY <1>4 DEF Filled
<1>7. Counted'
  BY <1>1, OpenAlAssumption DEF Counted, Reset
<1>8. Fed'
  BY DEF Fed, Reset
<1>9. RoundInv'
  <2>. SUFFICES ASSUME ~refused' PROVE (buffers = Names /\ Rotated /\ Rising)'
    BY DEF RoundInv
  <2>1. /\ buffers = Names /\ Rotated /\ Rising
        /\ \A i \in 1..Len(left) : left[i] # buffers[0]
        /\ queue' = Append(left, buffers[0])
    BY <1>2, SubmitTaken DEF RoundInv
  <2>2. buffers[0] = 0 /\ buffers' = Names
    BY <2>1, <1>1 DEF Names, Reset
  <2>3. Rising'
    <3>1. /\ \A i \in 1..Len(left) : /\ content[left[i]].pos \in Nat
                                     /\ content[left[i]].pos < taken
          /\ \A i \in 1..Len(left) - 1 : content[left[i]].pos < content[left[i + 1]].pos
      BY <2>1 DEF Rising, Pos
    <3>. QED BY <1>1, <1>2, <1>3, <3>1, SubmitRising DEF Typed
  <2>4. CASE left = <<>>
    <3>1. Len(queue') = 1 /\ queue'[1] = 0
      BY <2>1, <2>2, <2>4
    <3>. QED BY <3>1, <2>2, <2>3 DEF Rotated, Reset
  <2>5. CASE left = queue
    <3>1. /\ Len(queue) = 2
          /\ queue[1] = (frame + 1) % 3
          /\ queue[2] = (frame + 2) % 3
          /\ queue[1] # 0 /\ queue[2] # 0
      <4>1. /\ Len(queue) = 2
            /\ queue[1] = (frame + 1) % 3
            /\ queue[2] = (frame + 2) % 3
        BY <2>1, <1>1 DEF Rotated
      <4>0. Len(left) = 2
        BY <4>1, <2>5, Zenon
      <4>2. 1 \in 1..Len(left) /\ 2 \in 1..Len(left)
        BY <4>0
      <4>3. left[1] # 0 /\ left[2] # 0
        BY <4>2, <2>1, <2>2
      <4>. QED BY <4>1, <4>3, <2>5
    <3>2. queue[1] = 1
      BY <3>1, <1>1, Modulo DEF Slot, NUM_BUFFERS
    <3>3. Len(queue') = 3 /\ queue'[1] = 1
      <4>1. left \in Seq(Slot)
        BY <1>1, <2>5 DEF Typed
      <4>2. Len(left) = 2 /\ left[1] = 1
        BY <3>1, <3>2, <2>5
      <4>3. queue' = Append(left, buffers[0])
        BY <2>1
      <4>4. buffers[0] \in Slot
        BY <1>1
      <4>. HIDE DEF Slot
      <4>5. /\ Len(Append(left, buffers[0])) = 3
            /\ Append(left, buffers[0])[1] = left[1]
        BY <4>1, <4>2, <4>4, AppendThird
      <4>. QED BY <4>2, <4>3, <4>5
    <3>. QED BY <3>3, <2>2, <2>3 DEF Rotated, Reset
  <2>. QED BY <2>4, <2>5
<1>. QED BY <1>5, <1>6, <1>7, <1>8, <1>9

LEMMA StepInv == OInv /\ [Next]_vars => OInv'
<1>. SUFFICES ASSUME OInv, [Next]_vars PROVE OInv'
  OBVIOUS
<1>1. CASE UNCHANGED vars
  BY <1>1 DEF OInv, Typed, Filled, Counted, Fed, RoundInv, Rotated, Rising, Pos, Names,
              vars, thread, al
<1>2. CASE Next
  BY <1>2, PrebufferStep, PlayStep, UnqueueStep, RefillStep, ResetStep, PlayBufferStep
     DEF Next, AudioThread
<1>. QED BY <1>1, <1>2

-----------------------------------------------------------------------------
(* The theorems. *)

\* OInv is an invariant of the thread and its source.
THEOREM Invariant == SafeSpec => []OInv
BY InitInv, StepInv, PTL DEF SafeSpec

LEMMA BuffersFollow == OInv => BuffersGoRound
<1>. SUFFICES ASSUME OInv, ~refused PROVE BuffersGoRound
  BY DEF BuffersGoRound
<1>1. /\ buffers = Names /\ Rotated /\ Rising
      /\ frame \in Nat
      /\ queue \in Seq(Slot)
  BY DEF OInv, RoundInv, Counted, Typed
<1>2. \A i, j \in Slot : buffers[i] = buffers[j] => i = j
  BY <1>1 DEF Names
<1>3. \A i \in Slot : buffers[(frame + i) % NUM_BUFFERS] = (frame + i) % 3
  <2>. TAKE i \in Slot
  <2>1. frame + i \in Nat /\ (frame + i) % 3 \in Slot
    BY <1>1, Modulo DEF Slot, NUM_BUFFERS
  <2>. QED BY <2>1, <1>1 DEF Names, NUM_BUFFERS
<1>4. pc = "poll" => /\ Len(queue) = NUM_BUFFERS
                     /\ \A i \in Slot : queue[i + 1] = buffers[(frame + i) % NUM_BUFFERS]
  BY <1>1, <1>3 DEF Rotated, NUM_BUFFERS
<1>5. pc = "get" => \A i \in 1..Len(queue) : queue[i] # Current
  <2>. SUFFICES ASSUME pc = "get", NEW i \in 1..Len(queue) PROVE queue[i] # Current
    OBVIOUS
  <2>1. Current = frame % 3
    BY <1>1, Modulo DEF Current, Names, Slot, NUM_BUFFERS
  <2>2. /\ Len(queue) = 2
        /\ queue[1] = (frame + 1) % 3
        /\ queue[2] = (frame + 2) % 3
    BY <1>1 DEF Rotated
  <2>3. queue[i] \in {(frame + 1) % 3, (frame + 2) % 3}
    BY <2>2
  <2>. QED BY <2>1, <2>3, <1>1, Modulo
<1>6. \A i \in 1..Len(queue) - 1 : content[queue[i]].pos < content[queue[i + 1]].pos
  BY <1>1 DEF Rising, Pos
<1>. QED BY <1>2, <1>4, <1>5, <1>6 DEF BuffersGoRound

\* The three buffers go round in the order of the array, over any number of chunks,
\* underruns and changes of format, until OpenAL refuses one: the thread of
\* openal-audio.c compares and fills the buffer that is free, and the queue of the
\* source plays the chunks in the order of the fifo.
THEOREM BuffersRotate == SafeSpec => []BuffersGoRound
BY Invariant, BuffersFollow, PTL

\* The loop of openal-audio.c takes a buffer out of the queue unplayed only after
\* the queue ran dry since the last alSourcePlay.
THEOREM SkipsWhenDry == SafeSpec => []SkipsOnlyWhenDry
<1>1. OInv => SkipsOnlyWhenDry
  BY DEF OInv, Fed, SkipsOnlyWhenDry
<1>. QED BY <1>1, Invariant, PTL

\* The variables of the audio thread and of its source keep their types, and the
\* counter of the buffers stays below its width.
THEOREM PlayerTyped == SafeSpec => []TypeOK
<1>1. OInv => TypeOK
  <2>. SUFFICES ASSUME OInv PROVE TypeOK
    OBVIOUS
  <2>1. frame \in 0..FrameWrap - 1
    BY OpenAlAssumption DEF OInv, Counted
  <2>. QED BY <2>1 DEF OInv, Typed, Counted, TypeOK
<1>. QED BY <1>1, Invariant, PTL
-----------------------------------------------------------------------------
(* The thread is not left polling. *)

\* A queue is never empty when the thread begins to poll: OpenAL does not refuse a
\* buffer for an empty queue, whatever it refuses otherwise.
Stocked == pc \in {"play", "poll"} => queue # <<>>

LEMMA SubmitStocks ==
    ASSUME NEW b, NEW chunk, NEW q \in Seq(Slot), Submit(b, chunk, q)
    PROVE  queue' # <<>>
<1>1. CASE q = <<>>
  BY <1>1 DEF Submit
<1>2. CASE q # <<>>
  <2>1. queue' = q \/ queue' = Append(q, b)
    BY DEF Submit
  <2>2. Append(q, b) # <<>>
    <3>. DEFINE S == Slot \cup {b}
    <3>1. q \in Seq(S) /\ b \in S
      OBVIOUS
    <3>. HIDE DEF S
    <3>2. Append(q, b) \in Seq(S) /\ Len(Append(q, b)) = Len(q) + 1 /\ Len(q) \in Nat
      BY <3>1
    <3>. QED BY <3>2
  <2>. QED BY <1>2, <2>1, <2>2
<1>. QED BY <1>1, <1>2

LEMMA StockedStep ==
    ASSUME OInv, Stocked, [Next]_vars
    PROVE  Stocked'
<1>1. queue \in Seq(Slot)
  BY DEF OInv, Typed
<1>2. CASE Prebuffer
  BY <1>1, <1>2, SubmitStocks DEF Prebuffer, Stocked
<1>3. CASE Refill
  BY <1>1, <1>3, SubmitStocks DEF Refill, Stocked
<1>4. CASE Reset
  BY <1>4 DEF Reset, Stocked
<1>5. CASE Play \/ Unqueue \/ PlayBuffer \/ UNCHANGED vars
  BY <1>5 DEF Play, Unqueue, PlayBuffer, vars, thread, al, Stocked
<1>. QED BY <1>2, <1>3, <1>4, <1>5 DEF Next, AudioThread

\* Whenever the thread polls AL_BUFFERS_PROCESSED, a buffer has been processed, or the
\* source plays one that will be: the loop of openal-audio.c is never left without a
\* buffer, however many OpenAL has refused.
PollHasBuffer ==
    pc = "poll" => \/ Processed > 0
                   \/ source = "playing" /\ played < Len(queue)

THEOREM PollsForSomething == SafeSpec => []PollHasBuffer
<1>1. Init => Stocked
  BY DEF Init, Stocked
<1>2. OInv /\ Stocked /\ [Next]_vars => Stocked'
  BY StockedStep
<1>3. OInv /\ Stocked => PollHasBuffer
  <2>. SUFFICES ASSUME OInv, Stocked, pc = "poll"
                PROVE  \/ Processed > 0
                       \/ source = "playing" /\ played < Len(queue)
    BY DEF PollHasBuffer
  <2>1. queue \in Seq(Slot) /\ queue # <<>> /\ played \in 0..Len(queue)
    BY DEF OInv, Typed, Stocked
  <2>2. Len(queue) \in Nat /\ Len(queue) > 0
    BY <2>1
  <2>3. source \in {"playing", "stopped"}
    BY DEF OInv, Fed
  <2>. QED BY <2>1, <2>2, <2>3 DEF Processed
<1>. QED BY <1>1, <1>2, <1>3, InitInv, StepInv, PTL DEF SafeSpec

\* The two stages of a wait: the source plays, then the thread takes the buffer.
Dry == pc = "poll" /\ ~(Processed > 0)
Due == pc = "poll" /\ Processed > 0

LEMMA PlayedIsDue ==
    ASSUME OInv, Dry, [Next]_vars
    PROVE  /\ Dry' \/ Due'
           /\ PlayBuffer => Due'
<1>1. ~AudioThread
  BY DEF AudioThread, Prebuffer, Play, Unqueue, Refill, Reset, Dry
<1>2. CASE PlayBuffer
  <2>1. pc' = "poll" /\ queue' = queue /\ played' = played + 1 /\ played \in Nat
    BY <1>2 DEF PlayBuffer, thread, Dry, OInv, Typed
  <2>2. source' = "stopped" => Len(queue') = played'
    BY <1>2 DEF PlayBuffer
  <2>. QED BY <2>1, <2>2 DEF Due, Processed
<1>3. CASE UNCHANGED vars
  BY <1>3 DEF vars, thread, al, Dry, Processed, PlayBuffer, Due, OInv, Typed
<1>. QED BY <1>1, <1>2, <1>3 DEF Next

LEMMA DueIsTaken ==
    ASSUME OInv, Due, [Next]_vars
    PROVE  /\ Due' \/ pc' # "poll"
           /\ AudioThread => pc' # "poll"
<1>1. AudioThread => pc' = "get"
  BY DEF AudioThread, Prebuffer, Play, Unqueue, Refill, Reset, Due
<1>2. CASE PlayBuffer
  <2>1. /\ pc' = "poll" /\ queue' = queue /\ played' = played + 1 /\ played \in Nat
    BY <1>2 DEF PlayBuffer, thread, Due, OInv, Typed
  <2>2. source' = "stopped" => Len(queue') = played'
    BY <1>2 DEF PlayBuffer
  <2>3. Due'
    BY <2>1, <2>2 DEF Due, Processed
  <2>. QED BY <1>1, <2>3
<1>3. CASE UNCHANGED vars
  BY <1>1, <1>3 DEF vars, thread, al, Due, Processed
<1>. QED BY <1>1, <1>2, <1>3 DEF Next

\* When nothing keeps the thread from its buffer or the source from playing
\* (PollIsFed), each wait of the thread ends, in any number of rounds and resets.
THEOREM PollingEnds == Spec /\ []PollIsFed => PollEnds
<1>1. OInv /\ Dry /\ [Next]_vars => Dry' \/ Due'
  BY PlayedIsDue
<1>2. OInv /\ Dry /\ <<PlayBuffer>>_vars => Due'
  BY PlayedIsDue DEF Next
<1>3. OInv /\ Due /\ [Next]_vars => Due' \/ (pc # "poll")'
  BY DueIsTaken
<1>4. OInv /\ Due /\ <<AudioThread>>_vars => (pc # "poll")'
  BY DueIsTaken DEF Next
<1>5. PollIsFed /\ Dry => ENABLED <<PlayBuffer>>_vars
  BY DEF PollIsFed, Dry
<1>6. PollIsFed /\ Due => ENABLED <<AudioThread>>_vars
  BY DEF PollIsFed, Due
<1>7. pc = "poll" => Dry \/ Due
  BY DEF Dry, Due
<1>8. Spec => SafeSpec /\ WF_vars(AudioThread) /\ WF_vars(PlayBuffer)
  BY PTL DEF Spec
<1>. QED BY <1>1, <1>2, <1>3, <1>4, <1>5, <1>6, <1>7, <1>8, Invariant, PTL
         DEF SafeSpec, PollEnds
-----------------------------------------------------------------------------
(* What OpenAL refuses, it refuses for the format. *)

OneFormat == \A f, g \in Format : f = g

\* No buffer has been refused, and the prebuffering began with an empty queue.
NoneRefused == ~refused /\ (pc = "pre" => Len(queue) = filled)

LEMMA FitsOneFormat ==
    ASSUME OneFormat, NEW b \in Slot, NEW f \in Format,
           queue \in Seq(Slot), taken \in Nat, ~refused,
           \A i \in 1..Len(queue) : queue[i] # b /\ content[queue[i]] \in Chunk,
           Submit(b, NewChunk(f), queue)
    PROVE  ~refused' /\ queue' = Append(queue, b)
<1>1. queue # <<>> => content[queue[1]].format = NewChunk(f).format
  <2>. SUFFICES ASSUME queue # <<>> PROVE content[queue[1]].format = NewChunk(f).format
    OBVIOUS
  <2>1. content[queue[1]] \in Chunk
    BY Z3
  <2>2. content[queue[1]].format \in Format
    BY <2>1 DEF Chunk
  <2>3. NewChunk(f).format = f
    BY DEF NewChunk
  <2>. QED BY <2>2, <2>3 DEF OneFormat
<1>. QED BY <1>1 DEF Submit

LEMMA NoneRefusedStep ==
    ASSUME OneFormat, OInv, NoneRefused, [Next]_vars
    PROVE  NoneRefused'
<1>1. /\ queue \in Seq(Slot) /\ taken \in Nat /\ buffers = Names /\ Rotated
      /\ \A i \in 1..Len(queue) : content[queue[i]] \in Chunk
  BY DEF OInv, Typed, Filled, Counted, RoundInv, NoneRefused
<1>2. CASE Prebuffer
  <2>1. PICK f \in Format : Submit(buffers[filled], NewChunk(f), queue)
    BY <1>2 DEF Prebuffer
  <2>2. filled \in Slot /\ filled < NUM_BUFFERS /\ filled' = filled + 1
    BY <1>2 DEF OInv, Typed, Prebuffer, Slot, NUM_BUFFERS
  <2>3. buffers[filled] = filled
    BY <1>1, <2>2 DEF Names
  <2>4. Len(queue) = filled /\ \A i \in 1..Len(queue) : queue[i] # filled
    BY <1>1, <1>2, <2>2 DEF Prebuffer, NoneRefused, Rotated, Slot, NUM_BUFFERS
  <2>5. ~refused' /\ queue' = Append(queue, filled)
    BY <1>1, <2>1, <2>2, <2>3, <2>4, FitsOneFormat DEF NoneRefused
  <2>6. Len(queue') = filled'
    BY <1>1, <2>2, <2>4, <2>5
  <2>. QED BY <2>5, <2>6 DEF NoneRefused
<1>3. CASE Refill
  <2>1. Current = frame % 3 /\ Current \in Slot /\ content[Current] \in Chunk
    BY <1>1, <1>3, Modulo DEF Current, Names, Slot, NUM_BUFFERS, Refill, OInv, Counted, Filled
  <2>2. content[Current].format \in Format
    BY <2>1 DEF Chunk
  <2>3. \A i \in 1..Len(queue) : queue[i] # Current
    <3>1. /\ Len(queue) = 2
          /\ queue[1] = (frame + 1) % 3
          /\ queue[2] = (frame + 2) % 3
      BY <1>1, <1>3 DEF Rotated, Refill
    <3>. QED BY <3>1, <2>1, Modulo DEF OInv, Counted
  <2>4. ~refused'
    BY <1>1, <1>3, <2>1, <2>2, <2>3, FitsOneFormat DEF Refill, NoneRefused
  <2>. QED BY <1>3, <2>4 DEF Refill, NoneRefused
<1>4. CASE Reset
  <2>1. Current \in Slot /\ content[Current].format \in Format
    BY <1>1, <1>4, Modulo
       DEF Current, Names, Slot, NUM_BUFFERS, Reset, OInv, Counted, Filled, Chunk
  <2>2. Format \ {content[Current].format} = {}
    BY <2>1 DEF OneFormat
  <2>. QED BY <1>4, <2>2 DEF Reset
<1>5. CASE Play \/ Unqueue \/ PlayBuffer \/ UNCHANGED vars
  BY <1>5 DEF Play, Unqueue, PlayBuffer, vars, thread, al, NoneRefused
<1>. QED BY <1>2, <1>3, <1>4, <1>5 DEF Next, AudioThread

\* As long as all music has one rate and one number of channels, OpenAL refuses no
\* buffer: with BuffersRotate, the buffers then go round in order for ever.
THEOREM OneFormatIsTaken ==
    ASSUME OneFormat
    PROVE  SafeSpec => [](~refused)
<1>1. Init => NoneRefused
  BY DEF Init, NoneRefused
<1>2. OInv /\ NoneRefused /\ [Next]_vars => NoneRefused'
  BY NoneRefusedStep
<1>3. NoneRefused => ~refused
  BY DEF NoneRefused
<1>. QED BY <1>1, <1>2, <1>3, Invariant, PTL DEF SafeSpec

\* The copy of a chunk that audio_get returned is whole.
Whole == \A b \in Slot : content[b] \in Chunk => content[b].intact

LEMMA SubmitWhole ==
    ASSUME OInv, Whole, NEW b \in Slot, NEW f \in Format, Submit(b, NewChunk(f), queue)
    PROVE  Whole'
<1>1. content \in [Slot -> Chunk \cup {None}]
  BY DEF OInv, Typed
<1>2. content' = [content EXCEPT ![b] = NewChunk(f)] \/ content' = [content EXCEPT ![b] = @]
  BY DEF Submit
<1>3. NewChunk(f).intact
  BY DEF NewChunk
<1>. QED BY <1>1, <1>2, <1>3 DEF Whole

LEMMA WholeStep ==
    ASSUME OneFormat, OInv, NoneRefused, Whole, [Next]_vars
    PROVE  Whole'
<1>1. buffers = Names /\ Rotated
  BY DEF OInv, RoundInv, NoneRefused
<1>2. CASE Prebuffer
  <2>1. filled \in Slot /\ buffers[filled] = filled
    BY <1>1, <1>2 DEF OInv, Typed, Prebuffer, Names, Slot, NUM_BUFFERS
  <2>. QED BY <1>2, <2>1, SubmitWhole DEF Prebuffer
<1>3. CASE Refill \/ Reset
  <2>1. pc = "get" /\ frame \in Nat /\ content \in [Slot -> Chunk]
    BY <1>3 DEF Refill, Reset, OInv, Counted, Filled
  <2>2. Current \in Slot
    BY <1>1, <2>1, Modulo DEF Current, Names, Slot, NUM_BUFFERS
  <2>3. content[Current].format \in Format
    BY <2>1, <2>2 DEF Chunk
  <2>4. Format \ {content[Current].format} = {}
    BY <2>3 DEF OneFormat
  <2>. QED BY <1>3, <2>2, <2>3, <2>4, SubmitWhole DEF Refill, Reset
<1>4. CASE Play \/ Unqueue \/ PlayBuffer \/ UNCHANGED vars
  BY <1>4 DEF Play, Unqueue, PlayBuffer, vars, thread, al, Whole
<1>. QED BY <1>2, <1>3, <1>4 DEF Next, AudioThread

\* The use of a freed chunk needs a change of format: as long as all music has one, every
\* chunk that is queued is the one that audio_get returned.
THEOREM OneFormatKeepsPackets ==
    ASSUME OneFormat
    PROVE  SafeSpec => []PacketKept
<1>1. Init => NoneRefused /\ Whole
  <2>1. None \notin Chunk
    BY OpenAlAssumption DEF OpenAlAssumption, Chunk
  <2>. QED BY <2>1 DEF Init, NoneRefused, Whole
<1>2. OInv /\ NoneRefused /\ Whole /\ [Next]_vars => NoneRefused' /\ Whole'
  BY NoneRefusedStep, WholeStep
<1>3. OInv /\ Whole => PacketKept
  BY DEF OInv, Typed, Filled, Whole, PacketKept
<1>. QED BY <1>1, <1>2, <1>3, Invariant, PTL DEF SafeSpec
=============================================================================
