--------------------------- MODULE AudioFifo_proofs ---------------------------
(***************************************************************************)
(* Theorems about AudioFifo, for every sample rate, delivery size and      *)
(* number of frames.                                                       *)
(***************************************************************************)
EXTENDS AudioFifo, TLAPS

(***************************************************************************)
(* The inductive invariant.  StreamIntact says that neighbours in q touch; *)
(* to bound every chunk by out and produced without an induction over q,   *)
(* Ordered says it for every pair.                                         *)
(***************************************************************************)
Ordered ==
    /\ \A i \in 1..Len(q) : out <= q[i].pos /\ q[i].pos + q[i].nsamples <= produced
    /\ \A i, j \in 1..Len(q) : i < j => q[i].pos + q[i].nsamples <= q[j].pos

\* The audio thread holds a chunk from the moment it takes it until it frees
\* it; music_delivery is past its first test only with frames to deliver.
InHand ==
    /\ (afd = None) <=> pc["audio"] \in {"lock", "test", "waiting"}
    /\ pc["delivery"] \in {"test", "signal", "unlock"} => frames # 0

IInv == /\ TypeOK
        /\ CriticalOwner
        /\ InHand
        /\ StreamIntact
        /\ Ordered
        /\ out <= produced
        /\ QlenExact
        /\ BoundedBacklog
        /\ NoLostWakeup

-----------------------------------------------------------------------------
(* What the two changes of the list do to the stream. *)

\* The first element of a list that is not empty is a chunk.
LEMMA HeadIsChunk ==
    ASSUME TypeOK, q # <<>>
    PROVE  Head(q) \in Chunk /\ Head(q) # None
<1>1. Head(q) \in Chunk
  BY DEF TypeOK
<1>2. Chunk \subseteq [pos : Nat, nsamples : Nat]
  BY DEF Chunk
<1>. QED  BY <1>1, <1>2, FifoAssumption DEF FifoAssumption

\* The first chunk leaves: TAILQ_REMOVE of TAILQ_FIRST in audio_get and in
\* audio_fifo_flush.
LEMMA DropFirst ==
    ASSUME TypeOK, StreamIntact, Ordered, q # <<>>,
           q' = Tail(q), out' = out + Head(q).nsamples, produced' = produced
    PROVE  /\ q' \in Seq(Chunk)
           /\ out' \in Nat
           /\ out' <= produced'
           /\ Head(q) \in Chunk
           /\ StreamIntact'
           /\ Ordered'
<1>1. q \in Seq(Chunk) /\ produced \in Nat /\ out \in Nat
  BY DEF TypeOK
<1>2. Len(q) \in Nat /\ Len(q) >= 1 /\ Head(q) = q[1] /\ \A i \in 1..Len(q) : q[i] \in Chunk
  BY <1>1
<1>3. \A i \in 1..Len(q) : q[i].pos \in Nat /\ q[i].nsamples \in 1..MaxFrames
  BY <1>2 DEF Chunk
<1>4. /\ q' \in Seq(Chunk)
      /\ Len(q') = Len(q) - 1
      /\ \A i \in 1..Len(q') : q'[i] = q[i + 1] /\ i + 1 \in 1..Len(q)
  BY <1>1, <1>2
<1>5. 1 \in 1..Len(q) /\ q[1].pos = out
  BY <1>2 DEF StreamIntact
<1>6. out' = q[1].pos + q[1].nsamples
  BY <1>2, <1>5
<1>7. out' \in Nat /\ out' <= produced'
  BY <1>1, <1>3, <1>5, <1>6, FifoAssumption DEF Ordered, FifoAssumption
<1>8. Ordered'
  <2>1. \A i \in 1..Len(q') : out' <= q'[i].pos
    BY <1>2, <1>4, <1>5, <1>6 DEF Ordered
  <2>2. \A i \in 1..Len(q') : q'[i].pos + q'[i].nsamples <= produced'
    BY <1>4 DEF Ordered
  <2>3. \A i, j \in 1..Len(q') : i < j => q'[i].pos + q'[i].nsamples <= q'[j].pos
    BY <1>2, <1>4 DEF Ordered
  <2>. QED  BY <2>1, <2>2, <2>3 DEF Ordered
<1>9. StreamIntact'
  <2>1. CASE Len(q) = 1
    <3>1. q' = <<>> /\ Len(q') = 0
      BY <1>4, <2>1
    <3>2. out' = produced'
      BY <1>6, <2>1 DEF StreamIntact
    <3>. QED  BY <3>1, <3>2 DEF StreamIntact
  <2>2. CASE Len(q) > 1
    <3>1. q' # <<>>
      <4>1. Len(q') # 0
        BY <1>2, <1>4, <2>2
      <4>. QED  BY <4>1
    <3>2. q'[1].pos = out'
      BY <1>2, <1>4, <1>6, <2>2 DEF StreamIntact
    <3>3. q'[Len(q')].pos + q'[Len(q')].nsamples = produced'
      BY <1>2, <1>4, <2>2 DEF StreamIntact
    <3>4. \A i \in 1..Len(q') - 1 : q'[i + 1].pos = q'[i].pos + q'[i].nsamples
      BY <1>2, <1>4 DEF StreamIntact
    <3>. QED  BY <3>1, <3>2, <3>3, <3>4 DEF StreamIntact
  <2>3. Len(q) = 1 \/ Len(q) > 1
    BY <1>2
  <2>. QED  BY <2>1, <2>2, <2>3
<1>. QED  BY <1>2, <1>4, <1>7, <1>8, <1>9

\* A chunk arrives: TAILQ_INSERT_TAIL in music_delivery.
LEMMA AddLast ==
    ASSUME TypeOK, StreamIntact, Ordered, out <= produced, frames # 0,
           q' = Append(q, NewChunk), out' = out, produced' = produced + frames
    PROVE  /\ q' \in Seq(Chunk)
           /\ produced' \in Nat
           /\ out' <= produced'
           /\ StreamIntact'
           /\ Ordered'
<1>1. q \in Seq(Chunk) /\ produced \in Nat /\ out \in Nat /\ frames \in 1..MaxFrames
  BY FifoAssumption DEF TypeOK, FifoAssumption
<1>2. NewChunk \in Chunk /\ NewChunk.pos = produced /\ NewChunk.nsamples = frames
  BY <1>1 DEF NewChunk, Chunk
<1>3. Len(q) \in Nat /\ \A i \in 1..Len(q) : q[i] \in Chunk
  BY <1>1
<1>4. \A i \in 1..Len(q) : q[i].pos \in Nat /\ q[i].nsamples \in 1..MaxFrames
  BY <1>3 DEF Chunk
<1>5. /\ q' \in Seq(Chunk)
      /\ Len(q') = Len(q) + 1
      /\ q'[Len(q) + 1] = NewChunk
      /\ \A i \in 1..Len(q) : q'[i] = q[i]
      /\ q' # <<>>
  BY <1>1, <1>2
<1>6. produced' \in Nat /\ out' <= produced'
  BY <1>1, FifoAssumption DEF FifoAssumption
<1>7. Ordered'
  <2>1. \A i \in 1..Len(q') : i \in 1..Len(q) \/ i = Len(q) + 1
    BY <1>3, <1>5
  <2>2. \A i \in 1..Len(q') : out' <= q'[i].pos
    BY <1>1, <1>2, <1>5, <2>1 DEF Ordered
  <2>3. \A i \in 1..Len(q') : q'[i].pos + q'[i].nsamples <= produced'
    <3>1. \A i \in 1..Len(q) : q[i].pos + q[i].nsamples <= produced + frames
      BY <1>1, <1>4, FifoAssumption DEF Ordered, FifoAssumption
    <3>. QED  BY <1>2, <1>5, <2>1, <3>1
  <2>4. \A i, j \in 1..Len(q') : i < j => q'[i].pos + q'[i].nsamples <= q'[j].pos
    <3>. SUFFICES ASSUME NEW i \in 1..Len(q'), NEW j \in 1..Len(q'), i < j
                  PROVE  q'[i].pos + q'[i].nsamples <= q'[j].pos
      OBVIOUS
    <3>1. i \in 1..Len(q)
      BY <1>3, <1>5
    <3>2. CASE j \in 1..Len(q)
      BY <1>5, <3>1, <3>2 DEF Ordered
    <3>3. CASE j = Len(q) + 1
      BY <1>2, <1>5, <3>1, <3>3 DEF Ordered
    <3>. QED  BY <2>1, <3>2, <3>3
  <2>. QED  BY <2>2, <2>3, <2>4 DEF Ordered
<1>8. StreamIntact'
  <2>1. q'[1].pos = out'
    <3>1. CASE q = <<>>
      BY <1>2, <1>5, <3>1 DEF StreamIntact
    <3>2. CASE q # <<>>
      BY <1>1, <1>3, <1>5, <3>2 DEF StreamIntact
    <3>. QED  BY <3>1, <3>2
  <2>2. q'[Len(q')].pos + q'[Len(q')].nsamples = produced'
    BY <1>2, <1>5
  <2>3. \A i \in 1..Len(q') - 1 : q'[i + 1].pos = q'[i].pos + q'[i].nsamples
    <3>. SUFFICES ASSUME NEW i \in 1..Len(q') - 1
                  PROVE  q'[i + 1].pos = q'[i].pos + q'[i].nsamples
      OBVIOUS
    <3>1. i \in 1..Len(q) /\ q'[i] = q[i]
      BY <1>3, <1>5
    <3>2. CASE i = Len(q)
      <4>1. q # <<>>
        BY <1>1, <3>1
      <4>. QED  BY <1>2, <1>5, <3>1, <3>2, <4>1 DEF StreamIntact
    <3>3. CASE i # Len(q)
      <4>1. i \in 1..Len(q) - 1 /\ i + 1 \in 1..Len(q)
        BY <1>3, <3>1, <3>3
      <4>. QED  BY <1>5, <3>1, <4>1 DEF StreamIntact
    <3>. QED  BY <3>2, <3>3
  <2>. QED  BY <1>5, <2>1, <2>2, <2>3 DEF StreamIntact
<1>. QED  BY <1>5, <1>6, <1>7, <1>8

-----------------------------------------------------------------------------
(* The locking discipline: where the threads are and who owns the mutex. *)

ControlInv == /\ mutex \in Thread \cup {None}
              /\ frames \in 0..MaxFrames
              /\ PcOk
              /\ CriticalOwner
              /\ InHand

\* Every step of the three threads keeps the mutex with the one thread that is
\* between its lock and its unlock.
LEMMA ControlStep ==
    ASSUME TypeOK, ControlInv, Next
    PROVE  ControlInv'
<1>. USE FifoAssumption DEF FifoAssumption, ControlInv, PcOk, CriticalOwner, InCritical,
                            InHand, Thread, Goto, Lock, Unlock
<1>1. CASE DeliveryCall
  BY <1>1 DEF DeliveryCall
<1>2. CASE DeliveryDiscontinuity
  BY <1>2 DEF DeliveryDiscontinuity
<1>3. CASE DeliveryLock
  BY <1>3 DEF DeliveryLock
<1>4. CASE DeliveryRefuse
  BY <1>4 DEF DeliveryRefuse
<1>5. CASE DeliveryInsert
  BY <1>5 DEF DeliveryInsert
<1>6. CASE DeliverySignal
  BY <1>6 DEF DeliverySignal
<1>7. CASE DeliveryUnlock
  BY <1>7 DEF DeliveryUnlock
<1>8. CASE AudioLock
  BY <1>8 DEF AudioLock
<1>9. CASE AudioWait
  BY <1>9 DEF AudioWait
<1>10. CASE AudioSpuriousWakeup
  BY <1>10 DEF AudioSpuriousWakeup
<1>11. CASE AudioTake
  <2>1. Head(q) # None
    BY <1>11, HeadIsChunk DEF AudioTake
  <2>. QED  BY <1>11, <2>1 DEF AudioTake
<1>12. CASE AudioUnlock
  BY <1>12 DEF AudioUnlock
<1>13. CASE AudioPlay
  BY <1>13 DEF AudioPlay
<1>14. CASE FlushCall
  BY <1>14 DEF FlushCall
<1>15. CASE FlushLock
  BY <1>15 DEF FlushLock
<1>16. CASE FlushDrain
  BY <1>16 DEF FlushDrain
<1>17. CASE FlushDone
  BY <1>17 DEF FlushDone
<1>. QED  BY <1>1, <1>2, <1>3, <1>4, <1>5, <1>6, <1>7, <1>8, <1>9, <1>10, <1>11, <1>12,
              <1>13, <1>14, <1>15, <1>16, <1>17
           DEF Next, Delivery, Audio, Flush

-----------------------------------------------------------------------------
(* The contents: the list, its counter and the sleeping audio thread. *)

ContentsInv == /\ q \in Seq(Chunk) /\ qlen \in Int /\ afd \in Chunk \cup {None}
               /\ produced \in Nat /\ out \in Nat
               /\ StreamIntact
               /\ Ordered
               /\ out <= produced
               /\ QlenExact
               /\ BoundedBacklog
               /\ NoLostWakeup

\* Steps that leave the list alone.
LEMMA ContentsFrame ==
    ASSUME IInv, UNCHANGED <<q, qlen, produced, out>>, afd' \in {afd, None},
           pc["main"] = "drain" => pc'["main"] = "drain",
           pc'["audio"] = "waiting" => q = <<>> \/ pc'["delivery"] = "signal"
    PROVE  ContentsInv'
<1>1. StreamIntact' /\ Ordered'
  BY DEF IInv, StreamIntact, Ordered
<1>2. QlenExact' /\ BoundedBacklog' /\ NoLostWakeup'
  BY DEF IInv, QlenExact, BoundedBacklog, NoLostWakeup
<1>. QED  BY <1>1, <1>2 DEF IInv, TypeOK, ContentsInv

\* music_delivery appends a chunk and counts it.
LEMMA InsertStep ==
    ASSUME IInv, DeliveryInsert
    PROVE  ContentsInv'
<1>1. /\ pc["delivery"] = "test" /\ mutex = "delivery"
      /\ pc'["delivery"] = "signal" /\ pc'["audio"] = pc["audio"]
      /\ pc'["main"] = pc["main"] /\ pc["main"] # "drain"
  BY DEF DeliveryInsert, IInv, TypeOK, PcOk, CriticalOwner, InCritical, Thread, Goto
<1>2. frames # 0 /\ frames \in 0..MaxFrames
  BY <1>1 DEF IInv, InHand, TypeOK
<1>3. /\ q' \in Seq(Chunk) /\ produced' \in Nat /\ out' <= produced'
      /\ StreamIntact' /\ Ordered'
  BY <1>2, AddLast DEF IInv, DeliveryInsert
<1>4. qlen = produced - out /\ qlen \in Int /\ produced \in Nat /\ out \in Nat
  BY <1>1 DEF IInv, QlenExact, TypeOK
<1>5. qlen' \in Int /\ QlenExact' /\ BoundedBacklog'
  BY <1>1, <1>2, <1>4, FifoAssumption
     DEF DeliveryInsert, QlenExact, BoundedBacklog, FifoAssumption
<1>6. NoLostWakeup'
  BY <1>1 DEF NoLostWakeup
<1>. QED  BY <1>3, <1>4, <1>5, <1>6 DEF ContentsInv, DeliveryInsert, IInv, TypeOK

\* audio_get unlinks the first chunk and counts it off.
LEMMA TakeStep ==
    ASSUME IInv, AudioTake
    PROVE  ContentsInv'
<1>1. /\ pc["audio"] = "test" /\ mutex = "audio"
      /\ pc'["audio"] = "unlock"
      /\ pc'["main"] = pc["main"] /\ pc["main"] # "drain"
  BY DEF AudioTake, IInv, TypeOK, PcOk, CriticalOwner, InCritical, Thread, Goto
<1>2. /\ q' \in Seq(Chunk) /\ out' \in Nat /\ out' <= produced'
      /\ Head(q) \in Chunk /\ StreamIntact' /\ Ordered'
  BY DropFirst DEF IInv, AudioTake
<1>3. Head(q).nsamples \in 1..MaxFrames
  BY <1>2 DEF Chunk
<1>4. /\ qlen = produced - out /\ qlen \in Int /\ produced \in Nat /\ out \in Nat
      /\ produced - out <= SampleRate + MaxFrames
  BY <1>1 DEF IInv, QlenExact, BoundedBacklog, TypeOK
<1>5. qlen' \in Int /\ QlenExact' /\ BoundedBacklog'
  BY <1>1, <1>3, <1>4, FifoAssumption
     DEF AudioTake, QlenExact, BoundedBacklog, FifoAssumption
<1>6. NoLostWakeup'
  BY <1>1 DEF NoLostWakeup
<1>. QED  BY <1>2, <1>4, <1>5, <1>6 DEF ContentsInv, AudioTake

\* audio_fifo_flush unlinks the first chunk; the counter has to wait.
LEMMA DrainStep ==
    ASSUME IInv, FlushDrain
    PROVE  ContentsInv'
<1>1. pc["main"] = "drain" /\ pc' = pc /\ mutex = "main"
  BY DEF FlushDrain, IInv, CriticalOwner, InCritical, Thread
<1>2. /\ q' \in Seq(Chunk) /\ out' \in Nat /\ out' <= produced'
      /\ Head(q) \in Chunk /\ StreamIntact' /\ Ordered'
  BY DropFirst DEF IInv, FlushDrain
<1>3. Head(q).nsamples \in 1..MaxFrames
  BY <1>2 DEF Chunk
<1>4. produced - out <= SampleRate + MaxFrames /\ produced \in Nat /\ out \in Nat
  BY DEF IInv, BoundedBacklog, TypeOK
<1>5. QlenExact' /\ BoundedBacklog'
  BY <1>1, <1>3, <1>4, FifoAssumption
     DEF FlushDrain, QlenExact, BoundedBacklog, FifoAssumption
<1>6. NoLostWakeup'
  <2>1. pc["delivery"] # "signal"
    BY <1>1 DEF IInv, CriticalOwner, InCritical, Thread
  <2>2. pc["audio"] # "waiting"
    BY <2>1 DEF IInv, NoLostWakeup, FlushDrain
  <2>. QED  BY <1>1, <2>2 DEF NoLostWakeup
<1>. QED  BY <1>2, <1>5, <1>6 DEF ContentsInv, IInv, TypeOK, FlushDrain

\* The end of audio_fifo_flush: the list is empty and so is the counter.
LEMMA FlushDoneStep ==
    ASSUME IInv, FlushDone
    PROVE  ContentsInv'
<1>1. pc'["audio"] = pc["audio"] /\ pc'["delivery"] = pc["delivery"]
  BY DEF FlushDone, IInv, TypeOK, PcOk, Goto, Thread
<1>2. StreamIntact' /\ Ordered'
  BY DEF FlushDone, IInv, StreamIntact, Ordered
<1>3. out = produced /\ out \in Nat
  BY DEF FlushDone, IInv, StreamIntact, TypeOK
<1>4. QlenExact' /\ BoundedBacklog'
  BY <1>3, FifoAssumption DEF FlushDone, QlenExact, BoundedBacklog, FifoAssumption
<1>5. NoLostWakeup'
  BY <1>1 DEF FlushDone, NoLostWakeup
<1>. QED  BY <1>2, <1>4, <1>5 DEF ContentsInv, IInv, TypeOK, FlushDone

\* Every step keeps list, counter and wait in agreement.
LEMMA ContentsStep ==
    ASSUME IInv, Next
    PROVE  ContentsInv'
<1>. USE DEF IInv, TypeOK, PcOk, Thread, Goto, NoLostWakeup
<1>1. CASE DeliveryCall
  BY <1>1, ContentsFrame DEF DeliveryCall
<1>2. CASE DeliveryDiscontinuity
  BY <1>2, ContentsFrame DEF DeliveryDiscontinuity
<1>3. CASE DeliveryLock
  BY <1>3, ContentsFrame DEF DeliveryLock
<1>4. CASE DeliveryRefuse
  BY <1>4, ContentsFrame DEF DeliveryRefuse
<1>5. CASE DeliveryInsert
  BY <1>5, InsertStep
<1>6. CASE DeliverySignal
  BY <1>6, ContentsFrame DEF DeliverySignal
<1>7. CASE DeliveryUnlock
  BY <1>7, ContentsFrame DEF DeliveryUnlock
<1>8. CASE AudioLock
  BY <1>8, ContentsFrame DEF AudioLock
<1>9. CASE AudioWait
  BY <1>9, ContentsFrame DEF AudioWait
<1>10. CASE AudioSpuriousWakeup
  BY <1>10, ContentsFrame DEF AudioSpuriousWakeup
<1>11. CASE AudioTake
  BY <1>11, TakeStep
<1>12. CASE AudioUnlock
  BY <1>12, ContentsFrame DEF AudioUnlock
<1>13. CASE AudioPlay
  BY <1>13, ContentsFrame DEF AudioPlay
<1>14. CASE FlushCall
  BY <1>14, ContentsFrame DEF FlushCall
<1>15. CASE FlushLock
  BY <1>15, ContentsFrame DEF FlushLock
<1>16. CASE FlushDrain
  BY <1>16, DrainStep
<1>17. CASE FlushDone
  BY <1>17, FlushDoneStep
<1>. QED  BY <1>1, <1>2, <1>3, <1>4, <1>5, <1>6, <1>7, <1>8, <1>9, <1>10, <1>11, <1>12,
              <1>13, <1>14, <1>15, <1>16, <1>17
           DEF Next, Delivery, Audio, Flush

-----------------------------------------------------------------------------
(* The theorems. *)

LEMMA InitIInv == Init => IInv
<1>. SUFFICES ASSUME Init PROVE IInv
  OBVIOUS
<1>. USE FifoAssumption DEF FifoAssumption, Init
<1>1. q \in Seq(Chunk) /\ Len(q) = 0
  OBVIOUS
<1>2. TypeOK
  BY <1>1 DEF TypeOK, PcOk, Thread
<1>3. CriticalOwner /\ InHand
  BY DEF CriticalOwner, InCritical, Thread, InHand
<1>4. StreamIntact /\ Ordered
  BY <1>1 DEF StreamIntact, Ordered
<1>. QED  BY <1>2, <1>3, <1>4 DEF IInv, QlenExact, BoundedBacklog, NoLostWakeup

LEMMA NextIInv == IInv /\ [Next]_vars => IInv'
<1>. SUFFICES ASSUME IInv, [Next]_vars PROVE IInv'
  OBVIOUS
<1>1. CASE Next
  <2>1. ControlInv'
    BY <1>1, ControlStep DEF IInv, TypeOK, ControlInv
  <2>2. ContentsInv'
    BY <1>1, ContentsStep
  <2>. QED  BY <2>1, <2>2 DEF IInv, TypeOK, ControlInv, ContentsInv
<1>2. CASE UNCHANGED vars
  BY <1>2 DEF vars, IInv, TypeOK, PcOk, CriticalOwner, InCritical, InHand, StreamIntact,
              Ordered, QlenExact, BoundedBacklog, NoLostWakeup
<1>. QED  BY <1>1, <1>2

LEMMA SafeIInv == SafeSpec => []IInv
  BY InitIInv, NextIInv, PTL DEF SafeSpec

\* Each variable keeps the type of its C declaration; no step is undefined.
THEOREM FifoTyped == SafeSpec => []TypeOK
<1>1. IInv => TypeOK
  BY DEF IInv
<1>. QED  BY <1>1, SafeIInv, PTL

\* Every path of music_delivery, audio_get and audio_fifo_flush gives the mutex
\* back, and only its owner is between the lock and the unlock.
THEOREM OneThreadInside == SafeSpec => []CriticalOwner
<1>1. IInv => CriticalOwner
  BY DEF IInv
<1>. QED  BY <1>1, SafeIInv, PTL

\* The fifo is a fifo, whatever its three threads do and in whatever order: the
\* frames that wait are one unbroken run of the accepted stream.
THEOREM FifoCorrect == SafeSpec => []StreamIntact
<1>1. IInv => StreamIntact
  BY DEF IInv
<1>. QED  BY <1>1, SafeIInv, PTL

\* qlen counts the frames that wait whenever another thread can read it.
THEOREM CounterExact == SafeSpec => []QlenExact
<1>1. IInv => QlenExact
  BY DEF IInv
<1>. QED  BY <1>1, SafeIInv, PTL

\* The backlog never exceeds one second and one delivery.
THEOREM BacklogBounded == SafeSpec => []BoundedBacklog
<1>1. IInv => BoundedBacklog
  BY DEF IInv
<1>. QED  BY <1>1, SafeIInv, PTL

\* audio_get never sleeps through a chunk.
THEOREM NeverSleepsOnWork == SafeSpec => []NoLostWakeup
<1>1. IInv => NoLostWakeup
  BY DEF IInv
<1>. QED  BY <1>1, SafeIInv, PTL

-----------------------------------------------------------------------------
(* The fifo implements SampleStream. *)

LEMMA RefineInit == Init => Stream!SInit
  BY DEF Init, Stream!SInit

LEMMA RefineStep ==
    ASSUME IInv, Next
    PROVE  [Stream!SNext]_(Stream!svars)
<1>1. CASE DeliveryCall
  BY <1>1 DEF DeliveryCall, Goto, IInv, TypeOK, PcOk, Thread, Stream!svars
<1>2. CASE DeliveryDiscontinuity
  BY <1>2 DEF DeliveryDiscontinuity, Goto, IInv, TypeOK, PcOk, Thread, Stream!svars
<1>3. CASE DeliveryLock
  BY <1>3 DEF DeliveryLock, Goto, IInv, TypeOK, PcOk, Thread, Stream!svars
<1>4. CASE DeliveryRefuse
  BY <1>4 DEF DeliveryRefuse, Goto, IInv, TypeOK, PcOk, Thread, Stream!svars
<1>5. CASE DeliveryInsert
  <2>1. pc["main"] # "drain" /\ pc'["main"] # "drain" /\ frames # 0
    BY <1>5 DEF DeliveryInsert, IInv, TypeOK, PcOk, CriticalOwner, InCritical, InHand,
                Thread, Goto
  <2>2. frames \in 1..MaxFrames /\ produced - out <= SampleRate
    BY <1>5, <2>1, FifoAssumption DEF DeliveryInsert, IInv, TypeOK, QlenExact, FifoAssumption
  <2>3. Stream!Accept
    BY <1>5, <2>1, <2>2 DEF DeliveryInsert, Stream!Accept
  <2>. QED  BY <2>3 DEF Stream!SNext
<1>6. CASE DeliverySignal
  BY <1>6 DEF DeliverySignal, Goto, IInv, TypeOK, PcOk, Thread, Stream!svars
<1>7. CASE DeliveryUnlock
  BY <1>7 DEF DeliveryUnlock, Goto, IInv, TypeOK, PcOk, Thread, Stream!svars
<1>8. CASE AudioLock
  BY <1>8 DEF AudioLock, Goto, IInv, TypeOK, PcOk, Thread, Stream!svars
<1>9. CASE AudioWait
  BY <1>9 DEF AudioWait, Goto, IInv, TypeOK, PcOk, Thread, Stream!svars
<1>10. CASE AudioSpuriousWakeup
  BY <1>10 DEF AudioSpuriousWakeup, Goto, IInv, TypeOK, PcOk, Thread, Stream!svars
<1>11. CASE AudioTake
  <2>1. pc["main"] # "drain" /\ pc'["main"] # "drain" /\ afd = None
    BY <1>11 DEF AudioTake, IInv, TypeOK, PcOk, CriticalOwner, InCritical, InHand,
                 Thread, Goto
  <2>2. Head(q) \in Chunk /\ out' <= produced
    BY <1>11, DropFirst DEF AudioTake, IInv
  <2>3. Head(q).pos = out /\ Head(q).nsamples \in 1..MaxFrames
    <3>1. Head(q) = q[1]
      BY <1>11 DEF AudioTake, IInv, TypeOK
    <3>. QED  BY <1>11, <2>2, <3>1 DEF AudioTake, IInv, StreamIntact, Chunk
  <2>4. Head(q) = [pos |-> out, nsamples |-> Head(q).nsamples]
    BY <2>2, <2>3 DEF Chunk
  <2>5. Stream!Take
    BY <1>11, <2>1, <2>2, <2>3, <2>4 DEF AudioTake, Stream!Take
  <2>. QED  BY <2>5 DEF Stream!SNext
<1>12. CASE AudioUnlock
  BY <1>12 DEF AudioUnlock, Goto, IInv, TypeOK, PcOk, Thread, Stream!svars
<1>13. CASE AudioPlay
  <2>1. afd # None /\ pc'["main"] = pc["main"]
    BY <1>13 DEF AudioPlay, IInv, TypeOK, PcOk, InHand, Thread, Goto
  <2>2. Stream!Finish
    BY <1>13, <2>1 DEF AudioPlay, Stream!Finish
  <2>. QED  BY <2>2 DEF Stream!SNext
<1>14. CASE FlushCall
  BY <1>14 DEF FlushCall, Goto, IInv, TypeOK, PcOk, Thread, Stream!svars
<1>15. CASE FlushLock
  <2>1. pc'["main"] = "drain"
    BY <1>15 DEF FlushLock, IInv, TypeOK, PcOk, Thread, Goto
  <2>2. Stream!Clear
    BY <1>15, <2>1 DEF FlushLock, Stream!Clear
  <2>. QED  BY <2>2 DEF Stream!SNext
<1>16. CASE FlushDrain
  BY <1>16 DEF FlushDrain, Stream!svars
<1>17. CASE FlushDone
  BY <1>17 DEF FlushDone, Goto, IInv, TypeOK, PcOk, Thread, StreamIntact, Stream!svars
<1>. QED  BY <1>1, <1>2, <1>3, <1>4, <1>5, <1>6, <1>7, <1>8, <1>9, <1>10, <1>11, <1>12,
              <1>13, <1>14, <1>15, <1>16, <1>17
           DEF Next, Delivery, Audio, Flush

\* Whatever the threads do, the two ends of the fifo see SampleStream: runs in
\* order and without a gap, refusal only beyond one second, and a flush that
\* takes away everything that waits, at once.
THEOREM FifoRefines == SafeSpec => ImplementsStream
<1>1. IInv /\ [Next]_vars => [Stream!SNext]_(Stream!svars)
  <2>1. CASE UNCHANGED vars
    BY <2>1 DEF vars, Stream!svars
  <2>. QED  BY <2>1, RefineStep
<1>. QED  BY <1>1, RefineInit, SafeIInv, PTL DEF SafeSpec, ImplementsStream, Stream!SSpec

-----------------------------------------------------------------------------
(***************************************************************************)
(* Nobody is kept waiting.  That a step which is due can be taken is the   *)
(* invariant ThreadsGoOn, which contains ENABLED and which TLC checks; the *)
(* theorems below have it as their premise.                                *)
(***************************************************************************)

At(t, s) == pc[t] = s
IsFree == mutex = None

\* What the next step of any thread leaves of a thread's place.
LEMMA DeliveryStays ==
    ASSUME IInv, [Next]_vars
    PROVE  /\ At("delivery", "test")
                => At("delivery", "test")' \/ At("delivery", "signal")'
                   \/ (At("delivery", "idle") /\ IsFree)'
           /\ At("delivery", "signal")
                => At("delivery", "signal")' \/ At("delivery", "unlock")'
           /\ At("delivery", "unlock")
                => At("delivery", "unlock")' \/ (At("delivery", "idle") /\ IsFree)'
           /\ At("delivery", "called") /\ frames = 0
                => (At("delivery", "called") /\ frames = 0)' \/ At("delivery", "idle")'
           /\ At("delivery", "called") /\ frames # 0
                => (At("delivery", "called") /\ frames # 0)' \/ At("delivery", "test")'
<1>1. PcOk
  BY DEF IInv, TypeOK
<1>. QED
  BY <1>1 DEF At, IsFree, PcOk, Thread, Next, Delivery, Audio, Flush, vars, Goto, Unlock, Lock,
              DeliveryCall, DeliveryDiscontinuity, DeliveryLock, DeliveryRefuse,
              DeliveryInsert, DeliverySignal, DeliveryUnlock, AudioLock, AudioWait,
              AudioSpuriousWakeup, AudioTake, AudioUnlock, AudioPlay, FlushCall, FlushLock,
              FlushDrain, FlushDone

LEMMA AudioStays ==
    ASSUME IInv, [Next]_vars
    PROVE  /\ At("audio", "lock") => At("audio", "lock")' \/ At("audio", "test")'
           /\ At("audio", "test")
                => At("audio", "test")' \/ At("audio", "unlock")' \/ IsFree'
           /\ At("audio", "unlock")
                => At("audio", "unlock")' \/ (At("audio", "play") /\ IsFree)'
           /\ At("audio", "play") => At("audio", "play")' \/ At("audio", "lock")'
           /\ At("audio", "waiting") /\ At("delivery", "signal")
                => (At("audio", "waiting") /\ At("delivery", "signal"))' \/ At("audio", "lock")'
<1>1. PcOk
  BY DEF IInv, TypeOK
<1>. QED
  BY <1>1 DEF At, IsFree, PcOk, Thread, Next, Delivery, Audio, Flush, vars, Goto, Unlock, Lock,
              DeliveryCall, DeliveryDiscontinuity, DeliveryLock, DeliveryRefuse,
              DeliveryInsert, DeliverySignal, DeliveryUnlock, AudioLock, AudioWait,
              AudioSpuriousWakeup, AudioTake, AudioUnlock, AudioPlay, FlushCall, FlushLock,
              FlushDrain, FlushDone

LEMMA MainStays ==
    ASSUME IInv, [Next]_vars
    PROVE  /\ At("main", "lock") => At("main", "lock")' \/ At("main", "drain")'
           /\ At("main", "drain")
                => At("main", "drain")' \/ (At("main", "idle") /\ IsFree)'
<1>1. PcOk
  BY DEF IInv, TypeOK
<1>. QED
  BY <1>1 DEF At, IsFree, PcOk, Thread, Next, Delivery, Audio, Flush, vars, Goto, Unlock, Lock,
              DeliveryCall, DeliveryDiscontinuity, DeliveryLock, DeliveryRefuse,
              DeliveryInsert, DeliverySignal, DeliveryUnlock, AudioLock, AudioWait,
              AudioSpuriousWakeup, AudioTake, AudioUnlock, AudioPlay, FlushCall, FlushLock,
              FlushDrain, FlushDone

\* What a thread's own step does to it.
LEMMA StepsGoOn ==
    ASSUME IInv
    PROVE  /\ DeliveryDiscontinuity => At("delivery", "idle")'
           /\ DeliveryLock => At("delivery", "test")'
           /\ DeliveryRefuse \/ DeliveryInsert
                => At("delivery", "signal")' \/ (At("delivery", "idle") /\ IsFree)'
           /\ DeliverySignal => At("delivery", "unlock")'
           /\ DeliverySignal /\ At("audio", "waiting") => At("audio", "lock")'
           /\ DeliveryUnlock => (At("delivery", "idle") /\ IsFree)'
           /\ AudioLock => At("audio", "test")'
           /\ AudioWait \/ AudioTake => At("audio", "unlock")' \/ IsFree'
           /\ AudioUnlock => (At("audio", "play") /\ IsFree)'
           /\ AudioPlay => At("audio", "lock")'
           /\ FlushLock => At("main", "drain")'
<1>1. PcOk
  BY DEF IInv, TypeOK
<1>. QED
  BY <1>1 DEF At, IsFree, PcOk, Thread, Goto, Unlock, Lock,
              DeliveryDiscontinuity, DeliveryLock, DeliveryRefuse,
              DeliveryInsert, DeliverySignal, DeliveryUnlock, AudioLock, AudioWait,
              AudioTake, AudioUnlock, AudioPlay, FlushLock

\* A mutex that is not free is owned by a thread that can go on.
LEMMA OwnerIsInside ==
    IInv => \/ IsFree
            \/ At("delivery", "test") \/ At("delivery", "signal") \/ At("delivery", "unlock")
            \/ At("audio", "test") \/ At("audio", "unlock")
            \/ At("main", "drain")
BY DEF IInv, TypeOK, CriticalOwner, InCritical, At, IsFree

LEMMA SpecIsSafe == Spec => []IInv /\ [][Next]_vars
  BY SafeIInv, PTL DEF Spec, SafeSpec

\* music_delivery and audio_get, once they have the mutex, give it back.
LEMMA DeliveryFrees ==
    Spec /\ []ThreadsGoOn
      => /\ At("delivery", "test")
              ~> At("delivery", "signal") \/ (At("delivery", "idle") /\ IsFree)
         /\ At("delivery", "signal") ~> At("delivery", "unlock")
         /\ At("delivery", "unlock") ~> At("delivery", "idle") /\ IsFree
<1>1. IInv /\ [Next]_vars /\ At("delivery", "test")
         => \/ At("delivery", "test")' \/ At("delivery", "signal")'
            \/ (At("delivery", "idle") /\ IsFree)'
  BY DeliveryStays
<1>2. IInv /\ [Next]_vars /\ At("delivery", "signal")
         => At("delivery", "signal")' \/ At("delivery", "unlock")'
  BY DeliveryStays
<1>3. IInv /\ [Next]_vars /\ At("delivery", "unlock")
         => At("delivery", "unlock")' \/ (At("delivery", "idle") /\ IsFree)'
  BY DeliveryStays
<1>4. IInv /\ <<DeliveryRefuse \/ DeliveryInsert>>_vars
         => At("delivery", "signal")' \/ (At("delivery", "idle") /\ IsFree)'
  BY StepsGoOn
<1>5. IInv /\ <<DeliverySignal>>_vars => At("delivery", "unlock")'
  BY StepsGoOn
<1>6. IInv /\ <<DeliveryUnlock>>_vars => (At("delivery", "idle") /\ IsFree)'
  BY StepsGoOn
<1>7. /\ ThreadsGoOn /\ At("delivery", "test")
           => ENABLED <<DeliveryRefuse \/ DeliveryInsert>>_vars
      /\ ThreadsGoOn /\ At("delivery", "signal") => ENABLED <<DeliverySignal>>_vars
      /\ ThreadsGoOn /\ At("delivery", "unlock") => ENABLED <<DeliveryUnlock>>_vars
  BY DEF ThreadsGoOn, At
<1>8. Spec => /\ WF_vars(DeliveryRefuse \/ DeliveryInsert)
              /\ WF_vars(DeliverySignal) /\ WF_vars(DeliveryUnlock)
  BY PTL DEF Spec, Fairness
<1>9. Spec /\ []ThreadsGoOn
        => (At("delivery", "test")
              ~> At("delivery", "signal") \/ (At("delivery", "idle") /\ IsFree))
  BY <1>1, <1>4, <1>7, <1>8, SpecIsSafe, PTL
<1>10. Spec /\ []ThreadsGoOn => (At("delivery", "signal") ~> At("delivery", "unlock"))
  BY <1>2, <1>5, <1>7, <1>8, SpecIsSafe, PTL
<1>11. Spec /\ []ThreadsGoOn => (At("delivery", "unlock") ~> At("delivery", "idle") /\ IsFree)
  BY <1>3, <1>6, <1>7, <1>8, SpecIsSafe, PTL
<1>. QED  BY <1>9, <1>10, <1>11

LEMMA AudioFrees ==
    Spec /\ []ThreadsGoOn
      => /\ At("audio", "test") ~> At("audio", "unlock") \/ IsFree
         /\ At("audio", "unlock") ~> At("audio", "play") /\ IsFree
         /\ At("audio", "play") ~> At("audio", "lock")
<1>1. IInv /\ [Next]_vars /\ At("audio", "test")
         => At("audio", "test")' \/ At("audio", "unlock")' \/ IsFree'
  BY AudioStays
<1>2. IInv /\ [Next]_vars /\ At("audio", "unlock")
         => At("audio", "unlock")' \/ (At("audio", "play") /\ IsFree)'
  BY AudioStays
<1>3. IInv /\ [Next]_vars /\ At("audio", "play")
         => At("audio", "play")' \/ At("audio", "lock")'
  BY AudioStays
<1>4. IInv /\ <<AudioWait \/ AudioTake>>_vars => At("audio", "unlock")' \/ IsFree'
  BY StepsGoOn
<1>5. IInv /\ <<AudioUnlock>>_vars => (At("audio", "play") /\ IsFree)'
  BY StepsGoOn
<1>6. IInv /\ <<AudioPlay>>_vars => At("audio", "lock")'
  BY StepsGoOn
<1>7. /\ ThreadsGoOn /\ At("audio", "test") => ENABLED <<AudioWait \/ AudioTake>>_vars
      /\ ThreadsGoOn /\ At("audio", "unlock") => ENABLED <<AudioUnlock>>_vars
      /\ ThreadsGoOn /\ At("audio", "play") => ENABLED <<AudioPlay>>_vars
  BY DEF ThreadsGoOn, At
<1>8. Spec => /\ WF_vars(AudioWait \/ AudioTake)
              /\ WF_vars(AudioUnlock) /\ WF_vars(AudioPlay)
  BY PTL DEF Spec, Fairness
<1>9. Spec /\ []ThreadsGoOn => (At("audio", "test") ~> At("audio", "unlock") \/ IsFree)
  BY <1>1, <1>4, <1>7, <1>8, SpecIsSafe, PTL
<1>10. Spec /\ []ThreadsGoOn => (At("audio", "unlock") ~> At("audio", "play") /\ IsFree)
  BY <1>2, <1>5, <1>7, <1>8, SpecIsSafe, PTL
<1>11. Spec /\ []ThreadsGoOn => (At("audio", "play") ~> At("audio", "lock"))
  BY <1>3, <1>6, <1>7, <1>8, SpecIsSafe, PTL
<1>. QED  BY <1>9, <1>10, <1>11

-----------------------------------------------------------------------------
(* The frame that waits longest. *)

Oldest(p) == out = p /\ p < produced
Left(p) == out > p

\* The step of a thread moves out forward or leaves it, and produced too.
LEMMA OldestStays ==
    ASSUME NEW p \in Nat, IInv, [Next]_vars, Oldest(p)
    PROVE  /\ Oldest(p)' \/ Left(p)'
           /\ At("main", "drain") => (Oldest(p) /\ At("main", "drain"))' \/ Left(p)'
           /\ At("audio", "test") => (Oldest(p) /\ At("audio", "test"))' \/ Left(p)'
           /\ FlushDrain \/ FlushDone => Left(p)'
           /\ AudioWait \/ AudioTake => Left(p)'
<1>1. q \in Seq(Chunk) /\ q # <<>> /\ out \in Nat /\ produced \in Nat /\ frames \in Nat
  BY DEF IInv, TypeOK, StreamIntact, Oldest
<1>2. Head(q).nsamples \in Nat /\ Head(q).nsamples > 0
  <2>1. Head(q) \in Chunk
    BY <1>1, HeadIsChunk DEF IInv
  <2>. QED  BY <2>1, FifoAssumption DEF Chunk, FifoAssumption
<1>3. PcOk
  BY DEF IInv, TypeOK
<1>4. CASE AudioTake \/ FlushDrain
  BY <1>1, <1>2, <1>4 DEF AudioTake, FlushDrain, Oldest, Left
<1>5. CASE AudioWait \/ FlushDone
  BY <1>1, <1>5 DEF AudioWait, FlushDone
<1>6. CASE DeliveryInsert
  BY <1>1, <1>3, <1>6
  DEF DeliveryInsert, Oldest, At, Goto, PcOk, Thread, AudioWait, AudioTake, FlushDrain,
      FlushDone
<1>7. CASE \/ DeliveryCall \/ DeliveryDiscontinuity \/ DeliveryLock \/ DeliveryRefuse
           \/ DeliverySignal \/ DeliveryUnlock \/ AudioLock \/ AudioSpuriousWakeup
           \/ AudioUnlock \/ AudioPlay \/ FlushCall \/ FlushLock \/ UNCHANGED vars
  <2>1. UNCHANGED <<out, produced>>
    BY <1>7 DEF DeliveryCall, DeliveryDiscontinuity, DeliveryLock, DeliveryRefuse,
                DeliverySignal, DeliveryUnlock, AudioLock, AudioSpuriousWakeup, AudioUnlock,
                AudioPlay, FlushCall, FlushLock, vars
  <2>2. /\ At("main", "drain") => At("main", "drain")'
        /\ At("audio", "test") => At("audio", "test")'
    BY <1>3, <1>7
    DEF DeliveryCall, DeliveryDiscontinuity, DeliveryLock, DeliveryRefuse, DeliverySignal,
        DeliveryUnlock, AudioLock, AudioSpuriousWakeup, AudioUnlock, AudioPlay, FlushCall,
        FlushLock, vars, At, Goto, PcOk, Thread
  <2>3. q' = q
    BY <1>7 DEF DeliveryCall, DeliveryDiscontinuity, DeliveryLock, DeliveryRefuse,
                DeliverySignal, DeliveryUnlock, AudioLock, AudioSpuriousWakeup, AudioUnlock,
                AudioPlay, FlushCall, FlushLock, vars
  <2>. QED  BY <1>1, <1>2, <2>1, <2>2, <2>3
            DEF Oldest, Left, AudioWait, AudioTake, FlushDrain, FlushDone
<1>. QED  BY <1>4, <1>5, <1>6, <1>7 DEF Next, Delivery, Audio, Flush

\* A flush that has the mutex comes to the frame.
LEMMA OldestFlushed ==
    ASSUME NEW p \in Nat
    PROVE  Spec /\ []ThreadsGoOn => (Oldest(p) /\ At("main", "drain") ~> Left(p))
<1>1. IInv /\ [Next]_vars /\ Oldest(p) /\ At("main", "drain")
         => (Oldest(p) /\ At("main", "drain"))' \/ Left(p)'
  BY OldestStays
<1>2. IInv /\ [Next]_vars /\ <<FlushDrain \/ FlushDone>>_vars /\ Oldest(p) => Left(p)'
  BY OldestStays
<1>3. ThreadsGoOn /\ At("main", "drain") => ENABLED <<FlushDrain \/ FlushDone>>_vars
  BY DEF ThreadsGoOn, At
<1>4. Spec => WF_vars(FlushDrain \/ FlushDone)
  BY PTL DEF Spec, Fairness
<1>. QED  BY <1>1, <1>2, <1>3, <1>4, SpecIsSafe, PTL

\* So does audio_get, once it has the mutex.
LEMMA OldestTaken ==
    ASSUME NEW p \in Nat
    PROVE  Spec /\ []ThreadsGoOn => (Oldest(p) /\ At("audio", "test") ~> Left(p))
<1>1. IInv /\ [Next]_vars /\ Oldest(p) /\ At("audio", "test")
         => (Oldest(p) /\ At("audio", "test"))' \/ Left(p)'
  BY OldestStays
<1>2. IInv /\ [Next]_vars /\ <<AudioWait \/ AudioTake>>_vars /\ Oldest(p) => Left(p)'
  BY OldestStays
<1>3. ThreadsGoOn /\ At("audio", "test") => ENABLED <<AudioWait \/ AudioTake>>_vars
  BY DEF ThreadsGoOn, At
<1>4. Spec => WF_vars(AudioWait \/ AudioTake)
  BY PTL DEF Spec, Fairness
<1>. QED  BY <1>1, <1>2, <1>3, <1>4, SpecIsSafe, PTL

\* While the frame waits, whoever has the mutex gives it back.
LEMMA OldestFrees ==
    ASSUME NEW p \in Nat
    PROVE  Spec /\ []ThreadsGoOn => (Oldest(p) ~> IsFree \/ Left(p))
<1>1. IInv /\ [Next]_vars /\ Oldest(p) => Oldest(p)' \/ Left(p)'
  BY OldestStays
<1>. QED  BY <1>1, OwnerIsInside, DeliveryFrees, AudioFrees, OldestFlushed, SpecIsSafe, PTL

\* A thread that waits on the condition, while a frame waits, is about to be woken.
LEMMA OldestWakes ==
    ASSUME NEW p \in Nat
    PROVE  Spec /\ []ThreadsGoOn
             => (Oldest(p) /\ At("audio", "waiting") ~> At("audio", "lock"))
<1>1. IInv /\ Oldest(p) /\ At("audio", "waiting") => At("delivery", "signal")
  BY DEF IInv, NoLostWakeup, StreamIntact, TypeOK, Oldest, At
<1>2. IInv /\ [Next]_vars /\ At("audio", "waiting") /\ At("delivery", "signal")
         => \/ (At("audio", "waiting") /\ At("delivery", "signal"))'
            \/ At("audio", "lock")'
  BY AudioStays
<1>3. IInv /\ <<DeliverySignal>>_vars /\ At("audio", "waiting") => At("audio", "lock")'
  BY StepsGoOn
<1>4. ThreadsGoOn /\ At("delivery", "signal") => ENABLED <<DeliverySignal>>_vars
  BY DEF ThreadsGoOn, At
<1>5. Spec => WF_vars(DeliverySignal)
  BY PTL DEF Spec, Fairness
<1>. QED  BY <1>1, <1>2, <1>3, <1>4, <1>5, SpecIsSafe, PTL

LEMMA AudioIsSomewhere ==
    IInv => \/ At("audio", "lock") \/ At("audio", "test") \/ At("audio", "waiting")
            \/ At("audio", "unlock") \/ At("audio", "play")
BY DEF IInv, TypeOK, PcOk, At

\* The frame that waits longest leaves the fifo, into the hand of the audio thread or by
\* a flush, although music_delivery and audio_fifo_flush may take the mutex again and
\* again before the audio thread does.
OldestLeaves(p) == Oldest(p) ~> Left(p)

LEMMA OneFrameLeaves ==
    ASSUME NEW p \in Nat
    PROVE  Spec /\ []ThreadsGoOn => OldestLeaves(p)
<1>1. IInv /\ [Next]_vars /\ Oldest(p) => Oldest(p)' \/ Left(p)'
  BY OldestStays
<1>2. IInv /\ [Next]_vars /\ At("audio", "lock") => At("audio", "lock")' \/ At("audio", "test")'
  BY AudioStays
<1>3. IInv /\ <<AudioLock>>_vars => At("audio", "test")'
  BY StepsGoOn
<1>4. ThreadsGoOn /\ At("audio", "lock") /\ IsFree => ENABLED <<AudioLock>>_vars
  BY DEF ThreadsGoOn, At, IsFree
<1>5. Spec => SF_vars(AudioLock)
  BY PTL DEF Spec, Fairness
<1>6. Spec /\ []ThreadsGoOn
        => (Oldest(p) /\ At("audio", "lock") ~> At("audio", "test") \/ Left(p))
  BY <1>1, <1>2, <1>3, <1>4, <1>5, OldestFrees, SpecIsSafe, PTL
<1>7. Spec /\ []ThreadsGoOn => (Oldest(p) ~> Left(p))
  <2>1. Spec /\ []ThreadsGoOn
          => (Oldest(p) /\ At("audio", "unlock") ~> At("audio", "lock") \/ Left(p))
    BY AudioFrees, PTL
  <2>. QED  BY <1>1, <1>6, <2>1, AudioIsSomewhere, AudioFrees, OldestTaken, OldestWakes,
               SpecIsSafe, PTL
<1>. QED  BY <1>7 DEF OldestLeaves

\* The head of the stream never stands still: whichever frame has waited longest is taken
\* or flushed.  (FramesDrain follows by going from each such frame to the next.)
THEOREM FirstFrameLeaves ==
    Spec /\ []ThreadsGoOn => \A p \in Nat : OldestLeaves(p)
  BY OneFrameLeaves

-----------------------------------------------------------------------------
(* The calls return. *)

\* The loop of audio_fifo_flush, which has the mutex, only makes the list shorter.
DrainShortens ==
    [][ At("main", "drain") /\ At("main", "drain")'
          => q' = q \/ (q # <<>> /\ q' = Tail(q)) ]_vars

THEOREM FlushShortens == SafeSpec => DrainShortens
<1>1. ASSUME IInv, [Next]_vars, At("main", "drain"), At("main", "drain")'
      PROVE  q' = q \/ (q # <<>> /\ q' = Tail(q))
  BY <1>1 DEF IInv, CriticalOwner, InCritical, At, Thread, Next, Delivery, Audio, Flush, vars,
              Goto, DeliveryCall, DeliveryDiscontinuity, DeliveryLock, DeliveryRefuse,
              DeliveryInsert, DeliverySignal, DeliveryUnlock, AudioLock, AudioWait,
              AudioSpuriousWakeup, AudioTake, AudioUnlock, AudioPlay, FlushCall, FlushLock,
              FlushDrain, FlushDone
<1>2. IInv /\ [Next]_vars
        => [ At("main", "drain") /\ At("main", "drain")'
               => q' = q \/ (q # <<>> /\ q' = Tail(q)) ]_vars
  BY <1>1
<1>. QED  BY <1>2, SafeIInv, PTL DEF SafeSpec, DrainShortens

\* In each turn of the loop a list of n chunks becomes shorter, or the flush is over.
Drains(n) == At("main", "drain") /\ Len(q) = n
Shorter(n) == ~At("main", "drain") \/ Len(q) < n

LEMMA DrainsOn ==
    ASSUME NEW n \in Nat, IInv, [Next]_vars, Drains(n)
    PROVE  /\ Drains(n)' \/ Shorter(n)'
           /\ FlushDrain \/ FlushDone => Shorter(n)'
<1>1. q \in Seq(Chunk) /\ PcOk
  BY DEF IInv, TypeOK
<1>2. q # <<>> => Len(Tail(q)) = Len(q) - 1
  BY <1>1
<1>3. At("main", "drain")' => q' = q \/ (q # <<>> /\ q' = Tail(q))
  BY DEF Drains, IInv, CriticalOwner, InCritical, At, Thread, Next, Delivery, Audio, Flush,
         vars, Goto, DeliveryCall, DeliveryDiscontinuity, DeliveryLock, DeliveryRefuse,
         DeliveryInsert, DeliverySignal, DeliveryUnlock, AudioLock, AudioWait,
         AudioSpuriousWakeup, AudioTake, AudioUnlock, AudioPlay, FlushCall, FlushLock,
         FlushDrain, FlushDone
<1>4. Drains(n)' \/ Shorter(n)'
  BY <1>2, <1>3 DEF Drains, Shorter
<1>5. CASE FlushDrain
  BY <1>2, <1>4, <1>5 DEF FlushDrain, Drains, Shorter
<1>6. CASE FlushDone
  BY <1>1, <1>4, <1>6 DEF FlushDone, Goto, PcOk, Thread, At, Shorter
<1>. QED  BY <1>4, <1>5, <1>6

\* A turn of the loop is always followed by the next one, or by the unlock.
TurnEnds(n) == Drains(n) ~> Shorter(n)

LEMMA OneTurnEnds ==
    ASSUME NEW n \in Nat
    PROVE  Spec /\ []ThreadsGoOn => TurnEnds(n)
<1>1. IInv /\ [Next]_vars /\ Drains(n) => Drains(n)' \/ Shorter(n)'
  BY DrainsOn
<1>2. IInv /\ [Next]_vars /\ <<FlushDrain \/ FlushDone>>_vars /\ Drains(n) => Shorter(n)'
  BY DrainsOn
<1>3. ThreadsGoOn /\ Drains(n) => ENABLED <<FlushDrain \/ FlushDone>>_vars
  BY DEF ThreadsGoOn, At, Drains
<1>4. Spec => WF_vars(FlushDrain \/ FlushDone)
  BY PTL DEF Spec, Fairness
<1>. QED  BY <1>1, <1>2, <1>3, <1>4, SpecIsSafe, PTL DEF TurnEnds

THEOREM TurnsEnd == Spec /\ []ThreadsGoOn => \A n \in Nat : TurnEnds(n)
  BY OneTurnEnds

\* What follows from TurnsEnd by induction over the length of the list.
DrainEnds == At("main", "drain") ~> ~At("main", "drain")

\* Whoever owns the mutex, it is free again and again.
LEMMA MutexComesFree == Spec /\ []ThreadsGoOn /\ DrainEnds => []<>IsFree
<1>1. IInv /\ [Next]_vars /\ At("main", "drain")
         => At("main", "drain")' \/ (At("main", "idle") /\ IsFree)'
  BY MainStays
<1>. QED  BY <1>1, OwnerIsInside, DeliveryFrees, AudioFrees, SpecIsSafe, PTL DEF DrainEnds

\* A call of music_delivery, a discontinuity or not, accepted or refused.
LEMMA DeliveryCallEnds ==
    Spec /\ []ThreadsGoOn /\ DrainEnds
      => (pc["delivery"] # "idle" ~> pc["delivery"] = "idle")
<1>1. IInv /\ [Next]_vars /\ At("delivery", "called") /\ frames = 0
         => (At("delivery", "called") /\ frames = 0)' \/ At("delivery", "idle")'
  BY DeliveryStays
<1>2. IInv /\ [Next]_vars /\ At("delivery", "called") /\ frames # 0
         => (At("delivery", "called") /\ frames # 0)' \/ At("delivery", "test")'
  BY DeliveryStays
<1>3. IInv /\ <<DeliveryDiscontinuity>>_vars => At("delivery", "idle")'
  BY StepsGoOn
<1>4. IInv /\ <<DeliveryLock>>_vars => At("delivery", "test")'
  BY StepsGoOn
<1>5. /\ ThreadsGoOn /\ At("delivery", "called") /\ frames = 0
           => ENABLED <<DeliveryDiscontinuity>>_vars
      /\ ThreadsGoOn /\ At("delivery", "called") /\ frames # 0 /\ IsFree
           => ENABLED <<DeliveryLock>>_vars
  BY DEF ThreadsGoOn, At, IsFree
<1>6. Spec => WF_vars(DeliveryDiscontinuity) /\ SF_vars(DeliveryLock)
  BY PTL DEF Spec, Fairness
<1>7. Spec /\ []ThreadsGoOn
        => (At("delivery", "called") /\ frames = 0 ~> At("delivery", "idle"))
  BY <1>1, <1>3, <1>5, <1>6, SpecIsSafe, PTL
<1>8. Spec /\ []ThreadsGoOn /\ DrainEnds
        => (At("delivery", "called") /\ frames # 0 ~> At("delivery", "test"))
  BY <1>2, <1>4, <1>5, <1>6, MutexComesFree, SpecIsSafe, PTL
<1>9. /\ IInv => \/ At("delivery", "idle") \/ At("delivery", "called")
                 \/ At("delivery", "test") \/ At("delivery", "signal")
                 \/ At("delivery", "unlock")
      /\ frames = 0 \/ frames # 0
      /\ pc["delivery"] = "idle" <=> At("delivery", "idle")
      /\ pc["delivery"] # "idle" <=> ~At("delivery", "idle")
  BY DEF IInv, TypeOK, PcOk, At
<1>. QED  BY <1>7, <1>8, <1>9, DeliveryFrees, SpecIsSafe, PTL

LEMMA FlushCallEnds ==
    Spec /\ []ThreadsGoOn /\ DrainEnds => (pc["main"] # "idle" ~> pc["main"] = "idle")
<1>1. IInv /\ [Next]_vars /\ At("main", "lock") => At("main", "lock")' \/ At("main", "drain")'
  BY MainStays
<1>2. IInv /\ [Next]_vars /\ At("main", "drain")
         => At("main", "drain")' \/ (At("main", "idle") /\ IsFree)'
  BY MainStays
<1>3. IInv /\ <<FlushLock>>_vars => At("main", "drain")'
  BY StepsGoOn
<1>4. ThreadsGoOn /\ At("main", "lock") /\ IsFree => ENABLED <<FlushLock>>_vars
  BY DEF ThreadsGoOn, At, IsFree
<1>5. Spec => SF_vars(FlushLock)
  BY PTL DEF Spec, Fairness
<1>6. /\ IInv => At("main", "idle") \/ At("main", "lock") \/ At("main", "drain")
      /\ pc["main"] = "idle" <=> At("main", "idle")
      /\ pc["main"] # "idle" <=> ~At("main", "idle")
  BY DEF IInv, TypeOK, PcOk, At
<1>. QED  BY <1>1, <1>2, <1>3, <1>4, <1>5, <1>6, MutexComesFree, SpecIsSafe, PTL
          DEF DrainEnds

\* No thread waits for the mutex for ever: given that the loop of a flush ends,
\* music_delivery returns to libspotify and audio_fifo_flush to the event loop, however
\* often the other threads take the mutex before them.
THEOREM CallsComeBack == Spec /\ []ThreadsGoOn /\ DrainEnds => CallsReturn
  BY DeliveryCallEnds, FlushCallEnds DEF CallsReturn

=============================================================================
