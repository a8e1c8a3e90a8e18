--------------------------- MODULE TailQueue_proofs ---------------------------
(***************************************************************************)
(* The pointers of queue.h describe the list of AudioFifo, for every set   *)
(* of addresses, and whatever the three threads do.                        *)
(***************************************************************************)
EXTENDS TailQueue, AudioFifo_proofs

(***************************************************************************)
(* The inductive invariant: the types, and PointersRepresentQueue with the *)
(* neighbours of an element written out, and every pair of cells distinct. *)
(***************************************************************************)
LTypeOK == /\ next \in [Cell \cup {Head0} -> Cell \cup {None}]
           /\ prev \in [Cell -> Cell \cup {Head0}]
           /\ last \in Cell \cup {Head0}
           /\ taken \in Cell \cup {None}
           /\ cells \in Seq(Cell)

Ends == /\ next[Head0] = IF Len(cells) = 0 THEN None ELSE cells[1]
        /\ last = IF Len(cells) = 0 THEN Head0 ELSE cells[Len(cells)]

Links == \A i \in 1..Len(cells) :
           /\ next[cells[i]] = IF i = Len(cells) THEN None ELSE cells[i + 1]
           /\ prev[cells[i]] = IF i = 1 THEN Head0 ELSE cells[i - 1]

Distinct == /\ \A i \in 1..Len(cells) : cells[i] # taken
            /\ \A i, j \in 1..Len(cells) : i # j => cells[i] # cells[j]

LInv == LTypeOK /\ Ends /\ Links /\ Distinct /\ Len(cells) = Len(q)

-----------------------------------------------------------------------------
(* What the two macros do to the list. *)

\* TAILQ_INSERT_TAIL of a cell that is in use nowhere.
LEMMA InsertTailLinks ==
    ASSUME LTypeOK, Ends, Links, Distinct, NEW e \in Free, InsertTail(e), taken' = taken
    PROVE  /\ LTypeOK' /\ Ends' /\ Links' /\ Distinct'
           /\ Len(cells') = Len(cells) + 1
<1>. DEFINE n == Len(cells)
<1>1. /\ e \in Cell /\ e # taken /\ e # Head0
      /\ n \in Nat /\ \A i \in 1..n : cells[i] \in Cell /\ cells[i] # e /\ cells[i] # Head0
  BY TailQueueAssumption DEF Free, LTypeOK, TailQueueAssumption
<1>2. /\ cells' \in Seq(Cell) /\ Len(cells') = n + 1 /\ cells'[n + 1] = e
      /\ \A i \in 1..n : cells'[i] = cells[i]
  BY <1>1 DEF InsertTail, LTypeOK
<1>3. LTypeOK'
  BY <1>1, <1>2 DEF LTypeOK, InsertTail
<1>4. /\ next'[e] = None \/ last = e
      /\ next'[last] = e
      /\ \A c \in Cell \cup {Head0} : c # e /\ c # last => next'[c] = next[c]
      /\ prev'[e] = last
      /\ \A c \in Cell : c # e => prev'[c] = prev[c]
  BY <1>1 DEF InsertTail, LTypeOK
<1>5. last # e /\ (n = 0 => last = Head0) /\ (n > 0 => last = cells[n])
  BY <1>1 DEF Ends
<1>6. Ends'
  <2>1. last' = e
    BY DEF InsertTail
  <2>2. next'[Head0] = cells'[1]
    <3>1. CASE n = 0
      BY <1>2, <1>4, <1>5, <3>1
    <3>2. CASE n > 0
      BY <1>1, <1>2, <1>4, <1>5, <3>2 DEF Ends
    <3>. QED  BY <1>1, <3>1, <3>2
  <2>. QED  BY <1>1, <1>2, <2>1, <2>2 DEF Ends
<1>7. Links'
  <2>. SUFFICES ASSUME NEW i \in 1..n + 1
                PROVE  /\ next'[cells'[i]] = IF i = n + 1 THEN None ELSE cells'[i + 1]
                       /\ prev'[cells'[i]] = IF i = 1 THEN Head0 ELSE cells'[i - 1]
    BY <1>2 DEF Links
  <2>1. CASE i = n + 1
    BY <1>1, <1>2, <1>4, <1>5, <2>1
  <2>2. CASE i = n
    BY <1>1, <1>2, <1>4, <1>5, <2>2 DEF Links
  <2>3. CASE i < n
    <3>1. i \in 1..n /\ i + 1 \in 1..n /\ n \in 1..n /\ i # n
      BY <1>1, <2>3
    <3>2. cells[i] # last /\ cells[i] # e
      BY <1>1, <1>5, <3>1 DEF Distinct
    <3>3. /\ next'[cells[i]] = next[cells[i]] /\ prev'[cells[i]] = prev[cells[i]]
      BY <1>1, <1>4, <3>1, <3>2
    <3>4. next'[cells'[i]] = cells'[i + 1]
      BY <1>1, <1>2, <3>1, <3>3 DEF Links
    <3>5. prev'[cells'[i]] = IF i = 1 THEN Head0 ELSE cells'[i - 1]
      <4>1. prev'[cells'[i]] = IF i = 1 THEN Head0 ELSE cells[i - 1]
        BY <1>2, <3>1, <3>3 DEF Links
      <4>2. i # 1 => i - 1 \in 1..n
        BY <3>1
      <4>. QED  BY <1>2, <4>1, <4>2
    <3>. QED  BY <1>1, <3>1, <3>4, <3>5
  <2>. QED  BY <1>1, <2>1, <2>2, <2>3
<1>8. Distinct'
  <2>1. \A i \in 1..Len(cells') : i \in 1..n \/ i = n + 1
    BY <1>1, <1>2
  <2>. QED  BY <1>1, <1>2, <2>1 DEF Distinct
<1>. QED  BY <1>2, <1>3, <1>6, <1>7, <1>8

\* TAILQ_REMOVE of the first element, which is what both callers remove; the
\* memory of the cell keeps its pointers.
LEMMA RemoveFirstLinks ==
    ASSUME LTypeOK, Ends, Links, Distinct, Len(cells) # 0, Remove(First),
           taken' \in {taken, First}
    PROVE  /\ First = cells[1]
           /\ LTypeOK' /\ Ends' /\ Links' /\ Distinct'
           /\ Len(cells') = Len(cells) - 1
<1>. DEFINE n == Len(cells)
<1>1. /\ n \in Nat /\ n >= 1 /\ 1 \in 1..n
      /\ \A i \in 1..n : cells[i] \in Cell /\ cells[i] # Head0 /\ cells[i] # None
  BY TailQueueAssumption DEF LTypeOK, TailQueueAssumption
<1>2. First = cells[1] /\ First \in Cell
  BY <1>1 DEF First, Ends
<1>3. /\ cells' \in Seq(Cell) /\ Len(cells') = n - 1
      /\ \A i \in 1..n - 1 : cells'[i] = cells[i + 1] /\ i + 1 \in 1..n
  BY <1>1 DEF Remove, LTypeOK
<1>4. prev[First] = Head0 /\ next[First] = IF n = 1 THEN None ELSE cells[2]
  <2>1. /\ next[cells[1]] = IF 1 = n THEN None ELSE cells[1 + 1]
        /\ prev[cells[1]] = IF 1 = 1 THEN Head0 ELSE cells[1 - 1]
    BY <1>1 DEF Links
  <2>2. 1 + 1 = 2
    OBVIOUS
  <2>. QED  BY <1>1, <1>2, <2>1, <2>2
<1>5. /\ next'[Head0] = next[First]
      /\ \A c \in Cell : next'[c] = next[c]
      /\ next' \in [Cell \cup {Head0} -> Cell \cup {None}]
  BY <1>1, <1>2, <1>4, TailQueueAssumption DEF Remove, LTypeOK, TailQueueAssumption
<1>6. CASE n = 1
  <2>1. last' = Head0 /\ prev' = prev
    BY <1>4, <1>6 DEF Remove
  <2>2. Len(cells') = 0
    BY <1>3, <1>6
  <2>. QED  BY <1>2, <1>3, <1>4, <1>5, <1>6, <2>1, <2>2 DEF LTypeOK, Ends, Links, Distinct
<1>7. CASE n > 1
  <2>1. 2 \in 1..n /\ next[First] = cells[2] /\ cells[2] # None /\ cells[2] \in Cell
    BY <1>1, <1>4, <1>7
  <2>2. /\ last' = last /\ prev' \in [Cell -> Cell \cup {Head0}]
        /\ prev'[cells[2]] = Head0
        /\ \A c \in Cell : c # cells[2] => prev'[c] = prev[c]
    BY <1>2, <1>4, <2>1 DEF Remove, LTypeOK
  <2>3. LTypeOK'
    BY <1>2, <1>3, <1>5, <2>2 DEF LTypeOK
  <2>4. Ends'
    <3>1. n - 1 \in 1..n - 1 /\ cells'[n - 1] = cells[n] /\ 1 \in 1..n - 1
      BY <1>1, <1>3, <1>7
    <3>2. last' = cells'[n - 1]
      BY <1>1, <2>2, <3>1 DEF Ends
    <3>3. cells'[1] = cells[2]
      BY <1>3, <3>1
    <3>. QED  BY <1>1, <1>3, <1>5, <1>7, <2>1, <3>2, <3>3 DEF Ends
  <2>5. Links'
    <3>. SUFFICES ASSUME NEW i \in 1..n - 1
                  PROVE  /\ next'[cells'[i]] = IF i = n - 1 THEN None ELSE cells'[i + 1]
                         /\ prev'[cells'[i]] = IF i = 1 THEN Head0 ELSE cells'[i - 1]
      BY <1>3 DEF Links
    <3>1. i + 1 \in 1..n /\ cells'[i] = cells[i + 1] /\ cells[i + 1] \in Cell
      BY <1>1, <1>3
    <3>2. next'[cells'[i]] = IF i = n - 1 THEN None ELSE cells'[i + 1]
      BY <1>1, <1>3, <1>5, <3>1 DEF Links
    <3>3. CASE i = 1
      BY <2>2, <3>1, <3>2, <3>3
    <3>4. CASE i # 1
      <4>1. cells[i + 1] # cells[2]
        BY <1>1, <2>1, <3>1, <3>4 DEF Distinct
      <4>2. prev'[cells'[i]] = cells[i] /\ cells[i] = cells'[i - 1]
        BY <1>1, <1>3, <2>2, <3>1, <3>4, <4>1 DEF Links
      <4>. QED  BY <3>2, <3>4, <4>2
    <3>. QED  BY <3>3, <3>4
  <2>6. Distinct'
    BY <1>1, <1>2, <1>3, <1>7 DEF Distinct
  <2>. QED  BY <1>2, <1>3, <2>3, <2>4, <2>5, <2>6
<1>8. n = 1 \/ n > 1
  <2>1. n \in Nat /\ n # 0
    BY <1>1
  <2>. HIDE DEF n
  <2>. QED  BY <2>1
<1>. QED  BY <1>6, <1>7, <1>8

-----------------------------------------------------------------------------
LEMMA LInitLInv == LInit => LInv
<1>. SUFFICES ASSUME LInit PROVE LInv
  OBVIOUS
<1>1. cells \in Seq(Cell) /\ Len(cells) = 0 /\ Len(q) = 0
  BY DEF LInit, Init
<1>. QED  BY <1>1 DEF LInit, LInv, LTypeOK, Ends, Links, Distinct

LEMMA LNextLInv ==
    ASSUME IInv, LInv, [LNext]_<<vars, lvars>>
    PROVE  LInv'
<1>. USE DEF LInv
<1>0. q \in Seq(Chunk) /\ Len(q) \in Nat
  BY DEF IInv, TypeOK
<1>1. CASE InsertChunk
  <2>1. Len(q') = Len(q) + 1
    BY <1>0, <1>1 DEF InsertChunk, DeliveryInsert
  <2>2. PICK e \in Free : InsertTail(e)
    BY <1>1 DEF InsertChunk
  <2>. QED  BY <1>1, <2>1, <2>2, InsertTailLinks DEF InsertChunk
<1>2. CASE TakeFirst
  <2>1. Len(q') = Len(q) - 1 /\ Len(q) # 0
    BY <1>0, <1>2 DEF TakeFirst, AudioTake
  <2>. QED  BY <1>2, <2>1, RemoveFirstLinks DEF TakeFirst
<1>3. CASE FreeTaken
  <2>1. \A i \in 1..Len(cells) : cells[i] # None
    BY TailQueueAssumption DEF LTypeOK, TailQueueAssumption
  <2>. QED  BY <1>3, <2>1 DEF FreeTaken, AudioPlay, LTypeOK, Ends, Links, Distinct
<1>4. CASE DrainFirst
  <2>1. Len(q') = Len(q) - 1 /\ Len(q) # 0
    BY <1>0, <1>4 DEF DrainFirst, FlushDrain
  <2>. QED  BY <1>4, <2>1, RemoveFirstLinks DEF DrainFirst
<1>5. CASE Elsewhere
  <2>1. q' = q
    BY <1>5 DEF Elsewhere, DeliveryCall, DeliveryDiscontinuity, DeliveryLock, DeliveryRefuse,
                DeliverySignal, DeliveryUnlock, AudioLock, AudioWait, AudioSpuriousWakeup,
                AudioUnlock, FlushCall, FlushLock, FlushDone
  <2>. QED  BY <1>5, <2>1 DEF Elsewhere, lvars, LTypeOK, Ends, Links, Distinct
<1>6. CASE UNCHANGED <<vars, lvars>>
  BY <1>6 DEF vars, lvars, LTypeOK, Ends, Links, Distinct
<1>. QED  BY <1>1, <1>2, <1>3, <1>4, <1>5, <1>6 DEF LNext

LEMMA LInvRepresents ==
    ASSUME LInv
    PROVE  PointersRepresentQueue
<1>1. (cells = <<>>) <=> (Len(cells) = 0)
  BY DEF LInv, LTypeOK
<1>2. \A i \in 1..Len(cells) : \A j \in 1..i - 1 : j \in 1..Len(cells) /\ i # j
  BY DEF LInv, LTypeOK
<1>. QED  BY <1>1, <1>2
          DEF LInv, Ends, Links, Distinct, PointersRepresentQueue, First

-----------------------------------------------------------------------------
(* The theorems. *)

\* Every step of the list is a step of the fifo, so all that is proved of
\* AudioFifo holds of the fifo on its pointers.
THEOREM ListIsFifo == LSafeSpec => SafeSpec
<1>1. LInit => Init
  BY DEF LInit
<1>2. [LNext]_<<vars, lvars>> => [Next]_vars
  BY DEF LNext, InsertChunk, TakeFirst, FreeTaken, DrainFirst, Elsewhere,
         Next, Delivery, Audio, Flush
<1>. QED  BY <1>1, <1>2, PTL DEF LSafeSpec, SafeSpec

\* TAILQ_INSERT_TAIL and TAILQ_REMOVE, as the fifo uses them in memory that is
\* freed and handed out again, keep the pointers a list of the waiting chunks.
THEOREM PointersCorrect == LSafeSpec => []PointersRepresentQueue
<1>1. LSafeSpec => []IInv
  BY ListIsFifo, SafeIInv, PTL
<1>2. IInv /\ LInv /\ [LNext]_<<vars, lvars>> => LInv'
  BY LNextLInv
<1>3. LInv => PointersRepresentQueue
  BY LInvRepresents
<1>. QED  BY <1>1, <1>2, <1>3, LInitLInv, PTL DEF LSafeSpec

\* The macros of queue.h, under the three threads of the fifo, implement the stream
\* that libspotify and the player see.
THEOREM ListImplementsStream == LSafeSpec => ImplementsStream
  BY ListIsFifo, FifoRefines, PTL

\* The calls on the pointers return, under the premises of CallsComeBack.
THEOREM ListCallsComeBack == LSpec /\ []ThreadsGoOn /\ DrainEnds => CallsReturn
<1>1. LSpec => Spec
  BY ListIsFifo, PTL DEF LSpec, Spec
<1>. QED  BY <1>1, CallsComeBack, PTL

=============================================================================
