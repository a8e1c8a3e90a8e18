------------------------------ MODULE TailQueue ------------------------------
(***************************************************************************)
(* The tail queue of queue.h under the fifo g_audiofifo: the pointers that *)
(* TAILQ_INIT, TAILQ_INSERT_TAIL, TAILQ_FIRST and TAILQ_REMOVE leave       *)
(* behind when the threads of AudioFifo use them, in memory that malloc    *)
(* hands out again and nobody clears.                                      *)
(*                                                                         *)
(* A cell is the address of an audio_fifo_data_t.  A pointer to a pointer  *)
(* (tqe_prev, tqh_last) holds the address of the tqe_next of a cell or of  *)
(* tqh_first, here the cell itself or Head0: next[Head0] is tqh_first.     *)
(***************************************************************************)
EXTENDS AudioFifo

CONSTANTS Cell,   \* addresses that malloc returns
          Head0   \* the address of the head of the queue

ASSUME TailQueueAssumption ==
    /\ Head0 \notin Cell
    /\ None \notin Cell

VARIABLES
    next,   \* tqe_next of each cell, and tqh_first
    prev,   \* tqe_prev of each cell
    last,   \* tqh_last
    taken,  \* the cell of afd, or None
    cells   \* history: the cells of the chunks of q, in their order

lvars == <<next, prev, last, taken, cells>>

\* TAILQ_INIT; the memory of the cells holds anything, here one such thing.
LInit == /\ Init
         /\ next = [c \in Cell \cup {Head0} |-> None]
         /\ prev = [c \in Cell |-> Head0]
         /\ last = Head0
         /\ taken = None
         /\ cells = <<>>

Free == Cell \ ({taken} \cup {cells[i] : i \in 1..Len(cells)})

\* Bug: tqe_prev is not set.
Bug_InsertNoPrev(e) ==
    /\ next' = [[next EXCEPT ![e] = None] EXCEPT ![last] = e]
    /\ last' = e
    /\ cells' = Append(cells, e)
    /\ UNCHANGED prev

\* TAILQ_INSERT_TAIL.
InsertTail(e) ==
    /\ next' = [[next EXCEPT ![e] = None] EXCEPT ![last] = e]
    /\ prev' = [prev EXCEPT ![e] = last]
    /\ last' = e
    /\ cells' = Append(cells, e)

First == next[Head0]

\* Bug: tqh_last is left alone when the last element goes.
Bug_RemoveKeepsLast(e) ==
    /\ prev' = IF next[e] # None THEN [prev EXCEPT ![next[e]] = prev[e]] ELSE prev
    /\ next' = [next EXCEPT ![prev[e]] = next[e]]
    /\ cells' = Tail(cells)
    /\ UNCHANGED last

\* TAILQ_REMOVE.
Remove(e) ==
    /\ IF next[e] # None
       THEN prev' = [prev EXCEPT ![next[e]] = prev[e]] /\ UNCHANGED last
       ELSE last' = prev[e] /\ UNCHANGED prev
    /\ next' = [next EXCEPT ![prev[e]] = next[e]]
    /\ cells' = Tail(cells)

-----------------------------------------------------------------------------
\* music_delivery allocates a chunk and inserts it.
InsertChunk == /\ DeliveryInsert
               /\ \E e \in Free : InsertTail(e)
               /\ UNCHANGED taken

\* audio_get removes the first chunk and keeps it.
TakeFirst == /\ AudioTake
             /\ Remove(First)
             /\ taken' = First

FreeTaken == /\ AudioPlay
             /\ taken' = None
             /\ UNCHANGED <<next, prev, last, cells>>

\* audio_fifo_flush removes the first chunk and frees it.
DrainFirst == /\ FlushDrain
              /\ Remove(First)
              /\ UNCHANGED taken

\* The steps that do not touch the list.
Elsewhere ==
    /\ \/ DeliveryCall \/ DeliveryDiscontinuity \/ DeliveryLock \/ DeliveryRefuse
       \/ DeliverySignal \/ DeliveryUnlock
       \/ AudioLock \/ AudioWait \/ AudioSpuriousWakeup \/ AudioUnlock
       \/ FlushCall \/ FlushLock \/ FlushDone
    /\ UNCHANGED lvars

LNext == InsertChunk \/ TakeFirst \/ FreeTaken \/ DrainFirst \/ Elsewhere

LSafeSpec == LInit /\ [][LNext]_<<vars, lvars>>
LSpec == LSafeSpec /\ Fairness

-----------------------------------------------------------------------------
(* Properties. *)

\* The pointers describe the list of chunks: forwards from tqh_first, backwards
\* through tqe_prev and at its end, whatever cells were used before; an element
\* is in it once, and not while the audio thread holds it.
PointersRepresentQueue ==
    LET Before(i) == IF i = 1 THEN Head0 ELSE cells[i - 1]
        After(i)  == IF i = Len(cells) THEN None ELSE cells[i + 1]
    IN  /\ Len(cells) = Len(q)
        /\ First = IF cells = <<>> THEN None ELSE cells[1]
        /\ last = IF cells = <<>> THEN Head0 ELSE cells[Len(cells)]
        /\ \A i \in 1..Len(cells) :
             /\ next[cells[i]] = After(i) /\ prev[cells[i]] = Before(i)
             /\ cells[i] # taken
             /\ \A j \in 1..i - 1 : cells[i] # cells[j]
=============================================================================
