---------------------------- MODULE SampleStream -----------------------------
(***************************************************************************)
(* What the audio fifo promises to the two ends of it.  libspotify offers  *)
(* runs of PCM frames; the fifo accepts a run only while at most           *)
(* SampleRate frames are waiting.  The player takes the waiting frames in  *)
(* the order they were accepted and without a gap, except that a flush     *)
(* throws away everything that waits.  Frames are known by their position  *)
(* in the accepted stream; there are no threads, locks or lists here.      *)
(***************************************************************************)
EXTENDS Integers

CONSTANTS SampleRate,  \* frames that may wait before deliveries are refused
          MaxFrames,   \* largest number of frames in one delivery
          None         \* no run of frames

VARIABLES accepted,  \* frames accepted since the start
          released,  \* frames that were taken by the player or flushed
          playing    \* the run of frames the player holds, or None

svars == <<accepted, released, playing>>

SInit == /\ accepted = 0
         /\ released = 0
         /\ playing = None

Accept == /\ accepted - released <= SampleRate
          /\ \E n \in 1..MaxFrames : accepted' = accepted + n
          /\ UNCHANGED <<released, playing>>

Take == /\ playing = None
        /\ \E n \in 1..MaxFrames :
             /\ released + n <= accepted
             /\ playing' = [pos |-> released, nsamples |-> n]
             /\ released' = released + n
        /\ UNCHANGED accepted

Finish == /\ playing # None
          /\ playing' = None
          /\ UNCHANGED <<accepted, released>>

Clear == /\ released' = accepted
         /\ UNCHANGED <<accepted, playing>>

SNext == Accept \/ Take \/ Finish \/ Clear

SSpec == SInit /\ [][SNext]_svars
=============================================================================
