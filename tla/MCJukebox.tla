------------------------------ MODULE MCJukebox ------------------------------
(***************************************************************************)
(* The jukebox for TLC: the tracks can be exchanged for each other in runs *)
(* where each of them is playable.                                         *)
(***************************************************************************)
EXTENDS Jukebox

TrackSymmetry == Permutations(Track)
=============================================================================
