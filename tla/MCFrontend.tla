----------------------------- MODULE MCFrontend -----------------------------
(***************************************************************************)
(* The pages for TLC: two songs, and a catalogue in which one query finds  *)
(* both of them and suggests the other, which finds one.                   *)
(***************************************************************************)
EXTENDS Frontend, TLC

CONSTANTS s1, s2

MCPlaylists == {<<s1>>, <<s1, s2>>}
MCFound == "ab" :> <<s2, s1>> @@ "abba" :> <<s1>>
MCDidYouMean == "ab" :> "abba" @@ "abba" :> NULL

PageSymmetry == Permutations(Browser)
=============================================================================
