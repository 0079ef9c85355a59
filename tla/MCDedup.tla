------------------------------- MODULE MCDedup -------------------------------
(* TLC instance of Dedup: three calls of one key and two of others, with a *)
(* sweep as soon as two keys are in the map.                               *)
EXTENDS Dedup, TLC

CONSTANTS c1, c2, c3, c4, c5, d1, d2, d3

MCCallers == {c1, c2, c3, c4, c5}
MCDKeyOf  == (c1 :> d1) @@ (c2 :> d1) @@ (c3 :> d1) @@ (c4 :> d2) @@ (c5 :> d3)
Alike     == Permutations({c1, c2, c3})
=============================================================================
