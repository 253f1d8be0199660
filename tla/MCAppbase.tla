----------------------------- MODULE MCAppbase ------------------------------
(* Model-checking instance of Appbase: two shards, two user applets.       *)
EXTENDS Appbase, TLC

CONSTANTS a1, a2

MCShards == {0, 1}
MCApplets == {a1, a2}
MCSymmetry == Permutations(MCApplets)
=============================================================================
