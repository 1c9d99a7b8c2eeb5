----------------------------- MODULE MCCollect ------------------------------
(* Instances of Collect for TLC: the bytes of a file are all different, so  *)
(* that a lost, repeated or moved one shows.                                *)
EXTENDS Collect

MCFiles == {[x \in 1 .. n |-> x] : n \in 0 .. 17}
=============================================================================
