----------------------------- MODULE MCOverlap -----------------------------
(* Values of the constants of Overlap for TLC: the code's two workers, two *)
(* places and three attempts.                                              *)
EXTENDS Overlap

CONSTANTS w1, w2
=============================================================================
