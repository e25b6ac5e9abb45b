---------------------------- MODULE MCScheduler ----------------------------
(* Values of the constants of Scheduler for TLC: the code's 2, 8, 16 and 64  *)
(* items scaled down, full windows of two tokens.                            *)
EXTENDS Scheduler
=============================================================================
