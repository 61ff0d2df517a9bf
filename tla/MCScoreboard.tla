----------------------------- MODULE MCScoreboard -----------------------------
(* Instance of Scoreboard for TLC.                                         *)
EXTENDS Scoreboard, TLC

Alike == Permutations(Worker)
===============================================================================
