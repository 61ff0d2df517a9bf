-------------------------- MODULE MCProcessControl --------------------------
(* TLC instances of the master and its children.                           *)
EXTENDS ProcessControl, TLC

Alike == Permutations(Pid)
=============================================================================
