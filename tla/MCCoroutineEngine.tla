-------------------------- MODULE MCCoroutineEngine --------------------------
(* TLC instances of the worker's event loop.                               *)
EXTENDS CoroutineEngine, TLC

Interchangeable == Permutations(Conn)
=============================================================================
