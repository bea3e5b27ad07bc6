------------------------------ MODULE MCIdPool ------------------------------
(***************************************************************************)
(* Small instances of IdPool.  The threads are interchangeable.            *)
(***************************************************************************)
EXTENDS IdPool, TLC

ThreadSymmetry == Permutations(Threads)
=============================================================================
