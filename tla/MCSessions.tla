----------------------------- MODULE MCSessions -----------------------------
(***************************************************************************)
(* Small instances of Sessions.  The sessions are interchangeable.         *)
(***************************************************************************)
EXTENDS Sessions, TLC

SessionSymmetry == Permutations(Sessions)
=============================================================================
