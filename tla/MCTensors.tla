----------------------------- MODULE MCTensors -----------------------------
(***************************************************************************)
(* A small instance of Tensors.  Tensors are interchangeable, and so are   *)
(* blocks.                                                                 *)
(***************************************************************************)
EXTENDS Tensors, TLC

Symmetry == Permutations(Tensors) \cup Permutations(Blocks)
=============================================================================
