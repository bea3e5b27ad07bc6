---------------------------- MODULE MCLinkedList ----------------------------
(***************************************************************************)
(* Small instances of LinkedList.                                          *)
(***************************************************************************)
EXTENDS LinkedList, TLC

NodeSymmetry == Permutations(Heads) \cup Permutations(Entries)
=============================================================================
