---------------------------- MODULE MCResources ----------------------------
(***************************************************************************)
(* Small instances of Resources.  Sessions are interchangeable, and so are *)
(* the resources that are raced for and those that are not.                *)
(***************************************************************************)
EXTENDS Resources, TLC

Symmetry ==
    Permutations(Sessions) \cup Permutations(Racing) \cup Permutations(Resources \ Racing)
=============================================================================
