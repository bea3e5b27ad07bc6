----------------------------- MODULE MCModels ------------------------------
(***************************************************************************)
(* Small instances of Models: one structure of each kind, two ids.  Files  *)
(* longer than a block are mapped when they are persisted, shorter ones    *)
(* are not.                                                                *)
(***************************************************************************)
EXTENDS Models, TLC
=============================================================================
