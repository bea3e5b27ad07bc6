---------------------------- MODULE AtomicIdPool ----------------------------
(***************************************************************************)
(* The id pool of src/src/id_pool.c as its users may think of it: a stack  *)
(* from which a get takes the top and to which a release returns an id, in *)
(* one step each.  IdPool implements it, and Sessions, Models and          *)
(* Resources are users of it: they release only ids that they hold.        *)
(***************************************************************************)
EXTENDS IdStack

CONSTANT MaxIds         \* nr_ids of id_pool_new

VARIABLES
    ids,        \* the pool, a value of IdStack
    out         \* the ids that are in the hands of a caller

vars == <<ids, out>>

Init ==
    /\ ids = NewPool(MaxIds)
    /\ out = {}

(* id_pool_get answers an id ... *)
Get ==
    /\ PoolTop(ids) # NoId
    /\ out' = out \cup {PoolTop(ids)}
    /\ ids' = PoolGet(ids)

(* ... or 0. *)
GetNone ==
    /\ PoolTop(ids) = NoId
    /\ ids' = PoolGet(ids)
    /\ UNCHANGED out

(* id_pool_release, by a holder of the id *)
Release(i) ==
    /\ i \in out
    /\ out' = out \ {i}
    /\ ids' = PoolPut(ids, i)

Next == Get \/ GetNone \/ \E i \in out : Release(i)

Spec == Init /\ [][Next]_vars
=============================================================================
