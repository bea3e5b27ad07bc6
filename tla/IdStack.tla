------------------------------ MODULE IdStack ------------------------------
(***************************************************************************)
(* The id pool of src/src/id_pool.c as a value, for the components that    *)
(* use it: each get and each release takes effect at once.  IdPool, which  *)
(* takes them apart into their accesses, shows that this is so as long as  *)
(* no get runs while a release is in progress.  Where one does (overlap)   *)
(* the accesses to next still amount to one step of each call, so that the *)
(* pool has as many ids as here; but a get may read a slot before its      *)
(* release has stored to it or after another has, and may answer any id.   *)
(*                                                                         *)
(*   free   the ids above the stack pointer, the next one to hand out first*)
(*   over   how far failed gets have pushed next beyond the end            *)
(***************************************************************************)
EXTENDS Sequences, Naturals

NoId == 0

(* The pools of these ids *)
Pools(ids) == [free : Seq(ids), over : Nat]

NewPool(max) == [free |-> [i \in 1 .. max |-> i], over |-> 0]

(* The id that is next to be handed out. *)
PoolTop(pool) == IF pool.free = <<>> THEN NoId ELSE Head(pool.free)

(* What a get can answer now, where gets may overlap releases or not. *)
PoolAnswers(pool, ids, overlap) ==
    IF overlap /\ PoolTop(pool) # NoId THEN ids ELSE {PoolTop(pool)}

(* A mutant of PoolGet: next is read and not moved. *)
PoolPeek(pool) == pool

(* The pool after a get: a get that fails moves next all the same. *)
PoolGet(pool) ==
    IF pool.free = <<>>
    THEN [pool EXCEPT !.over = @ + 1]
    ELSE [pool EXCEPT !.free = Tail(@)]

(* The pool after a release: beyond the end the id is stored outside the   *)
(* array and is gone.                                                      *)
PoolPut(pool, id) ==
    IF pool.over > 0
    THEN [pool EXCEPT !.over = @ - 1]
    ELSE [pool EXCEPT !.free = <<id>> \o @]

FreeIds(pool) == {pool.free[k] : k \in DOMAIN pool.free}

(* No id is in two places of the pool. *)
FreeOnce(pool) == \A j, k \in DOMAIN pool.free : pool.free[j] = pool.free[k] => j = k
=============================================================================
