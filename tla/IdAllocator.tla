---------------------------- MODULE IdAllocator ----------------------------
(***************************************************************************)
(* What the id pool promises (src/src/id_pool.h): an id is handed to one   *)
(* caller at a time, a released id becomes available again, and a request  *)
(* is refused only when nothing is available.                              *)
(*                                                                         *)
(* An id is free, granted (a request has been bound to it), held by the    *)
(* caller, or returned (a release of it has been called and has not taken  *)
(* effect yet).                                                            *)
(***************************************************************************)
EXTENDS Naturals

CONSTANT Ids

VARIABLES
    status,     \* status[i]: where id i is in its life
    refused     \* how many requests were refused

vars == <<status, refused>>

Status == {"free", "granted", "held", "returned"}

TypeOK ==
    /\ status \in [Ids -> Status]
    /\ refused \in Nat

Init ==
    /\ status = [i \in Ids |-> "free"]
    /\ refused = 0

Free == {i \in Ids : status[i] = "free"}

Move(i, from, to) ==
    /\ status[i] = from
    /\ status' = [status EXCEPT ![i] = to]

(* A request is bound to some free id. *)
Grant(i) == Move(i, "free", "granted") /\ UNCHANGED refused

(* A request is refused, and only if there is no free id. *)
Refuse ==
    /\ Free = {}
    /\ refused' = refused + 1
    /\ UNCHANGED status

(* The caller receives the id it was granted. *)
Deliver(i) == Move(i, "granted", "held") /\ UNCHANGED refused

(* The holder calls release. *)
GiveBack(i) == Move(i, "held", "returned") /\ UNCHANGED refused

(* The release takes effect. *)
Reclaim(i) == Move(i, "returned", "free") /\ UNCHANGED refused

Next ==
    \/ \E i \in Ids : Grant(i) \/ Deliver(i) \/ GiveBack(i) \/ Reclaim(i)
    \/ Refuse

Spec == Init /\ [][Next]_vars
=============================================================================
