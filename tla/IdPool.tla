------------------------------- MODULE IdPool -------------------------------
(***************************************************************************)
(* The id pool of src/src/id_pool.c: an array of ids used as a stack whose *)
(* top is the atomic counter next.  Sessions and resources take their ids  *)
(* from a pool each, from any thread of the application and under no lock. *)
(*                                                                         *)
(* A step is one access to the shared memory: the atomic operations on     *)
(* next, and the plain loads and stores of the slots.  ids[s] = 0 means    *)
(* that slot s was never used and stands for the id s + 1.                 *)
(***************************************************************************)
EXTENDS Integers, FiniteSets

CONSTANTS
    Threads,        \* the threads that call the pool
    MaxIds,         \* nr_ids of id_pool_new
    MaxFailedGets,  \* bound: how many gets may find the pool exhausted
    Overlap         \* may a get run while a release is in progress?

ASSUME MaxIdsAssumption == MaxIds \in Nat \ {0}
ASSUME MaxFailedGetsAssumption == MaxFailedGets \in Nat
ASSUME OverlapAssumption == Overlap \in BOOLEAN

Ids == 1 .. MaxIds
Slots == 0 .. MaxIds - 1
None == 0               \* no id: an unused slot, or the answer "no id"

VARIABLES
    next,       \* pool->next
    ids,        \* pool->ids
    pc,         \* the access each thread performs next
    ptr,        \* the local ptr of id_pool_get and of id_pool_release
    curr,       \* the local curr of id_pool_release
    rid,        \* the argument id of id_pool_release
    held,       \* held[i]: how many callers hold id i now
    failed      \* how many gets have answered "no id"

pool == <<next, ids>>
vars == <<next, ids, pc, ptr, curr, rid, held, failed>>

GetPcs == {"test", "init", "load"}
ReleasePcs == {"cas", "store"}

TypeOK ==
    /\ next \in Int
    /\ ids \in [Slots -> Ids \cup {None}]
    /\ pc \in [Threads -> {"idle"} \cup GetPcs \cup ReleasePcs]
    /\ ptr \in [Threads -> Int]
    /\ curr \in [Threads -> Int]
    /\ rid \in [Threads -> Ids \cup {None}]
    /\ held \in [Ids -> Nat]
    /\ failed \in Nat

(* id_pool_new: every slot unused, the stack pointer at 0. *)
Init ==
    /\ next = 0
    /\ ids = [s \in Slots |-> None]
    /\ pc = [t \in Threads |-> "idle"]
    /\ ptr = [t \in Threads |-> 0]
    /\ curr = [t \in Threads |-> 0]
    /\ rid = [t \in Threads |-> None]
    /\ held = [i \in Ids |-> 0]
    /\ failed = 0

Getting == {t \in Threads : pc[t] \in GetPcs}
Releasing == {t \in Threads : pc[t] \in ReleasePcs}

Goto(t, label) == pc' = [pc EXCEPT ![t] = label]

-----------------------------------------------------------------------------
(* id_pool_get *)

(* Mutants of Exhausted: one id too late, one id too early. *)
ExhaustedLate == next > MaxIds
ExhaustedEarly == next >= MaxIds - 1

(* ptr >= pool->max *)
Exhausted == next >= MaxIds

(* The call and its fetch_add: the caller claims slot number next. *)
GetClaim(t) ==
    /\ pc[t] = "idle"
    /\ Overlap \/ Releasing = {}
    /\ ~Exhausted
    /\ ptr' = [ptr EXCEPT ![t] = next]
    /\ next' = next + 1
    /\ Goto(t, "test")
    /\ UNCHANGED <<ids, curr, rid, held, failed>>

(* The fetch_add finds the stack exhausted: the call answers 0, and next   *)
(* keeps the increment.                                                    *)
GetNone(t) ==
    /\ pc[t] = "idle"
    /\ Overlap \/ Releasing = {}
    /\ Exhausted
    /\ failed < MaxFailedGets
    /\ failed' = failed + 1
    /\ next' = next + 1
    /\ UNCHANGED <<ids, pc, ptr, curr, rid, held>>

(* if (!pool->ids[ptr]) *)
GetTest(t) ==
    /\ pc[t] = "test"
    /\ Goto(t, IF ids[ptr[t]] = None THEN "init" ELSE "load")
    /\ UNCHANGED <<pool, ptr, curr, rid, held, failed>>

(* A mutant of GetInit: the slot is numbered after next, which other gets  *)
(* have moved, in place of the slot the fetch_add answered.                *)
GetInitRereads(t) ==
    /\ pc[t] = "init"
    /\ ids' = [ids EXCEPT ![ptr[t]] = next]
    /\ Goto(t, "load")
    /\ UNCHANGED <<next, ptr, curr, rid, held, failed>>

(* pool->ids[ptr] = ptr + 1 *)
GetInit(t) ==
    /\ pc[t] = "init"
    /\ ids' = [ids EXCEPT ![ptr[t]] = ptr[t] + 1]
    /\ Goto(t, "load")
    /\ UNCHANGED <<next, ptr, curr, rid, held, failed>>

(* return pool->ids[ptr] *)
GetLoad(t) ==
    /\ pc[t] = "load"
    /\ held' = [held EXCEPT ![ids[ptr[t]]] = @ + 1]
    /\ Goto(t, "idle")
    /\ UNCHANGED <<pool, ptr, curr, rid, failed>>

-----------------------------------------------------------------------------
(* id_pool_release *)

(* The call, by a holder of the id, and its first load of next. *)
ReleaseLoad(t, i) ==
    /\ pc[t] = "idle"
    /\ Overlap \/ Getting = {}
    /\ held[i] > 0
    /\ held' = [held EXCEPT ![i] = @ - 1]
    /\ rid' = [rid EXCEPT ![t] = i]
    /\ curr' = [curr EXCEPT ![t] = next]
    /\ ptr' = [ptr EXCEPT ![t] = next - 1]
    /\ Goto(t, "cas")
    /\ UNCHANGED <<pool, failed>>

(* A mutant of ReleaseCasOk: a plain store of next, which does not see the *)
(* releases since the load.                                                *)
ReleaseStoresNext(t) ==
    /\ pc[t] = "cas"
    /\ next' = ptr[t]
    /\ Goto(t, "store")
    /\ UNCHANGED <<ids, ptr, curr, rid, held, failed>>

(* The compare-and-exchange succeeds: the slot under the top is the        *)
(* caller's to fill.                                                       *)
ReleaseCasOk(t) ==
    /\ pc[t] = "cas"
    /\ next = curr[t]
    /\ next' = ptr[t]
    /\ Goto(t, "store")
    /\ UNCHANGED <<ids, ptr, curr, rid, held, failed>>

(* Mutants of ReleaseCasFail: the loop does not compute ptr again; the     *)
(* exchange does not load next again.                                      *)
ReleaseRetriesStale(t) ==
    /\ pc[t] = "cas"
    /\ next # curr[t]
    /\ curr' = [curr EXCEPT ![t] = next]
    /\ UNCHANGED <<pool, pc, ptr, rid, held, failed>>

ReleaseSpins(t) ==
    /\ pc[t] = "cas"
    /\ next # curr[t]
    /\ UNCHANGED vars

(* It fails, loads next into curr, and the loop tries again. *)
ReleaseCasFail(t) ==
    /\ pc[t] = "cas"
    /\ next # curr[t]
    /\ curr' = [curr EXCEPT ![t] = next]
    /\ ptr' = [ptr EXCEPT ![t] = next - 1]
    /\ UNCHANGED <<pool, pc, rid, held, failed>>

(* A mutant of ReleaseStore: the slot above the one that was uncovered. *)
ReleaseStoresAbove(t) ==
    /\ pc[t] = "store"
    /\ ids' = [s \in Slots |-> IF s = curr[t] THEN rid[t] ELSE ids[s]]
    /\ rid' = [rid EXCEPT ![t] = None]
    /\ Goto(t, "idle")
    /\ UNCHANGED <<next, ptr, curr, held, failed>>

(* pool->ids[ptr] = id.  A store outside the array reaches memory that is  *)
(* not the pool's: the slots keep their values.                            *)
ReleaseStore(t) ==
    /\ pc[t] = "store"
    /\ ids' = [s \in Slots |-> IF s = ptr[t] THEN rid[t] ELSE ids[s]]
    /\ rid' = [rid EXCEPT ![t] = None]
    /\ Goto(t, "idle")
    /\ UNCHANGED <<next, ptr, curr, held, failed>>

-----------------------------------------------------------------------------
Get(t) == GetClaim(t) \/ GetNone(t) \/ GetTest(t) \/ GetInit(t) \/ GetLoad(t)

ReleaseStep(t) == ReleaseCasOk(t) \/ ReleaseCasFail(t) \/ ReleaseStore(t)

Release(t) == ReleaseStep(t) \/ \E i \in Ids : ReleaseLoad(t, i)

Next == \E t \in Threads : Get(t) \/ Release(t)

(* A thread inside a call is scheduled again; nobody has to start a call.  *)
Continue(t) == GetTest(t) \/ GetInit(t) \/ GetLoad(t) \/ ReleaseStep(t)

Fairness == \A t \in Threads : WF_vars(Continue(t))

Spec == Init /\ [][Next]_vars

FairSpec == Spec /\ Fairness
-----------------------------------------------------------------------------
(* What the pool guarantees.                                               *)

(* The id a get that has claimed slot s would return. *)
SlotId(s) == IF ids[s] = None THEN s + 1 ELSE ids[s]

Storing == {t \in Threads : pc[t] = "store"}

(* Slots whose release has moved next below them and not stored the id. *)
Pending == {ptr[t] : t \in Storing}

Claimed == {ptr[t] : t \in Getting}

(* Slots that hold an id for this or for a later get. *)
Available == {s \in Slots : (s >= next /\ s \notin Pending) \/ s \in Claimed}

(* No id is in the hands of two callers: two sessions (or two resources)   *)
(* of one process never have the same id (session.c indexes                *)
(* running_sessions by it).                                                *)
UniqueIds == \A i \in Ids : held[i] <= 1

(* Two gets never work on the same slot, and neither do two releases:      *)
(* the plain accesses to the array do not race.                            *)
SlotsNotShared ==
    \A t, u \in Threads :
        (t # u /\ {t, u} \subseteq Getting \cup Storing)
            => ptr[t] # ptr[u]

(* Every access to pool->ids is inside the array, until a get finds the    *)
(* pool exhausted.                                                         *)
InBounds ==
    failed = 0 => \A t \in Threads : pc[t] \in GetPcs \cup {"store"} => ptr[t] \in Slots

(* No id is lost, until a get finds the pool exhausted: each one is        *)
(* available, held, or on its way back.                                    *)
NoIdLost ==
    failed = 0 => \A i \in Ids :
        \/ \E s \in Available : SlotId(s) = i
        \/ held[i] > 0
        \/ \E t \in Releasing : rid[t] = i

OnItsWay(i) == \E t \in Threads : rid[t] = i
IsAvailable(i) == \E s \in Available : SlotId(s) = i

(* A released id is available to a later get, sooner or later: the loop of *)
(* the exchange in id_pool_release does not go on for ever while other     *)
(* threads release.                                                        *)
ReleasedComesBack ==
    \A i \in Ids : OnItsWay(i) ~> (IsAvailable(i) \/ failed > 0)

(* id_pool.h: id_pool_release is to "Release an id back to the pool", also *)
(* when a get has found the pool exhausted before.                         *)
ReleaseReturnsId ==
    \A i \in Ids : OnItsWay(i) ~> IsAvailable(i)

-----------------------------------------------------------------------------
(* The inductive invariant of the pool when gets and releases do not       *)
(* overlap.  The ids are spread over disjoint places: the available slots, *)
(* the callers, and the releases in progress.                              *)

(* The counter never goes below the bottom of the stack. *)
NextNotNegative == next >= 0

NoOverlap == Getting = {} \/ Releasing = {}

(* A get owns a slot below the top until it returns. *)
GetsOwnSlots ==
    /\ \A t \in Getting : ptr[t] \in Slots /\ ptr[t] < next
    /\ \A t, u \in Getting : t # u => ptr[t] # ptr[u]
    /\ \A t \in Getting : pc[t] = "load" => ids[ptr[t]] # None
    /\ \A t \in Getting : pc[t] = "init" => ids[ptr[t]] = None

(* A release owns the slot it has uncovered until it has stored its id. *)
ReleasesOwnSlots ==
    /\ \A t \in Storing : ptr[t] >= next
    /\ \A t, u \in Storing : t # u => ptr[t] # ptr[u]
    /\ \A t \in Threads : pc[t] = "cas" => ptr[t] = curr[t] - 1

(* Different available slots stand for different ids, which nobody has. *)
AvailableIdsDiffer ==
    /\ \A r, s \in Available : r # s => SlotId(r) # SlotId(s)
    /\ \A s \in Available : held[SlotId(s)] = 0
    /\ \A s \in Available, t \in Releasing : rid[t] # SlotId(s)

(* A release has taken its id away from the only holder. *)
ReleasedIdsDiffer ==
    /\ \A t \in Releasing : rid[t] \in Ids /\ held[rid[t]] = 0
    /\ \A t, u \in Releasing : t # u => rid[t] # rid[u]

PhasedInv ==
    /\ TypeOK
    /\ NextNotNegative
    /\ NoOverlap
    /\ GetsOwnSlots
    /\ ReleasesOwnSlots
    /\ AvailableIdsDiffer
    /\ ReleasedIdsDiffer
    /\ UniqueIds

-----------------------------------------------------------------------------
(* What survives when gets and releases overlap: the counter counts the    *)
(* ids that are out and the gets that failed.                              *)

Exchanging == {t \in Threads : pc[t] = "cas"}

(* One element for each caller that holds an id *)
Holdings == UNION {{i} \X (1 .. held[i]) : i \in Ids}

(* next is the number of gets that claimed a slot or failed less that of   *)
(* the releases whose exchange has succeeded, so no release can bring it   *)
(* below 0: neither a lost update of next nor a retry that lowers it twice.*)
NextCounts ==
    next = Cardinality(Getting) + Cardinality(Holdings) + Cardinality(Exchanging) + failed

(* The stack pointer is sound whatever overlaps: it counts exactly, which  *)
(* keeps every access to the array inside it until a get finds the pool    *)
(* exhausted.                                                              *)
CounterSound == NextCounts /\ InBounds

-----------------------------------------------------------------------------
(* The pool implements IdAllocator. *)

FreeIds == {SlotId(s) : s \in Available \ Claimed}

StatusOf(i) ==
    CASE held[i] > 0 -> "held"
      [] held[i] = 0 /\ \E t \in Getting : SlotId(ptr[t]) = i -> "granted"
      [] held[i] = 0 /\ i \in FreeIds -> "free"
      [] OTHER -> "returned"

Abs == INSTANCE IdAllocator
           WITH status <- [i \in Ids |-> StatusOf(i)], refused <- failed

(* Requests and releases take effect atomically, at the fetch_add and at   *)
(* the store of the slot, and a request is refused only when nothing is    *)
(* free: a caller sees the allocator of IdAllocator.                       *)
Implements == Abs!Spec

-----------------------------------------------------------------------------
(* The pool implements AtomicIdPool. *)

(* What slot s, at or above the top, holds for a later get: the id that a  *)
(* release is about to store there, or the one it stands for.              *)
Content(s) ==
    IF s \in Pending THEN rid[CHOOSE t \in Storing : ptr[t] = s] ELSE SlotId(s)

Stack ==
    [free |-> [k \in 1 .. MaxIds - next |-> Content(next + k - 1)],
     over |-> IF next > MaxIds THEN next - MaxIds ELSE 0]

(* An id is out from the fetch_add of its get to the exchange of its       *)
(* release.                                                                *)
IdsOut ==
    {i \in Ids : held[i] > 0}
        \cup {SlotId(ptr[t]) : t \in Getting} \cup {rid[t] : t \in Exchanging}

Atomic == INSTANCE AtomicIdPool WITH ids <- Stack, out <- IdsOut

(* The calls of any threads amount to single steps on a stack, one at a    *)
(* time: at the fetch_add a get is bound to the id that was released last, *)
(* though it tests, numbers and reads the slot later, and at its exchange  *)
(* a release has put its id on top, though the store comes later.          *)
IsAtomic == Atomic!Spec
=============================================================================
