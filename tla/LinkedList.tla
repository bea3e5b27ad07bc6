----------------------------- MODULE LinkedList -----------------------------
(***************************************************************************)
(* The circular doubly linked lists of src/src/list.h.  The plugins, their *)
(* ops, the resources and the registrations of sessions are kept on them.  *)
(* A list is its head, a node like the entries; an entry that is on no     *)
(* list points to itself.                                                  *)
(***************************************************************************)
EXTENDS Naturals, Sequences, FiniteSets

CONSTANTS Heads, Entries, NULL

Nodes == Heads \cup Entries

ASSUME NodesAssumption == Heads \cap Entries = {} /\ NULL \notin Nodes

ASSUME EntriesAssumption == IsFiniteSet(Entries)

VARIABLES
    next,       \* node->next
    prev,       \* node->prev
    list,       \* the list a for_each_container_safe loop goes through, or NULL
    iter, tmp,  \* its two iterators
    entered,    \* has the body been entered for iter?
    visited,    \* the entries its body has seen
    todo        \* the entries that were on the list when it started

links == <<next, prev>>
loop == <<list, iter, tmp, entered, visited, todo>>
vars == <<links, loop>>

(* list_init and list_init_entry *)
Init ==
    /\ next = [x \in Nodes |-> x]
    /\ prev = [x \in Nodes |-> x]
    /\ list = NULL /\ iter = NULL /\ tmp = NULL
    /\ entered = FALSE /\ visited = {} /\ todo = {}

list_empty(h) == next[h] = h

entry_linked(e) == next[e] # e

(* Following next from the head h one comes by the elements of s, in their *)
(* order, and then back to h.                                              *)
Chain(h, s) ==
    LET at(k) == IF k \in DOMAIN s THEN s[k] ELSE h
    IN  \A k \in 0 .. Len(s) : next[at(k)] = at(k + 1)

(* The entries of a list, in the order in which next visits them. *)
Walk(h) ==
    CHOOSE s \in UNION {[1 .. n -> Entries] : n \in 0 .. Cardinality(Entries)} : Chain(h, s)

Elements(seq) == {seq[k] : k \in DOMAIN seq}

OnList(h) == Elements(Walk(h))

-----------------------------------------------------------------------------
(* A mutant of list_link_entry: it forgets next->prev = entry. *)
LinkForgetsPrev(e, p, n) ==
    /\ next' = [next EXCEPT ![e] = n, ![p] = e]
    /\ prev' = [prev EXCEPT ![e] = p]

(* entry->next = next; next->prev = entry; entry->prev = prev;             *)
(* prev->next = entry.                                                     *)
list_link_entry(e, p, n) ==
    /\ next' = [next EXCEPT ![e] = n, ![p] = e]
    /\ prev' = [prev EXCEPT ![n] = e, ![e] = p]

(* entry->prev->next = entry->next; entry->next->prev = entry->prev;       *)
(* then the entry points to itself.                                        *)
list_unlink_entry(e) ==
    /\ next' = [next EXCEPT ![prev[e]] = next[e], ![e] = e]
    /\ prev' = [prev EXCEPT ![next[e]] = prev[e], ![e] = e]

(* Callers add entries that are on no list (register_plugin tests it, a    *)
(* new resource or container is fresh), and the body of a loop does not    *)
(* put back what it has taken out.                                         *)
MayAdd(e) == ~entry_linked(e) /\ e \notin visited

(* A mutant of list_add_head: the two neighbours are swapped. *)
AddHeadSwapped(h, e) ==
    /\ MayAdd(e)
    /\ list_link_entry(e, next[h], h)
    /\ UNCHANGED loop

list_add_head(h, e) ==
    /\ MayAdd(e)
    /\ list_link_entry(e, h, next[h])
    /\ UNCHANGED loop

list_add_tail(h, e) ==
    /\ MayAdd(e)
    /\ list_link_entry(e, prev[h], h)
    /\ UNCHANGED loop

(* While a list is gone through, entries leave it through the loop only.   *)
Unlink(e) ==
    /\ list = NULL
    /\ list_unlink_entry(e)
    /\ UNCHANGED loop

list_remove_head(h) ==
    /\ ~list_empty(h) /\ list = NULL
    /\ list_unlink_entry(next[h])
    /\ UNCHANGED loop

list_remove_tail(h) ==
    /\ ~list_empty(h) /\ list = NULL
    /\ list_unlink_entry(prev[h])
    /\ UNCHANGED loop

-----------------------------------------------------------------------------
(* for_each_container_safe *)

LoopStart(h) ==
    /\ list = NULL
    /\ list' = h
    /\ iter' = next[h]
    /\ tmp' = next[next[h]]
    /\ entered' = FALSE
    /\ visited' = {}
    /\ todo' = OnList(h)
    /\ UNCHANGED links

(* The body sees iter, and may unlink it. *)
LoopVisit ==
    /\ list # NULL /\ iter # list
    /\ ~entered
    /\ entered' = TRUE
    /\ visited' = visited \cup {iter}
    /\ UNCHANGED links \/ list_unlink_entry(iter)
    /\ UNCHANGED <<list, iter, tmp, todo>>

(* A mutant of LoopNext: for_each_container, which is not safe. *)
LoopNextUnsafe ==
    /\ list # NULL /\ iter # list
    /\ entered
    /\ entered' = FALSE
    /\ iter' = next[iter]
    /\ tmp' = next[tmp]
    /\ UNCHANGED <<links, list, visited, todo>>

LoopNext ==
    /\ list # NULL /\ iter # list
    /\ entered
    /\ entered' = FALSE
    /\ iter' = tmp
    /\ tmp' = next[tmp]
    /\ UNCHANGED <<links, list, visited, todo>>

LoopEnd ==
    /\ list # NULL /\ iter = list
    /\ list' = NULL /\ iter' = NULL /\ tmp' = NULL
    /\ entered' = FALSE /\ visited' = {} /\ todo' = {}
    /\ UNCHANGED links

Next ==
    \/ \E h \in Heads, e \in Entries : list_add_head(h, e) \/ list_add_tail(h, e)
    \/ \E e \in Entries : Unlink(e)
    \/ \E h \in Heads : list_remove_head(h) \/ list_remove_tail(h) \/ LoopStart(h)
    \/ LoopVisit \/ LoopNext \/ LoopEnd

Fairness == WF_vars(LoopVisit) /\ WF_vars(LoopNext) /\ WF_vars(LoopEnd)

Spec == Init /\ [][Next]_vars

FairSpec == Spec /\ Fairness
-----------------------------------------------------------------------------
(* Properties *)

(* The nodes the code dereferences are nodes. *)
PointersOK ==
    /\ next \in [Nodes -> Nodes]
    /\ prev \in [Nodes -> Nodes]
    /\ list \in Heads \cup {NULL}
    /\ list # NULL => iter \in Nodes /\ tmp \in Nodes

(* Following next and prev one after the other leads back. *)
Opposite ==
    \A x \in Nodes : prev[next[x]] = x /\ next[prev[x]] = x

(* Whatever is added, unlinked and gone through, the two directions of     *)
(* every list agree at every node.                                         *)
LinksAgree == PointersOK /\ Opposite

(* A safe loop stays on its list, enters its body once for an entry, and   *)
(* has seen every entry that was on the list at the start when it ends,    *)
(* whatever it has unlinked meanwhile.                                     *)
LoopSeesAll ==
    list # NULL =>
        /\ ~entered => iter \in (OnList(list) \ visited) \cup {list}
        /\ iter = list => todo \subseteq visited

(* A safe loop comes to its end. *)
LoopEnds == list # NULL ~> list = NULL

Abs == INSTANCE ListContents WITH contents <- [h \in Heads |-> Walk(h)]

(* The pointers implement sequences: adding and unlinking one entry        *)
(* changes one list, at one place.                                         *)
Implements == Abs!Spec
=============================================================================
