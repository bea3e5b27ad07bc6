---------------------------- MODULE ListContents ----------------------------
(***************************************************************************)
(* What src/src/list.h promises: each list is a sequence of entries, and   *)
(* an entry is on one list at most.                                        *)
(***************************************************************************)
EXTENDS Sequences, Naturals

CONSTANTS Heads, Entries

VARIABLE contents   \* the entries of each list, from head to tail

Elements(seq) == {seq[k] : k \in DOMAIN seq}

Linked == UNION {Elements(contents[h]) : h \in Heads}

TypeOK == contents \in [Heads -> Seq(Entries)]

Init == contents = [h \in Heads |-> <<>>]

AddHead(h, e) ==
    /\ e \notin Linked
    /\ contents' = [contents EXCEPT ![h] = <<e>> \o @]

AddTail(h, e) ==
    /\ e \notin Linked
    /\ contents' = [contents EXCEPT ![h] = Append(@, e)]

(* seq without its k-th element *)
Cut(seq, k) == [j \in 1 .. Len(seq) - 1 |-> IF j < k THEN seq[j] ELSE seq[j + 1]]

Unlink(h, k) == contents' = [contents EXCEPT ![h] = Cut(@, k)]

Next ==
    \E h \in Heads :
        \/ \E e \in Entries : AddHead(h, e) \/ AddTail(h, e)
        \/ \E k \in DOMAIN contents[h] : Unlink(h, k)

Spec == Init /\ [][Next]_contents
=============================================================================
