-------------------------- MODULE LinkedListProofs --------------------------
(***************************************************************************)
(* Proofs about LinkedList, for any number of lists and entries: the       *)
(* pointers stay nodes, the two directions of the lists agree, the         *)
(* pointers implement sequences, and a safe loop misses nothing.           *)
(***************************************************************************)
EXTENDS LinkedList, FiniteSetTheorems, WellFoundedInduction, TLAPS
-----------------------------------------------------------------------------
(* The two directions                                                      *)

USE NodesAssumption DEF Nodes

(* Linking an entry that is on no list next to another node, in front of   *)
(* the node that follows it.                                               *)
LEMMA LinkAgrees ==
    ASSUME LinksAgree, NEW e \in Nodes, NEW p \in Nodes,
           next[e] = e, p # e,
           list_link_entry(e, p, next[p])
    PROVE  /\ next' \in [Nodes -> Nodes] /\ prev' \in [Nodes -> Nodes]
           /\ Opposite'
<1> DEFINE n == next[p]
<1>1. n \in Nodes /\ prev[n] = p /\ prev[e] = e /\ n # e
  BY DEF LinksAgree, PointersOK, Opposite
<1>2. next' = [next EXCEPT ![e] = n, ![p] = e] /\ prev' = [prev EXCEPT ![n] = e, ![e] = p]
  BY DEF list_link_entry
<1>3. next' \in [Nodes -> Nodes] /\ prev' \in [Nodes -> Nodes]
  BY <1>1, <1>2 DEF LinksAgree, PointersOK
<1>4. /\ next'[e] = n /\ next'[p] = e
      /\ \A x \in Nodes : x # e /\ x # p => next'[x] = next[x]
  BY <1>1, <1>2 DEF LinksAgree, PointersOK
<1>5. /\ prev'[e] = p /\ prev'[n] = e
      /\ \A x \in Nodes : x # e /\ x # n => prev'[x] = prev[x]
  BY <1>1, <1>2 DEF LinksAgree, PointersOK
<1>6. ASSUME NEW x \in Nodes PROVE prev'[next'[x]] = x
  BY <1>1, <1>4, <1>5 DEF LinksAgree, PointersOK, Opposite
<1>7. ASSUME NEW x \in Nodes PROVE next'[prev'[x]] = x
  BY <1>1, <1>4, <1>5 DEF LinksAgree, PointersOK, Opposite
<1> QED
  BY <1>3, <1>6, <1>7 DEF Opposite

(* Unlinking any node, on a list or not. *)
LEMMA UnlinkAgrees ==
    ASSUME LinksAgree, NEW e \in Nodes, list_unlink_entry(e)
    PROVE  /\ next' \in [Nodes -> Nodes] /\ prev' \in [Nodes -> Nodes]
           /\ Opposite'
<1> DEFINE p == prev[e]
           n == next[e]
<1>1. p \in Nodes /\ n \in Nodes /\ next[p] = e /\ prev[n] = e
  BY DEF LinksAgree, PointersOK, Opposite
<1>2. next' = [next EXCEPT ![p] = n, ![e] = e] /\ prev' = [prev EXCEPT ![n] = p, ![e] = e]
  BY DEF list_unlink_entry
<1>3. next' \in [Nodes -> Nodes] /\ prev' \in [Nodes -> Nodes]
  BY <1>1, <1>2 DEF LinksAgree, PointersOK
<1>4. /\ next'[e] = e /\ (p # e => next'[p] = n)
      /\ \A x \in Nodes : x # e /\ x # p => next'[x] = next[x]
  BY <1>1, <1>2 DEF LinksAgree, PointersOK
<1>5. /\ prev'[e] = e /\ (n # e => prev'[n] = p)
      /\ \A x \in Nodes : x # e /\ x # n => prev'[x] = prev[x]
  BY <1>1, <1>2 DEF LinksAgree, PointersOK
<1>6. ASSUME NEW x \in Nodes PROVE prev'[next'[x]] = x
  BY <1>1, <1>4, <1>5 DEF LinksAgree, PointersOK, Opposite
<1>7. ASSUME NEW x \in Nodes PROVE next'[prev'[x]] = x
  BY <1>1, <1>4, <1>5 DEF LinksAgree, PointersOK, Opposite
<1> QED
  BY <1>3, <1>6, <1>7 DEF Opposite

LEMMA ListStep ==
    ASSUME LinksAgree, [Next]_vars
    PROVE  LinksAgree'
<1>1. CASE UNCHANGED vars
  BY <1>1 DEF vars, links, loop, LinksAgree, PointersOK, Opposite
<1>2. ASSUME NEW h \in Heads, NEW e \in Entries, list_add_head(h, e) PROVE LinksAgree'
  <2>1. next[e] = e /\ h # e /\ list_link_entry(e, h, next[h]) /\ UNCHANGED loop
    BY <1>2 DEF list_add_head, MayAdd, entry_linked
  <2> QED
    BY <2>1, LinkAgrees DEF LinksAgree, PointersOK, loop
<1>3. ASSUME NEW h \in Heads, NEW e \in Entries, list_add_tail(h, e) PROVE LinksAgree'
  <2>1. next[e] = e /\ h # e /\ list_link_entry(e, prev[h], h) /\ UNCHANGED loop
    BY <1>3 DEF list_add_tail, MayAdd, entry_linked
  <2>2. prev[h] \in Nodes /\ next[prev[h]] = h /\ prev[h] # e
    BY <2>1 DEF LinksAgree, PointersOK, Opposite
  <2> QED
    BY <2>1, <2>2, LinkAgrees DEF LinksAgree, PointersOK, loop
<1>4. ASSUME NEW e \in Nodes, list_unlink_entry(e), UNCHANGED loop PROVE LinksAgree'
  BY <1>4, UnlinkAgrees DEF LinksAgree, PointersOK, loop
<1>5. ASSUME NEW e \in Entries, Unlink(e) PROVE LinksAgree'
  BY <1>4, <1>5 DEF Unlink
<1>6. ASSUME NEW h \in Heads, list_remove_head(h) \/ list_remove_tail(h) PROVE LinksAgree'
  <2>1. next[h] \in Nodes /\ prev[h] \in Nodes
    BY DEF LinksAgree, PointersOK
  <2> QED
    BY <1>4, <1>6, <2>1 DEF list_remove_head, list_remove_tail
<1>7. ASSUME NEW h \in Heads, LoopStart(h) PROVE LinksAgree'
  BY <1>7 DEF LoopStart, links, LinksAgree, PointersOK, Opposite
<1>8. CASE LoopVisit
  <2>1. iter \in Nodes /\ UNCHANGED <<list, iter, tmp>>
    BY <1>8 DEF LoopVisit, LinksAgree, PointersOK
  <2>2. CASE UNCHANGED links
    BY <2>1, <2>2 DEF links, LinksAgree, PointersOK, Opposite
  <2>3. CASE list_unlink_entry(iter)
    BY <2>1, <2>3, UnlinkAgrees DEF LinksAgree, PointersOK
  <2> QED
    BY <1>8, <2>2, <2>3 DEF LoopVisit
<1>9. CASE LoopNext
  BY <1>9 DEF LoopNext, links, LinksAgree, PointersOK, Opposite
<1>10. CASE LoopEnd
  BY <1>10 DEF LoopEnd, links, LinksAgree, PointersOK, Opposite
<1> QED
  BY <1>1, <1>2, <1>3, <1>5, <1>6, <1>7, <1>8, <1>9, <1>10 DEF Next

(* However entries are added, removed and gone through (list.h), following *)
(* next and then prev leads back to where one started, at every node: no   *)
(* list is ever cut or cross-linked.                                       *)
THEOREM LinksAlwaysAgree == Spec => []LinksAgree
<1>1. Init => LinksAgree
  BY DEF Init, LinksAgree, PointersOK, Opposite
<1>2. LinksAgree /\ [Next]_vars => LinksAgree'
  BY ListStep
<1> QED
  BY <1>1, <1>2, PTL DEF Spec

(* The loop iterators and the links (list.h) are nodes whenever they are   *)
(* dereferenced.                                                           *)
THEOREM PointersAreNodes == Spec => []PointersOK
<1>1. Init => LinksAgree
  BY DEF Init, LinksAgree, PointersOK, Opposite
<1>2. LinksAgree /\ [Next]_vars => LinksAgree'
  BY ListStep
<1>3. LinksAgree => PointersOK
  BY DEF LinksAgree
<1> QED
  BY <1>1, <1>2, <1>3, PTL DEF Spec
-----------------------------------------------------------------------------
(* Lists as sequences                                                      *)

(* What stands at position k of list h whose entries are s: the head is at *)
(* both ends.                                                              *)
At(h, s, k) == IF k \in DOMAIN s THEN s[k] ELSE h

Once(seq) == \A j, k \in DOMAIN seq : seq[j] = seq[k] => j = k

(* A set of naturals has a least element: induction over data, for what    *)
(* can be said with a set.                                                 *)
LEMMA Least ==
    ASSUME NEW S \in SUBSET Nat, S # {}
    PROVE  \E m \in S : \A k \in S : m <= k
<1>1. PICK m \in S : \A k \in S : ~ (<<k, m>> \in OpToRel(<, Nat))
  BY NatLessThanWellFounded, WFMin
<1>2. \A k \in S : ~(k < m)
  BY <1>1 DEF OpToRel
<1> QED
  BY <1>2

LEMMA AtFacts ==
    ASSUME NEW h \in Heads, NEW s \in Seq(Entries)
    PROVE  /\ Len(s) \in Nat /\ DOMAIN s = 1 .. Len(s)
           /\ \A k \in 1 .. Len(s) : At(h, s, k) = s[k] /\ s[k] \in Entries /\ s[k] # h
           /\ At(h, s, 0) = h /\ At(h, s, Len(s) + 1) = h
           /\ \A k : At(h, s, k) \in Nodes
<1>1. Len(s) \in Nat /\ DOMAIN s = 1 .. Len(s) /\ \A k \in 1 .. Len(s) : s[k] \in Entries
  OBVIOUS
<1>2. 0 \notin 1 .. Len(s) /\ Len(s) + 1 \notin 1 .. Len(s)
  BY <1>1
<1> QED
  BY <1>1, <1>2 DEF At

LEMMA ChainFacts ==
    ASSUME NEW h, NEW s, Chain(h, s)
    PROVE  \A k \in 0 .. Len(s) : next[At(h, s, k)] = At(h, s, k + 1)
BY DEF Chain, At

(* There is one sequence that next goes through from a head: two of them   *)
(* have no first position where they differ.                               *)
LEMMA ChainsAgree ==
    ASSUME NEW h \in Heads, NEW s \in Seq(Entries), NEW u \in Seq(Entries),
           Chain(h, s), Chain(h, u)
    PROVE  s = u
<1> DEFINE differ == {k \in 0 .. Len(s) + 1 : At(h, s, k) # At(h, u, k)}
<1>1. /\ Len(s) \in Nat /\ DOMAIN s = 1 .. Len(s) /\ Len(u) \in Nat /\ DOMAIN u = 1 .. Len(u)
      /\ \A k \in 1 .. Len(s) : At(h, s, k) = s[k] /\ s[k] # h
      /\ \A k \in 1 .. Len(u) : At(h, u, k) = u[k] /\ u[k] # h
      /\ At(h, s, 0) = h /\ At(h, s, Len(s) + 1) = h /\ At(h, u, 0) = h
  BY AtFacts
<1>2. /\ \A k \in 0 .. Len(s) : next[At(h, s, k)] = At(h, s, k + 1)
      /\ \A k \in 0 .. Len(u) : next[At(h, u, k)] = At(h, u, k + 1)
  BY ChainFacts
<1>3. \A k \in Nat : k \notin 1 .. Len(u) => At(h, u, k) = h
  BY <1>1 DEF At
<1>4. differ = {}
  <2> SUFFICES ASSUME differ # {}
               PROVE  FALSE
    OBVIOUS
  <2>1. differ \in SUBSET Nat
    BY <1>1
  <2>2. PICK k \in differ : \A j \in differ : k <= j
    BY <2>1, Least
  <2>3. k \in Nat /\ k # 0 /\ k - 1 \in 0 .. Len(s) /\ At(h, s, k) # At(h, u, k)
    BY <1>1, <2>2
  <2>4. At(h, s, k - 1) = At(h, u, k - 1)
    <3>1. k - 1 \notin differ
      BY <2>2, <2>3
    <3> QED
      BY <1>1, <2>3, <3>1
  <2>5. k - 1 \in 0 .. Len(u)
    <3> SUFFICES ASSUME k - 1 \notin 0 .. Len(u)
                 PROVE  FALSE
      OBVIOUS
    <3>1. k - 1 \in Nat /\ k - 1 \in 1 .. Len(s) /\ k - 1 \notin 1 .. Len(u)
      BY <1>1, <2>3
    <3> QED
      BY <1>1, <1>3, <2>4, <3>1
  <2>6. k - 1 + 1 = k
    BY <2>3
  <2> HIDE DEF differ
  <2> QED
    BY <1>2, <2>3, <2>4, <2>5, <2>6
<1>5. \A k \in 0 .. Len(s) + 1 : At(h, s, k) = At(h, u, k)
  BY <1>4
<1> HIDE DEF differ
<1>6. Len(u) <= Len(s)
  <2>1. At(h, u, Len(s) + 1) = h /\ Len(s) + 1 \in Nat /\ Len(s) + 1 >= 1
    BY <1>1, <1>5
  <2>2. Len(s) + 1 \notin 1 .. Len(u)
    BY <1>1, <2>1
  <2> QED
    BY <1>1, <2>2
<1>7. \A k \in 1 .. Len(s) : k \in 1 .. Len(u) /\ s[k] = u[k]
  <2> SUFFICES ASSUME NEW k \in 1 .. Len(s)
               PROVE  k \in 1 .. Len(u) /\ s[k] = u[k]
    OBVIOUS
  <2>1. k \in Nat /\ k \in 0 .. Len(s) + 1
    BY <1>1
  <2>2. At(h, u, k) = s[k] /\ s[k] # h
    BY <1>1, <1>5, <2>1
  <2> QED
    BY <1>1, <1>3, <2>1, <2>2
<1>8. Len(s) = Len(u)
  <2>1. Len(s) # 0 => Len(s) \in 1 .. Len(u)
    BY <1>1, <1>7
  <2>2. Len(s) \in Nat /\ Len(u) \in Nat
    BY <1>1
  <2> QED
    BY <1>6, <2>1, <2>2
<1> QED
  BY <1>1, <1>7, <1>8

(* Walk finds the sequence that a list implements.                         *)
WalkRight ==
    \A h \in Heads, s \in Seq(Entries) : Once(s) /\ Chain(h, s) => Walk(h) = s

LEMMA WalkIsRight == WalkRight
<1> SUFFICES ASSUME NEW h \in Heads, NEW s \in Seq(Entries), Once(s), Chain(h, s)
             PROVE  Walk(h) = s
  BY DEF WalkRight
<1> DEFINE N == Cardinality(Entries)
           short == UNION {[1 .. n -> Entries] : n \in 0 .. N}
<1>1. Len(s) \in Nat /\ DOMAIN s = 1 .. Len(s) /\ s \in [1 .. Len(s) -> Entries] /\ N \in Nat
  BY EntriesAssumption, FS_CardinalityType
<1>2. Len(s) <= N
  <2>1. s \in Injection(1 .. Len(s), Entries)
    BY <1>1 DEF Once, Injection, IsInjective
  <2>2. IsFiniteSet(1 .. Len(s)) /\ Cardinality(1 .. Len(s)) = Len(s)
    <3>1. Len(s) \in Nat /\ 1 \in Int /\ Len(s) \in Int
      BY <1>1
    <3> HIDE DEF N, short
    <3>2. /\ IsFiniteSet(1 .. Len(s))
          /\ Cardinality(1 .. Len(s)) = IF 1 > Len(s) THEN 0 ELSE Len(s) - 1 + 1
      BY <3>1, FS_Interval
    <3> QED
      BY <3>1, <3>2
  <2>3. Cardinality(1 .. Len(s)) <= Cardinality(Entries)
    BY <2>1, <2>2, EntriesAssumption, FS_Injection
  <2> QED
    BY <2>2, <2>3
<1>3. s \in short
  <2>1. Len(s) \in 0 .. N
    BY <1>1, <1>2
  <2> QED
    BY <1>1, <2>1
<1>4. short \subseteq Seq(Entries)
  <2>1. \A n \in 0 .. N : n \in Nat
    BY <1>1
  <2> HIDE DEF N
  <2> QED
    BY <2>1
<1> HIDE DEF short, N
<1>5. Walk(h) = CHOOSE u \in short : Chain(h, u)
  BY DEF Walk, short, N
<1>6. Walk(h) \in short /\ Chain(h, Walk(h))
  BY <1>3, <1>5
<1> QED
  BY <1>4, <1>6, ChainsAgree

(* The lists hold the sequences c: each entry that is linked is on one     *)
(* list, once.                                                             *)
Holds(c) ==
    /\ c \in [Heads -> Seq(Entries)]
    /\ \A h \in Heads : Once(c[h]) /\ Chain(h, c[h])
    /\ \A g, h \in Heads : g # h => Elements(c[g]) \cap Elements(c[h]) = {}
    /\ \A e \in Entries : entry_linked(e) <=> \E h \in Heads : e \in Elements(c[h])

contents == [h \in Heads |-> Walk(h)]

ContentsRight == \A c : Holds(c) => contents = c

LEMMA HoldsContents == ContentsRight
<1> SUFFICES ASSUME NEW c, Holds(c)
             PROVE  contents = c
  BY DEF ContentsRight
<1>1. c \in [Heads -> Seq(Entries)] /\ \A h \in Heads : Walk(h) = c[h]
  BY WalkIsRight DEF WalkRight, Holds
<1> QED
  BY <1>1 DEF contents

(* A list that a step does not touch.                                      *)
LEMMA ChainStays ==
    ASSUME NEW h \in Heads, NEW s \in Seq(Entries), Chain(h, s),
           \A x \in {h} \cup Elements(s) : next'[x] = next[x]
    PROVE  Chain(h, s)'
<1>1. \A k : At(h, s, k) \in {h} \cup Elements(s)
  BY DEF At, Elements
<1>2. \A k \in 0 .. Len(s) : next'[At(h, s, k)] = At(h, s, k + 1)
  BY <1>1, ChainFacts
<1> QED
  BY <1>2 DEF Chain, At

(* An entry e that is on no list is linked between the positions p and     *)
(* p + 1 of list h.                                                        *)
Insert(s, p, e) ==
    [k \in 1 .. Len(s) + 1 |-> IF k <= p THEN s[k] ELSE IF k = p + 1 THEN e ELSE s[k - 1]]

LEMMA InsertFacts ==
    ASSUME NEW s \in Seq(Entries), NEW p \in 0 .. Len(s), NEW e \in Entries, e \notin Elements(s)
    PROVE  /\ Insert(s, p, e) \in Seq(Entries) /\ Len(Insert(s, p, e)) = Len(s) + 1
           /\ Elements(Insert(s, p, e)) = Elements(s) \cup {e}
           /\ Once(s) => Once(Insert(s, p, e))
<1> DEFINE u == Insert(s, p, e)
<1>1. /\ Len(s) \in Nat /\ DOMAIN s = 1 .. Len(s) /\ p \in Nat /\ p <= Len(s)
      /\ \A k \in 1 .. Len(s) : s[k] \in Entries /\ s[k] # e
  BY DEF Elements
<1>2. /\ \A k \in 1 .. p : k \in 1 .. Len(s) /\ k \in 1 .. Len(s) + 1
      /\ \A k \in p + 1 .. Len(s) : k \in 1 .. Len(s) /\ k + 1 \in 1 .. Len(s) + 1
      /\ p + 1 \in 1 .. Len(s) + 1
      /\ \A k \in 1 .. Len(s) + 1 : k \in 1 .. p \/ k = p + 1 \/ k - 1 \in p + 1 .. Len(s)
  BY <1>1
<1>3. /\ DOMAIN u = 1 .. Len(s) + 1
      /\ \A k \in 1 .. p : u[k] = s[k]
      /\ u[p + 1] = e
      /\ \A k \in p + 1 .. Len(s) : u[k + 1] = s[k]
  BY <1>1, <1>2 DEF Insert
<1> HIDE DEF u
<1>4. \A k \in 1 .. Len(s) + 1 : u[k] \in Entries
  <2> SUFFICES ASSUME NEW k \in 1 .. Len(s) + 1
               PROVE  u[k] \in Entries
    OBVIOUS
  <2>1. k - 1 + 1 = k
    BY <1>1
  <2> QED
    BY <1>1, <1>2, <1>3, <2>1
<1>5. u \in Seq(Entries) /\ Len(u) = Len(s) + 1
  <2>1. u = [k \in 1 .. Len(s) + 1 |-> u[k]] /\ Len(s) + 1 \in Nat
    BY <1>1, <1>3 DEF u, Insert
  <2> QED
    BY <1>4, <2>1
<1>6. Elements(u) \subseteq Elements(s) \cup {e}
  <2> SUFFICES ASSUME NEW k \in 1 .. Len(s) + 1
               PROVE  u[k] \in Elements(s) \cup {e}
    BY <1>3 DEF Elements
  <2>1. \A j \in 1 .. Len(s) : s[j] \in Elements(s)
    BY <1>1 DEF Elements
  <2>2. CASE k \in 1 .. p
    BY <1>2, <1>3, <2>1, <2>2
  <2>3. CASE k = p + 1
    BY <1>3, <2>3
  <2>4. CASE k - 1 \in p + 1 .. Len(s)
    <3>1. k - 1 + 1 = k /\ k - 1 \in 1 .. Len(s)
      BY <1>1, <1>2, <2>4
    <3>2. u[k] = s[k - 1]
      BY <1>3, <2>4, <3>1
    <3> QED
      BY <2>1, <3>1, <3>2
  <2> QED
    BY <1>2, <2>2, <2>3, <2>4
<1>7. Elements(s) \cup {e} \subseteq Elements(u)
  <2>1. \A j \in 1 .. Len(s) + 1 : u[j] \in Elements(u)
    BY <1>3 DEF Elements
  <2>2. e \in Elements(u)
    BY <1>2, <1>3, <2>1
  <2>3. ASSUME NEW k \in 1 .. Len(s)
        PROVE  s[k] \in Elements(u)
    <3>1. k \in 1 .. p \/ k \in p + 1 .. Len(s)
      BY <1>1
    <3>2. k \in 1 .. p => s[k] \in Elements(u)
      BY <1>2, <1>3, <2>1
    <3>3. k \in p + 1 .. Len(s) => s[k] \in Elements(u)
      BY <1>2, <1>3, <2>1
    <3> QED
      BY <3>1, <3>2, <3>3
  <2>4. \A x \in Elements(s) : \E k \in 1 .. Len(s) : x = s[k]
    BY <1>1 DEF Elements
  <2> QED
    BY <2>2, <2>3, <2>4
<1>8. ASSUME Once(s), NEW j \in 1 .. Len(s) + 1, NEW k \in 1 .. Len(s) + 1, u[j] = u[k], j < k
      PROVE  FALSE
  <2>1. \A a, b \in 1 .. Len(s) : s[a] = s[b] => a = b
    BY <1>1, <1>8 DEF Once
  <2>2. j - 1 + 1 = j /\ k - 1 + 1 = k /\ j \in Nat /\ k \in Nat
    BY <1>1
  <2>3. CASE k \in 1 .. p
    BY <1>1, <1>2, <1>3, <1>8, <2>1, <2>2, <2>3
  <2>4. CASE k = p + 1
    <3>1. j \in 1 .. p
      BY <1>1, <1>8, <2>2, <2>4
    <3> QED
      BY <1>1, <1>2, <1>3, <1>8, <2>4, <3>1
  <2>5. CASE k - 1 \in p + 1 .. Len(s)
    <3>1. u[k] = s[k - 1] /\ k - 1 \in 1 .. Len(s)
      BY <1>2, <1>3, <2>2, <2>5
    <3>2. j \in 1 .. p => FALSE
      BY <1>1, <1>2, <1>3, <1>8, <2>1, <2>2, <2>5, <3>1
    <3>3. j = p + 1 => FALSE
      BY <1>1, <1>3, <1>8, <3>1
    <3>4. j - 1 \in p + 1 .. Len(s) => FALSE
      <4> SUFFICES ASSUME j - 1 \in p + 1 .. Len(s)
                   PROVE  FALSE
        OBVIOUS
      <4>1. j - 1 # k - 1
        BY <1>8, <2>2
      <4>2. u[j] = s[j - 1] /\ j - 1 \in 1 .. Len(s)
        BY <1>2, <1>3, <2>2
      <4> QED
        BY <1>8, <2>1, <3>1, <4>1, <4>2
    <3> QED
      BY <1>2, <3>2, <3>3, <3>4
  <2> QED
    BY <1>2, <2>3, <2>4, <2>5
<1>9. Once(s) => Once(u)
  <2> SUFFICES ASSUME Once(s), NEW j \in 1 .. Len(s) + 1, NEW k \in 1 .. Len(s) + 1, u[j] = u[k]
               PROVE  j = k
    BY <1>3 DEF Once
  <2>1. j \in Nat /\ k \in Nat /\ ~(j < k) /\ ~(k < j)
    BY <1>1, <1>8
  <2> QED
    BY <2>1
<1> QED
  BY <1>5, <1>6, <1>7, <1>9 DEF u

LEMMA AtOnce ==
    ASSUME NEW h \in Heads, NEW s \in Seq(Entries), Once(s),
           NEW j \in 0 .. Len(s), NEW k \in 0 .. Len(s), At(h, s, j) = At(h, s, k)
    PROVE  j = k
<1>1. /\ Len(s) \in Nat /\ DOMAIN s = 1 .. Len(s)
      /\ \A i \in 1 .. Len(s) : At(h, s, i) = s[i] /\ s[i] # h
      /\ At(h, s, 0) = h
  BY AtFacts
<1>2. \A i \in 0 .. Len(s) : i = 0 \/ i \in 1 .. Len(s)
  BY <1>1
<1> QED
  BY <1>1, <1>2 DEF Once

(* The positions of the longer list.                                       *)
LEMMA AtInsert ==
    ASSUME NEW h \in Heads, NEW s \in Seq(Entries), NEW p \in 0 .. Len(s), NEW e \in Entries
    PROVE  LET u == Insert(s, p, e)
           IN  /\ \A k \in 0 .. p : At(h, u, k) = At(h, s, k)
               /\ At(h, u, p + 1) = e
               /\ \A k \in p + 1 .. Len(s) + 1 : At(h, u, k + 1) = At(h, s, k)
<1> DEFINE u == Insert(s, p, e)
<1>1. Len(s) \in Nat /\ DOMAIN s = 1 .. Len(s) /\ p \in Nat /\ p <= Len(s)
  OBVIOUS
<1>2. DOMAIN u = 1 .. Len(s) + 1
  BY DEF Insert
<1>3. ASSUME NEW k \in 0 .. p
      PROVE  At(h, u, k) = At(h, s, k)
  <2>1. k = 0 \/ (k \in 1 .. Len(s) /\ k \in 1 .. Len(s) + 1 /\ k <= p)
    BY <1>1
  <2>2. 0 \notin 1 .. Len(s) /\ 0 \notin 1 .. Len(s) + 1
    BY <1>1
  <2> QED
    BY <1>1, <1>2, <2>1, <2>2 DEF At, Insert
<1>4. At(h, u, p + 1) = e
  <2>1. p + 1 \in 1 .. Len(s) + 1 /\ ~(p + 1 <= p)
    BY <1>1
  <2> QED
    BY <1>2, <2>1 DEF At, Insert
<1>5. ASSUME NEW k \in p + 1 .. Len(s) + 1
      PROVE  At(h, u, k + 1) = At(h, s, k)
  <2>1. k \in Nat /\ k + 1 - 1 = k /\ ~(k + 1 <= p) /\ k + 1 # p + 1
    BY <1>1
  <2>2. CASE k = Len(s) + 1
    <3>1. k + 1 \notin 1 .. Len(s) + 1 /\ k \notin 1 .. Len(s)
      BY <1>1, <2>2
    <3> QED
      BY <1>1, <1>2, <3>1 DEF At
  <2>3. CASE k # Len(s) + 1
    <3>1. k + 1 \in 1 .. Len(s) + 1 /\ k \in 1 .. Len(s)
      BY <1>1, <2>3
    <3>2. u[k + 1] = s[k]
      BY <2>1, <3>1 DEF Insert
    <3> HIDE DEF u
    <3> QED
      BY <1>1, <1>2, <3>1, <3>2 DEF At
  <2> QED
    BY <2>2, <2>3
<1> QED
  BY <1>3, <1>4, <1>5 DEF u

LEMMA LinkHolds ==
    ASSUME LinksAgree, NEW c, Holds(c), NEW h \in Heads, NEW e \in Entries, ~entry_linked(e),
           NEW p \in 0 .. Len(c[h]),
           list_link_entry(e, At(h, c[h], p), At(h, c[h], p + 1)),
           NEW d, d = [c EXCEPT ![h] = Insert(c[h], p, e)]
    PROVE  Holds(d)'
<1> DEFINE s == c[h]
           u == Insert(s, p, e)
           x == At(h, s, p)
<1>1. /\ next \in [Nodes -> Nodes]
      /\ c \in [Heads -> Seq(Entries)] /\ s \in Seq(Entries) /\ Once(s) /\ Chain(h, s)
      /\ \A g \in Heads : e \notin Elements(c[g])
  BY DEF Holds, LinksAgree, PointersOK
<1>2. /\ Len(s) \in Nat /\ DOMAIN s = 1 .. Len(s)
      /\ \A k \in 1 .. Len(s) : At(h, s, k) = s[k] /\ s[k] \in Entries /\ s[k] # h
      /\ At(h, s, 0) = h /\ At(h, s, Len(s) + 1) = h
      /\ \A k : At(h, s, k) \in Nodes
  BY <1>1, AtFacts
<1>3. \A k : At(h, s, k) \in {h} \cup Elements(s)
  BY DEF At, Elements
<1>4. /\ d \in [Heads -> Seq(Entries)] /\ d[h] = u /\ \A g \in Heads \ {h} : d[g] = c[g]
      /\ Once(u) /\ Elements(u) = Elements(s) \cup {e} /\ Len(u) = Len(s) + 1 /\ u \in Seq(Entries)
  <2>1. u \in Seq(Entries) /\ Once(u) /\ Elements(u) = Elements(s) \cup {e} /\ Len(u) = Len(s) + 1
    BY <1>1, InsertFacts
  <2> HIDE DEF u, s
  <2> QED
    BY <1>1, <2>1 DEF u, s
<1>5. /\ \A k \in 0 .. p : At(h, u, k) = At(h, s, k)
      /\ At(h, u, p + 1) = e
      /\ \A k \in p + 1 .. Len(s) + 1 : At(h, u, k + 1) = At(h, s, k)
  BY <1>1, AtInsert
<1>6. /\ x \in Nodes /\ x # e /\ e \in Nodes
      /\ next' = [next EXCEPT ![e] = At(h, s, p + 1), ![x] = e]
  BY <1>1, <1>2, <1>3 DEF list_link_entry
<1> HIDE DEF u, s
<1>7. /\ next'[e] = At(h, s, p + 1) /\ next'[x] = e
      /\ \A y \in Nodes : y # e /\ y # x => next'[y] = next[y]
  BY <1>1, <1>6
<1>8. ASSUME NEW k \in 0 .. Len(s), k # p
      PROVE  next'[At(h, s, k)] = At(h, s, k + 1)
  <2>1. At(h, s, k) # e /\ At(h, s, k) \in Nodes
    BY <1>1, <1>2, <1>3 DEF s
  <2>2. At(h, s, k) # x
    <3>1. p \in 0 .. Len(s)
      BY DEF s
    <3> QED
      BY <1>1, <1>8, <3>1, AtOnce
  <2>3. next[At(h, s, k)] = At(h, s, k + 1)
    BY <1>1, ChainFacts
  <2> HIDE DEF x
  <2> QED
    BY <1>7, <2>1, <2>2, <2>3
<1>9. ASSUME NEW k \in 0 .. Len(u)
      PROVE  next'[At(h, u, k)] = At(h, u, k + 1)
  <2>1. p \in Nat /\ p <= Len(s) /\ k \in Nat /\ k <= Len(s) + 1
    BY <1>2, <1>4 DEF s
  <2>2. CASE k < p
    <3>1. k \in 0 .. p /\ k + 1 \in 0 .. p /\ k \in 0 .. Len(s) /\ k # p
      BY <1>2, <2>1, <2>2
    <3> QED
      BY <1>5, <1>8, <3>1
  <2>3. CASE k = p
    <3>1. p \in 0 .. p
      BY <2>1
    <3> QED
      BY <1>5, <1>7, <2>3, <3>1
  <2>4. CASE k = p + 1
    <3>1. p + 1 \in p + 1 .. Len(s) + 1
      BY <1>2, <2>1
    <3> QED
      BY <1>5, <1>7, <2>4, <3>1
  <2>5. CASE k > p + 1
    <3>1. PICK j \in Nat : k = j + 1
      BY <2>1, <2>5
    <3>2. /\ j \in p + 1 .. Len(s) + 1 /\ j + 1 \in p + 1 .. Len(s) + 1
          /\ j \in 0 .. Len(s) /\ j # p
      BY <1>2, <2>1, <2>5, <3>1
    <3> QED
      BY <1>5, <1>8, <3>1, <3>2
  <2> QED
    BY <2>1, <2>2, <2>3, <2>4, <2>5
<1>10. Chain(h, u)'
  BY <1>9 DEF Chain, At
<1>11. ASSUME NEW g \in Heads, g # h
       PROVE  Chain(g, c[g])'
  <2>1. Elements(c[g]) \cap Elements(s) = {} /\ Elements(c[g]) \subseteq Entries
    <3>1. Elements(c[g]) \cap Elements(s) = {}
      BY <1>11 DEF Holds, s
    <3>2. c[g] \in Seq(Entries)
      BY <1>1
    <3> QED
      BY <3>1, <3>2 DEF Elements
  <2>2. \A y \in {g} \cup Elements(c[g]) : y # e /\ y # x /\ y \in Nodes
    <3>1. Elements(s) \subseteq Entries /\ x \in {h} \cup Elements(s)
      BY <1>1, <1>3 DEF Elements
    <3> HIDE DEF x
    <3> QED
      BY <1>1, <1>11, <2>1, <3>1
  <2>3. PICK v \in Seq(Entries) : v = c[g]
    BY <1>1
  <2>4. Chain(g, v)
    BY <2>3 DEF Holds
  <2>5. \A y \in {g} \cup Elements(v) : next'[y] = next[y]
    BY <1>7, <2>2, <2>3
  <2>6. Chain(g, v)'
    BY <2>4, <2>5, ChainStays
  <2> QED
    BY <2>3, <2>6
<1>12. \A g \in Heads : Once(d[g]) /\ Chain(g, d[g])'
  BY <1>4, <1>10, <1>11 DEF Holds
<1>13. \A f, g \in Heads : f # g => Elements(d[f]) \cap Elements(d[g]) = {}
  BY <1>1, <1>4 DEF Holds, s
<1>14. ASSUME NEW y \in Entries
       PROVE  next'[y] # y <=> \E g \in Heads : y \in Elements(d[g])
  <2>1. (\E g \in Heads : y \in Elements(d[g])) <=> y = e \/ next[y] # y
    <3>1. next[y] # y <=> \E g \in Heads : y \in Elements(c[g])
      BY DEF Holds, entry_linked
    <3> QED
      BY <1>4, <3>1 DEF s
  <2>2. y = e => next'[y] # y
    BY <1>1, <1>3, <1>7 DEF s
  <2>3. y = x => next'[y] # y /\ next[y] # y
    <3>1. x \in Entries => x \in Elements(s)
      BY <1>3
    <3> QED
      BY <1>6, <1>7, <3>1 DEF Holds, entry_linked, s
  <2>4. y # e /\ y # x => next'[y] = next[y]
    BY <1>7
  <2> HIDE DEF x
  <2> QED
    BY <2>1, <2>2, <2>3, <2>4
<1> QED
  BY <1>4, <1>12, <1>13, <1>14 DEF Holds, entry_linked

(* The list without its p-th element.                                      *)
LEMMA CutFacts ==
    ASSUME NEW s \in Seq(Entries), NEW p \in DOMAIN s, Once(s)
    PROVE  /\ Abs!Cut(s, p) \in Seq(Entries) /\ Len(Abs!Cut(s, p)) = Len(s) - 1
           /\ DOMAIN Abs!Cut(s, p) = 1 .. Len(s) - 1
           /\ Elements(Abs!Cut(s, p)) = Elements(s) \ {s[p]}
           /\ Once(Abs!Cut(s, p))
           /\ \A j \in 1 .. p - 1 : Abs!Cut(s, p)[j] = s[j]
           /\ \A j \in p .. Len(s) - 1 : Abs!Cut(s, p)[j] = s[j + 1]
<1> DEFINE u == Abs!Cut(s, p)
           from(j) == IF j < p THEN j ELSE j + 1
<1>1. /\ Len(s) \in Nat /\ DOMAIN s = 1 .. Len(s) /\ p \in 1 .. Len(s)
      /\ Len(s) - 1 \in Nat
      /\ \A k \in 1 .. Len(s) : s[k] \in Entries
  OBVIOUS
<1>2. /\ DOMAIN u = 1 .. Len(s) - 1
      /\ \A j \in 1 .. Len(s) - 1 : u[j] = s[from(j)]
  BY DEF Abs!Cut
<1>3. \A j \in 1 .. Len(s) - 1 : from(j) \in 1 .. Len(s) /\ from(j) # p
  BY <1>1
<1>4. \A i, j \in 1 .. Len(s) - 1 : from(i) = from(j) => i = j
  BY <1>1
<1>5. \A k \in 1 .. Len(s) : k # p => \E j \in 1 .. Len(s) - 1 : from(j) = k
  <2> SUFFICES ASSUME NEW k \in 1 .. Len(s), k # p
               PROVE  \E j \in 1 .. Len(s) - 1 : from(j) = k
    OBVIOUS
  <2>1. CASE k < p
    <3>1. k \in 1 .. Len(s) - 1 /\ from(k) = k
      BY <1>1, <2>1
    <3> QED
      BY <3>1
  <2>2. CASE k > p
    <3>1. k - 1 \in 1 .. Len(s) - 1 /\ from(k - 1) = k
      BY <1>1, <2>2
    <3> QED
      BY <3>1
  <2> QED
    BY <1>1, <2>1, <2>2
<1>6. /\ \A j \in 1 .. p - 1 : j \in 1 .. Len(s) - 1 /\ from(j) = j
      /\ \A j \in p .. Len(s) - 1 : j \in 1 .. Len(s) - 1 /\ from(j) = j + 1
  BY <1>1
<1>7. \A i, j \in 1 .. Len(s) : s[i] = s[j] => i = j
  BY <1>1 DEF Once
<1>8. u = [j \in 1 .. Len(s) - 1 |-> u[j]]
  BY <1>2 DEF Abs!Cut
<1> HIDE DEF u, from
<1>9. u \in Seq(Entries) /\ Len(u) = Len(s) - 1
  <2>1. \A j \in 1 .. Len(s) - 1 : u[j] \in Entries
    BY <1>1, <1>2, <1>3
  <2> QED
    BY <1>1, <1>8, <2>1
<1>10. Elements(u) = Elements(s) \ {s[p]}
  <2>1. Elements(u) = {u[j] : j \in 1 .. Len(s) - 1} /\ Elements(s) = {s[k] : k \in 1 .. Len(s)}
    BY <1>1, <1>2 DEF Elements
  <2>2. \A j \in 1 .. Len(s) - 1 : u[j] \in Elements(s) \ {s[p]}
    BY <1>1, <1>2, <1>3, <1>7, <2>1
  <2>3. \A k \in 1 .. Len(s) : s[k] # s[p] => s[k] \in Elements(u)
    <3> SUFFICES ASSUME NEW k \in 1 .. Len(s), s[k] # s[p]
                 PROVE  s[k] \in Elements(u)
      OBVIOUS
    <3>1. PICK j \in 1 .. Len(s) - 1 : from(j) = k
      BY <1>5
    <3> QED
      BY <1>2, <2>1, <3>1
  <2> QED
    BY <2>1, <2>2, <2>3
<1>11. Once(u)
  <2> SUFFICES ASSUME NEW i \in 1 .. Len(s) - 1, NEW j \in 1 .. Len(s) - 1, u[i] = u[j]
               PROVE  i = j
    BY <1>2 DEF Once
  <2>1. s[from(i)] = s[from(j)]
    BY <1>2
  <2>2. from(i) = from(j)
    BY <1>3, <1>7, <2>1
  <2> QED
    BY <1>4, <2>2
<1>12. /\ \A j \in 1 .. p - 1 : u[j] = s[j]
       /\ \A j \in p .. Len(s) - 1 : u[j] = s[j + 1]
  BY <1>2, <1>6
<1> QED
  BY <1>2, <1>9, <1>10, <1>11, <1>12 DEF u

(* The positions of the shorter list.                                      *)
LEMMA AtCut ==
    ASSUME NEW h \in Heads, NEW s \in Seq(Entries), NEW p \in DOMAIN s, Once(s)
    PROVE  LET u == Abs!Cut(s, p)
           IN  /\ \A k \in 0 .. p - 1 : At(h, u, k) = At(h, s, k)
               /\ \A k \in p .. Len(s) : At(h, u, k) = At(h, s, k + 1)
<1> DEFINE u == Abs!Cut(s, p)
<1>1. Len(s) \in Nat /\ DOMAIN s = 1 .. Len(s) /\ p \in 1 .. Len(s)
  OBVIOUS
<1>2. /\ DOMAIN u = 1 .. Len(s) - 1
      /\ \A j \in 1 .. p - 1 : u[j] = s[j]
      /\ \A j \in p .. Len(s) - 1 : u[j] = s[j + 1]
  BY CutFacts
<1> HIDE DEF u
<1>3. ASSUME NEW k \in 0 .. p - 1
      PROVE  At(h, u, k) = At(h, s, k)
  <2>1. CASE k = 0
    <3>1. 0 \notin 1 .. Len(s) /\ 0 \notin 1 .. Len(s) - 1
      OBVIOUS
    <3> QED
      BY <1>1, <1>2, <2>1, <3>1 DEF At
  <2>2. CASE k # 0
    <3>1. k \in 1 .. p - 1 /\ k \in 1 .. Len(s) /\ k \in 1 .. Len(s) - 1
      BY <1>1, <2>2
    <3> QED
      BY <1>1, <1>2, <3>1 DEF At
  <2> QED
    BY <2>1, <2>2
<1>4. PICK n \in Nat : n = Len(s)
  OBVIOUS
<1>5. ASSUME NEW k \in p .. n
      PROVE  At(h, u, k) = At(h, s, k + 1)
  <2>1. p \in Nat /\ 1 <= p /\ p <= n /\ k \in Nat /\ p <= k /\ k <= n
    BY <1>1, <1>4
  <2>2. CASE k = n
    <3>1. k \notin 1 .. n - 1 /\ k + 1 \notin 1 .. n
      BY <2>2
    <3> QED
      BY <1>1, <1>2, <1>4, <3>1 DEF At
  <2>3. CASE k < n
    <3>1. k \in 1 .. n - 1 /\ k + 1 \in 1 .. n /\ k \in p .. n - 1
      BY <2>1, <2>3
    <3> QED
      BY <1>1, <1>2, <1>4, <3>1 DEF At
  <2> QED
    BY <2>1, <2>2, <2>3
<1> QED
  BY <1>3, <1>4, <1>5 DEF u

LEMMA UnlinkHolds ==
    ASSUME LinksAgree, NEW c, Holds(c), NEW h \in Heads, NEW p \in DOMAIN c[h],
           list_unlink_entry(c[h][p]),
           NEW d, d = [c EXCEPT ![h] = Abs!Cut(c[h], p)]
    PROVE  Holds(d)'
<1> DEFINE s == c[h]
           e == s[p]
           u == Abs!Cut(s, p)
           x == At(h, s, p - 1)
<1>1. /\ next \in [Nodes -> Nodes] /\ prev \in [Nodes -> Nodes]
      /\ \A y \in Nodes : prev[next[y]] = y
      /\ c \in [Heads -> Seq(Entries)] /\ s \in Seq(Entries) /\ Once(s) /\ Chain(h, s)
  BY DEF Holds, LinksAgree, PointersOK, Opposite
<1>2. /\ Len(s) \in Nat /\ DOMAIN s = 1 .. Len(s) /\ p \in 1 .. Len(s)
      /\ \A k \in 1 .. Len(s) : At(h, s, k) = s[k] /\ s[k] \in Entries /\ s[k] # h
      /\ \A k : At(h, s, k) \in Nodes /\ At(h, s, k) \in {h} \cup Elements(s)
  <2>1. \A k : At(h, s, k) \in {h} \cup Elements(s)
    BY DEF At, Elements
  <2> QED
    BY <1>1, <2>1, AtFacts
<1>3. /\ d \in [Heads -> Seq(Entries)] /\ d[h] = u /\ \A g \in Heads \ {h} : d[g] = c[g]
      /\ Once(u) /\ Elements(u) = Elements(s) \ {e} /\ Len(u) = Len(s) - 1 /\ u \in Seq(Entries)
  <2>1. u \in Seq(Entries) /\ Once(u) /\ Elements(u) = Elements(s) \ {e} /\ Len(u) = Len(s) - 1
    BY <1>1, CutFacts
  <2> HIDE DEF u, s, e
  <2> QED
    BY <1>1, <2>1 DEF u, s
<1>4. /\ \A k \in 0 .. p - 1 : At(h, u, k) = At(h, s, k)
      /\ \A k \in p .. Len(s) : At(h, u, k) = At(h, s, k + 1)
  BY <1>1, AtCut
<1>5. e = At(h, s, p) /\ e \in Entries /\ p - 1 \in 0 .. Len(s) /\ p \in 0 .. Len(s) /\ p - 1 + 1 = p
      /\ p - 1 # p
  BY <1>2
<1>6. next[x] = e /\ next[e] = At(h, s, p + 1)
  BY <1>1, <1>5, ChainFacts
<1>7. x \in Nodes /\ e \in Nodes /\ prev[e] = x /\ x # e
  <2>1. x # e
    BY <1>1, <1>5, AtOnce
  <2>2. x \in Nodes /\ e \in Nodes
    BY <1>2, <1>5
  <2> HIDE DEF x, e
  <2> QED
    BY <1>1, <1>6, <2>1, <2>2
<1>8. /\ next'[e] = e /\ next'[x] = At(h, s, p + 1)
      /\ \A y \in Nodes : y # e /\ y # x => next'[y] = next[y]
  <2>1. next' = [next EXCEPT ![x] = At(h, s, p + 1), ![e] = e]
    BY <1>6, <1>7 DEF list_unlink_entry
  <2> HIDE DEF x, e
  <2> QED
    BY <1>1, <1>7, <2>1
<1> HIDE DEF u, s, e
<1>9. ASSUME NEW k \in 0 .. Len(s), k # p - 1, k # p
      PROVE  next'[At(h, s, k)] = At(h, s, k + 1)
  <2>1. At(h, s, k) # e /\ At(h, s, k) # x /\ At(h, s, k) \in Nodes
    BY <1>1, <1>2, <1>5, <1>9, AtOnce
  <2>2. next[At(h, s, k)] = At(h, s, k + 1)
    BY <1>1, ChainFacts
  <2> HIDE DEF x
  <2> QED
    BY <1>8, <2>1, <2>2
<1>10. ASSUME NEW k \in 0 .. Len(u)
       PROVE  next'[At(h, u, k)] = At(h, u, k + 1)
  <2>1. p \in Nat /\ p <= Len(s) /\ k \in Nat /\ k <= Len(s) - 1 /\ p >= 1
    BY <1>2, <1>3
  <2>2. CASE k < p - 1
    <3>1. k \in 0 .. p - 1 /\ k + 1 \in 0 .. p - 1 /\ k \in 0 .. Len(s) /\ k # p - 1 /\ k # p
      BY <1>2, <2>1, <2>2
    <3> QED
      BY <1>4, <1>9, <3>1
  <2>3. CASE k = p - 1
    <3>1. k \in 0 .. p - 1 /\ k + 1 = p /\ p \in p .. Len(s)
      BY <1>2, <2>1, <2>3
    <3> QED
      BY <1>4, <1>8, <2>3, <3>1
  <2>4. CASE k >= p
    <3>1. k \in p .. Len(s) /\ k + 1 \in p .. Len(s)
          /\ k + 1 \in 0 .. Len(s) /\ k + 1 # p - 1 /\ k + 1 # p
      BY <1>2, <2>1, <2>4
    <3> QED
      BY <1>4, <1>9, <3>1
  <2> QED
    BY <2>1, <2>2, <2>3, <2>4
<1>11. Chain(h, u)'
  BY <1>10 DEF Chain, At
<1>12. x \in Entries => x \in Elements(s)
  BY <1>2
<1>13. e \in Elements(s)
  BY <1>2 DEF Elements, e
<1> HIDE DEF x
<1>14. ASSUME NEW g \in Heads, g # h
       PROVE  Chain(g, c[g])'
  <2>1. PICK v \in Seq(Entries) : v = c[g]
    BY <1>1
  <2>2. Elements(v) \cap Elements(s) = {} /\ Elements(v) \subseteq Entries
    <3>1. Elements(v) \cap Elements(s) = {}
      BY <1>14, <2>1 DEF Holds, s
    <3> QED
      BY <3>1 DEF Elements
  <2>3. \A y \in {g} \cup Elements(v) : y # e /\ y # x /\ y \in Nodes
    <3>1. Elements(s) \subseteq Entries /\ x \in {h} \cup Elements(s)
      BY <1>1, <1>2 DEF Elements, x
    <3> QED
      BY <1>5, <1>13, <1>14, <2>2, <3>1
  <2>4. Chain(g, v)
    BY <2>1 DEF Holds
  <2>5. \A y \in {g} \cup Elements(v) : next'[y] = next[y]
    BY <1>8, <2>3
  <2>6. Chain(g, v)'
    BY <2>4, <2>5, ChainStays
  <2> QED
    BY <2>1, <2>6
<1>15. \A g \in Heads : Once(d[g]) /\ Chain(g, d[g])'
  BY <1>3, <1>11, <1>14 DEF Holds
<1>16. \A f, g \in Heads : f # g => Elements(d[f]) \cap Elements(d[g]) = {}
  BY <1>3 DEF Holds, s
<1>17. ASSUME NEW y \in Entries
       PROVE  next'[y] # y <=> \E g \in Heads : y \in Elements(d[g])
  <2>1. next[y] # y <=> \E g \in Heads : y \in Elements(c[g])
    BY DEF Holds, entry_linked
  <2>2. (\E g \in Heads : y \in Elements(d[g])) <=> y # e /\ next[y] # y
    <3>1. \A g \in Heads \ {h} : e \notin Elements(c[g])
      BY <1>13 DEF Holds, s
    <3> QED
      BY <1>3, <2>1, <3>1 DEF s
  <2>3. y = e => next'[y] = y
    BY <1>8
  <2>4. y = x => next'[y] # y /\ next[y] # y
    <3>1. x # h => At(h, s, p + 1) # x
      <4>1. CASE p + 1 \in 1 .. Len(s)
        <5>1. p + 1 \in 0 .. Len(s) /\ p - 1 # p + 1
          BY <1>2, <4>1
        <5> QED
          BY <1>1, <1>5, <5>1, AtOnce DEF x
      <4>2. CASE p + 1 \notin 1 .. Len(s)
        BY <1>2, <1>5, <4>2 DEF At
      <4> QED
        BY <4>1, <4>2
    <3> QED
      BY <1>6, <1>7, <1>8, <3>1
  <2>5. y # e /\ y # x => next'[y] = next[y]
    BY <1>8
  <2> QED
    BY <1>7, <2>2, <2>3, <2>4, <2>5
<1> QED
  BY <1>3, <1>15, <1>16, <1>17 DEF Holds, entry_linked

-----------------------------------------------------------------------------
(* What the operations do to the sequences                                 *)

(* A step that keeps the links keeps the sequences.                        *)
LEMMA HoldsStays ==
    ASSUME NEW c, Holds(c), UNCHANGED next
    PROVE  Holds(c)'
BY DEF Holds, Chain, entry_linked

(* Both ends are places to insert at.                                      *)
LEMMA HeadInsert ==
    ASSUME NEW s \in Seq(Entries), NEW e \in Entries
    PROVE  Insert(s, 0, e) = <<e>> \o s
<1> DEFINE u == <<e>> \o s
<1>1. PICK n \in Nat : n = Len(s)
  OBVIOUS
<1>2. /\ u = [k \in 1 .. n + 1 |-> u[k]]
      /\ u[1] = e /\ \A k \in 1 .. n + 1 : k # 1 => u[k] = s[k - 1]
  BY <1>1
<1> HIDE DEF u
<1>3. \A k \in 1 .. n + 1 : ~(k <= 0)
  OBVIOUS
<1>4. Insert(s, 0, e) = [k \in 1 .. n + 1 |-> u[k]]
  BY <1>1, <1>2, <1>3 DEF Insert
<1> QED
  BY <1>2, <1>4 DEF u

LEMMA TailInsert ==
    ASSUME NEW s \in Seq(Entries), NEW e \in Entries
    PROVE  Insert(s, Len(s), e) = Append(s, e)
<1> DEFINE u == Append(s, e)
<1>1. PICK n \in Nat : n = Len(s)
  OBVIOUS
<1>2. u \in Seq(Entries) /\ Len(u) = n + 1
  BY <1>1
<1>3. u[n + 1] = e /\ \A k \in 1 .. n : u[k] = s[k]
  BY <1>1
<1> HIDE DEF u
<1>4. u = [k \in 1 .. n + 1 |-> u[k]]
  BY <1>2
<1>5. \A k \in 1 .. n + 1 : (k <= n /\ k \in 1 .. n) \/ (~(k <= n) /\ k = n + 1)
  OBVIOUS
<1>6. Insert(s, n, e) = [k \in 1 .. n + 1 |-> u[k]]
  BY <1>1, <1>3, <1>5 DEF Insert
<1> QED
  BY <1>1, <1>4, <1>6 DEF u

LEMMA AddHeadHolds ==
    ASSUME LinksAgree, NEW c, Holds(c), NEW h \in Heads, NEW e \in Entries, list_add_head(h, e),
           NEW d, d = [c EXCEPT ![h] = <<e>> \o c[h]]
    PROVE  Holds(d)'
<1>1. PICK s \in Seq(Entries) : s = c[h]
  BY DEF Holds
<1>2. Chain(h, s) /\ ~entry_linked(e) /\ list_link_entry(e, h, next[h])
  BY <1>1 DEF Holds, list_add_head, MayAdd
<1>3. /\ Len(s) \in Nat /\ DOMAIN s = 1 .. Len(s) /\ 0 \in 0 .. Len(s)
      /\ At(h, s, 0) = h /\ next[At(h, s, 0)] = At(h, s, 0 + 1)
  BY <1>2, AtFacts, ChainFacts
<1>4. Insert(s, 0, e) = <<e>> \o s
  BY HeadInsert
<1>5. list_link_entry(e, At(h, c[h], 0), At(h, c[h], 0 + 1)) /\ 0 \in 0 .. Len(c[h])
  BY <1>1, <1>2, <1>3
<1>6. d = [c EXCEPT ![h] = Insert(c[h], 0, e)]
  BY <1>1, <1>4
<1> QED
  BY <1>2, <1>5, <1>6, LinkHolds

LEMMA AddTailHolds ==
    ASSUME LinksAgree, NEW c, Holds(c), NEW h \in Heads, NEW e \in Entries, list_add_tail(h, e),
           NEW d, d = [c EXCEPT ![h] = Append(c[h], e)]
    PROVE  Holds(d)'
<1>1. PICK s \in Seq(Entries) : s = c[h]
  BY DEF Holds
<1>2. Chain(h, s) /\ ~entry_linked(e) /\ list_link_entry(e, prev[h], h)
  BY <1>1 DEF Holds, list_add_tail, MayAdd
<1>3. PICK n \in Nat : n = Len(s)
  OBVIOUS
<1>4. /\ DOMAIN s = 1 .. n /\ n \in 0 .. n
      /\ At(h, s, n + 1) = h /\ next[At(h, s, n)] = At(h, s, n + 1) /\ At(h, s, n) \in Nodes
  BY <1>2, <1>3, AtFacts, ChainFacts
<1>5. prev[h] = At(h, s, n)
  BY <1>4 DEF LinksAgree, Opposite
<1>6. Insert(s, n, e) = Append(s, e)
  BY <1>3, TailInsert
<1>7. list_link_entry(e, At(h, c[h], n), At(h, c[h], n + 1)) /\ n \in 0 .. Len(c[h])
  BY <1>1, <1>2, <1>3, <1>4, <1>5
<1>8. d = [c EXCEPT ![h] = Insert(c[h], n, e)]
  BY <1>1, <1>6
<1> QED
  BY <1>2, <1>7, <1>8, LinkHolds

(* An entry that is unlinked leaves the list it is on, if any.             *)
LEMMA UnlinkCuts ==
    ASSUME LinksAgree, NEW c, Holds(c), NEW e \in Entries, list_unlink_entry(e)
    PROVE  \/ Holds(c)'
           \/ \E h \in Heads : \E k \in DOMAIN c[h] :
                  c[h][k] = e /\ Holds([c EXCEPT ![h] = Abs!Cut(c[h], k)])'
<1>1. CASE entry_linked(e)
  <2>1. PICK h \in Heads : e \in Elements(c[h])
    BY <1>1 DEF Holds
  <2>2. PICK k \in DOMAIN c[h] : c[h][k] = e
    BY <2>1 DEF Elements
  <2>3. PICK d : d = [c EXCEPT ![h] = Abs!Cut(c[h], k)]
    OBVIOUS
  <2>4. Holds(d)'
    BY <2>2, <2>3, UnlinkHolds
  <2> QED
    BY <2>2, <2>3, <2>4
<1>2. CASE ~entry_linked(e)
  <2>1. next[e] = e /\ prev[e] = e /\ next \in [Nodes -> Nodes]
    BY <1>2 DEF entry_linked, LinksAgree, PointersOK, Opposite
  <2>2. next' = next
    BY <2>1 DEF list_unlink_entry
  <2> QED
    BY <2>2, HoldsStays
<1> QED
  BY <1>1, <1>2

(* The head and the tail of a list that is not empty are entries.          *)
LEMMA EndsAreEntries ==
    ASSUME LinksAgree, NEW c, Holds(c), NEW h \in Heads, ~list_empty(h)
    PROVE  next[h] \in Entries /\ prev[h] \in Entries
<1>1. PICK s \in Seq(Entries) : s = c[h]
  BY DEF Holds
<1>2. Chain(h, s)
  BY <1>1 DEF Holds
<1>3. PICK n \in Nat : n = Len(s)
  OBVIOUS
<1>4. /\ DOMAIN s = 1 .. n /\ \A k \in 1 .. n : At(h, s, k) \in Entries
      /\ At(h, s, 0) = h /\ At(h, s, n + 1) = h
      /\ \A k \in 0 .. n : next[At(h, s, k)] = At(h, s, k + 1)
      /\ \A k : At(h, s, k) \in Nodes
  BY <1>2, <1>3, AtFacts, ChainFacts
<1>5. next[h] = At(h, s, 0 + 1) /\ next[At(h, s, n)] = h
  BY <1>4
<1>6. n # 0
  BY <1>4, <1>5 DEF list_empty
<1>7. prev[h] = At(h, s, n)
  BY <1>4, <1>5 DEF LinksAgree, Opposite
<1> QED
  BY <1>4, <1>5, <1>6, <1>7

-----------------------------------------------------------------------------
(* The safe loop                                                           *)

(* The loop through a list whose entries are s has come to position p: it  *)
(* has seen none of those from there on, and will see all of them that     *)
(* were there when it started.  Before the body, tmp is one further, or at *)
(* the end if what follows has come later.                                 *)
LoopAt(s, p) ==
    /\ p \in 1 .. Len(s) + 1
    /\ (IF entered THEN tmp ELSE iter) = At(list, s, p)
    /\ \A j \in p .. Len(s) : s[j] \notin visited
    /\ todo \subseteq visited \cup {s[j] : j \in p .. Len(s)}
    /\ entered => iter # list
    /\ ~entered /\ p <= Len(s) =>
          \/ p < Len(s) /\ tmp = s[p + 1]
          \/ tmp = list /\ \A j \in p + 1 .. Len(s) : s[j] \notin todo

LoopInv(c) == list # NULL => \E p : LoopAt(c[list], p)

(* A list that does not change, and the loop does not either.              *)
LEMMA LoopStays ==
    ASSUME NEW c, LoopInv(c), UNCHANGED loop, NEW d, list # NULL => d[list] = c[list]
    PROVE  LoopInv(d)'
<1>1. CASE list = NULL
  BY <1>1 DEF LoopInv, loop
<1>2. CASE list # NULL
  <2>1. PICK s : s = c[list] /\ s = d[list]
    BY <1>2
  <2>2. PICK p : LoopAt(s, p)
    BY <1>2, <2>1 DEF LoopInv
  <2>3. LoopAt(s, p)'
    BY <2>2 DEF LoopAt, loop, At
  <2>4. list' = list
    BY DEF loop
  <2> QED
    BY <2>1, <2>3, <2>4 DEF LoopInv
<1> QED
  BY <1>1, <1>2

LEMMA AddHeadLoop ==
    ASSUME LinksAgree, NEW c, Holds(c), LoopInv(c), NEW h \in Heads, NEW e \in Entries,
           list_add_head(h, e), NEW d, d = [c EXCEPT ![h] = Insert(c[h], 0, e)]
    PROVE  LoopInv(d)'
<1>1. CASE list # h
  <2>1. list # NULL => d[list] = c[list]
    BY <1>1 DEF Holds, LinksAgree, PointersOK
  <2> QED
    BY <2>1, LoopStays DEF list_add_head
<1>2. CASE list = h
  <2>1. PICK s \in Seq(Entries) : s = c[h]
    BY DEF Holds
  <2>2. PICK u : u = Insert(s, 0, e)
    OBVIOUS
  <2>3. PICK n \in Nat : n = Len(s)
    OBVIOUS
  <2>4. PICK p : LoopAt(s, p)
    BY <1>2, <2>1 DEF LoopInv
  <2>5. e \notin Elements(s)
    BY <2>1 DEF Holds, list_add_head, MayAdd
  <2>6. Len(u) = n + 1 /\ u \in Seq(Entries)
    BY <2>2, <2>3, <2>5, InsertFacts
  <2>7. \A k \in 1 .. n + 1 : At(h, u, k + 1) = At(h, s, k)
    <3>1. 0 \in 0 .. Len(s)
      BY <2>3
    <3>2. \A k \in 0 + 1 .. Len(s) + 1 : At(h, u, k + 1) = At(h, s, k)
      BY <2>2, <3>1, AtInsert
    <3> QED
      BY <2>3, <3>2
  <2>8. /\ \A k \in 1 .. n : At(h, s, k) = s[k]
        /\ \A k \in 1 .. n + 1 : At(h, u, k) = u[k]
    BY <2>3, <2>6, AtFacts
  <2>9. \A j \in 1 .. n : u[j + 1] = s[j]
    <3>1. \A j \in 1 .. n : j \in 1 .. n + 1 /\ j + 1 \in 1 .. n + 1
      OBVIOUS
    <3> QED
      BY <2>7, <2>8, <3>1
  <2>10. p \in 1 .. n + 1 /\ p + 1 \in 1 .. n + 1 + 1
    BY <2>3, <2>4 DEF LoopAt
  <2>11. \A j \in p + 1 .. n + 1 : j - 1 \in p .. n /\ u[j] = s[j - 1]
    <3> SUFFICES ASSUME NEW j \in p + 1 .. n + 1
                 PROVE  j - 1 \in p .. n /\ u[j] = s[j - 1]
      OBVIOUS
    <3>1. j - 1 \in p .. n /\ j - 1 \in 1 .. n /\ j - 1 + 1 = j
      BY <2>10
    <3> QED
      BY <2>9, <3>1
  <2>12. \A j \in p .. n : j + 1 \in p + 1 .. n + 1 /\ u[j + 1] = s[j]
    BY <2>9, <2>10
  <2>13. UNCHANGED loop
    BY DEF list_add_head
  <2>14. LoopAt(u, p + 1)'
    <3>1. (IF entered THEN tmp ELSE iter) = At(h, u, p + 1)
      BY <1>2, <2>4, <2>7, <2>10 DEF LoopAt
    <3>2. \A j \in p + 1 .. n + 1 : u[j] \notin visited
      BY <2>3, <2>4, <2>11 DEF LoopAt
    <3>3. todo \subseteq visited \cup {u[j] : j \in p + 1 .. n + 1}
      <4>1. todo \subseteq visited \cup {s[j] : j \in p .. n}
        BY <2>3, <2>4 DEF LoopAt
      <4> QED
        BY <2>12, <4>1
    <3>4. entered => iter # list
      BY <2>4 DEF LoopAt
    <3>5. ASSUME ~entered, p + 1 <= n + 1
          PROVE  \/ p + 1 < n + 1 /\ tmp = u[p + 1 + 1]
                 \/ tmp = list /\ \A j \in p + 1 + 1 .. n + 1 : u[j] \notin todo
      <4>1. p <= n /\ p \in Nat
        BY <2>10, <3>5
      <4>2. \/ p < n /\ tmp = s[p + 1]
            \/ tmp = list /\ \A j \in p + 1 .. n : s[j] \notin todo
        BY <2>3, <2>4, <3>5, <4>1 DEF LoopAt
      <4>3. CASE p < n /\ tmp = s[p + 1]
        <5>1. p + 1 \in 1 .. n
          BY <4>1, <4>3
        <5>2. u[p + 1 + 1] = s[p + 1]
          BY <2>9, <5>1
        <5> QED
          BY <4>1, <4>3, <5>2
      <4>4. CASE tmp = list /\ \A j \in p + 1 .. n : s[j] \notin todo
        <5>1. \A j \in p + 1 + 1 .. n + 1 : j - 1 \in p + 1 .. n /\ j \in p + 1 .. n + 1
          BY <4>1
        <5> QED
          BY <2>11, <4>4, <5>1
      <4> QED
        BY <4>2, <4>3, <4>4
    <3> QED
      BY <1>2, <2>6, <2>10, <2>13, <3>1, <3>2, <3>3, <3>4, <3>5 DEF LoopAt, loop
  <2>15. d[h] = u
    BY <2>1, <2>2 DEF Holds
  <2>16. list' = h
    BY <1>2, <2>13 DEF loop
  <2> QED
    BY <2>14, <2>15, <2>16 DEF LoopInv
<1> QED
  BY <1>1, <1>2

(* What joins at the tail was not there when the loop started, or has been *)
(* seen and does not join again.                                           *)
LEMMA AddTailLoop ==
    ASSUME LinksAgree, NEW c, Holds(c), LoopInv(c), NEW h \in Heads, NEW e \in Entries,
           list_add_tail(h, e), NEW d, d = [c EXCEPT ![h] = Insert(c[h], Len(c[h]), e)]
    PROVE  LoopInv(d)'
<1>1. CASE list # h
  <2>1. list # NULL => d[list] = c[list]
    BY <1>1 DEF Holds, LinksAgree, PointersOK
  <2> QED
    BY <2>1, LoopStays DEF list_add_tail
<1>2. CASE list = h
  <2>1. PICK s \in Seq(Entries) : s = c[h]
    BY DEF Holds
  <2>2. PICK u : u = Insert(s, Len(s), e)
    OBVIOUS
  <2>3. PICK n \in Nat : n = Len(s)
    OBVIOUS
  <2>4. PICK p : LoopAt(s, p)
    BY <1>2, <2>1 DEF LoopInv
  <2>5. e \notin Elements(s) /\ e \notin visited
    BY <2>1 DEF Holds, list_add_tail, MayAdd
  <2>6. Len(u) = n + 1 /\ u \in Seq(Entries)
    <3>1. Len(s) \in 0 .. Len(s)
      BY <2>3
    <3> QED
      BY <2>2, <2>3, <2>5, <3>1, InsertFacts
  <2>7. /\ \A k \in 0 .. n : At(h, u, k) = At(h, s, k)
        /\ At(h, u, n + 1) = e
    <3>1. Len(s) \in 0 .. Len(s)
      BY <2>3
    <3> QED
      BY <2>2, <2>3, <3>1, AtInsert
  <2>8. /\ \A k \in 1 .. n : At(h, s, k) = s[k]
        /\ \A k \in 1 .. n + 1 : At(h, u, k) = u[k]
        /\ At(h, s, n + 1) = h /\ At(h, u, n + 1 + 1) = h
    BY <2>3, <2>6, AtFacts
  <2>9. u[n + 1] = e /\ \A j \in 1 .. n : u[j] = s[j]
    <3>1. n + 1 \in 1 .. n + 1 /\ \A j \in 1 .. n : j \in 1 .. n + 1 /\ j \in 0 .. n
      OBVIOUS
    <3> QED
      BY <2>7, <2>8, <3>1
  <2>10. /\ p \in 1 .. n + 1
         /\ (IF entered THEN tmp ELSE iter) = At(h, s, p)
         /\ \A j \in p .. n : s[j] \notin visited
         /\ todo \subseteq visited \cup {s[j] : j \in p .. n}
         /\ entered => iter # list
         /\ ~entered /\ p <= n =>
               \/ p < n /\ tmp = s[p + 1]
               \/ tmp = list /\ \A j \in p + 1 .. n : s[j] \notin todo
    BY <1>2, <2>3, <2>4 DEF LoopAt
  <2>11. \A j \in p .. n : j \in 1 .. n /\ u[j] = s[j] /\ j \in p .. n + 1
    BY <2>9, <2>10
  <2>12. \A j \in p .. n + 1 : j \in p .. n \/ j = n + 1
    BY <2>10
  <2>13. e \notin todo
    <3>1. \A j \in p .. n : s[j] \in Elements(s)
      BY <2>3, <2>11 DEF Elements
    <3> QED
      BY <2>5, <2>10, <3>1
  <2>14. UNCHANGED loop
    BY DEF list_add_tail
  <2>15. CASE p = n + 1
    <3>1. todo \subseteq visited /\ p + 1 \in 1 .. n + 1 + 1
          /\ \A j : j \notin p + 1 .. n + 1
          /\ ~(p + 1 <= n + 1)
      BY <2>10, <2>15
    <3>2. LoopAt(u, p + 1)'
      BY <1>2, <2>6, <2>8, <2>10, <2>14, <2>15, <3>1 DEF LoopAt, loop
    <3> QED
      BY <1>2, <2>1, <2>2, <2>14, <3>2 DEF Holds, LoopInv, loop
  <2>16. CASE p # n + 1
    <3>1. p \in 1 .. n /\ p <= n /\ p < n + 1 /\ p \in 0 .. n /\ p \in 1 .. n + 1 + 1
      BY <2>10, <2>16
    <3>2. (IF entered THEN tmp ELSE iter) = At(h, u, p)
      BY <2>7, <2>10, <3>1
    <3>3. \A j \in p .. n + 1 : u[j] \notin visited
      BY <2>5, <2>9, <2>10, <2>11, <2>12
    <3>4. todo \subseteq visited \cup {u[j] : j \in p .. n + 1}
      BY <2>10, <2>11
    <3>5. ASSUME ~entered
          PROVE  \/ p < n + 1 /\ tmp = u[p + 1]
                 \/ tmp = list /\ \A j \in p + 1 .. n + 1 : u[j] \notin todo
      <4>1. CASE p < n /\ tmp = s[p + 1]
        <5>1. p + 1 \in p .. n
          BY <3>1, <4>1
        <5> QED
          BY <2>11, <3>1, <4>1, <5>1
      <4>2. CASE tmp = list /\ \A j \in p + 1 .. n : s[j] \notin todo
        <5>1. \A j \in p + 1 .. n + 1 : (j \in p + 1 .. n /\ j \in p .. n) \/ j = n + 1
          BY <3>1
        <5> QED
          BY <2>9, <2>11, <2>13, <4>2, <5>1
      <4> QED
        BY <2>10, <3>1, <3>5, <4>1, <4>2
    <3>6. LoopAt(u, p)'
      BY <1>2, <2>6, <2>10, <2>14, <3>1, <3>2, <3>3, <3>4, <3>5 DEF LoopAt, loop
    <3> QED
      BY <1>2, <2>1, <2>2, <2>14, <3>6 DEF Holds, LoopInv, loop
  <2> QED
    BY <2>15, <2>16
<1> QED
  BY <1>1, <1>2

LEMMA LoopStartLoop ==
    ASSUME NEW c, Holds(c), NEW h \in Heads, LoopStart(h)
    PROVE  LoopInv(c)'
<1>1. PICK s \in Seq(Entries) : s = c[h]
  BY DEF Holds
<1>2. PICK n \in Nat : n = Len(s)
  OBVIOUS
<1>3. /\ DOMAIN s = 1 .. n
      /\ At(h, s, 0) = h /\ At(h, s, n + 1) = h
      /\ \A k \in 1 .. n : At(h, s, k) = s[k]
      /\ \A k \in 0 .. n : next[At(h, s, k)] = At(h, s, k + 1)
  BY <1>1, <1>2, AtFacts, ChainFacts DEF Holds
<1>4. next[h] = At(h, s, 1)
  BY <1>3
<1>5. 1 <= n => \/ 1 < n /\ next[next[h]] = s[1 + 1]
                \/ next[next[h]] = h /\ \A j : j \notin 1 + 1 .. n
  <2>1. CASE 1 < n
    <3>1. 1 \in 0 .. n /\ 1 + 1 \in 1 .. n
      BY <2>1
    <3> QED
      BY <1>3, <1>4, <2>1, <3>1
  <2>2. CASE n = 1
    <3>1. 1 \in 0 .. n /\ n + 1 = 1 + 1 /\ \A j : j \notin 1 + 1 .. n
      BY <2>2
    <3> QED
      BY <1>3, <1>4, <3>1
  <2> QED
    BY <2>1, <2>2
<1>6. OnList(h) = {s[j] : j \in 1 .. n}
  <2>1. Walk(h) = s
    BY <1>1, WalkIsRight DEF WalkRight, Holds
  <2> QED
    BY <1>3, <2>1 DEF OnList, Elements
<1>7. /\ list' = h /\ iter' = next[h] /\ tmp' = next[next[h]] /\ entered' = FALSE
      /\ visited' = {} /\ todo' = OnList(h)
  BY DEF LoopStart
<1>8. LoopAt(s, 1)'
  <2>1. 1 \in 1 .. n + 1
    OBVIOUS
  <2> QED
    BY <1>2, <1>4, <1>5, <1>6, <1>7, <2>1 DEF LoopAt
<1> QED
  BY <1>1, <1>7, <1>8 DEF LoopInv

LEMMA LoopNextLoop ==
    ASSUME LinksAgree, NEW c, Holds(c), LoopInv(c), LoopNext
    PROVE  LoopInv(c)'
<1>1. list \in Heads /\ list # NULL
  BY DEF LoopNext, LinksAgree, PointersOK
<1>2. PICK h \in Heads : h = list
  BY <1>1
<1>3. PICK s \in Seq(Entries) : s = c[h]
  BY DEF Holds
<1>4. PICK p : LoopAt(s, p)
  BY <1>1, <1>2, <1>3 DEF LoopInv
<1>5. PICK n \in Nat : n = Len(s)
  OBVIOUS
<1>6. /\ DOMAIN s = 1 .. n
      /\ At(h, s, n + 1) = h
      /\ \A k \in 1 .. n : At(h, s, k) = s[k]
      /\ \A k \in 0 .. n : next[At(h, s, k)] = At(h, s, k + 1)
  BY <1>3, <1>5, AtFacts, ChainFacts DEF Holds
<1>7. /\ p \in 1 .. n + 1 /\ tmp = At(h, s, p)
      /\ \A j \in p .. n : s[j] \notin visited
      /\ todo \subseteq visited \cup {s[j] : j \in p .. n}
  BY <1>2, <1>4, <1>5 DEF LoopAt, LoopNext
<1>8. p <= n => \/ p < n /\ next[tmp] = s[p + 1]
                \/ next[tmp] = h /\ \A j : j \notin p + 1 .. n
  <2>1. CASE p < n
    <3>1. p \in 0 .. n /\ p + 1 \in 1 .. n
      BY <1>7, <2>1
    <3> QED
      BY <1>6, <1>7, <2>1, <3>1
  <2>2. CASE p = n
    <3>1. p \in 0 .. n /\ \A j : j \notin p + 1 .. n
      BY <1>7, <2>2
    <3> QED
      BY <1>6, <1>7, <2>2, <3>1
  <2> QED
    BY <1>7, <2>1, <2>2
<1>9. /\ iter' = tmp /\ tmp' = next[tmp] /\ entered' = FALSE
      /\ UNCHANGED <<list, visited, todo>>
  BY DEF LoopNext
<1>10. LoopAt(s, p)'
  BY <1>2, <1>5, <1>7, <1>8, <1>9 DEF LoopAt
<1> QED
  BY <1>2, <1>3, <1>9, <1>10 DEF LoopInv

(* The body has seen one entry more, whether it leaves the list or not.    *)
LEMMA LoopVisitLoop ==
    ASSUME LinksAgree, NEW c, Holds(c), LoopInv(c), LoopVisit
    PROVE  /\ LoopInv(c)'
           /\ \E h \in Heads : \E p \in DOMAIN c[h] :
                 /\ c[h][p] = iter
                 /\ \A d : d = [c EXCEPT ![h] = Abs!Cut(c[h], p)] => LoopInv(d)'
<1>1. list \in Heads /\ list # NULL
  BY DEF LoopVisit, LinksAgree, PointersOK
<1>2. PICK h \in Heads : h = list
  BY <1>1
<1>3. PICK s \in Seq(Entries) : s = c[h]
  BY DEF Holds
<1>4. PICK p : LoopAt(s, p)
  BY <1>1, <1>2, <1>3 DEF LoopInv
<1>5. PICK n \in Nat : n = Len(s)
  OBVIOUS
<1>6. /\ DOMAIN s = 1 .. n /\ At(h, s, n + 1) = h
      /\ \A k \in 1 .. n : At(h, s, k) = s[k]
      /\ \A j, k \in 1 .. n : s[j] = s[k] => j = k
  <2>1. DOMAIN s = 1 .. n /\ At(h, s, n + 1) = h /\ \A k \in 1 .. n : At(h, s, k) = s[k]
    BY <1>5, AtFacts
  <2>2. Once(s)
    BY <1>3 DEF Holds
  <2> QED
    BY <2>1, <2>2 DEF Once
<1>7. /\ p \in 1 .. n + 1 /\ iter = At(h, s, p) /\ iter # h /\ ~entered
      /\ \A j \in p .. n : s[j] \notin visited
      /\ todo \subseteq visited \cup {s[j] : j \in p .. n}
      /\ p <= n => \/ p < n /\ tmp = s[p + 1]
                   \/ tmp = h /\ \A j \in p + 1 .. n : s[j] \notin todo
  BY <1>2, <1>4, <1>5 DEF LoopAt, LoopVisit
<1>8. p \in 1 .. n /\ p <= n /\ iter = s[p] /\ p \in p .. n
  <2>1. p # n + 1
    BY <1>6, <1>7
  <2>2. p \in 1 .. n /\ p <= n /\ p \in p .. n
    BY <1>7, <2>1
  <2> QED
    BY <1>6, <1>7, <2>2
<1>9. /\ entered' = TRUE /\ visited' = visited \cup {s[p]}
      /\ UNCHANGED <<list, iter, tmp, todo>>
  BY <1>8 DEF LoopVisit
<1>10. \A j \in p + 1 .. n : j \in p .. n /\ s[j] \notin visited'
  <2>1. \A j \in p + 1 .. n : j \in p .. n /\ j \in 1 .. n /\ j # p
    BY <1>8
  <2> QED
    BY <1>6, <1>7, <1>8, <1>9, <2>1
<1>11. todo' \subseteq visited' \cup {s[j] : j \in p + 1 .. n}
  <2>1. \A j \in p .. n : j = p \/ j \in p + 1 .. n
    BY <1>8
  <2> QED
    BY <1>7, <1>9, <2>1
<1>12. tmp = h /\ (\A j \in p + 1 .. n : s[j] \notin todo) => todo' \subseteq visited'
  BY <1>9, <1>11
<1>13. \E q : LoopAt(s, q)'
  <2>1. CASE p < n /\ tmp = s[p + 1]
    <3>1. p + 1 \in 1 .. n + 1 /\ p + 1 \in 1 .. n
      BY <1>8, <2>1
    <3>2. LoopAt(s, p + 1)'
      BY <1>2, <1>5, <1>6, <1>7, <1>9, <1>10, <1>11, <2>1, <3>1 DEF LoopAt
    <3> QED
      BY <3>2
  <2>2. CASE tmp = h /\ \A j \in p + 1 .. n : s[j] \notin todo
    <3>1. n + 1 \in 1 .. n + 1 /\ \A j : j \notin n + 1 .. n
      OBVIOUS
    <3>2. LoopAt(s, n + 1)'
      BY <1>2, <1>5, <1>6, <1>7, <1>9, <1>12, <2>2, <3>1 DEF LoopAt
    <3> QED
      BY <3>2
  <2> QED
    BY <1>7, <1>8, <2>1, <2>2
<1>14. PICK u \in Seq(Entries) : u = Abs!Cut(s, p)
  BY <1>3, <1>6, <1>8, CutFacts DEF Holds
<1>15. /\ Len(u) = n - 1
       /\ \A j \in p .. n - 1 : u[j] = s[j + 1]
  <2>1. Once(s) /\ p \in DOMAIN s
    BY <1>3, <1>6, <1>8 DEF Holds
  <2>2. /\ Len(Abs!Cut(s, p)) = Len(s) - 1
        /\ \A j \in p .. Len(s) - 1 : Abs!Cut(s, p)[j] = s[j + 1]
    BY <2>1, CutFacts
  <2> QED
    BY <1>5, <1>14, <2>2
<1>16. /\ At(h, u, n - 1 + 1) = h
       /\ \A k \in 1 .. n - 1 : At(h, u, k) = u[k]
  BY <1>14, <1>15, AtFacts
<1>17. \A j \in p .. n - 1 : j + 1 \in p + 1 .. n /\ u[j] = s[j + 1] /\ u[j] \notin visited'
  BY <1>8, <1>10, <1>15
<1>18. todo' \subseteq visited' \cup {u[j] : j \in p .. n - 1}
  <2>1. \A j \in p + 1 .. n : j - 1 \in p .. n - 1 /\ u[j - 1] = s[j]
    <3>1. \A j \in p + 1 .. n : j - 1 \in p .. n - 1 /\ j - 1 + 1 = j
      BY <1>8
    <3> QED
      BY <1>15, <3>1
  <2> QED
    BY <1>11, <2>1
<1>19. \E q : LoopAt(u, q)'
  <2>1. CASE p < n /\ tmp = s[p + 1]
    <3>1. p \in 1 .. n - 1 + 1 /\ p \in 1 .. n - 1 /\ p \in p .. n - 1
      BY <1>8, <2>1
    <3>2. tmp = At(h, u, p)
      BY <1>15, <1>16, <2>1, <3>1
    <3>3. LoopAt(u, p)'
      BY <1>2, <1>7, <1>9, <1>15, <1>17, <1>18, <3>1, <3>2 DEF LoopAt
    <3> QED
      BY <3>3
  <2>2. CASE tmp = h /\ \A j \in p + 1 .. n : s[j] \notin todo
    <3>1. n - 1 + 1 \in 1 .. n - 1 + 1 /\ \A j : j \notin n - 1 + 1 .. n - 1
      BY <1>8
    <3>2. LoopAt(u, n - 1 + 1)'
      BY <1>2, <1>7, <1>9, <1>12, <1>15, <1>16, <2>2, <3>1 DEF LoopAt
    <3> QED
      BY <3>2
  <2> QED
    BY <1>7, <1>8, <2>1, <2>2
<1>20. LoopInv(c)'
  BY <1>2, <1>3, <1>9, <1>13 DEF LoopInv
<1>21. ASSUME NEW d, d = [c EXCEPT ![h] = Abs!Cut(c[h], p)]
       PROVE  LoopInv(d)'
  <2>1. d[h] = u
    BY <1>3, <1>14, <1>21 DEF Holds
  <2> QED
    BY <1>2, <1>9, <1>19, <2>1 DEF LoopInv
<1> QED
  BY <1>3, <1>6, <1>8, <1>20, <1>21
-----------------------------------------------------------------------------
(* The sequences, step by step                                             *)

ListsInv(c) == Holds(c) /\ LoopInv(c)

(* What ListContents does to the sequences.                                *)
Moves(c, d) ==
    \/ d = c
    \/ \E h \in Heads, e \in Entries :
          /\ \A g \in Heads : e \notin Elements(c[g])
          /\ d = [c EXCEPT ![h] = <<e>> \o c[h]] \/ d = [c EXCEPT ![h] = Append(c[h], e)]
    \/ \E h \in Heads : \E k \in DOMAIN c[h] : d = [c EXCEPT ![h] = Abs!Cut(c[h], k)]

LEMMA StepMoves ==
    ASSUME LinksAgree, NEW c, ListsInv(c), [Next]_vars
    PROVE  \E d : ListsInv(d)' /\ Moves(c, d)
<1>1. CASE UNCHANGED vars
  <2>1. LoopInv(c)' /\ Holds(c)'
    BY <1>1, HoldsStays, LoopStays DEF ListsInv, vars, links
  <2> QED
    BY <2>1 DEF ListsInv, Moves
<1>2. ASSUME NEW h \in Heads, NEW e \in Entries, list_add_head(h, e) \/ list_add_tail(h, e)
      PROVE  \E d : ListsInv(d)' /\ Moves(c, d)
  <2>1. \A g \in Heads : e \notin Elements(c[g])
    BY <1>2 DEF list_add_head, list_add_tail, MayAdd, ListsInv, Holds
  <2>2. CASE list_add_head(h, e)
    <3>1. PICK d : d = [c EXCEPT ![h] = <<e>> \o c[h]]
      OBVIOUS
    <3>2. Holds(c) /\ LoopInv(c)
      BY DEF ListsInv
    <3>3. Holds(d)'
      BY <2>2, <3>1, <3>2, AddHeadHolds
    <3>4. c[h] \in Seq(Entries)
      BY <3>2 DEF Holds
    <3>5. Insert(c[h], 0, e) = <<e>> \o c[h]
      BY <3>4, HeadInsert
    <3>6. d = [c EXCEPT ![h] = Insert(c[h], 0, e)]
      BY <3>1, <3>5
    <3>7. LoopInv(d)'
      BY <2>2, <3>2, <3>6, AddHeadLoop
    <3> QED
      BY <2>1, <3>1, <3>3, <3>7 DEF ListsInv, Moves
  <2>3. CASE list_add_tail(h, e)
    <3>1. PICK d : d = [c EXCEPT ![h] = Append(c[h], e)]
      OBVIOUS
    <3>2. Holds(c) /\ LoopInv(c)
      BY DEF ListsInv
    <3>3. Holds(d)'
      BY <2>3, <3>1, <3>2, AddTailHolds
    <3>4. c[h] \in Seq(Entries)
      BY <3>2 DEF Holds
    <3>5. Insert(c[h], Len(c[h]), e) = Append(c[h], e)
      BY <3>4, TailInsert
    <3>6. d = [c EXCEPT ![h] = Insert(c[h], Len(c[h]), e)]
      BY <3>1, <3>5
    <3>7. LoopInv(d)'
      BY <2>3, <3>2, <3>6, AddTailLoop
    <3> QED
      BY <2>1, <3>1, <3>3, <3>7 DEF ListsInv, Moves
  <2> QED
    BY <1>2, <2>2, <2>3
<1>3. ASSUME NEW e \in Entries, list = NULL, list_unlink_entry(e), UNCHANGED loop
      PROVE  \E d : ListsInv(d)' /\ Moves(c, d)
  <2>1. PICK d : Holds(d)' /\ Moves(c, d)
    <3>1. Holds(c)
      BY DEF ListsInv
    <3>2. \/ Holds(c)'
          \/ \E h \in Heads : \E k \in DOMAIN c[h] :
                 c[h][k] = e /\ Holds([c EXCEPT ![h] = Abs!Cut(c[h], k)])'
      BY <1>3, <3>1, UnlinkCuts
    <3>3. CASE Holds(c)'
      BY <3>3 DEF Moves
    <3>4. ASSUME NEW h \in Heads, NEW k \in DOMAIN c[h],
                 Holds([c EXCEPT ![h] = Abs!Cut(c[h], k)])'
          PROVE  \E d : Holds(d)' /\ Moves(c, d)
      <4>1. PICK d : d = [c EXCEPT ![h] = Abs!Cut(c[h], k)]
        OBVIOUS
      <4>2. Holds(d)'
        BY <3>4, <4>1
      <4>3. Moves(c, d)
        BY <4>1 DEF Moves
      <4> QED
        BY <4>2, <4>3
    <3> QED
      BY <3>2, <3>3, <3>4
  <2>2. LoopInv(d)'
    BY <1>3 DEF loop, LoopInv
  <2> QED
    BY <2>1, <2>2 DEF ListsInv
<1>4. ASSUME NEW h \in Heads, list_remove_head(h) \/ list_remove_tail(h)
      PROVE  \E d : ListsInv(d)' /\ Moves(c, d)
  <2>1. next[h] \in Entries /\ prev[h] \in Entries
    BY <1>4, EndsAreEntries DEF list_remove_head, list_remove_tail, ListsInv
  <2> QED
    BY <1>3, <1>4, <2>1 DEF list_remove_head, list_remove_tail
<1>5. ASSUME NEW h \in Heads, LoopStart(h)
      PROVE  ListsInv(c)'
  BY <1>5, HoldsStays, LoopStartLoop DEF ListsInv, LoopStart, links
<1>6. ASSUME LoopVisit
      PROVE  \E d : ListsInv(d)' /\ Moves(c, d)
  <2>1. LoopInv(c)'
    BY <1>6, LoopVisitLoop DEF ListsInv
  <2>2. PICK h \in Heads : \E p \in DOMAIN c[h] :
            /\ c[h][p] = iter
            /\ \A d : d = [c EXCEPT ![h] = Abs!Cut(c[h], p)] => LoopInv(d)'
    BY <1>6, LoopVisitLoop DEF ListsInv
  <2>3. PICK p \in DOMAIN c[h] :
            /\ c[h][p] = iter
            /\ \A d : d = [c EXCEPT ![h] = Abs!Cut(c[h], p)] => LoopInv(d)'
    BY <2>2
  <2>4. CASE UNCHANGED links
    BY <2>1, <2>4, HoldsStays DEF ListsInv, Moves, links
  <2>5. CASE list_unlink_entry(iter)
    <3>1. PICK d : d = [c EXCEPT ![h] = Abs!Cut(c[h], p)]
      OBVIOUS
    <3>2. list_unlink_entry(c[h][p])
      BY <2>3, <2>5
    <3>3. Holds(d)'
      BY <2>3, <3>1, <3>2, UnlinkHolds DEF ListsInv
    <3>4. LoopInv(d)'
      BY <2>3, <3>1
    <3> QED
      BY <2>3, <3>1, <3>3, <3>4 DEF ListsInv, Moves
  <2> QED
    BY <1>6, <2>4, <2>5 DEF LoopVisit
<1>7. ASSUME LoopNext
      PROVE  ListsInv(c)'
  BY <1>7, HoldsStays, LoopNextLoop DEF ListsInv, LoopNext, links
<1>8. ASSUME LoopEnd
      PROVE  ListsInv(c)'
  BY <1>8, HoldsStays DEF ListsInv, LoopEnd, links, LoopInv
<1>9. Moves(c, c)
  BY DEF Moves
<1> QED
  BY <1>1, <1>2, <1>3, <1>4, <1>5, <1>6, <1>7, <1>8, <1>9 DEF Next, Unlink

-----------------------------------------------------------------------------
(* The theorems                                                            *)

ListsOK == LinksAgree /\ ListsInv(contents)

LEMMA ListsStart == Init => ListsOK /\ contents = [h \in Heads |-> <<>>]
<1> SUFFICES ASSUME Init
             PROVE  ListsOK /\ contents = [h \in Heads |-> <<>>]
  OBVIOUS
<1>1. PICK c : c = [h \in Heads |-> <<>>]
  OBVIOUS
<1>2. LinksAgree
  BY DEF Init, LinksAgree, PointersOK, Opposite
<1>3. c \in [Heads -> Seq(Entries)] /\ \A h \in Heads : c[h] = <<>>
  BY <1>1
<1>4. \A h \in Heads : Once(c[h]) /\ Chain(h, c[h]) /\ Elements(c[h]) = {}
  BY <1>3 DEF Init, Once, Chain, Elements, Nodes
<1>5. \A e \in Entries : ~entry_linked(e)
  BY DEF Init, entry_linked, Nodes
<1>6. Holds(c)
  BY <1>3, <1>4, <1>5 DEF Holds
<1>7. LoopInv(c)
  BY DEF Init, LoopInv
<1>8. contents = c
  BY <1>6, HoldsContents DEF ContentsRight
<1> QED
  BY <1>1, <1>2, <1>6, <1>7, <1>8 DEF ListsOK, ListsInv

LEMMA ListsStep ==
    ASSUME ListsOK, [Next]_vars
    PROVE  ListsOK' /\ Moves(contents, contents')
<1>1. PICK c : c = contents
  OBVIOUS
<1>2. LinksAgree /\ ListsInv(c)
  BY <1>1 DEF ListsOK
<1>3. PICK d : ListsInv(d)' /\ Moves(c, d)
  BY <1>2, StepMoves
<1>4. ContentsRight'
  BY HoldsContents, PTL
<1>5. Holds(d)'
  BY <1>3 DEF ListsInv
<1>6. contents' = d
  BY <1>4, <1>5 DEF ContentsRight
<1>7. LinksAgree'
  BY <1>2, ListStep
<1>8. ListsInv(contents)'
  BY <1>3, <1>6
<1> QED
  BY <1>1, <1>3, <1>6, <1>7, <1>8 DEF ListsOK

(* At any moment of any use of list.h, each list is a finite sequence of   *)
(* different entries that leads from the head back to the head, no entry   *)
(* is on two lists, and one that does not point to itself is on one; a     *)
(* safe loop stands at a place of its list.                                *)
THEOREM ListsAreSequences == Spec => []ListsOK
<1>1. ListsOK /\ [Next]_vars => ListsOK'
  BY ListsStep
<1> QED
  BY <1>1, ListsStart, PTL DEF Spec

LEMMA LoopAtSees == ListsOK => LoopSeesAll
<1> SUFFICES ASSUME ListsOK, list # NULL
             PROVE  /\ ~entered => iter \in (OnList(list) \ visited) \cup {list}
                    /\ iter = list => todo \subseteq visited
  BY DEF LoopSeesAll
<1>1. PICK s : s = contents[list]
  OBVIOUS
<1>2. list \in Heads /\ Holds(contents) /\ LoopInv(contents)
  BY DEF ListsOK, ListsInv, LinksAgree, PointersOK
<1>3. s \in Seq(Entries)
  BY <1>1, <1>2 DEF Holds
<1>4. OnList(list) = Elements(s)
  BY <1>1, <1>2 DEF OnList, contents
<1>5. PICK p : LoopAt(s, p)
  BY <1>1, <1>2 DEF LoopInv
<1>6. PICK n \in Nat : n = Len(s)
  BY <1>3
<1>7. DOMAIN s = 1 .. n /\ p \in 1 .. n + 1
  BY <1>3, <1>5, <1>6 DEF LoopAt
<1>8. p \in 1 .. n \/ (p \notin 1 .. n /\ \A j : j \notin p .. n)
  BY <1>7
<1>9. CASE p \in 1 .. n
  <2>1. s[p] \in Elements(s) /\ s[p] \in Entries /\ p \in p .. n
    BY <1>3, <1>6, <1>7, <1>9 DEF Elements
  <2>2. At(list, s, p) = s[p]
    BY <1>7, <1>9 DEF At
  <2>3. s[p] \notin visited
    BY <1>5, <1>6, <2>1 DEF LoopAt
  <2>4. s[p] # list
    BY <1>2, <2>1, NodesAssumption
  <2>5. ~entered => iter = s[p]
    BY <1>5, <2>2 DEF LoopAt
  <2>6. entered => iter # list
    BY <1>5 DEF LoopAt
  <2> QED
    BY <1>4, <2>1, <2>3, <2>4, <2>5, <2>6
<1>10. CASE p \notin 1 .. n /\ \A j : j \notin p .. n
  <2>1. At(list, s, p) = list
    BY <1>7, <1>10 DEF At
  <2>2. todo \subseteq visited
    BY <1>5, <1>6, <1>10 DEF LoopAt
  <2> QED
    BY <1>5, <2>1, <2>2 DEF LoopAt
<1> QED
  BY <1>8, <1>9, <1>10

(* for_each_container_safe (list.h) enters its body at most once for an    *)
(* entry, never leaves its list, and misses none of the entries that were  *)
(* on it at the start, whatever the body unlinks and adds meanwhile.       *)
THEOREM LoopMissesNothing == Spec => []LoopSeesAll
BY ListsAreSequences, LoopAtSees, PTL

LEMMA StepIsAbstract ==
    ASSUME ListsOK, Moves(contents, contents')
    PROVE  [Abs!Next]_contents
<1>1. PICK c : c = contents
  OBVIOUS
<1>2. PICK d : d = contents'
  OBVIOUS
<1>3. Moves(c, d)
  BY <1>1, <1>2
<1>4. CASE d = c
  BY <1>1, <1>2, <1>4
<1>5. ASSUME NEW h \in Heads, NEW e \in Entries, \A g \in Heads : e \notin Elements(c[g]),
             d = [c EXCEPT ![h] = <<e>> \o c[h]] \/ d = [c EXCEPT ![h] = Append(c[h], e)]
      PROVE  Abs!Next
  <2>1. e \notin UNION {Elements(c[g]) : g \in Heads}
    BY <1>5
  <2>2. Abs!AddHead(h, e) \/ Abs!AddTail(h, e)
    BY <1>1, <1>2, <1>5, <2>1 DEF Abs!AddHead, Abs!AddTail, Abs!Linked, Abs!Elements, Elements, contents
  <2> QED
    BY <2>2 DEF Abs!Next
<1>6. ASSUME NEW h \in Heads, NEW k \in DOMAIN c[h], d = [c EXCEPT ![h] = Abs!Cut(c[h], k)]
      PROVE  Abs!Next
  <2>1. Abs!Unlink(h, k) /\ k \in DOMAIN contents[h]
    BY <1>1, <1>2, <1>6 DEF Abs!Unlink, contents
  <2> QED
    BY <2>1 DEF Abs!Next, contents
<1> QED
  BY <1>3, <1>4, <1>5, <1>6 DEF Moves

(* The circular pointers of list.h implement sequences: each call adds one *)
(* entry that was on no list at the head or at the tail, takes one out, or *)
(* changes no list.                                                        *)
THEOREM PointersAreLists == Spec => Implements
<1>1. Init => Abs!Init
  BY ListsStart DEF Abs!Init, contents
<1>2. ListsOK /\ [Next]_vars => [Abs!Next]_contents
  BY ListsStep, StepIsAbstract
<1> QED
  BY <1>1, <1>2, ListsAreSequences, PTL DEF Spec, Implements, Abs!Spec, contents
=============================================================================
