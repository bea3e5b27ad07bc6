-------------------------- MODULE OperationsProofs --------------------------
(***************************************************************************)
(* Proofs about Plugins and Operations, for any number of plugins, ops,    *)
(* types and threads: first the lists of plugin.c, then the lookup, then   *)
(* the profiling regions.                                                  *)
(***************************************************************************)
EXTENDS Operations, FiniteSetTheorems, SequenceTheorems, TLAPS

(* Nothing is on the list twice.                                           *)
Once(seq) == \A j, k \in DOMAIN seq : seq[j] = seq[k] => j = k

(* Where the elements of Filter(seq, S) come from: h says at which place   *)
(* of seq each was.                                                        *)
IsSelection(h, seq, S) ==
    LET f == Filter(seq, S)
    IN  /\ h \in [DOMAIN f -> DOMAIN seq]
        /\ \A n \in DOMAIN f : f[n] = seq[h[n]] /\ f[n] \in S
        /\ \A m, n \in DOMAIN f : m < n => h[m] < h[n]
        /\ \A k \in DOMAIN seq : seq[k] \in S => \E n \in DOMAIN f : h[n] = k
-----------------------------------------------------------------------------
(* Lists                                                                   *)

(* Filter keeps the elements of S, all of them, in their order.  The rank  *)
(* of a position among those kept is an injection into 1 .. c, where c is  *)
(* how many they are; so it is onto, and Filter inverts it.                *)
LEMMA FilterFacts ==
    ASSUME NEW T, NEW seq \in Seq(T), NEW S
    PROVE  /\ Filter(seq, S) \in Seq(T)
           /\ \E h : IsSelection(h, seq, S)
<1> DEFINE kept == {k \in DOMAIN seq : seq[k] \in S}
           c == Cardinality(kept)
           upto(k) == {j \in kept : j <= k}
           nth(n) == CHOOSE k \in kept : Cardinality(upto(k)) = n
           rank == [k \in kept |-> Cardinality(upto(k))]
           h == [n \in 1 .. c |-> nth(n)]
<1>1. DOMAIN seq = 1 .. Len(seq) /\ Len(seq) \in Nat /\ \A k \in DOMAIN seq : seq[k] \in T
  OBVIOUS
<1>2. IsFiniteSet(kept) /\ c \in Nat /\ kept \subseteq Nat
  <2>1. IsFiniteSet(1 .. Len(seq))
    BY <1>1, FS_Interval
  <2>2. kept \in SUBSET (1 .. Len(seq))
    BY <1>1
  <2>3. IsFiniteSet(kept)
    BY <2>1, <2>2, FS_Subset
  <2> QED
    BY <2>2, <2>3, FS_CardinalityType
<1>3. ASSUME NEW k \in kept
      PROVE  /\ IsFiniteSet(upto(k)) /\ Cardinality(upto(k)) \in 1 .. c
  <2>1. upto(k) \in SUBSET kept /\ k \in upto(k)
    BY <1>2
  <2>2. IsFiniteSet(upto(k)) /\ Cardinality(upto(k)) <= c
    BY <1>2, <2>1, FS_Subset
  <2>3. Cardinality(upto(k)) \in Nat /\ Cardinality(upto(k)) # 0
    BY <2>1, <2>2, FS_CardinalityType, FS_EmptySet
  <2> QED
    BY <1>2, <2>2, <2>3
<1>4. ASSUME NEW j \in kept, NEW k \in kept, j < k
      PROVE  Cardinality(upto(j)) < Cardinality(upto(k))
  <2>1. upto(j) \in SUBSET upto(k) /\ k \in upto(k) /\ k \notin upto(j)
    BY <1>2, <1>4
  <2>2. Cardinality(upto(j)) <= Cardinality(upto(k)) /\ Cardinality(upto(j)) # Cardinality(upto(k))
    BY <1>3, <2>1, FS_Subset
  <2> HIDE DEF upto, kept, c
  <2>3. Cardinality(upto(j)) \in 1 .. c /\ Cardinality(upto(k)) \in 1 .. c
    BY <1>3
  <2> QED
    BY <2>2, <2>3
<1>5. rank \in [kept -> 1 .. c] /\ \A j, k \in kept : rank[j] = rank[k] => j = k
  <2>1. \A k \in kept : rank[k] = Cardinality(upto(k)) /\ rank[k] \in 1 .. c
    BY <1>3
  <2>2. \A j, k \in kept : j < k => rank[j] < rank[k]
    BY <1>4
  <2>4. rank \in [kept -> 1 .. c]
    BY <2>1
  <2> HIDE DEF kept, rank, upto, c
  <2>3. ASSUME NEW j \in kept, NEW k \in kept, rank[j] = rank[k]
        PROVE  j = k
    <3>1. j \in Nat /\ k \in Nat /\ rank[j] \in Nat
      BY <1>2, <2>1
    <3>2. ~(j < k) /\ ~(k < j)
      BY <2>2, <2>3, <3>1
    <3> QED
      BY <3>1, <3>2
  <2> QED
    BY <2>3, <2>4
<1>6. \A n \in 1 .. c : \E k \in kept : rank[k] = n
  <2>1. rank \in Injection(kept, 1 .. c)
    BY <1>5 DEF Injection, IsInjective
  <2>2. IsFiniteSet(1 .. c) /\ Cardinality(1 .. c) = c
    BY <1>2, FS_Interval
  <2>3. rank \in Surjection(kept, 1 .. c)
    BY <2>1, <2>2, FS_Injection
  <2> QED
    BY <2>3 DEF Surjection
<1>7. \A n \in 1 .. c : nth(n) \in kept /\ rank[nth(n)] = n
  <2>1. \A n \in 1 .. c : \E k \in kept : Cardinality(upto(k)) = n
    BY <1>6
  <2>2. \A n \in 1 .. c : nth(n) \in kept /\ Cardinality(upto(nth(n))) = n
    BY <2>1
  <2> QED
    BY <2>2
<1>8. Filter(seq, S) = [n \in 1 .. c |-> seq[nth(n)]]
  BY DEF Filter
<1>9. \A j, k \in kept : j < k => rank[j] < rank[k]
  BY <1>4
<1> HIDE DEF kept, nth, rank, upto, c
<1>10. h \in [1 .. c -> kept] /\ \A n \in 1 .. c : h[n] = nth(n)
  BY <1>7
<1>11. ASSUME NEW m \in 1 .. c, NEW n \in 1 .. c, m < n
       PROVE  h[m] < h[n]
  <2>1. /\ h[m] \in kept /\ h[n] \in kept
        /\ rank[h[m]] = m /\ rank[h[n]] = n
    BY <1>7, <1>10
  <2> HIDE DEF h
  <2>2. m \in Nat /\ n \in Nat /\ h[m] \in Nat /\ h[n] \in Nat
    <3>1. kept \subseteq Nat /\ c \in Nat
      BY <1>2
    <3>2. m \in Nat /\ n \in Nat
      BY <3>1
    <3>3. h[m] \in Nat /\ h[n] \in Nat
      BY <2>1, <3>1
    <3> QED
      BY <3>2, <3>3
  <2>3. ~(h[n] < h[m]) /\ h[m] # h[n]
    BY <1>9, <1>11, <2>1, <2>2
  <2> QED
    BY <2>2, <2>3
<1>12. \A k \in kept : \E n \in 1 .. c : h[n] = k
  BY <1>5, <1>7, <1>10
<1>13. Filter(seq, S) \in Seq(T)
  BY <1>1, <1>2, <1>7, <1>8 DEF kept
<1>14. IsSelection(h, seq, S)
  <2>1. DOMAIN Filter(seq, S) = 1 .. c /\ \A n \in 1 .. c : Filter(seq, S)[n] = seq[h[n]]
    BY <1>8, <1>10
  <2> HIDE DEF h
  <2> QED
    BY <1>10, <1>11, <1>12, <2>1 DEF IsSelection, kept
<1> QED
  BY <1>13, <1>14

(* The same for the set of the elements, and for lists with no element     *)
(* twice.                                                                  *)
LEMMA FilterElements ==
    ASSUME NEW T, NEW seq \in Seq(T), NEW S
    PROVE  /\ Elements(Filter(seq, S)) = Elements(seq) \cap S
           /\ Once(seq) => Once(Filter(seq, S))
<1> DEFINE f == Filter(seq, S)
<1>1. PICK h : IsSelection(h, seq, S)
  BY FilterFacts
<1>2. f \in Seq(T)
  BY FilterFacts
<1>3. /\ h \in [DOMAIN f -> DOMAIN seq]
      /\ \A n \in DOMAIN f : f[n] = seq[h[n]] /\ f[n] \in S
      /\ \A m, n \in DOMAIN f : m < n => h[m] < h[n]
      /\ \A k \in DOMAIN seq : seq[k] \in S => \E n \in DOMAIN f : h[n] = k
  BY <1>1 DEF IsSelection
<1> HIDE DEF f
<1>4. Elements(f) = Elements(seq) \cap S
  BY <1>3 DEF Elements
<1>5. ASSUME Once(seq), NEW m \in DOMAIN f, NEW n \in DOMAIN f, f[m] = f[n]
      PROVE  m = n
  <2>1. h[m] = h[n]
    BY <1>3, <1>5 DEF Once
  <2>2. DOMAIN f \subseteq Int /\ DOMAIN seq \subseteq Int
    BY <1>2
  <2>3. m \in Int /\ n \in Int /\ ~(m < n) /\ ~(n < m)
    BY <1>3, <2>1, <2>2
  <2> QED
    BY <2>3
<1> QED
  BY <1>4, <1>5 DEF f, Once

LEMMA WithoutElements ==
    ASSUME NEW T, NEW seq \in Seq(T), NEW gone
    PROVE  /\ Without(seq, gone) \in Seq(T)
           /\ Elements(Without(seq, gone)) = Elements(seq) \ gone
           /\ Once(seq) => Once(Without(seq, gone))
<1>1. Elements(seq) \cap (Elements(seq) \ gone) = Elements(seq) \ gone
  OBVIOUS
<1> QED
  BY <1>1, FilterFacts, FilterElements DEF Without

LEMMA ConcatElements ==
    ASSUME NEW T, NEW s \in Seq(T), NEW u \in Seq(T)
    PROVE  /\ s \o u \in Seq(T)
           /\ Elements(s \o u) = Elements(s) \cup Elements(u)
           /\ Once(s) /\ Once(u) /\ Elements(s) \cap Elements(u) = {} => Once(s \o u)
<1>1. /\ s \o u \in Seq(T)
      /\ DOMAIN s = 1 .. Len(s) /\ DOMAIN u = 1 .. Len(u)
      /\ DOMAIN (s \o u) = 1 .. Len(s) + Len(u)
      /\ Len(s) \in Nat /\ Len(u) \in Nat
      /\ \A k \in DOMAIN s : (s \o u)[k] = s[k]
      /\ \A k \in DOMAIN (s \o u) : k > Len(s) => (s \o u)[k] = u[k - Len(s)]
  OBVIOUS
<1>2. \A k \in DOMAIN u : k + Len(s) \in DOMAIN (s \o u) /\ (s \o u)[k + Len(s)] = u[k]
  BY <1>1
<1>3. \A k \in DOMAIN (s \o u) : \/ k \in DOMAIN s /\ (s \o u)[k] = s[k]
                                 \/ k - Len(s) \in DOMAIN u /\ (s \o u)[k] = u[k - Len(s)]
  BY <1>1
<1> DEFINE v == s \o u
<1>4. DOMAIN s \subseteq DOMAIN v
  BY <1>1
<1>5. Elements(v) = Elements(s) \cup Elements(u)
  <2>1. Elements(v) \subseteq Elements(s) \cup Elements(u)
    BY <1>3 DEF Elements
  <2>2. Elements(s) \subseteq Elements(v)
    BY <1>1, <1>4 DEF Elements
  <2>3. Elements(u) \subseteq Elements(v)
    BY <1>2 DEF Elements
  <2> QED
    BY <2>1, <2>2, <2>3
<1>6. ASSUME Once(s), Once(u), Elements(s) \cap Elements(u) = {},
             NEW j \in DOMAIN v, NEW k \in DOMAIN v, v[j] = v[k]
      PROVE  j = k
  <2>1. \A a \in DOMAIN s : \A b \in DOMAIN u : s[a] # u[b]
    BY <1>6 DEF Elements
  <2>2. CASE j \in DOMAIN s /\ v[j] = s[j]
    <3>1. k \in DOMAIN s /\ v[k] = s[k]
      BY <1>3, <1>6, <2>1, <2>2
    <3> QED
      BY <1>6, <2>2, <3>1 DEF Once
  <2>3. CASE j - Len(s) \in DOMAIN u /\ v[j] = u[j - Len(s)]
    <3>1. k - Len(s) \in DOMAIN u /\ v[k] = u[k - Len(s)]
      BY <1>3, <1>6, <2>1, <2>3
    <3>2. j - Len(s) = k - Len(s)
      BY <1>6, <2>3, <3>1 DEF Once
    <3> QED
      BY <1>1, <3>2
  <2> QED
    BY <1>3, <2>2, <2>3
<1> QED
  BY <1>1, <1>5, <1>6 DEF Once

(* A list with no element twice is as long as it has elements.             *)
LEMMA OnceLength ==
    ASSUME NEW T, NEW seq \in Seq(T), Once(seq)
    PROVE  Len(seq) = Cardinality(Elements(seq))
<1>1. Len(seq) \in Nat /\ DOMAIN seq = 1 .. Len(seq)
  OBVIOUS
<1>2. IsFiniteSet(1 .. Len(seq)) /\ Cardinality(1 .. Len(seq)) = Len(seq)
  <2>1. PICK n \in Nat : n = Len(seq)
    BY <1>1
  <2>2. IsFiniteSet(1 .. n) /\ Cardinality(1 .. n) = IF 1 > n THEN 0 ELSE n - 1 + 1
    BY FS_Interval
  <2> QED
    BY <2>1, <2>2
<1>3. seq \in [1 .. Len(seq) -> Elements(seq)]
  BY <1>1 DEF Elements
<1>4. seq \in Bijection(1 .. Len(seq), Elements(seq))
  BY <1>1, <1>3 DEF Bijection, Injection, IsInjective, Surjection, Elements, Once
<1>5. ExistsBijection(1 .. Len(seq), Elements(seq))
  BY <1>4 DEF ExistsBijection
<1> QED
  BY <1>2, <1>5, FS_Bijection
-----------------------------------------------------------------------------
(* Plugins                                                                 *)

(* An op is on the list of its type exactly while it is on the list of its *)
(* owner, and once on each.                                                *)
OpsInv ==
    /\ ops \in [OpTypes -> Seq(Ops)]
    /\ ownOps \in [AllPlugins -> Seq(Ops)]
    /\ \A p \in AllPlugins : \A o \in Elements(ownOps[p]) : Owner[o] = p
    /\ \A t \in OpTypes :
          /\ Once(ops[t])
          /\ \A o \in Ops : o \in Elements(ops[t]) <=>
                TypeOf[o] = t /\ o \in Elements(ownOps[Owner[o]])

(* m failures account for the plugins of S and for one more if misfini.    *)
FailuresCover(S, miss, m) ==
    /\ IsFiniteSet(S)
    /\ Cardinality(S) + (IF miss THEN 1 ELSE 0) <= m

(* What is set up, and what is open, is on the list of plugins, and what   *)
(* is set up is in memory; failures account for the backends that are only *)
(* on the list.                                                            *)
PluginsInv ==
    /\ phase \in {"loading", "running", "down"}
    /\ plugins \in Seq(AllPlugins) /\ Once(plugins)
    /\ virtio \in AllPlugins \cup {NULL}
    /\ misfini \in BOOLEAN
    /\ initFailed \in 0 .. MaxInitFailures
    /\ \A p \in AllPlugins \ Registered : ownOps[p] = <<>>
    /\ mapped \subseteq Registered \cap Backends
    /\ set \subseteq Registered \cap Backends
    /\ \A p \in set : InMemory(p)
    /\ FailuresCover(NotSetUp, misfini, initFailed)
    /\ phase = "down" => /\ set = {} /\ mapped = {} /\ virtio = NULL
                         /\ \A t \in OpTypes : ops[t] = <<>>

LEMMA OneMoreFailure ==
    ASSUME NEW S, NEW p, p \notin S, NEW miss \in BOOLEAN, NEW m \in Nat,
           FailuresCover(S, miss, m)
    PROVE  FailuresCover(S \cup {p}, miss, m + 1)
<1>1. IsFiniteSet(S \cup {p}) /\ Cardinality(S \cup {p}) = Cardinality(S) + 1
  BY FS_AddElement DEF FailuresCover
<1>2. Cardinality(S) \in Nat
  BY FS_CardinalityType DEF FailuresCover
<1> QED
  BY <1>1, <1>2 DEF FailuresCover

(* Plugins that are no longer listed: one of them accounts for misfini, if *)
(* one of them was not set up.                                             *)
LEMMA FewerFailures ==
    ASSUME NEW S, NEW T \in SUBSET S, NEW miss \in BOOLEAN, NEW m \in Nat,
           FailuresCover(S, miss, m)
    PROVE  FailuresCover(T, miss \/ T # S, m)
<1>1. IsFiniteSet(S) /\ Cardinality(S) \in Nat
  BY FS_CardinalityType DEF FailuresCover
<1>2. CASE T = S
  BY <1>2 DEF FailuresCover
<1>3. CASE T # S
  <2>1. PICK g \in S : g \notin T
    BY <1>3
  <2>2. IsFiniteSet(S \ {g}) /\ Cardinality(S \ {g}) = Cardinality(S) - 1
    BY <1>1, <2>1, FS_RemoveElement
  <2>3. T \in SUBSET (S \ {g})
    BY <2>1
  <2>4. IsFiniteSet(T) /\ Cardinality(T) <= Cardinality(S \ {g})
    BY <2>2, <2>3, FS_Subset
  <2>5. Cardinality(T) \in Nat
    BY <2>4, FS_CardinalityType
  <2>6. Cardinality(T) + 1 <= m
    BY <1>1, <2>2, <2>4, <2>5 DEF FailuresCover
  <2> QED
    BY <1>3, <2>4, <2>6 DEF FailuresCover
<1> QED
  BY <1>2, <1>3

(* The first n ops of the array of a plugin.                               *)
LEMMA ArrayFacts ==
    ASSUME NEW p \in AllPlugins, NEW n \in 0 .. Len(OpsOf[p])
    PROVE  /\ SubSeq(OpsOf[p], 1, n) \in Seq(Ops)
           /\ Once(SubSeq(OpsOf[p], 1, n))
           /\ \A o \in Elements(SubSeq(OpsOf[p], 1, n)) : Owner[o] = p
<1> DEFINE s == OpsOf[p]
           new == SubSeq(s, 1, n)
<1>1. s \in Seq(Ops) /\ Len(s) \in Nat /\ DOMAIN s = 1 .. Len(s)
  BY PluginsAssumption
<1>2. n \in Int /\ \A i \in 1 .. n : i \in DOMAIN s /\ s[i] \in Ops
  BY <1>1
<1>3. /\ new \in Seq(Ops)
      /\ Len(new) = IF 1 <= n THEN n - 1 + 1 ELSE 0
      /\ \A i \in 1 .. n - 1 + 1 : new[i] = s[1 + i - 1]
  <2> HIDE DEF s
  <2>1. 1 \in Int
    OBVIOUS
  <2> QED
    BY <1>2, <2>1, SubSeqProperties
<1> HIDE DEF s
<1>4. DOMAIN new = 1 .. n /\ \A i \in 1 .. n : new[i] = s[i]
  <2> HIDE DEF new
  <2>1. DOMAIN new = 1 .. Len(new) /\ Len(new) = n
    BY <1>2, <1>3
  <2> QED
    BY <1>2, <1>3, <2>1
<1> HIDE DEF new
<1>5. /\ \A i \in DOMAIN s : Owner[s[i]] = p
      /\ \A i, j \in DOMAIN s : s[i] = s[j] => i = j
  BY OpsAssumption DEF s
<1>6. Once(new) /\ \A o \in Elements(new) : Owner[o] = p
  BY <1>2, <1>4, <1>5 DEF Once, Elements
<1> QED
  BY <1>3, <1>6 DEF new, s

(* A plugin that registers ops, having none, adds them to the end of both  *)
(* lists.                                                                  *)
LEMMA RegisterFunctionsKeeps ==
    ASSUME OpsInv, NEW p \in AllPlugins, NEW n \in 0 .. Len(OpsOf[p]), ownOps[p] = <<>>,
           RegisterFunctions(p, n)
    PROVE  /\ OpsInv'
           /\ \A q \in AllPlugins \ {p} : ownOps'[q] = ownOps[q]
           /\ \A t \in OpTypes : \E added \in Seq(Ops) : ops'[t] = ops[t] \o added
<1> DEFINE new == SubSeq(OpsOf[p], 1, n)
           added(t) == Filter(new, OfType(t))
<1>1. new \in Seq(Ops) /\ Once(new) /\ \A o \in Elements(new) : Owner[o] = p
  BY ArrayFacts
<1>2. /\ ownOps' = [ownOps EXCEPT ![p] = ownOps[p] \o new]
      /\ ops' = [t \in OpTypes |-> ops[t] \o added(t)]
  BY DEF RegisterFunctions
<1> HIDE DEF new
<1>3. Elements(new) \subseteq Ops
  BY <1>1 DEF Elements
<1>4. ASSUME NEW t \in OpTypes
      PROVE  /\ added(t) \in Seq(Ops) /\ Once(added(t))
             /\ Elements(added(t)) = {o \in Elements(new) : TypeOf[o] = t}
  <2>1. Elements(new) \cap OfType(t) = {o \in Elements(new) : TypeOf[o] = t}
    BY <1>3 DEF OfType
  <2> QED
    BY <1>1, <2>1, FilterFacts, FilterElements
<1> HIDE DEF added
<1>5. ownOps'[p] = new /\ ownOps' \in [AllPlugins -> Seq(Ops)]
  BY <1>1, <1>2 DEF OpsInv
<1>6. \A q \in AllPlugins \ {p} : ownOps'[q] = ownOps[q]
  BY <1>2 DEF OpsInv
<1>7. Elements(ownOps[p]) = {}
  BY DEF Elements
<1>8. ASSUME NEW t \in OpTypes
      PROVE  /\ ops'[t] = ops[t] \o added(t) /\ ops'[t] \in Seq(Ops)
             /\ Elements(ops'[t]) = Elements(ops[t]) \cup Elements(added(t))
             /\ Once(ops'[t])
  <2>1. ops[t] \in Seq(Ops) /\ Once(ops[t]) /\ Elements(ops[t]) \subseteq Ops
    BY DEF OpsInv, Elements
  <2>2. Elements(ops[t]) \cap Elements(added(t)) = {}
    BY <1>1, <1>4, <1>7, <2>1 DEF OpsInv
  <2>3. ops'[t] = ops[t] \o added(t)
    BY <1>2
  <2> QED
    BY <1>4, <2>1, <2>2, <2>3, ConcatElements
<1>9. ops' \in [OpTypes -> Seq(Ops)]
  BY <1>2, <1>8
<1>10. \A q \in AllPlugins : \A o \in Elements(ownOps'[q]) : Owner[o] = q
  BY <1>1, <1>5, <1>6 DEF OpsInv
<1>11. ASSUME NEW t \in OpTypes, NEW o \in Ops
       PROVE  o \in Elements(ops'[t]) <=> TypeOf[o] = t /\ o \in Elements(ownOps'[Owner[o]])
  <2>1. Owner[o] \in AllPlugins
    BY PluginsAssumption
  <2>2. o \in Elements(ops[t]) <=> TypeOf[o] = t /\ o \in Elements(ownOps[Owner[o]])
    BY DEF OpsInv
  <2>3. o \in Elements(ops'[t]) <=>
            o \in Elements(ops[t]) \/ (o \in Elements(new) /\ TypeOf[o] = t)
    BY <1>4, <1>8
  <2>4. CASE Owner[o] = p
    BY <1>5, <1>7, <2>2, <2>3, <2>4
  <2>5. CASE Owner[o] # p
    BY <1>1, <1>6, <2>1, <2>2, <2>3, <2>5
  <2> QED
    BY <2>4, <2>5
<1>12. OpsInv'
  BY <1>5, <1>8, <1>9, <1>10, <1>11 DEF OpsInv
<1> QED
  BY <1>4, <1>6, <1>8, <1>12

(* The ops of the plugins that go leave both lists.                        *)
LEMMA UnlinkOpsKeeps ==
    ASSUME OpsInv, NEW gone \in SUBSET AllPlugins, UnlinkOps(gone)
    PROVE  /\ OpsInv'
           /\ \A p \in AllPlugins : ownOps'[p] = IF p \in gone THEN <<>> ELSE ownOps[p]
           /\ \A t \in OpTypes : \E dropped : ops'[t] = Without(ops[t], dropped)
<1> DEFINE dropped == UNION {Elements(ownOps[p]) : p \in gone}
<1>1. /\ ops' = [t \in OpTypes |-> Without(ops[t], dropped)]
      /\ ownOps' = [p \in AllPlugins |-> IF p \in gone THEN <<>> ELSE ownOps[p]]
  BY DEF UnlinkOps
<1>2. \A o \in Ops : o \in dropped <=> Owner[o] \in gone /\ o \in Elements(ownOps[Owner[o]])
  BY DEF OpsInv
<1> HIDE DEF dropped
<1>3. \A p \in AllPlugins : ownOps'[p] = IF p \in gone THEN <<>> ELSE ownOps[p]
  BY <1>1
<1>4. ownOps' \in [AllPlugins -> Seq(Ops)]
  BY <1>1 DEF OpsInv
<1>5. ASSUME NEW t \in OpTypes
      PROVE  /\ ops'[t] = Without(ops[t], dropped) /\ ops'[t] \in Seq(Ops)
             /\ Elements(ops'[t]) = Elements(ops[t]) \ dropped
             /\ Once(ops'[t])
  <2>1. ops[t] \in Seq(Ops) /\ Once(ops[t])
    BY DEF OpsInv
  <2>2. ops'[t] = Without(ops[t], dropped)
    BY <1>1
  <2> QED
    BY <2>1, <2>2, WithoutElements
<1>6. ops' \in [OpTypes -> Seq(Ops)]
  BY <1>1, <1>5
<1>7. Elements(<<>>) = {}
  BY DEF Elements
<1>8. \A p \in AllPlugins : \A o \in Elements(ownOps'[p]) : Owner[o] = p
  BY <1>3, <1>7 DEF OpsInv
<1>9. ASSUME NEW t \in OpTypes, NEW o \in Ops
      PROVE  o \in Elements(ops'[t]) <=> TypeOf[o] = t /\ o \in Elements(ownOps'[Owner[o]])
  <2>1. Owner[o] \in AllPlugins
    BY PluginsAssumption
  <2>2. o \in Elements(ops[t]) <=> TypeOf[o] = t /\ o \in Elements(ownOps[Owner[o]])
    BY DEF OpsInv
  <2>3. o \in Elements(ops'[t]) <=> o \in Elements(ops[t]) /\ o \notin dropped
    BY <1>5
  <2> QED
    BY <1>2, <1>3, <1>7, <2>1, <2>2, <2>3
<1>10. OpsInv'
  BY <1>4, <1>5, <1>6, <1>8, <1>9 DEF OpsInv
<1> QED
  BY <1>3, <1>5, <1>10

LEMMA RegisterPluginFacts ==
    ASSUME PluginsInv, NEW p \in AllPlugins, RegisterPlugin(p)
    PROVE  /\ plugins' \in Seq(AllPlugins) /\ Once(plugins')
           /\ Registered' = Registered \cup {p}
           /\ virtio' \in AllPlugins \cup {NULL}
           /\ p \notin Registered /\ ownOps[p] = <<>>
<1>1. /\ plugins \in Seq(AllPlugins) /\ Once(plugins)
      /\ p \notin Elements(plugins) /\ plugins' = Append(plugins, p)
  BY DEF PluginsInv, RegisterPlugin, Registered
<1>2. /\ plugins' \in Seq(AllPlugins)
      /\ Len(plugins) \in Nat
      /\ DOMAIN plugins = 1 .. Len(plugins) /\ DOMAIN plugins' = 1 .. Len(plugins) + 1
      /\ \A k \in 1 .. Len(plugins) : plugins'[k] = plugins[k]
      /\ plugins'[Len(plugins) + 1] = p
  BY <1>1
<1>3. \A k \in DOMAIN plugins' : \/ k \in DOMAIN plugins /\ plugins'[k] = plugins[k]
                                 \/ k = Len(plugins) + 1 /\ plugins'[k] = p
  BY <1>2
<1>4. /\ DOMAIN plugins \subseteq DOMAIN plugins' /\ Len(plugins) + 1 \in DOMAIN plugins'
      /\ \A k \in DOMAIN plugins : plugins'[k] = plugins[k] /\ plugins[k] # p
  BY <1>1, <1>2 DEF Elements
<1>5. Once(plugins')
  BY <1>1, <1>3, <1>4 DEF Once
<1>6. Elements(plugins') = Elements(plugins) \cup {p}
  BY <1>2, <1>3, <1>4 DEF Elements
<1> QED
  BY <1>2, <1>5, <1>6 DEF PluginsInv, RegisterPlugin, Registered

LEMMA LoadKeeps ==
    ASSUME OpsInv, PluginsInv, NEW p \in AllPlugins, Load(p) \/ LoadInitFails(p)
    PROVE  OpsInv' /\ PluginsInv'
<1>1. /\ RegisterPlugin(p) /\ p \in Backends /\ phase = "loading"
      /\ phase' \in {"loading", "running"} /\ UNCHANGED misfini
  BY DEF Load, LoadInitFails
<1>2. PICK n \in 0 .. Len(OpsOf[p]) : RegisterFunctions(p, n)
  BY PluginsAssumption DEF Load, LoadInitFails
<1>3. /\ plugins' \in Seq(AllPlugins) /\ Once(plugins')
      /\ Registered' = Registered \cup {p}
      /\ virtio' \in AllPlugins \cup {NULL}
      /\ p \notin Registered /\ ownOps[p] = <<>>
  BY <1>1, RegisterPluginFacts
<1>4. OpsInv' /\ \A q \in AllPlugins \ {p} : ownOps'[q] = ownOps[q]
  BY <1>2, <1>3, RegisterFunctionsKeeps
<1>5. \A q \in AllPlugins \ Registered' : ownOps'[q] = <<>>
  BY <1>3, <1>4 DEF PluginsInv
<1>6. CASE Load(p)
  <2>1. mapped' = mapped \cup {p} /\ set' = set \cup {p} /\ initFailed' = initFailed
    BY <1>6 DEF Load
  <2>2. NotSetUp' = NotSetUp
    BY <1>3, <2>1 DEF NotSetUp
  <2>3. FailuresCover(NotSetUp', misfini', initFailed')
    BY <1>1, <2>1, <2>2 DEF PluginsInv
  <2> QED
    BY <1>1, <1>3, <1>4, <1>5, <2>1, <2>3 DEF PluginsInv, InMemory
<1>7. CASE LoadInitFails(p)
  <2>1. /\ mapped' = mapped /\ set' = set
        /\ initFailed < MaxInitFailures /\ initFailed' = initFailed + 1
    BY <1>7 DEF LoadInitFails
  <2>2. initFailed \in Nat /\ initFailed' \in 0 .. MaxInitFailures
    BY <2>1, MaxInitFailuresAssumption DEF PluginsInv
  <2>3. p \notin NotSetUp /\ NotSetUp' = NotSetUp \cup {p}
    BY <1>1, <1>3, <2>1 DEF PluginsInv, NotSetUp
  <2>4. FailuresCover(NotSetUp, misfini, initFailed) /\ misfini \in BOOLEAN
    BY DEF PluginsInv
  <2>5. FailuresCover(NotSetUp', misfini', initFailed')
    <3> DEFINE S == NotSetUp
    <3>1. p \notin S /\ FailuresCover(S, misfini, initFailed)
      BY <2>3, <2>4
    <3> HIDE DEF S
    <3>2. FailuresCover(S \cup {p}, misfini, initFailed + 1)
      BY <2>2, <2>4, <3>1, OneMoreFailure
    <3> QED
      BY <1>1, <2>1, <2>3, <3>2 DEF S
  <2> QED
    BY <1>1, <1>3, <1>4, <1>5, <2>1, <2>2, <2>5 DEF PluginsInv, InMemory
<1> QED
  BY <1>6, <1>7

LEMMA LoadDoneKeeps ==
    ASSUME OpsInv, PluginsInv, LoadDone
    PROVE  OpsInv' /\ PluginsInv'
<1>1. phase' = "running" /\ UNCHANGED <<plugins, virtio, ops, ownOps, mapped, set, misfini, initFailed>>
  BY DEF LoadDone
<1> QED
  BY <1>1 DEF OpsInv, PluginsInv, Registered, InMemory, NotSetUp

LEMMA RegisterBuiltInKeeps ==
    ASSUME OpsInv, PluginsInv, NEW p \in AllPlugins, RegisterBuiltIn(p)
    PROVE  OpsInv' /\ PluginsInv'
<1>1. /\ plugins' \in Seq(AllPlugins) /\ Once(plugins')
      /\ Registered' = Registered \cup {p}
      /\ virtio' \in AllPlugins \cup {NULL}
      /\ p \notin Registered
  BY RegisterPluginFacts DEF RegisterBuiltIn
<1>2. /\ p \in BuiltIn /\ p \notin Backends /\ phase = "running"
      /\ UNCHANGED <<phase, ops, ownOps, mapped, set, misfini, initFailed>>
  BY PluginsAssumption DEF RegisterBuiltIn
<1>3. OpsInv'
  BY <1>2 DEF OpsInv
<1>4. NotSetUp' = NotSetUp
  BY <1>1, <1>2 DEF NotSetUp
<1>5. FailuresCover(NotSetUp', misfini', initFailed')
  BY <1>2, <1>4 DEF PluginsInv
<1> QED
  BY <1>1, <1>2, <1>3, <1>5 DEF PluginsInv, InMemory

LEMMA RegisterBuiltInFunctionsKeeps ==
    ASSUME OpsInv, PluginsInv, NEW p \in AllPlugins, RegisterBuiltInFunctions(p)
    PROVE  OpsInv' /\ PluginsInv'
<1>1. /\ p \in Registered /\ ownOps[p] = <<>> /\ RegisterFunctions(p, Len(OpsOf[p]))
      /\ phase = "running"
      /\ UNCHANGED <<phase, plugins, virtio, mapped, set, misfini, initFailed>>
  BY DEF RegisterBuiltInFunctions
<1>2. Len(OpsOf[p]) \in 0 .. Len(OpsOf[p])
  <2>1. OpsOf[p] \in Seq(Ops)
    BY PluginsAssumption
  <2> QED
    BY <2>1
<1>3. OpsInv' /\ \A q \in AllPlugins \ {p} : ownOps'[q] = ownOps[q]
  BY <1>1, <1>2, RegisterFunctionsKeeps
<1> QED
  BY <1>1, <1>3 DEF PluginsInv, Registered, InMemory, NotSetUp

(* Plugins are removed: one, or all that are left.                         *)
LEMMA UnregisterAllFacts ==
    ASSUME OpsInv, PluginsInv, NEW gone \in SUBSET Registered, UnregisterAll(gone)
    PROVE  /\ OpsInv'
           /\ plugins' \in Seq(AllPlugins) /\ Once(plugins')
           /\ Registered' = Registered \ gone
           /\ \A p \in AllPlugins \ Registered' : ownOps'[p] = <<>>
           /\ mapped' = mapped \ gone /\ set' = set \ gone
           /\ misfini' \in BOOLEAN
           /\ FailuresCover(NotSetUp', misfini', initFailed)
<1>1. plugins \in Seq(AllPlugins) /\ Once(plugins) /\ Registered \subseteq AllPlugins
  BY DEF PluginsInv, Registered, Elements
<1>2. /\ UnlinkOps(gone) /\ plugins' = Without(plugins, gone)
      /\ mapped' = mapped \ gone /\ set' = set \ gone
      /\ misfini' = (misfini \/ ~(gone \cap Backends \subseteq set))
  BY DEF UnregisterAll, Fini
<1>3. /\ plugins' \in Seq(AllPlugins) /\ Once(plugins')
      /\ Registered' = Registered \ gone
  BY <1>1, <1>2, WithoutElements DEF Registered
<1>4. OpsInv' /\ \A p \in AllPlugins : ownOps'[p] = IF p \in gone THEN <<>> ELSE ownOps[p]
  BY <1>1, <1>2, UnlinkOpsKeeps
<1>5. \A p \in AllPlugins \ Registered' : ownOps'[p] = <<>>
  BY <1>3, <1>4 DEF PluginsInv
<1>6. misfini' \in BOOLEAN
  BY <1>2 DEF PluginsInv
<1>7. FailuresCover(NotSetUp', misfini', initFailed)
  <2> DEFINE S == NotSetUp
             T == S \ gone
  <2>1. /\ FailuresCover(S, misfini, initFailed)
        /\ misfini \in BOOLEAN /\ initFailed \in Nat
    BY MaxInitFailuresAssumption DEF PluginsInv
  <2>2. NotSetUp' = T
    BY <1>2, <1>3 DEF NotSetUp
  <2>3. T \in SUBSET S /\ (T # S <=> ~(gone \cap Backends \subseteq set))
    BY DEF NotSetUp
  <2>4. misfini' = (misfini \/ T # S)
    BY <1>2, <2>3
  <2> HIDE DEF S, T
  <2>5. FailuresCover(T, misfini \/ T # S, initFailed)
    BY <2>1, <2>3, FewerFailures
  <2> QED
    BY <2>2, <2>4, <2>5
<1> QED
  BY <1>2, <1>3, <1>4, <1>5, <1>6, <1>7

LEMMA UnregisterKeeps ==
    ASSUME OpsInv, PluginsInv, NEW p \in AllPlugins, Unregister(p)
    PROVE  OpsInv' /\ PluginsInv'
<1>1. /\ p \in Registered /\ UnregisterAll({p}) /\ phase = "running"
      /\ UNCHANGED <<phase, virtio, initFailed>>
  BY DEF Unregister
<1>2. /\ OpsInv'
      /\ plugins' \in Seq(AllPlugins) /\ Once(plugins')
      /\ Registered' = Registered \ {p}
      /\ \A q \in AllPlugins \ Registered' : ownOps'[q] = <<>>
      /\ mapped' = mapped \ {p} /\ set' = set \ {p}
      /\ misfini' \in BOOLEAN
      /\ FailuresCover(NotSetUp', misfini', initFailed)
  BY <1>1, UnregisterAllFacts
<1> QED
  BY <1>1, <1>2 DEF PluginsInv, InMemory

LEMMA ShutdownKeeps ==
    ASSUME OpsInv, PluginsInv, Shutdown
    PROVE  OpsInv' /\ PluginsInv'
<1>1. UnregisterAll(Registered) /\ virtio' = NULL /\ phase' = "down" /\ UNCHANGED initFailed
  BY DEF Shutdown
<1>2. /\ OpsInv'
      /\ plugins' \in Seq(AllPlugins) /\ Once(plugins')
      /\ Registered' = {}
      /\ \A p \in AllPlugins \ Registered' : ownOps'[p] = <<>>
      /\ mapped' = {} /\ set' = {}
      /\ misfini' \in BOOLEAN
      /\ FailuresCover(NotSetUp', misfini', initFailed)
  BY <1>1, UnregisterAllFacts DEF PluginsInv
<1>3. ASSUME NEW t \in OpTypes
      PROVE  ops'[t] = <<>>
  <2>1. ops'[t] \in Seq(Ops) /\ Elements(<<>>) = {} /\ Elements(ops'[t]) \subseteq Ops
    BY <1>2 DEF OpsInv, Elements
  <2>2. \A o \in Ops : ownOps'[Owner[o]] = <<>>
    BY <1>2, PluginsAssumption
  <2>3. Elements(ops'[t]) = {}
    <3>1. \A o \in Ops : o \in Elements(ops'[t]) => o \in Elements(ownOps'[Owner[o]])
      BY <1>2 DEF OpsInv
    <3> QED
      BY <2>1, <2>2, <3>1
  <2>4. 1 \notin DOMAIN ops'[t]
    BY <2>3 DEF Elements
  <2>5. Len(ops'[t]) = 0
    BY <2>1, <2>4
  <2> QED
    BY <2>1, <2>5, EmptySeq
<1> QED
  BY <1>1, <1>2, <1>3 DEF PluginsInv

LEMMA PluginsNext ==
    ASSUME OpsInv, PluginsInv, [Next]_vars
    PROVE  OpsInv' /\ PluginsInv'
<1>1. CASE UNCHANGED vars
  BY <1>1 DEF vars, OpsInv, PluginsInv, Registered, InMemory, NotSetUp
<1>2. CASE LoadDone \/ Shutdown
  BY <1>2, LoadDoneKeeps, ShutdownKeeps
<1>3. ASSUME NEW p \in AllPlugins,
             \/ Load(p) \/ LoadInitFails(p)
             \/ RegisterBuiltIn(p) \/ RegisterBuiltInFunctions(p)
             \/ Unregister(p)
      PROVE  OpsInv' /\ PluginsInv'
  BY <1>3, LoadKeeps, RegisterBuiltInKeeps, RegisterBuiltInFunctionsKeeps, UnregisterKeeps
<1> QED
  BY <1>1, <1>2, <1>3 DEF Next

LEMMA PluginsInit == Init => OpsInv /\ PluginsInv
<1> SUFFICES ASSUME Init
             PROVE  OpsInv /\ PluginsInv
  OBVIOUS
<1>1. Elements(<<>>) = {} /\ Once(<<>>)
  BY DEF Elements, Once
<1>2. OpsInv
  BY <1>1, PluginsAssumption DEF Init, OpsInv
<1>3. PluginsInv
  <2>1. Registered = {} /\ plugins \in Seq(AllPlugins) /\ Once(plugins)
    BY <1>1 DEF Init, Registered
  <2>2. \A p \in AllPlugins : ownOps[p] = <<>>
    BY DEF Init
  <2>3. /\ phase = "loading" /\ virtio = NULL /\ mapped = {} /\ set = {}
        /\ misfini = FALSE /\ initFailed = 0 /\ initFailed \in 0 .. MaxInitFailures
    BY MaxInitFailuresAssumption DEF Init
  <2>4. FailuresCover({}, FALSE, 0)
    BY FS_EmptySet DEF FailuresCover
  <2>5. FailuresCover(NotSetUp, misfini, initFailed)
    BY <2>1, <2>3, <2>4 DEF NotSetUp
  <2> QED
    BY <2>1, <2>2, <2>3, <2>5 DEF PluginsInv
<1> QED
  BY <1>2, <1>3
-----------------------------------------------------------------------------
(* The lookup                                                              *)

(* o is the first of the list that matches the hint, or the first of all   *)
(* when none does.                                                         *)
FirstMatch(list, hint, o) ==
    \E k \in DOMAIN list :
        /\ list[k] = o /\ Matches(hint, o)
        /\ \A j \in DOMAIN list : Matches(hint, list[j]) => k <= j

FirstOfAll(list, hint, o) ==
    /\ list # <<>> /\ o = list[1]
    /\ \A j \in DOMAIN list : ~Matches(hint, list[j])

(* What get_plugin_op answers.                                             *)
LookupRight ==
    ops \in [OpTypes -> Seq(Ops)] =>
        \A t \in OpTypes, hint \in Hints :
            LET o == get_plugin_op(t, hint)
            IN  /\ o \in Ops \cup {NULL}
                /\ o = NULL <=> ops[t] = <<>>
                /\ o # NULL => /\ o \in Elements(ops[t])
                               /\ FirstMatch(ops[t], hint, o) \/ FirstOfAll(ops[t], hint, o)

(* A list has a first element of any set it has elements of: the first of  *)
(* those that Filter keeps.                                                *)
LEMMA FirstExists ==
    ASSUME NEW T, NEW list \in Seq(T), NEW S, NEW i \in DOMAIN list, list[i] \in S
    PROVE  \E k \in DOMAIN list : list[k] \in S /\ \A j \in DOMAIN list : list[j] \in S => k <= j
<1> DEFINE f == Filter(list, S)
<1>1. PICK h : IsSelection(h, list, S)
  BY FilterFacts
<1>2. f \in Seq(T)
  BY FilterFacts
<1>3. /\ h \in [DOMAIN f -> DOMAIN list]
      /\ \A n \in DOMAIN f : f[n] = list[h[n]] /\ f[n] \in S
      /\ \A m, n \in DOMAIN f : m < n => h[m] < h[n]
      /\ \A k \in DOMAIN list : list[k] \in S => \E n \in DOMAIN f : h[n] = k
  BY <1>1 DEF IsSelection
<1> HIDE DEF f
<1>4. DOMAIN f = 1 .. Len(f) /\ Len(f) \in Nat /\ DOMAIN list \subseteq Int
  BY <1>2
<1>5. 1 \in DOMAIN f
  <2>1. PICK n \in DOMAIN f : h[n] = i
    BY <1>3
  <2> QED
    BY <1>4, <2>1
<1>6. ASSUME NEW j \in DOMAIN list, list[j] \in S
      PROVE  h[1] <= j
  <2>1. PICK n \in DOMAIN f : h[n] = j
    BY <1>3, <1>6
  <2>2. n = 1 \/ 1 < n
    BY <1>4
  <2>3. h[1] \in Int /\ j \in Int
    BY <1>3, <1>4, <1>5
  <2>4. n # 1 => h[1] < h[n]
    BY <1>3, <1>5, <2>2
  <2> QED
    BY <2>1, <2>3, <2>4
<1> QED
  BY <1>3, <1>5, <1>6

LEMMA LookupIsRight == LookupRight
<1> SUFFICES ASSUME ops \in [OpTypes -> Seq(Ops)], NEW t \in OpTypes, NEW hint \in Hints
             PROVE  /\ get_plugin_op(t, hint) \in Ops \cup {NULL}
                    /\ get_plugin_op(t, hint) = NULL <=> ops[t] = <<>>
                    /\ get_plugin_op(t, hint) # NULL =>
                          /\ get_plugin_op(t, hint) \in Elements(ops[t])
                          /\ \/ FirstMatch(ops[t], hint, get_plugin_op(t, hint))
                             \/ FirstOfAll(ops[t], hint, get_plugin_op(t, hint))
  BY DEF LookupRight
<1>1. PICK list \in Seq(Ops) : list = ops[t]
  OBVIOUS
<1> DEFINE matching == {k \in DOMAIN list : Matches(hint, list[k])}
           o == get_plugin_op(t, hint)
<1>2. NULL \notin Ops
  BY PluginsAssumption
<1>3. o = CASE list = <<>> -> NULL
            [] matching # {} -> list[CHOOSE k \in matching : \A j \in matching : k <= j]
            [] OTHER -> Head(list)
  BY <1>1 DEF get_plugin_op
<1>4. \A k \in DOMAIN list : list[k] \in Ops /\ list[k] \in Elements(list)
  BY DEF Elements
<1>5. CASE list = <<>>
  BY <1>1, <1>3, <1>5
<1>6. CASE list # <<>> /\ matching # {}
  <2> DEFINE k == CHOOSE i \in matching : \A j \in matching : i <= j
  <2>1. \E i \in matching : \A j \in matching : i <= j
    <3> DEFINE S == {x \in Ops : Matches(hint, x)}
    <3>1. \A i \in DOMAIN list : list[i] \in S <=> i \in matching
      BY <1>4
    <3>2. PICK i \in DOMAIN list : list[i] \in S
      BY <1>6, <3>1
    <3>3. \E a \in DOMAIN list : list[a] \in S /\ \A j \in DOMAIN list : list[j] \in S => a <= j
      <4> HIDE DEF S
      <4> QED
        BY <3>2, FirstExists
    <3> QED
      BY <3>1, <3>3
  <2>2. k \in matching /\ \A j \in matching : k <= j
    BY <2>1
  <2>3. ~(list = <<>>) /\ o = list[k]
    BY <1>3, <1>6
  <2> HIDE DEF k, o
  <2>4. FirstMatch(list, hint, o)
    BY <2>2, <2>3 DEF FirstMatch
  <2> QED
    BY <1>1, <1>2, <1>4, <2>2, <2>3, <2>4 DEF o
<1>7. CASE list # <<>> /\ matching = {}
  <2>1. o = Head(list) /\ Head(list) = list[1] /\ 1 \in DOMAIN list
    BY <1>3, <1>7
  <2>2. FirstOfAll(list, hint, o)
    BY <1>7, <2>1 DEF FirstOfAll
  <2> QED
    BY <1>1, <1>2, <1>4, <1>7, <2>1, <2>2
<1> QED
  BY <1>5, <1>6, <1>7

(* Ops that join a list come after those that are on it.                   *)
LEMMA AppendKeepsAnswer ==
    ASSUME NEW list \in Seq(Ops), NEW added \in Seq(Ops), NEW hint, NEW old, NEW new,
           old \in Elements(list),
           FirstMatch(list, hint, old) \/ FirstOfAll(list, hint, old),
           FirstMatch(list \o added, hint, new) \/ FirstOfAll(list \o added, hint, new)
    PROVE  new = old \/ (~Matches(hint, old) /\ Matches(hint, new))
<1> DEFINE longer == list \o added
<1>1. /\ DOMAIN list \subseteq DOMAIN longer /\ DOMAIN longer \subseteq Int
      /\ \A k \in DOMAIN list : longer[k] = list[k]
      /\ \A j \in DOMAIN longer : \A k \in DOMAIN list : j <= k => j \in DOMAIN list
      /\ list # <<>> => 1 \in DOMAIN list
  OBVIOUS
<1>2. FirstMatch(longer, hint, new) \/ FirstOfAll(longer, hint, new)
  OBVIOUS
<1> HIDE DEF longer
<1>3. CASE FirstMatch(list, hint, old)
  <2>1. PICK k \in DOMAIN list :
            /\ list[k] = old /\ Matches(hint, old)
            /\ \A j \in DOMAIN list : Matches(hint, list[j]) => k <= j
    BY <1>3 DEF FirstMatch
  <2>2. PICK i \in DOMAIN longer :
            /\ longer[i] = new /\ Matches(hint, new)
            /\ \A j \in DOMAIN longer : Matches(hint, longer[j]) => i <= j
    BY <1>1, <1>2, <2>1 DEF FirstMatch, FirstOfAll
  <2>3. i <= k /\ i \in DOMAIN list /\ k <= i
    BY <1>1, <2>1, <2>2
  <2>4. i = k
    BY <1>1, <2>3
  <2> QED
    BY <1>1, <2>1, <2>2, <2>4
<1>4. CASE FirstOfAll(list, hint, old)
  <2>1. list # <<>> /\ old = list[1] /\ 1 \in DOMAIN list /\ ~Matches(hint, old)
    BY <1>1, <1>4 DEF FirstOfAll
  <2>2. FirstOfAll(longer, hint, new) => new = old
    BY <1>1, <2>1 DEF FirstOfAll
  <2>3. FirstMatch(longer, hint, new) => Matches(hint, new)
    BY DEF FirstMatch
  <2> QED
    BY <1>2, <2>1, <2>2, <2>3
<1> QED
  BY <1>3, <1>4

(* Ops that leave a list do not change the order of the others.            *)
LEMMA RemoveKeepsAnswer ==
    ASSUME NEW list \in Seq(Ops), NEW gone, NEW hint, NEW old, NEW new,
           old \in Elements(Without(list, gone)),
           FirstMatch(list, hint, old) \/ FirstOfAll(list, hint, old),
           FirstMatch(Without(list, gone), hint, new) \/ FirstOfAll(Without(list, gone), hint, new)
    PROVE  new = old
<1> DEFINE shorter == Without(list, gone)
           S == Elements(list) \ gone
<1>1. PICK h : IsSelection(h, list, S)
  BY FilterFacts
<1>2. shorter = Filter(list, S) /\ shorter \in Seq(Ops)
  BY FilterFacts DEF Without
<1> HIDE DEF S
<1>3. /\ h \in [DOMAIN shorter -> DOMAIN list]
      /\ \A n \in DOMAIN shorter : shorter[n] = list[h[n]] /\ shorter[n] \in S
      /\ \A m, n \in DOMAIN shorter : m < n => h[m] < h[n]
      /\ \A k \in DOMAIN list : list[k] \in S => \E n \in DOMAIN shorter : h[n] = k
  BY <1>1, <1>2 DEF IsSelection
<1>4. /\ old \in Elements(shorter)
      /\ FirstMatch(shorter, hint, new) \/ FirstOfAll(shorter, hint, new)
  OBVIOUS
<1> HIDE DEF shorter
<1>5. old \in S
  BY <1>3, <1>4 DEF Elements
<1>6. DOMAIN shorter = 1 .. Len(shorter) /\ Len(shorter) \in Nat /\ DOMAIN list = 1 .. Len(list)
      /\ Len(list) \in Nat
  BY <1>2
<1>7. CASE FirstMatch(list, hint, old)
  <2>1. PICK k \in DOMAIN list :
            /\ list[k] = old /\ Matches(hint, old)
            /\ \A j \in DOMAIN list : Matches(hint, list[j]) => k <= j
    BY <1>7 DEF FirstMatch
  <2>2. PICK n \in DOMAIN shorter : h[n] = k
    BY <1>3, <1>5, <2>1
  <2>3. PICK i \in DOMAIN shorter :
            /\ shorter[i] = new /\ Matches(hint, new)
            /\ \A j \in DOMAIN shorter : Matches(hint, shorter[j]) => i <= j
    BY <1>3, <1>4, <2>1, <2>2 DEF FirstMatch, FirstOfAll
  <2>4. i <= n /\ k <= h[i] /\ h[i] \in Int /\ k \in Int /\ i \in Int /\ n \in Int
    BY <1>3, <1>6, <2>1, <2>2, <2>3
  <2>5. i = n
    <3>1. ~(i < n)
      <4>1. i < n => h[i] < k
        BY <1>3, <2>2
      <4> QED
        BY <2>4, <4>1
    <3> QED
      BY <2>4, <3>1
  <2> QED
    BY <1>3, <2>1, <2>2, <2>3, <2>5
<1>8. CASE FirstOfAll(list, hint, old)
  <2>1. /\ list # <<>> /\ old = list[1] /\ 1 \in DOMAIN list
        /\ \A j \in DOMAIN list : ~Matches(hint, list[j])
    BY <1>6, <1>8 DEF FirstOfAll
  <2>2. new = shorter[1]
    BY <1>3, <1>4, <2>1 DEF FirstMatch, FirstOfAll
  <2>3. PICK n \in DOMAIN shorter : h[n] = 1
    BY <1>3, <1>5, <2>1
  <2>4. n = 1
    <3>1. 1 \in DOMAIN shorter /\ n \in Int /\ n >= 1 /\ h[1] \in Int /\ h[1] >= 1
      BY <1>3, <1>6, <2>3
    <3>2. ~(1 < n)
      <4>1. 1 < n => h[1] < 1
        BY <1>3, <2>3, <3>1
      <4> QED
        BY <3>1, <4>1
    <3> QED
      BY <3>1, <3>2
  <2> QED
    BY <1>3, <2>1, <2>2, <2>3, <2>4
<1> QED
  BY <1>7, <1>8

(* A step of the plugins changes an answer only as LookupStable allows.    *)
StableStep ==
    \A t \in OpTypes, hint \in Hints :
        LET old == get_plugin_op(t, hint)
            new == get_plugin_op(t, hint)'
        IN  old # NULL /\ new # old =>
              \/ old \notin Elements(ops'[t])
              \/ ~Matches(hint, old) /\ Matches(hint, new)

(* The list of a type grows at its end, or loses ops.                      *)
LEMMA ListsChange ==
    ASSUME OpsInv, PluginsInv, Next, NEW t \in OpTypes
    PROVE  \/ ops'[t] = ops[t]
           \/ \E added \in Seq(Ops) : ops'[t] = ops[t] \o added
           \/ \E gone : ops'[t] = Without(ops[t], gone)
<1>1. CASE LoadDone
  BY <1>1 DEF LoadDone
<1>2. CASE Shutdown \/ \E p \in AllPlugins : Unregister(p)
  <2>1. PICK gone \in SUBSET AllPlugins : UnlinkOps(gone)
    <3>1. Registered \in SUBSET AllPlugins
      BY DEF PluginsInv, Registered, Elements
    <3> QED
      BY <1>2, <3>1 DEF Shutdown, Unregister, UnregisterAll
  <2> QED
    BY <2>1, UnlinkOpsKeeps
<1>3. ASSUME NEW p \in AllPlugins, Load(p) \/ LoadInitFails(p) \/ RegisterBuiltInFunctions(p)
      PROVE  \E added \in Seq(Ops) : ops'[t] = ops[t] \o added
  <2>1. PICK n \in 0 .. Len(OpsOf[p]) : RegisterFunctions(p, n)
    <3>1. Len(OpsOf[p]) \in 0 .. Len(OpsOf[p])
      BY PluginsAssumption
    <3> QED
      BY <1>3, <3>1 DEF Load, LoadInitFails, RegisterBuiltInFunctions
  <2>2. ownOps[p] = <<>>
    BY <1>3 DEF Load, LoadInitFails, RegisterBuiltInFunctions, RegisterPlugin
  <2> QED
    BY <2>1, <2>2, RegisterFunctionsKeeps
<1>4. ASSUME NEW p \in AllPlugins, RegisterBuiltIn(p)
      PROVE  ops'[t] = ops[t]
  BY <1>4 DEF RegisterBuiltIn
<1> QED
  BY <1>1, <1>2, <1>3, <1>4 DEF Next

LEMMA NextIsStable ==
    ASSUME OpsInv, OpsInv', PluginsInv, Next
    PROVE  StableStep
<1> SUFFICES ASSUME NEW t \in OpTypes, NEW hint \in Hints,
                    get_plugin_op(t, hint) # NULL,
                    get_plugin_op(t, hint)' # get_plugin_op(t, hint),
                    get_plugin_op(t, hint) \in Elements(ops'[t])
             PROVE  /\ ~Matches(hint, get_plugin_op(t, hint))
                    /\ Matches(hint, get_plugin_op(t, hint)')
  BY DEF StableStep
<1> DEFINE old == get_plugin_op(t, hint)
           new == get_plugin_op(t, hint)'
<1>1. /\ ops[t] \in Seq(Ops) /\ old \in Elements(ops[t])
      /\ FirstMatch(ops[t], hint, old) \/ FirstOfAll(ops[t], hint, old)
  BY LookupIsRight DEF LookupRight, OpsInv
<1>2. FirstMatch(ops'[t], hint, new) \/ FirstOfAll(ops'[t], hint, new)
  <2>1. LookupRight'
    BY LookupIsRight, PTL
  <2>2. new = NULL <=> ops'[t] = <<>>
    BY <2>1 DEF LookupRight, OpsInv
  <2>3. ops'[t] # <<>>
    BY DEF Elements
  <2> QED
    BY <2>1, <2>2, <2>3 DEF LookupRight, OpsInv
<1>3. new # old /\ old \in Elements(ops'[t])
  OBVIOUS
<1> HIDE DEF old, new
<1>4. ASSUME NEW added \in Seq(Ops), ops'[t] = ops[t] \o added
      PROVE  ~Matches(hint, old) /\ Matches(hint, new)
  <2>1. FirstMatch(ops[t] \o added, hint, new) \/ FirstOfAll(ops[t] \o added, hint, new)
    BY <1>2, <1>4
  <2>2. new = old \/ (~Matches(hint, old) /\ Matches(hint, new))
    BY <1>1, <2>1, AppendKeepsAnswer
  <2> QED
    BY <1>3, <2>2
<1>5. ASSUME NEW gone, ops'[t] = Without(ops[t], gone)
      PROVE  FALSE
  <2>1. /\ FirstMatch(Without(ops[t], gone), hint, new) \/ FirstOfAll(Without(ops[t], gone), hint, new)
        /\ old \in Elements(Without(ops[t], gone))
    BY <1>2, <1>3, <1>5
  <2>2. new = old
    BY <1>1, <2>1, RemoveKeepsAnswer
  <2> QED
    BY <1>3, <2>2
<1>6. ops'[t] = ops[t] => \E added \in Seq(Ops) : ops'[t] = ops[t] \o added
  BY <1>1, ConcatEmptySeq, EmptySeq
<1>7. ~Matches(hint, old) /\ Matches(hint, new)
  BY <1>4, <1>5, <1>6, ListsChange
<1> QED
  BY <1>7 DEF old, new
-----------------------------------------------------------------------------
(* Profiling regions                                                       *)

(* What the functions of a region make of it.                              *)
LEMMA MakeRoomFacts ==
    ASSUME NEW r, IsRegion(r)
    PROVE  LET s == MakeRoom(r)
           IN  /\ IsRegion(s) /\ s.nr = r.nr /\ r.size <= s.size
               /\ r.nr <= r.size => r.nr < s.size
               /\ \A k \in 1 .. r.size : s.samples[k] = r.samples[k]
<1> DEFINE States == {"new", "started", "timed"}
           s == MakeRoom(r)
<1>1. /\ r \in [nr : Nat, size : Nat, samples : Seq(States)]
      /\ Len(r.samples) = r.size /\ r.nr \in Nat /\ r.size \in Nat
      /\ \A k \in 1 .. r.size : r.samples[k] \in States
  BY DEF IsRegion
<1>2. CASE Full(r)
  <2> DEFINE alloc == IF r.size > 0 THEN 2 * r.size ELSE MinSamples
             array == [k \in 1 .. alloc |-> IF k <= r.size THEN r.samples[k] ELSE "new"]
  <2>1. alloc \in Nat /\ r.size < alloc
    BY <1>1, MinSamplesAssumption
  <2>2. s = [r EXCEPT !.size = alloc, !.samples = array]
    BY <1>2 DEF MakeRoom, grow_samples_array
  <2> HIDE DEF alloc
  <2>3. array \in Seq(States) /\ Len(array) = alloc
    BY <1>1, <2>1
  <2>4. \A k \in 1 .. r.size : array[k] = r.samples[k]
    BY <1>1, <2>1
  <2> HIDE DEF array, s
  <2>5. IsRegion(s) /\ s.nr = r.nr /\ s.size = alloc /\ s.samples = array
    BY <1>1, <2>1, <2>2, <2>3 DEF IsRegion
  <2> QED
    BY <1>1, <2>1, <2>4, <2>5 DEF s
<1>3. CASE ~Full(r)
  <2>1. s = r
    BY <1>3 DEF MakeRoom
  <2> QED
    BY <1>1, <1>3, <2>1 DEF Full
<1> QED
  BY <1>2, <1>3

LEMMA WriteFacts ==
    ASSUME NEW r, IsRegion(r), NEW k, NEW sample \in {"new", "started", "timed"}
    PROVE  LET s == Write(r, k, sample)
           IN  /\ IsRegion(s) /\ s.nr = r.nr /\ s.size = r.size
               /\ \A j \in 1 .. r.size :
                     s.samples[j] = IF j = k THEN sample ELSE r.samples[j]
<1> DEFINE States == {"new", "started", "timed"}
           array == [j \in 1 .. r.size |-> IF j = k THEN sample ELSE r.samples[j]]
           s == Write(r, k, sample)
<1>1. /\ r \in [nr : Nat, size : Nat, samples : Seq(States)]
      /\ Len(r.samples) = r.size /\ r.size \in Nat
      /\ \A j \in 1 .. r.size : r.samples[j] \in States
  BY DEF IsRegion
<1>2. s = [r EXCEPT !.samples = array]
  BY DEF Write
<1>3. /\ array \in Seq(States) /\ Len(array) = r.size
      /\ \A j \in 1 .. r.size : array[j] = IF j = k THEN sample ELSE r.samples[j]
  BY <1>1
<1> HIDE DEF array, s
<1>4. IsRegion(s) /\ s.nr = r.nr /\ s.size = r.size /\ s.samples = array
  BY <1>1, <1>2, <1>3 DEF IsRegion
<1> QED
  BY <1>3, <1>4 DEF s

LEMMA StartSampleFacts ==
    ASSUME NEW r, IsRegion(r), NEW p \in Nat, NEW n \in Nat
    PROVE  LET s == StartSample(r, p, n)
           IN  /\ IsRegion(s) /\ s.nr = n + 1 /\ s.size = r.size
               /\ \A k \in 1 .. r.size :
                     s.samples[k] = IF k = p + 1 THEN "started" ELSE r.samples[k]
<1> DEFINE counted == [r EXCEPT !.nr = n + 1]
<1>1. /\ IsRegion(counted) /\ counted.nr = n + 1
      /\ counted.size = r.size /\ counted.samples = r.samples
  BY DEF IsRegion
<1>2. StartSample(r, p, n) = Write(counted, p + 1, "started")
  BY DEF StartSample
<1> HIDE DEF counted
<1> QED
  BY <1>1, <1>2, WriteFacts

LEMMA RegionStopFacts ==
    ASSUME NEW r, IsRegion(r)
    PROVE  LET s == vaccel_prof_region_stop(r)
           IN  /\ IsRegion(s) /\ s.nr = r.nr /\ s.size = r.size
               /\ \A k \in 1 .. r.size : s.samples[k] = IF k = r.nr THEN "timed" ELSE r.samples[k]
<1>1. CASE r.nr = 0
  <2>1. vaccel_prof_region_stop(r) = r /\ r.size \in Nat
    BY <1>1 DEF vaccel_prof_region_stop, IsRegion
  <2> QED
    BY <1>1, <2>1
<1>2. CASE r.nr # 0
  <2>1. vaccel_prof_region_stop(r) = Write(r, r.nr, "timed")
    BY <1>2 DEF vaccel_prof_region_stop
  <2> QED
    BY <2>1, WriteFacts
<1> QED
  BY <1>1, <1>2

LEMMA RegionResetFacts ==
    ASSUME NEW r, IsRegion(r)
    PROVE  /\ IsRegion(StaticRegion) /\ StaticRegion.nr = 0 /\ StaticRegion.size = 0
           /\ IsRegion(vaccel_prof_regions_clear(r))
           /\ IsRegion(vaccel_prof_regions_init(r))
           /\ vaccel_prof_regions_init(r).nr = 0
           /\ vaccel_prof_regions_init(r).size \in Nat
<1> DEFINE States == {"new", "started", "timed"}
           empty == [r EXCEPT !.size = 0, !.samples = <<>>]
           array == [k \in 1 .. MinSamples |-> IF k <= 0 THEN empty.samples[k] ELSE "new"]
<1>1. r \in [nr : Nat, size : Nat, samples : Seq(States)]
  BY DEF IsRegion
<1>2. <<>> \in Seq(States) /\ Len(<<>>) = 0
  OBVIOUS
<1>3. array \in Seq(States) /\ Len(array) = MinSamples /\ MinSamples \in Nat
  <2>1. MinSamples \in Nat /\ \A k \in 1 .. MinSamples : ~(k <= 0)
    BY MinSamplesAssumption
  <2>2. array = [k \in 1 .. MinSamples |-> "new"]
    BY <2>1
  <2> HIDE DEF array
  <2> QED
    BY <2>1, <2>2
<1> HIDE DEF States
<1>4. /\ empty \in [nr : Nat, size : Nat, samples : Seq(States)]
      /\ empty.size = 0 /\ empty.samples = <<>>
  BY <1>1, <1>2
<1> DEFINE zero == [empty EXCEPT !.nr = 0]
<1> HIDE DEF array, empty
<1>5. /\ zero \in [nr : Nat, size : Nat, samples : Seq(States)]
      /\ zero.nr = 0 /\ zero.size = 0 /\ zero.samples = empty.samples
  BY <1>4
<1> DEFINE full == [zero EXCEPT !.size = MinSamples, !.samples = array]
<1> HIDE DEF zero
<1>6. /\ full \in [nr : Nat, size : Nat, samples : Seq(States)]
      /\ full.nr = 0 /\ full.size = MinSamples /\ full.samples = array
  BY <1>3, <1>5
<1>7. vaccel_prof_regions_init(r) = full
  <2>1. vaccel_prof_regions_init(r) = grow_samples_array(zero)
    BY DEF vaccel_prof_regions_init, vaccel_prof_region_init, zero, empty
  <2>2. grow_samples_array(zero) = full
    BY <1>5 DEF grow_samples_array, array
  <2> QED
    BY <2>1, <2>2
<1>8. vaccel_prof_regions_clear(r) = empty
  BY DEF vaccel_prof_regions_clear, empty
<1> HIDE DEF full
<1>9. IsRegion(vaccel_prof_regions_clear(r))
  BY <1>2, <1>4, <1>8 DEF IsRegion, States
<1>10. IsRegion(vaccel_prof_regions_init(r))
  BY <1>3, <1>6, <1>7 DEF IsRegion, States
<1>11. IsRegion(StaticRegion) /\ StaticRegion.nr = 0 /\ StaticRegion.size = 0
  BY <1>2 DEF IsRegion, StaticRegion, States
<1> QED
  BY <1>3, <1>6, <1>7, <1>9, <1>10, <1>11
-----------------------------------------------------------------------------
(* Operations                                                              *)

(* A region can be used: those of the library always, that of the          *)
(* application while it is initialised.                                    *)
Up(r) == r = AppRegion => appUp

(* The parts of what holds of a region without overlap: one thread is in   *)
(* it at most, the sample it is about to count is the next one and in the  *)
(* array, and only the last sample can lack its time, while the thread     *)
(* that has started it is in the region.                                   *)
OneInside(r) == \A t, u \in Inside(r) : t = u

ReadyToCount(r) ==
    \A t \in Inside(r) : pc[t] = "start" =>
        position[t] = region[r].nr /\ region[r].nr < region[r].size

InBounds(r) == Up(r) => region[r].nr <= region[r].size

Timed(r) ==
    Up(r) => \A k \in 1 .. region[r].nr :
        \/ region[r].samples[k] = "timed"
        \/ k = region[r].nr /\ \E t \in Inside(r) : pc[t] # "start"

RegionOK(r) ==
    /\ IsRegion(region[r])
    /\ r \notin overlapped => OneInside(r) /\ ReadyToCount(r) /\ InBounds(r) /\ Timed(r)

RegionsInv ==
    /\ DOMAIN region = Regions
    /\ appUp \in BOOLEAN
    /\ overlapped \subseteq Regions \cap Overlapping
    /\ \A r \in Regions : RegionOK(r)

ThreadsInv ==
    /\ pc \in [Threads -> {"idle", "start", "lookup", "call", "stop", "timing"}]
    /\ optype \in [Threads -> OpTypes \cup {NULL}]
    /\ op \in [Threads -> Ops \cup {NULL}]
    /\ position \in [Threads -> Nat]
    /\ \A t \in Threads :
          /\ pc[t] = "idle" => optype[t] = NULL
          /\ pc[t] \in {"lookup", "call", "stop"} => optype[t] # NULL
          /\ pc[t] = "timing" => optype[t] = NULL /\ appUp
          /\ pc[t] = "start" => IF optype[t] = NULL THEN appUp ELSE RegionOf[optype[t]] # NULL

(* What one region keeps when a step does not change it, and nobody comes  *)
(* into it, leaves it or takes a sample.                                   *)
LEMMA RegionStays ==
    ASSUME NEW r, RegionOK(r), region'[r] = region[r],
           Up(r)' => Up(r), overlapped \subseteq overlapped',
           Inside(r)' = Inside(r),
           \A t \in Inside(r) : /\ pc'[t] = "start" <=> pc[t] = "start"
                                /\ position'[t] = position[t]
    PROVE  RegionOK(r)'
<1>1. IsRegion(region[r])'
  BY DEF RegionOK
<1>2. ASSUME r \notin overlapped'
      PROVE  (OneInside(r) /\ ReadyToCount(r) /\ InBounds(r) /\ Timed(r))'
  <2>1. OneInside(r) /\ ReadyToCount(r) /\ InBounds(r) /\ Timed(r)
    BY <1>2 DEF RegionOK
  <2>2. OneInside(r)'
    BY <2>1 DEF OneInside
  <2>3. ReadyToCount(r)'
    BY <2>1 DEF ReadyToCount
  <2>4. InBounds(r)'
    BY <2>1 DEF InBounds
  <2>5. Timed(r)'
    BY <2>1 DEF Timed
  <2> QED
    BY <2>2, <2>3, <2>4, <2>5
<1> QED
  BY <1>1, <1>2 DEF RegionOK

(* When only thread t moves, and it is in no region but r.                 *)
LEMMA OtherRegionsStay ==
    ASSUME RegionsInv, NEW t \in Threads, NEW r,
           \A u \in Threads \ {t} :
               pc'[u] = pc[u] /\ optype'[u] = optype[u] /\ position'[u] = position[u],
           \A q \in Regions \ {r} : t \notin Inside(q) /\ t \notin Inside(q)',
           r \in Regions => RegionOK(r)',
           DOMAIN region' = Regions,
           \A q \in Regions \ {r} : region'[q] = region[q],
           overlapped \subseteq overlapped', overlapped' \subseteq Regions \cap Overlapping,
           UNCHANGED appUp
    PROVE  RegionsInv'
<1>1. ASSUME NEW q \in Regions \ {r}
      PROVE  RegionOK(q)'
  <2>1. t \notin Inside(q) /\ t \notin Inside(q)'
    OBVIOUS
  <2>2. Inside(q)' = Inside(q)
    BY <2>1 DEF Inside, RegionIn
  <2>3. \A u \in Inside(q) : pc'[u] = pc[u] /\ position'[u] = position[u]
    BY <2>1 DEF Inside
  <2>4. RegionOK(q) /\ region'[q] = region[q] /\ (Up(q)' => Up(q))
    BY DEF RegionsInv, Up
  <2> QED
    BY <2>2, <2>3, <2>4, RegionStays
<1> QED
  BY <1>1 DEF RegionsInv

(* When nobody moves into a region, out of it or past a sample.            *)
LEMMA RegionsStay ==
    ASSUME RegionsInv, UNCHANGED <<region, appUp, overlapped, position>>,
           \A r : Inside(r)' = Inside(r),
           \A t \in Threads : pc'[t] = "start" <=> pc[t] = "start"
    PROVE  RegionsInv'
<1>1. ASSUME NEW r \in Regions
      PROVE  RegionOK(r)'
  <2>1. RegionOK(r) /\ region'[r] = region[r] /\ (Up(r)' => Up(r)) /\ Inside(r)' = Inside(r)
    BY DEF RegionsInv, Up
  <2>2. \A t \in Inside(r) : /\ pc'[t] = "start" <=> pc[t] = "start"
                             /\ position'[t] = position[t]
    BY DEF Inside
  <2> QED
    BY <2>1, <2>2, RegionStays
<1> QED
  BY <1>1 DEF RegionsInv

(* A thread comes into a region: it overlaps with those that are there, or *)
(* it is alone, and then the array has room for its sample, or none is     *)
(* taken.                                                                  *)
LEMMA RegionEntered ==
    ASSUME RegionsInv, ThreadsInv, NEW r \in Regions, Up(r), NEW t \in Threads,
           NEW next \in {"lookup", "timing"},
           EnterRegion(r), Inside(r)' = Inside(r) \cup {t},
           StartRegion(t, r, next) \/ GoOn(t, next)
    PROVE  /\ RegionOK(r)'
           /\ DOMAIN region' = Regions
           /\ \A q \in Regions \ {r} : region'[q] = region[q]
           /\ overlapped \subseteq overlapped' /\ overlapped' \subseteq Regions \cap Overlapping
<1>1. /\ RegionOK(r) /\ DOMAIN region = Regions
      /\ pc \in [Threads -> {"idle", "start", "lookup", "call", "stop", "timing"}]
      /\ position \in [Threads -> Nat]
  BY DEF RegionsInv, ThreadsInv
<1>2. PICK old : old = region[r]
  OBVIOUS
<1>3. /\ overlapped \subseteq overlapped' /\ overlapped' \subseteq Regions \cap Overlapping
      /\ r \notin overlapped' => r \notin overlapped /\ Inside(r) = {}
  BY DEF EnterRegion, RegionsInv
<1>4. /\ IsRegion(old) /\ old.nr \in Nat /\ old.size \in Nat
      /\ r \notin overlapped' => /\ Inside(r)' = {t} /\ old.nr <= old.size
                                 /\ \A k \in 1 .. old.nr : old.samples[k] = "timed"
  BY <1>1, <1>2, <1>3 DEF RegionOK, InBounds, Timed, IsRegion
<1>5. CASE GoOn(t, next)
  <2>1. region' = region /\ pc'[t] # "start"
    BY <1>1, <1>5 DEF GoOn
  <2>2. ASSUME r \notin overlapped'
        PROVE  (OneInside(r) /\ ReadyToCount(r) /\ InBounds(r) /\ Timed(r))'
    BY <1>2, <1>4, <2>1, <2>2 DEF OneInside, ReadyToCount, InBounds, Timed
  <2> QED
    BY <1>1, <1>2, <1>3, <1>4, <2>1, <2>2 DEF RegionOK
<1>6. CASE /\ pc' = [pc EXCEPT ![t] = "start"]
           /\ position' = [position EXCEPT ![t] = region[r].nr]
           /\ region' = [region EXCEPT ![r] = MakeRoom(region[r])]
  <2>1. PICK new : new = MakeRoom(old)
    OBVIOUS
  <2>2. /\ region'[r] = new /\ position'[t] = old.nr
        /\ DOMAIN region' = Regions
        /\ \A q \in Regions \ {r} : region'[q] = region[q]
    BY <1>1, <1>2, <1>6, <2>1
  <2>3. /\ IsRegion(new) /\ new.nr = old.nr /\ old.size <= new.size /\ new.size \in Nat
        /\ old.nr <= old.size => old.nr < new.size
        /\ \A k \in 1 .. old.size : new.samples[k] = old.samples[k]
    BY <1>4, <2>1, MakeRoomFacts DEF IsRegion
  <2>4. ASSUME r \notin overlapped'
        PROVE  (OneInside(r) /\ ReadyToCount(r) /\ InBounds(r) /\ Timed(r))'
    <3>1. Inside(r)' = {t} /\ old.nr < new.size
      BY <1>4, <2>3, <2>4
    <3>2. \A k \in 1 .. new.nr : new.samples[k] = "timed"
      BY <1>4, <2>3, <2>4
    <3>3. OneInside(r)'
      BY <3>1 DEF OneInside
    <3>4. ReadyToCount(r)'
      BY <2>2, <2>3, <3>1 DEF ReadyToCount
    <3>5. InBounds(r)'
      BY <1>4, <2>2, <2>3, <3>1 DEF InBounds
    <3>6. Timed(r)'
      BY <2>2, <3>2 DEF Timed
    <3> QED
      BY <3>3, <3>4, <3>5, <3>6
  <2> QED
    BY <1>3, <2>2, <2>3, <2>4 DEF RegionOK
<1> QED
  BY <1>5, <1>6 DEF StartRegion

(* A thread leaves a region: its sample, the last one, has its time.       *)
LEMMA RegionLeft ==
    ASSUME RegionsInv, NEW r \in Regions, Up(r), NEW t \in Threads,
           t \in Inside(r), pc[t] # "start", Inside(r)' = Inside(r) \ {t},
           region' = [region EXCEPT ![r] = vaccel_prof_region_stop(region[r])],
           UNCHANGED overlapped
    PROVE  /\ RegionOK(r)'
           /\ DOMAIN region' = Regions
           /\ \A q \in Regions \ {r} : region'[q] = region[q]
<1>1. RegionOK(r) /\ DOMAIN region = Regions
  BY DEF RegionsInv
<1>2. PICK old : old = region[r]
  OBVIOUS
<1>3. PICK new : new = vaccel_prof_region_stop(old)
  OBVIOUS
<1>4. /\ region'[r] = new /\ DOMAIN region' = Regions
      /\ \A q \in Regions \ {r} : region'[q] = region[q]
  BY <1>1, <1>2, <1>3
<1>5. IsRegion(old) /\ old.nr \in Nat /\ old.size \in Nat
  BY <1>1, <1>2 DEF RegionOK, IsRegion
<1>6. /\ IsRegion(new) /\ new.nr = old.nr /\ new.size = old.size
      /\ \A k \in 1 .. old.size : new.samples[k] = IF k = old.nr THEN "timed" ELSE old.samples[k]
  BY <1>3, <1>5, RegionStopFacts
<1>7. ASSUME r \notin overlapped'
      PROVE  (OneInside(r) /\ ReadyToCount(r) /\ InBounds(r) /\ Timed(r))'
  <2>1. OneInside(r) /\ InBounds(r) /\ Timed(r)
    BY <1>1, <1>7 DEF RegionOK
  <2>2. Inside(r)' = {}
    BY <2>1 DEF OneInside
  <2>3. old.nr <= old.size
    BY <1>2, <2>1 DEF InBounds
  <2>4. \A k \in 1 .. old.nr : old.samples[k] = "timed" \/ k = old.nr
    BY <1>2, <2>1 DEF Timed
  <2>5. \A k \in 1 .. new.nr : new.samples[k] = "timed"
    BY <1>5, <1>6, <2>3, <2>4
  <2>6. OneInside(r)' /\ ReadyToCount(r)'
    BY <2>2 DEF OneInside, ReadyToCount
  <2>7. InBounds(r)' /\ Timed(r)'
    BY <1>4, <1>6, <2>3, <2>5 DEF InBounds, Timed
  <2> QED
    BY <2>6, <2>7
<1> QED
  BY <1>4, <1>6, <1>7 DEF RegionOK

LEMMA RegionOfType ==
    ASSUME NEW ty \in OpTypes, RegionOf[ty] # NULL
    PROVE  RegionOf[ty] \in Regions /\ Up(RegionOf[ty])
<1>1. RegionOf[ty] \in {RegionOf[t] : t \in OpTypes}
  OBVIOUS
<1>2. RegionOf[ty] # AppRegion
  BY OperationsAssumption
<1> QED
  BY <1>1, <1>2 DEF Regions, Up

LEMMA AppRegionIsOne == AppRegion \in Regions
BY OperationsAssumption DEF Regions

LEMMA CallKeeps ==
    ASSUME RegionsInv, ThreadsInv, NEW t \in Threads, NEW ty \in OpTypes, Call(t, ty)
    PROVE  RegionsInv' /\ ThreadsInv'
<1>1. Enter(t, ty)
  BY DEF Call, ProfiledOp, StopOnlyOp, PlainOp
<1>2. ty # NULL
  BY OperationsAssumption
<1>3. /\ optype' = [optype EXCEPT ![t] = ty] /\ optype'[t] = ty
      /\ UNCHANGED <<op, appUp>> /\ pc[t] = "idle"
  BY <1>1 DEF Enter, ThreadsInv
<1>4. PICK r : r = RegionOf[ty]
  OBVIOUS
<1>5. /\ GoOn(t, "lookup") \/ (StartRegion(t, r, "lookup") /\ r # NULL)
      /\ IF r = NULL THEN GoOn(t, "lookup") /\ UNCHANGED overlapped ELSE EnterRegion(r)
  BY <1>4, OperationsAssumption DEF Call, ProfiledOp, StopOnlyOp, PlainOp
<1>6. r # NULL => r \in Regions /\ Up(r) /\ region[r].nr \in Nat
  BY <1>4, RegionOfType DEF RegionsInv, RegionOK, IsRegion
<1>7. /\ pc' = [pc EXCEPT ![t] = "lookup"] \/ (pc' = [pc EXCEPT ![t] = "start"] /\ r # NULL)
      /\ \/ position' = position
         \/ position' = [position EXCEPT ![t] = region[r].nr] /\ r # NULL
  BY <1>5 DEF GoOn, StartRegion
<1>8. ThreadsInv'
  BY <1>2, <1>3, <1>4, <1>6, <1>7 DEF ThreadsInv
<1>9. /\ \A u \in Threads \ {t} :
             pc'[u] = pc[u] /\ optype'[u] = optype[u] /\ position'[u] = position[u]
      /\ pc'[t] # "idle"
  BY <1>3, <1>7 DEF ThreadsInv
<1>10. \A q : t \notin Inside(q) /\ (t \in Inside(q)' <=> q = r)
  BY <1>2, <1>3, <1>4, <1>9 DEF Inside, RegionIn
<1>11. CASE r = NULL
  <2>1. UNCHANGED <<region, overlapped>> /\ r \notin Regions
    BY <1>5, <1>11 DEF GoOn, Regions
  <2>2. RegionsInv'
    BY <1>3, <1>9, <1>10, <2>1, OtherRegionsStay DEF RegionsInv
  <2> QED
    BY <1>8, <2>2
<1>12. CASE r # NULL
  <2>1. Inside(r)' = Inside(r) \cup {t}
    BY <1>9, <1>10 DEF Inside, RegionIn
  <2>2. /\ RegionOK(r)'
        /\ DOMAIN region' = Regions
        /\ \A q \in Regions \ {r} : region'[q] = region[q]
        /\ overlapped \subseteq overlapped' /\ overlapped' \subseteq Regions \cap Overlapping
    BY <1>5, <1>6, <1>12, <2>1, RegionEntered
  <2>3. RegionsInv'
    BY <1>3, <1>9, <1>10, <2>2, OtherRegionsStay
  <2> QED
    BY <1>8, <2>3
<1> QED
  BY <1>11, <1>12

(* The sample is counted: without overlap, it is the one that was found.   *)
LEMMA TakeSampleKeeps ==
    ASSUME RegionsInv, ThreadsInv, NEW t \in Threads, TakeSample(t)
    PROVE  RegionsInv' /\ ThreadsInv'
<1>1. /\ pc[t] = "start" /\ position[t] \in Nat
      /\ pc' = [pc EXCEPT ![t] = IF optype[t] = NULL THEN "timing" ELSE "lookup"]
      /\ position' = [position EXCEPT ![t] = 0]
      /\ UNCHANGED <<optype, op, overlapped, appUp>>
  BY DEF TakeSample, ThreadsInv
<1>2. ThreadsInv'
  BY <1>1 DEF ThreadsInv
<1>3. /\ \A u \in Threads \ {t} : pc'[u] = pc[u] /\ position'[u] = position[u]
      /\ pc'[t] \notin {"idle", "start"}
  BY <1>1 DEF ThreadsInv
<1>4. PICK r : r = RegionIn(t)
  OBVIOUS
<1>5. r \in Regions /\ Up(r)
  <2>1. CASE optype[t] = NULL
    BY <1>1, <1>4, <2>1, AppRegionIsOne DEF RegionIn, ThreadsInv, Up
  <2>2. CASE optype[t] # NULL
    BY <1>1, <1>4, <2>2, RegionOfType DEF RegionIn, ThreadsInv
  <2> QED
    BY <2>1, <2>2
<1>6. \A q : t \in Inside(q) <=> q = r
  BY <1>1, <1>4 DEF Inside
<1>7. \A q : Inside(q)' = Inside(q)
  BY <1>1, <1>3 DEF Inside, RegionIn
<1>8. PICK old : old = region[r]
  OBVIOUS
<1>9. IsRegion(old) /\ old.nr \in Nat /\ old.size \in Nat /\ RegionOK(r)
  BY <1>5, <1>8 DEF RegionsInv, RegionOK, IsRegion
<1>10. PICK n \in {position[t], old.nr} :
          region' = [region EXCEPT ![r] = StartSample(old, position[t], n)]
  BY <1>4, <1>8 DEF TakeSample
<1>11. PICK new : new = StartSample(old, position[t], n)
  OBVIOUS
<1>12. /\ region'[r] = new /\ DOMAIN region' = Regions
       /\ \A q \in Regions \ {r} : region'[q] = region[q]
  BY <1>5, <1>10, <1>11 DEF RegionsInv
<1>13. /\ IsRegion(new) /\ new.nr = n + 1 /\ new.size = old.size
       /\ \A k \in 1 .. old.size :
             new.samples[k] = IF k = position[t] + 1 THEN "started" ELSE old.samples[k]
  <2>1. position[t] \in Nat /\ n \in Nat /\ IsRegion(old)
    BY <1>1, <1>9
  <2>2. PICK p : p = position[t]
    OBVIOUS
  <2> QED
    BY <1>11, <2>1, <2>2, StartSampleFacts
<1>14. ASSUME r \notin overlapped'
       PROVE  (OneInside(r) /\ ReadyToCount(r) /\ InBounds(r) /\ Timed(r))'
  <2>1. OneInside(r) /\ ReadyToCount(r) /\ InBounds(r) /\ Timed(r)
    BY <1>1, <1>9, <1>14 DEF RegionOK
  <2>2. Inside(r) = {t}
    BY <1>6, <2>1 DEF OneInside
  <2>3. position[t] = old.nr /\ n = old.nr /\ old.nr < old.size
    BY <1>1, <1>8, <1>10, <2>1, <2>2 DEF ReadyToCount
  <2>4. \A k \in 1 .. old.nr : old.samples[k] = "timed"
    BY <1>1, <1>5, <1>8, <2>1, <2>2 DEF Timed
  <2>5. \A k \in 1 .. new.nr : new.samples[k] = "timed" \/ k = new.nr
    BY <1>9, <1>13, <2>3, <2>4
  <2>6. OneInside(r)' /\ ReadyToCount(r)'
    BY <1>3, <1>7, <2>2 DEF OneInside, ReadyToCount
  <2>7. InBounds(r)'
    BY <1>9, <1>12, <1>13, <2>3 DEF InBounds
  <2>8. Timed(r)'
    BY <1>3, <1>7, <1>12, <2>2, <2>5 DEF Timed
  <2> QED
    BY <2>6, <2>7, <2>8
<1>15. RegionOK(r)'
  BY <1>12, <1>13, <1>14 DEF RegionOK
<1>16. RegionsInv'
  BY <1>1, <1>3, <1>6, <1>7, <1>12, <1>15, OtherRegionsStay DEF RegionsInv
<1> QED
  BY <1>2, <1>16

LEMMA LookupKeeps ==
    ASSUME OpsInv, RegionsInv, ThreadsInv, NEW t \in Threads, Lookup(t)
    PROVE  RegionsInv' /\ ThreadsInv'
<1>1. /\ pc[t] = "lookup" /\ optype[t] \in OpTypes
      /\ UNCHANGED <<optype, position, region, overlapped, appUp>>
  BY DEF Lookup, Unsupported, ThreadsInv
<1>2. PICK hint \in Hints :
        LET found == get_plugin_op(optype[t], hint)
        IN  IF found = NULL
            THEN pc' = [pc EXCEPT ![t] = "stop"] /\ UNCHANGED op
            ELSE pc' = [pc EXCEPT ![t] = "call"] /\ op' = [op EXCEPT ![t] = found]
  BY DEF Lookup, Unsupported
<1>3. get_plugin_op(optype[t], hint) \in Ops \cup {NULL}
  BY <1>1, LookupIsRight DEF LookupRight, OpsInv
<1>4. PICK found \in Ops \cup {NULL} : found = get_plugin_op(optype[t], hint)
  BY <1>3
<1>5. /\ pc' = [pc EXCEPT ![t] = "stop"] \/ pc' = [pc EXCEPT ![t] = "call"]
      /\ op' = op \/ op' = [op EXCEPT ![t] = found]
  BY <1>2, <1>4
<1>6. ThreadsInv'
  BY <1>1, <1>5 DEF ThreadsInv
<1>7. \A u \in Threads : /\ pc'[u] = "idle" <=> pc[u] = "idle"
                         /\ pc'[u] = "start" <=> pc[u] = "start"
  BY <1>1, <1>5 DEF ThreadsInv
<1>8. \A r : Inside(r)' = Inside(r)
  BY <1>1, <1>7 DEF Inside, RegionIn
<1> QED
  BY <1>1, <1>6, <1>7, <1>8, RegionsStay

LEMMA ReturnKeeps ==
    ASSUME RegionsInv, ThreadsInv, NEW t \in Threads, Return(t)
    PROVE  RegionsInv' /\ ThreadsInv'
<1>1. ThreadsInv'
  BY DEF Return, ThreadsInv
<1>2. \A u \in Threads : /\ pc'[u] = "idle" <=> pc[u] = "idle"
                         /\ pc'[u] = "start" <=> pc[u] = "start"
  BY DEF Return, ThreadsInv
<1>3. \A r : Inside(r)' = Inside(r)
  BY <1>2 DEF Return, Inside, RegionIn
<1> QED
  BY <1>1, <1>2, <1>3, RegionsStay DEF Return

LEMMA StopKeeps ==
    ASSUME RegionsInv, ThreadsInv, NEW t \in Threads, Stop(t)
    PROVE  RegionsInv' /\ ThreadsInv'
<1>1. /\ pc[t] = "stop" /\ optype[t] \in OpTypes /\ optype[t] # NULL
      /\ pc' = [pc EXCEPT ![t] = "idle"] /\ optype' = [optype EXCEPT ![t] = NULL]
      /\ UNCHANGED <<op, position, overlapped, appUp>>
  BY DEF Stop, ThreadsInv
<1>2. ThreadsInv'
  BY <1>1 DEF ThreadsInv
<1>3. PICK r : r = RegionOf[optype[t]]
  OBVIOUS
<1>4. \A u \in Threads \ {t} : pc'[u] = pc[u] /\ optype'[u] = optype[u]
  BY <1>1 DEF ThreadsInv
<1>5. \A q : t \notin Inside(q)' /\ (t \in Inside(q) <=> q = r)
  BY <1>1, <1>2, <1>3 DEF Inside, RegionIn, ThreadsInv
<1>6. CASE r = NULL
  <2>1. UNCHANGED region /\ r \notin Regions
    BY <1>3, <1>6 DEF Stop, Regions
  <2>2. RegionsInv'
    BY <1>1, <1>4, <1>5, <2>1, OtherRegionsStay DEF RegionsInv
  <2> QED
    BY <1>2, <2>2
<1>7. CASE r # NULL
  <2>1. r \in Regions /\ Up(r)
    BY <1>1, <1>3, <1>7, RegionOfType
  <2>2. region' = [region EXCEPT ![r] = vaccel_prof_region_stop(region[r])]
    BY <1>3, <1>7 DEF Stop
  <2>3. Inside(r)' = Inside(r) \ {t}
    BY <1>4, <1>5 DEF Inside, RegionIn
  <2>4. /\ RegionOK(r)'
        /\ DOMAIN region' = Regions
        /\ \A q \in Regions \ {r} : region'[q] = region[q]
    BY <1>1, <1>5, <2>1, <2>2, <2>3, RegionLeft
  <2>5. RegionsInv'
    BY <1>1, <1>4, <1>5, <2>4, OtherRegionsStay DEF RegionsInv
  <2> QED
    BY <1>2, <2>5
<1> QED
  BY <1>6, <1>7

(* The region of the application: no operation is in it.                   *)
LEMMA NobodyInAppRegion ==
    ASSUME ThreadsInv
    PROVE  Inside(AppRegion) = {t \in Threads : pc[t] # "idle" /\ optype[t] = NULL}
<1>1. \A t \in Threads : optype[t] # NULL => RegionOf[optype[t]] # AppRegion
  BY OperationsAssumption DEF ThreadsInv
<1> QED
  BY <1>1 DEF Inside, RegionIn

LEMMA AppStartKeeps ==
    ASSUME RegionsInv, ThreadsInv, NEW t \in Threads, AppStart(t)
    PROVE  RegionsInv' /\ ThreadsInv'
<1>1. /\ pc[t] = "idle" /\ optype[t] = NULL /\ appUp
      /\ UNCHANGED <<optype, op, appUp>>
      /\ StartRegion(t, AppRegion, "timing") /\ EnterRegion(AppRegion)
  BY DEF AppStart, ThreadsInv
<1>2. /\ pc' = [pc EXCEPT ![t] = "timing"] \/ pc' = [pc EXCEPT ![t] = "start"]
      /\ position' = position \/ position' = [position EXCEPT ![t] = region[AppRegion].nr]
  BY <1>1 DEF GoOn, StartRegion
<1>3. region[AppRegion].nr \in Nat /\ Up(AppRegion)
  BY <1>1, AppRegionIsOne DEF RegionsInv, RegionOK, IsRegion, Up
<1>4. ThreadsInv'
  BY <1>1, <1>2, <1>3 DEF ThreadsInv
<1>5. /\ \A u \in Threads \ {t} :
             pc'[u] = pc[u] /\ optype'[u] = optype[u] /\ position'[u] = position[u]
      /\ pc'[t] # "idle"
  BY <1>1, <1>2 DEF ThreadsInv
<1>6. \A q : t \notin Inside(q) /\ (t \in Inside(q)' <=> q = AppRegion)
  BY <1>1, <1>5 DEF Inside, RegionIn
<1>7. Inside(AppRegion)' = Inside(AppRegion) \cup {t}
  BY <1>5, <1>6 DEF Inside, RegionIn
<1>8. /\ RegionOK(AppRegion)'
      /\ DOMAIN region' = Regions
      /\ \A q \in Regions \ {AppRegion} : region'[q] = region[q]
      /\ overlapped \subseteq overlapped' /\ overlapped' \subseteq Regions \cap Overlapping
  BY <1>1, <1>3, <1>7, AppRegionIsOne, RegionEntered
<1>9. RegionsInv'
  BY <1>1, <1>5, <1>6, <1>8, OtherRegionsStay
<1> QED
  BY <1>4, <1>9

LEMMA AppStopKeeps ==
    ASSUME RegionsInv, ThreadsInv, NEW t \in Threads, AppStop(t)
    PROVE  RegionsInv' /\ ThreadsInv'
<1>1. /\ pc[t] = "timing" /\ optype[t] = NULL /\ appUp
      /\ pc' = [pc EXCEPT ![t] = "idle"]
      /\ region' = [region EXCEPT ![AppRegion] = vaccel_prof_region_stop(region[AppRegion])]
      /\ UNCHANGED <<optype, op, position, overlapped, appUp>>
  BY DEF AppStop, ThreadsInv
<1>2. ThreadsInv'
  BY <1>1 DEF ThreadsInv
<1>3. \A u \in Threads \ {t} : pc'[u] = pc[u]
  BY <1>1 DEF ThreadsInv
<1>4. \A q : t \notin Inside(q)' /\ (t \in Inside(q) <=> q = AppRegion)
  BY <1>1, <1>2 DEF Inside, RegionIn, ThreadsInv
<1>5. Inside(AppRegion)' = Inside(AppRegion) \ {t}
  BY <1>1, <1>3, <1>4 DEF Inside, RegionIn
<1>6. /\ RegionOK(AppRegion)'
      /\ DOMAIN region' = Regions
      /\ \A q \in Regions \ {AppRegion} : region'[q] = region[q]
  BY <1>1, <1>4, <1>5, AppRegionIsOne, RegionLeft DEF Up
<1>7. RegionsInv'
  BY <1>1, <1>3, <1>4, <1>6, OtherRegionsStay DEF RegionsInv
<1> QED
  BY <1>2, <1>7

(* Its region is initialised, cleared or destroyed while nobody is in it.  *)
LEMMA AppSetsKeep ==
    ASSUME RegionsInv, ThreadsInv, AppInit \/ AppClear \/ AppDestroy
    PROVE  RegionsInv' /\ ThreadsInv'
<1>1. UNCHANGED <<pc, optype, op, position, overlapped>> /\ appUp' \in BOOLEAN
  BY DEF AppInit, AppClear, AppDestroy
<1>2. Inside(AppRegion) = {}
  BY NobodyInAppRegion DEF AppInit, AppClear, AppDestroy, ThreadsInv
<1>3. \A t \in Threads : pc[t] # "idle" => optype[t] # NULL
  BY <1>2, NobodyInAppRegion
<1>4. ThreadsInv'
  BY <1>1, <1>3 DEF ThreadsInv
<1>5. PICK old : old = region[AppRegion]
  OBVIOUS
<1>6. IsRegion(old)
  BY <1>5, AppRegionIsOne DEF RegionsInv, RegionOK
<1>7. \E new : /\ region' = [region EXCEPT ![AppRegion] = new]
               /\ IsRegion(new)
               /\ appUp' => new.nr = 0 /\ new.size \in Nat
  <2>1. CASE AppInit
    <3>1. region' = [region EXCEPT ![AppRegion] = vaccel_prof_regions_init(old)]
      BY <1>5, <2>1 DEF AppInit
    <3> QED
      BY <1>6, <3>1, RegionResetFacts
  <2>2. CASE AppClear
    <3>1. region' = [region EXCEPT ![AppRegion] = vaccel_prof_regions_clear(old)] /\ ~appUp'
      BY <1>5, <2>2 DEF AppClear
    <3> QED
      BY <1>6, <3>1, RegionResetFacts
  <2>3. CASE AppDestroy
    <3>1. region' = [region EXCEPT ![AppRegion] = StaticRegion] /\ ~appUp'
      BY <2>3 DEF AppDestroy, vaccel_prof_region_destroy
    <3> QED
      BY <1>6, <3>1, RegionResetFacts
  <2> QED
    BY <2>1, <2>2, <2>3
<1>8. PICK new : /\ region' = [region EXCEPT ![AppRegion] = new]
                 /\ IsRegion(new)
                 /\ appUp' => new.nr = 0 /\ new.size \in Nat
  BY <1>7
<1>9. /\ region'[AppRegion] = new /\ DOMAIN region' = Regions
      /\ \A r \in Regions \ {AppRegion} : region'[r] = region[r]
  BY <1>8, AppRegionIsOne DEF RegionsInv
<1>10. \A r : Inside(r)' = Inside(r)
  BY <1>1 DEF Inside, RegionIn
<1>11. RegionOK(AppRegion)'
  <2>1. Inside(AppRegion)' = {}
    BY <1>2, <1>10
  <2>2. OneInside(AppRegion)' /\ ReadyToCount(AppRegion)'
    BY <2>1 DEF OneInside, ReadyToCount
  <2>3. appUp' => new.nr <= new.size /\ 1 .. new.nr = {}
    BY <1>8
  <2>4. InBounds(AppRegion)' /\ Timed(AppRegion)'
    BY <1>9, <2>3 DEF InBounds, Timed, Up
  <2> QED
    BY <1>8, <1>9, <2>2, <2>4 DEF RegionOK
<1>12. ASSUME NEW r \in Regions \ {AppRegion}
       PROVE  RegionOK(r)'
  <2>1. RegionOK(r) /\ region'[r] = region[r] /\ (Up(r)' => Up(r))
    BY <1>9 DEF RegionsInv, Up
  <2> QED
    BY <1>1, <1>10, <2>1, RegionStays
<1>13. RegionsInv'
  BY <1>1, <1>9, <1>11, <1>12 DEF RegionsInv
<1> QED
  BY <1>4, <1>13

-----------------------------------------------------------------------------
(* The specification                                                       *)

OpInv == OpsInv /\ PluginsInv /\ RegionsInv /\ ThreadsInv

LEMMA OpInitKeeps == OpInit => OpInv
<1> SUFFICES ASSUME OpInit
             PROVE  OpInv
  OBVIOUS
<1>1. OpsInv /\ PluginsInv
  BY PluginsInit DEF OpInit
<1>2. ThreadsInv
  BY DEF OpInit, ThreadsInv
<1>3. /\ DOMAIN region = Regions /\ appUp = FALSE /\ overlapped = {}
      /\ \A r \in Regions : region[r] = StaticRegion
  BY DEF OpInit
<1>4. IsRegion(StaticRegion) /\ StaticRegion.nr = 0 /\ StaticRegion.size = 0
  <2>1. StaticRegion.nr = 0 /\ StaticRegion.size = 0 /\ StaticRegion.samples = <<>>
    BY DEF StaticRegion
  <2>2. StaticRegion \in [nr : Nat, size : Nat, samples : Seq({"new", "started", "timed"})]
    BY DEF StaticRegion
  <2> QED
    BY <2>1, <2>2 DEF IsRegion
<1>5. ASSUME NEW r \in Regions
      PROVE  RegionOK(r)
  <2>1. region[r].nr = 0 /\ region[r].size = 0 /\ 1 .. 0 = {} /\ 0 <= 0
    BY <1>3, <1>4
  <2>2. Inside(r) = {}
    BY DEF OpInit, Inside
  <2> QED
    BY <1>3, <1>4, <2>1, <2>2 DEF RegionOK, OneInside, ReadyToCount, InBounds, Timed
<1>6. RegionsInv
  BY <1>3, <1>5 DEF RegionsInv
<1> QED
  BY <1>1, <1>2, <1>6 DEF OpInv

(* An operation does not touch the plugins.                                *)
LEMMA OnlyPluginSteps ==
    ASSUME OpNext \/ UNCHANGED <<vars, opVars>>
    PROVE  \/ Next /\ UNCHANGED opVars
           \/ UNCHANGED vars
<1>1. ASSUME NEW t \in Threads, NEW ty, Call(t, ty)
      PROVE  UNCHANGED vars
  BY <1>1 DEF Call, ProfiledOp, StopOnlyOp, PlainOp, Enter
<1>2. ASSUME NEW t \in Threads,
             \/ TakeSample(t) \/ Lookup(t) \/ Return(t) \/ Stop(t)
             \/ AppStart(t) \/ AppStop(t)
      PROVE  UNCHANGED vars
  BY <1>2 DEF TakeSample, Lookup, Return, Stop, AppStart, AppStop
<1>3. AppInit \/ AppClear \/ AppDestroy => UNCHANGED vars
  BY DEF AppInit, AppClear, AppDestroy
<1>4. PluginStep => Next /\ UNCHANGED opVars
  BY DEF PluginStep
<1> QED
  BY <1>1, <1>2, <1>3, <1>4 DEF OpNext, Genop

LEMMA OpNextKeeps ==
    ASSUME OpInv, [OpNext]_<<vars, opVars>>
    PROVE  OpInv'
<1>1. OpsInv' /\ PluginsInv'
  <2>1. [Next]_vars
    BY OnlyPluginSteps
  <2> QED
    BY <2>1, PluginsNext DEF OpInv
<1>2. CASE UNCHANGED opVars
  <2>1. ThreadsInv'
    BY <1>2 DEF opVars, ThreadsInv, OpInv
  <2>2. \A r : Inside(r)' = Inside(r)
    BY <1>2 DEF opVars, Inside, RegionIn
  <2> QED
    BY <1>1, <1>2, <2>1, <2>2, RegionsStay DEF OpInv, opVars
<1>3. ASSUME NEW t \in Threads, NEW ty \in OpTypes, Call(t, ty) \/ Genop(t, ty)
      PROVE  OpInv'
  <2>1. PICK called \in OpTypes : Call(t, called)
    <3>1. Callable[ty] \subseteq OpTypes
      BY DEF Callable
    <3> QED
      BY <1>3, <3>1 DEF Genop
  <2> QED
    BY <1>1, <2>1, CallKeeps DEF OpInv
<1>4. ASSUME NEW t \in Threads,
             \/ TakeSample(t) \/ Lookup(t) \/ Return(t) \/ Stop(t)
             \/ AppStart(t) \/ AppStop(t)
      PROVE  OpInv'
  BY <1>1, <1>4, TakeSampleKeeps, LookupKeeps, ReturnKeeps, StopKeeps, AppStartKeeps,
     AppStopKeeps DEF OpInv
<1>5. CASE AppInit \/ AppClear \/ AppDestroy
  BY <1>1, <1>5, AppSetsKeep DEF OpInv
<1>6. CASE PluginStep
  BY <1>2, <1>6 DEF PluginStep
<1> QED
  BY <1>2, <1>3, <1>4, <1>5, <1>6 DEF OpNext

(* Through every behaviour: plugins that come, go and fail, operations of  *)
(* any number of threads, and the regions they are profiled in.            *)
THEOREM OperationsAreSound == OpSpec => []OpInv
BY OpInitKeeps, OpNextKeeps, PTL DEF OpSpec

(* An implementation that is on the list of its type belongs to a plugin   *)
(* that is registered.                                                     *)
LEMMA ListedIsRegistered ==
    ASSUME OpsInv, PluginsInv, NEW t \in OpTypes, NEW o \in Elements(ops[t])
    PROVE  /\ o \in Ops /\ TypeOf[o] = t /\ Owner[o] \in Registered
           /\ o \in Elements(ownOps[Owner[o]])
<1>1. o \in Ops
  BY DEF OpsInv, Elements
<1>2. TypeOf[o] = t /\ o \in Elements(ownOps[Owner[o]]) /\ Owner[o] \in AllPlugins
  BY <1>1, PluginsAssumption DEF OpsInv
<1>3. ownOps[Owner[o]] # <<>>
  BY <1>2 DEF Elements
<1> QED
  BY <1>1, <1>2, <1>3 DEF PluginsInv

(* Whatever the order in which plugins are loaded, registered, fail and    *)
(* are unregistered, a lookup answers code that is in memory, but for that *)
(* of as many plugins as have failed to initialise: the implementation is  *)
(* on the list of its owner, and the library of a registered backend that  *)
(* is set up is open (get_plugin_op).                                      *)
THEOREM DispatchIsInMemory == OpSpec => []DispatchInMemory
<1>1. OpInv => DispatchInMemory
  <2> SUFFICES ASSUME OpInv
               PROVE  DispatchInMemory
    OBVIOUS
  <2> DEFINE answers == {get_plugin_op(t, hint) : t \in OpTypes, hint \in Hints} \ {NULL}
             owners == {Owner[o] : o \in answers}
             closed == {p \in owners : ~InMemory(p)}
             unset == NotSetUp
  <2>1. /\ IsFiniteSet(unset)
        /\ Cardinality(unset) + (IF misfini THEN 1 ELSE 0) <= initFailed
        /\ initFailed \in Nat /\ \A p \in set : InMemory(p)
    BY MaxInitFailuresAssumption DEF OpInv, PluginsInv, FailuresCover
  <2>2. ASSUME NEW t \in OpTypes, NEW hint \in Hints, get_plugin_op(t, hint) # NULL
        PROVE  Owner[get_plugin_op(t, hint)] \in Registered
    <3>1. get_plugin_op(t, hint) \in Elements(ops[t])
      BY <2>2, LookupIsRight DEF LookupRight, OpInv, OpsInv
    <3> QED
      BY <3>1, ListedIsRegistered DEF OpInv
  <2>3. closed \in SUBSET unset
    <3>1. \A p \in Registered : p \in Backends \/ InMemory(p)
      BY DEF OpInv, PluginsInv, Registered, Elements, AllPlugins, InMemory
    <3> QED
      BY <2>1, <2>2, <3>1 DEF NotSetUp
  <2>4. Cardinality(closed) <= Cardinality(unset) /\ IsFiniteSet(closed)
    BY <2>1, <2>3, FS_Subset
  <2>5. Cardinality(closed) \in Nat /\ Cardinality(unset) \in Nat
    BY <2>1, <2>4, FS_CardinalityType
  <2>6. Cardinality(closed) <= initFailed
    BY <2>1, <2>4, <2>5
  <2> QED
    BY <2>6 DEF DispatchInMemory
<1> QED
  BY <1>1, OperationsAreSound, PTL

(* The list of a type and the lists of the plugins hold the same ops, each *)
(* once, also after a backend failed to initialise half way                *)
(* (register_plugin_function, unregister_plugin).                          *)
THEOREM OpListsAlwaysAgree == OpSpec => []OpListsAgree
<1>1. OpInv => OpListsAgree
  <2> SUFFICES ASSUME OpsInv, PluginsInv
               PROVE  OpListsAgree
    BY DEF OpInv
  <2>1. ASSUME NEW t \in OpTypes
        PROVE  /\ Elements(ops[t]) =
                      {o \in UNION {Elements(ownOps[p]) : p \in Registered} : TypeOf[o] = t}
               /\ Len(ops[t]) = Cardinality(Elements(ops[t]))
    <3> DEFINE owned == UNION {Elements(ownOps[p]) : p \in Registered}
    <3>1. \A o \in Elements(ops[t]) : o \in owned /\ TypeOf[o] = t
      BY ListedIsRegistered
    <3>2. ASSUME NEW o \in owned, TypeOf[o] = t
          PROVE  o \in Elements(ops[t])
      <4>1. PICK p \in Registered : o \in Elements(ownOps[p])
        OBVIOUS
      <4>2. p \in AllPlugins
        BY DEF PluginsInv, Registered, Elements
      <4>3. o \in Ops /\ Owner[o] = p
        BY <4>1, <4>2 DEF OpsInv, Elements
      <4> QED
        BY <3>2, <4>1, <4>3 DEF OpsInv
    <3>3. Elements(ops[t]) = {o \in owned : TypeOf[o] = t}
      BY <3>1, <3>2
    <3>4. ops[t] \in Seq(Ops) /\ Once(ops[t])
      BY DEF OpsInv
    <3> QED
      BY <3>3, <3>4, OnceLength
  <2>2. \A p \in AllPlugins \ Registered : ownOps[p] = <<>>
    BY DEF PluginsInv
  <2> QED
    BY <2>1, <2>2 DEF OpListsAgree
<1> QED
  BY <1>1, OperationsAreSound, PTL

(* A backend that was not set up is on the list, or finalised, only for as *)
(* many backends as have failed to initialise, and plugins_shutdown leaves *)
(* nothing, however it is reached (load_backend_plugin, unregister_plugin, *)
(* plugins_shutdown).                                                      *)
THEOREM FiniAlwaysMatches == OpSpec => []FiniMatchesInit
<1>1. OpInv => FiniMatchesInit
  BY DEF OpInv, PluginsInv, FailuresCover, FiniMatchesInit
<1> QED
  BY <1>1, OperationsAreSound, PTL

(* Between two lookups with any steps of plugins, the answer changes only  *)
(* when the implementation left or a better match came (get_plugin_op).    *)
THEOREM LookupIsStable == OpSpec => LookupStable
<1>1. OpInv /\ OpInv' /\ [OpNext]_<<vars, opVars>> => [StableStep]_vars
  <2> SUFFICES ASSUME OpInv, OpInv', OpNext
               PROVE  [StableStep]_vars
    BY DEF OpInv
  <2>1. Next \/ UNCHANGED vars
    BY OnlyPluginSteps
  <2>2. Next => StableStep
    BY NextIsStable DEF OpInv
  <2> QED
    BY <2>1, <2>2
<1>2. OpSpec => [][StableStep]_vars
  BY <1>1, OperationsAreSound, PTL DEF OpSpec
<1> QED
  BY <1>2 DEF LookupStable, StableStep

(* A region in which no two threads have been at once never counts a       *)
(* sample its array has no room for (grow_samples_array, get_next_sample), *)
(* whatever overlaps in other regions.                                     *)
THEOREM SamplesStayInBounds == OpSpec => []SamplesInBounds
<1>1. OpInv => SamplesInBounds
  <2> SUFFICES ASSUME OpsInv, PluginsInv, RegionsInv, ThreadsInv
               PROVE  SamplesInBounds
    BY DEF OpInv
  <2>1. Len(plugins) = Cardinality(Registered)
    BY OnceLength DEF PluginsInv, Registered
  <2>2. mapped \subseteq Backends /\ set \subseteq Backends
    BY DEF PluginsInv
  <2>3. TypeOK
    BY <2>1, <2>2 DEF TypeOK, OpsInv, PluginsInv
  <2>4. OpTypeOK
    BY <2>3 DEF OpTypeOK, RegionsInv, RegionOK, ThreadsInv
  <2>5. \A r \in Regions \ overlapped : Up(r) => region[r].nr <= region[r].size
    BY DEF RegionsInv, RegionOK, InBounds
  <2> QED
    BY <2>4, <2>5 DEF SamplesInBounds, Up
<1> QED
  BY <1>1, OperationsAreSound, PTL

(* In a region where the profiled operations have not overlapped, whatever *)
(* they did in others, no sample is left without its time, whichever way   *)
(* the operation ended (vaccel_prof_region_start, vaccel_prof_region_stop).*)
THEOREM SamplesAreTimed == OpSpec => []SamplesTimed
<1>1. OpInv => SamplesTimed
  <2> SUFFICES ASSUME RegionsInv, NEW r \in Regions \ overlapped, Inside(r) = {}, Up(r),
                      NEW k \in 1 .. region[r].nr
               PROVE  k <= region[r].size /\ region[r].samples[k] = "timed"
    BY DEF OpInv, SamplesTimed, Printable, Up
  <2>1. region[r].samples[k] = "timed"
    BY DEF RegionsInv, RegionOK, Timed
  <2>2. region[r].nr \in Nat /\ region[r].size \in Nat /\ region[r].nr <= region[r].size
    BY DEF RegionsInv, RegionOK, InBounds, IsRegion
  <2> QED
    BY <2>1, <2>2
<1> QED
  BY <1>1, OperationsAreSound, PTL
=============================================================================
