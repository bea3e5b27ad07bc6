---------------------------- MODULE IdPoolProofs ----------------------------
(***************************************************************************)
(* Proofs about IdPool, for any number of threads, any pool size and any   *)
(* number of failed gets: first what holds of every use of the pool, then  *)
(* what holds as long as gets and releases do not overlap.                 *)
(***************************************************************************)
EXTENDS IdPool, FiniteSetTheorems, SequenceTheorems, TLAPS

USE DEF Ids, Slots, None, GetPcs, ReleasePcs

(* SlotId of a slot is an id. *)
LEMMA SlotIdType ==
    ASSUME TypeOK, NEW s \in Slots
    PROVE  SlotId(s) \in Ids
BY MaxIdsAssumption DEF TypeOK, SlotId

-----------------------------------------------------------------------------
(* What holds of every use of the pool, overlapping or not. *)

CountInv ==
    /\ TypeOK
    /\ IsFiniteSet(Getting) /\ IsFiniteSet(Holdings) /\ IsFiniteSet(Exchanging)
    /\ NextCounts
    /\ next <= MaxIds + failed
    /\ \A t \in Getting : ptr[t] \in Slots
    /\ \A t \in Threads : pc[t] = "load" => ids[ptr[t]] # None
    /\ \A t \in Releasing : rid[t] \in Ids
    /\ \A t \in Exchanging : ptr[t] = curr[t] - 1
    /\ failed = 0 => \A t \in Storing : ptr[t] \in Slots

LEMMA HoldingsAre ==
    ASSUME NEW h, NEW x
    PROVE  x \in UNION {{i} \X (1 .. h[i]) : i \in Ids}
             <=> \E i \in Ids : \E k \in 1 .. h[i] : x = <<i, k>>
OBVIOUS

(* The holdings when a caller gets an id, ... *)
LEMMA HoldingsGrow ==
    ASSUME NEW i \in Ids, held \in [Ids -> Nat], IsFiniteSet(Holdings),
           held' = [held EXCEPT ![i] = @ + 1]
    PROVE  IsFiniteSet(Holdings') /\ Cardinality(Holdings') = Cardinality(Holdings) + 1
<1>1. PICK n \in Nat : n = held[i]
  OBVIOUS
<1>2. held'[i] = n + 1 /\ \A j \in Ids \ {i} : held'[j] = held[j]
  BY <1>1
<1>3. <<i, n + 1>> \notin Holdings
  BY <1>1, HoldingsAre DEF Holdings
<1>4. Holdings' = Holdings \cup {<<i, n + 1>>}
  <2>1. 1 .. n + 1 = (1 .. n) \cup {n + 1}
    OBVIOUS
  <2>2. ASSUME NEW x PROVE x \in Holdings' <=> x \in Holdings \/ x = <<i, n + 1>>
    <3>1. x \in Holdings' <=> \E j \in Ids : \E k \in 1 .. held'[j] : x = <<j, k>>
      BY HoldingsAre DEF Holdings
    <3>2. x \in Holdings <=> \E j \in Ids : \E k \in 1 .. held[j] : x = <<j, k>>
      BY HoldingsAre DEF Holdings
    <3> QED
      BY <1>1, <1>2, <2>1, <3>1, <3>2
  <2> QED
    BY <2>2
<1> QED
  BY <1>3, <1>4, FS_AddElement

(* ... and when it releases it. *)
LEMMA HoldingsShrink ==
    ASSUME NEW i \in Ids, held \in [Ids -> Nat], IsFiniteSet(Holdings), held[i] > 0,
           held' = [held EXCEPT ![i] = @ - 1]
    PROVE  IsFiniteSet(Holdings') /\ Cardinality(Holdings') = Cardinality(Holdings) - 1
<1>1. PICK n \in Nat : n + 1 = held[i]
  <2>1. held[i] - 1 \in Nat
    OBVIOUS
  <2> QED
    BY <2>1
<1>2. held'[i] = n /\ \A j \in Ids \ {i} : held'[j] = held[j]
  BY <1>1
<1>3. <<i, n + 1>> \in Holdings
  BY <1>1, HoldingsAre DEF Holdings
<1>4. Holdings' = Holdings \ {<<i, n + 1>>}
  <2>1. 1 .. n = (1 .. n + 1) \ {n + 1}
    OBVIOUS
  <2>2. ASSUME NEW x PROVE x \in Holdings' <=> x \in Holdings /\ x # <<i, n + 1>>
    <3>1. x \in Holdings' <=> \E j \in Ids : \E k \in 1 .. held'[j] : x = <<j, k>>
      BY HoldingsAre DEF Holdings
    <3>2. x \in Holdings <=> \E j \in Ids : \E k \in 1 .. held[j] : x = <<j, k>>
      BY HoldingsAre DEF Holdings
    <3> QED
      BY <1>1, <1>2, <2>1, <3>1, <3>2
  <2> QED
    BY <2>2
<1> QED
  BY <1>3, <1>4, FS_RemoveElement

LEMMA InitCounts == Init => CountInv
<1>1. SUFFICES ASSUME Init PROVE CountInv
  OBVIOUS
<1>2. Getting = {} /\ Releasing = {} /\ Exchanging = {} /\ Storing = {}
  BY <1>1 DEF Init, Getting, Releasing, Exchanging, Storing
<1>3. Holdings = {}
  <2>1. \A i \in Ids : 1 .. held[i] = {}
    BY <1>1 DEF Init
  <2> QED
    BY <2>1, HoldingsAre DEF Holdings
<1>4. TypeOK
  BY <1>1, MaxIdsAssumption DEF Init, TypeOK
<1>5. NextCounts
  BY <1>1, <1>2, <1>3, FS_EmptySet DEF Init, NextCounts
<1> QED
  BY <1>1, <1>2, <1>3, <1>4, <1>5, FS_EmptySet, MaxIdsAssumption DEF Init, CountInv

(* Only a step to another label changes who is where. *)
LEMMA PlacesMove ==
    ASSUME TypeOK, NEW t \in Threads, NEW label, Goto(t, label)
    PROVE  /\ \A u \in Threads \ {t} : pc'[u] = pc[u]
           /\ pc'[t] = label
           /\ Getting' = IF label \in GetPcs THEN Getting \cup {t} ELSE Getting \ {t}
           /\ Releasing' = IF label \in ReleasePcs THEN Releasing \cup {t} ELSE Releasing \ {t}
           /\ Exchanging' = IF label = "cas" THEN Exchanging \cup {t} ELSE Exchanging \ {t}
           /\ Storing' = IF label = "store" THEN Storing \cup {t} ELSE Storing \ {t}
<1>1. pc' = [pc EXCEPT ![t] = label] /\ pc \in [Threads -> {"idle"} \cup GetPcs \cup ReleasePcs]
  BY DEF Goto, TypeOK
<1>2. pc'[t] = label /\ \A u \in Threads \ {t} : pc'[u] = pc[u]
  BY <1>1
<1> QED
  BY <1>2 DEF Getting, Releasing, Exchanging, Storing

(* The counter never goes below the number of those who count in it. *)
LEMMA CountsPositive ==
    ASSUME CountInv
    PROVE  next >= 0 /\ \A t \in Exchanging : next > 0
<1>1. /\ Cardinality(Getting) \in Nat /\ Cardinality(Holdings) \in Nat
      /\ Cardinality(Exchanging) \in Nat /\ failed \in Nat
  BY FS_CardinalityType DEF CountInv, TypeOK
<1>2. \A t \in Exchanging : Cardinality(Exchanging) > 0
  BY <1>1, FS_EmptySet DEF CountInv
<1> QED
  BY <1>1, <1>2 DEF CountInv, NextCounts

(* Sizes of the two sets of threads that count *)
LEMMA OneMore ==
    ASSUME NEW S, NEW x, IsFiniteSet(S)
    PROVE  /\ IsFiniteSet(S \cup {x}) /\ IsFiniteSet(S \ {x})
           /\ Cardinality(S) \in Nat
           /\ x \notin S => Cardinality(S \cup {x}) = Cardinality(S) + 1
           /\ x \in S => Cardinality(S \ {x}) = Cardinality(S) - 1
BY FS_AddElement, FS_RemoveElement, FS_CardinalityType

(* One lemma per action, as above. *)

LEMMA GetClaimCounts ==
    ASSUME CountInv, NEW t \in Threads, GetClaim(t)
    PROVE  CountInv'
<1>1. /\ TypeOK /\ pc[t] = "idle" /\ next' = next + 1 /\ ptr' = [ptr EXCEPT ![t] = next]
      /\ Goto(t, "test") /\ UNCHANGED <<ids, curr, rid, held, failed>>
  BY DEF CountInv, GetClaim
<1>2. next \in Slots /\ next \in Int
  BY <1>1, CountsPositive, MaxIdsAssumption DEF GetClaim, Exhausted, TypeOK
<1>3. /\ Getting' = Getting \cup {t} /\ t \notin Getting
      /\ Releasing' = Releasing /\ Exchanging' = Exchanging /\ Storing' = Storing
      /\ t \notin Releasing /\ t \notin Exchanging /\ t \notin Storing
      /\ pc'[t] = "test" /\ \A u \in Threads \ {t} : pc'[u] = pc[u]
  BY <1>1, PlacesMove DEF Getting, Releasing, Exchanging, Storing
<1>4. TypeOK'
  BY <1>1, <1>2 DEF TypeOK, Goto
<1>5. ptr'[t] = next /\ \A u \in Threads \ {t} : ptr'[u] = ptr[u]
  BY <1>1 DEF TypeOK
<1>6. NextCounts' /\ IsFiniteSet(Getting') /\ IsFiniteSet(Holdings') /\ IsFiniteSet(Exchanging')
  <2>1. Holdings' = Holdings
    BY <1>1 DEF Holdings
  <2>2. IsFiniteSet(Getting') /\ Cardinality(Getting') = Cardinality(Getting) + 1
    BY <1>3, OneMore DEF CountInv
  <2>3. /\ Cardinality(Getting) \in Nat /\ Cardinality(Holdings) \in Nat
        /\ Cardinality(Exchanging) \in Nat /\ failed \in Nat
    BY <1>1, FS_CardinalityType DEF CountInv, TypeOK
  <2>4. NextCounts'
    BY <1>1, <1>3, <2>1, <2>2, <2>3 DEF CountInv, NextCounts
  <2> QED
    BY <1>3, <2>1, <2>2, <2>4 DEF CountInv
<1>7. next' <= MaxIds + failed'
  BY <1>1, <1>2, MaxIdsAssumption DEF TypeOK
<1>8. \A u \in Getting' : ptr'[u] \in Slots
  BY <1>2, <1>3, <1>5 DEF CountInv, Getting
<1>9. \A u \in Threads : pc'[u] = "load" => ids'[ptr'[u]] # None
  BY <1>1, <1>3, <1>5 DEF CountInv
<1>10. \A u \in Releasing' : rid'[u] \in Ids
  BY <1>1, <1>3 DEF CountInv
<1>11. \A u \in Exchanging' : ptr'[u] = curr'[u] - 1
  BY <1>1, <1>3, <1>5 DEF CountInv, Exchanging
<1>12. failed' = 0 => \A u \in Storing' : ptr'[u] \in Slots
  BY <1>1, <1>3, <1>5 DEF CountInv, Storing
<1> QED
  BY <1>4, <1>6, <1>7, <1>8, <1>9, <1>10, <1>11, <1>12 DEF CountInv

LEMMA GetNoneCounts ==
    ASSUME CountInv, NEW t \in Threads, GetNone(t)
    PROVE  CountInv'
<1>1. /\ TypeOK /\ next' = next + 1 /\ failed' = failed + 1
      /\ UNCHANGED <<ids, pc, ptr, curr, rid, held>>
  BY DEF CountInv, GetNone
<1>2. UNCHANGED <<Getting, Releasing, Exchanging, Storing, Holdings>>
  BY <1>1 DEF Getting, Releasing, Exchanging, Storing, Holdings
<1>3. TypeOK'
  BY <1>1 DEF TypeOK
<1>4. failed \in Nat /\ next \in Int /\ failed' # 0
  BY <1>1 DEF TypeOK
<1>5. NextCounts' /\ next' <= MaxIds + failed'
  <2>1. /\ Cardinality(Getting) \in Nat /\ Cardinality(Holdings) \in Nat
        /\ Cardinality(Exchanging) \in Nat
    BY FS_CardinalityType DEF CountInv
  <2> QED
    BY <1>1, <1>2, <1>4, <2>1, MaxIdsAssumption DEF CountInv, NextCounts
<1> QED
  BY <1>1, <1>2, <1>3, <1>4, <1>5 DEF CountInv

LEMMA GetWorkCounts ==
    ASSUME CountInv, NEW t \in Threads, GetTest(t) \/ GetInit(t)
    PROVE  CountInv'
<1>1. /\ TypeOK /\ t \in Getting /\ ptr[t] \in Slots
      /\ UNCHANGED <<next, ptr, curr, rid, held, failed>>
  BY DEF CountInv, GetTest, GetInit, pool, Getting
<1>2. PICK label \in {"init", "load"} :
        /\ Goto(t, label)
        /\ label = "load" => ids'[ptr[t]] # None
  <2>1. CASE GetTest(t)
    BY <2>1 DEF GetTest, pool
  <2>2. CASE GetInit(t)
    <3>1. ids'[ptr[t]] = ptr[t] + 1 /\ ptr[t] + 1 # None
      BY <1>1, <2>2, MaxIdsAssumption DEF GetInit, TypeOK
    <3> QED
      BY <2>2, <3>1 DEF GetInit
  <2> QED
    BY <2>1, <2>2
<1>3. /\ UNCHANGED <<Getting, Releasing, Exchanging, Storing, Holdings>>
      /\ pc'[t] = label /\ \A u \in Threads \ {t} : pc'[u] = pc[u]
  BY <1>1, <1>2, PlacesMove
     DEF GetTest, GetInit, Getting, Releasing, Exchanging, Storing, Holdings
<1>4. /\ ids' \in [Slots -> Ids \cup {None}]
      /\ \A s \in Slots : ids[s] # None => ids'[s] # None
  <2>1. CASE GetTest(t)
    BY <1>1, <2>1 DEF GetTest, pool, TypeOK
  <2>2. CASE GetInit(t)
    <3>1. ptr[t] + 1 \in Ids /\ ptr[t] + 1 # None
      BY <1>1, MaxIdsAssumption
    <3> QED
      BY <1>1, <2>2, <3>1 DEF GetInit, TypeOK
  <2> QED
    BY <2>1, <2>2
<1>5. TypeOK'
  BY <1>1, <1>2, <1>4 DEF TypeOK, Goto
<1>6. \A u \in Threads : pc'[u] = "load" => ids'[ptr'[u]] # None
  <2>1. \A u \in Threads \ {t} : pc[u] = "load" => ptr[u] \in Slots /\ ids[ptr[u]] # None
    BY DEF CountInv, Getting
  <2> QED
    BY <1>1, <1>2, <1>3, <1>4, <2>1
<1> QED
  BY <1>1, <1>3, <1>5, <1>6 DEF CountInv, NextCounts

LEMMA GetLoadCounts ==
    ASSUME CountInv, NEW t \in Threads, GetLoad(t)
    PROVE  CountInv'
<1>1. /\ TypeOK /\ t \in Getting /\ ptr[t] \in Slots /\ Goto(t, "idle")
      /\ UNCHANGED <<next, ids, ptr, curr, rid, failed>>
  BY DEF CountInv, GetLoad, pool, Getting
<1>2. PICK i \in Ids : i = ids[ptr[t]] /\ held' = [held EXCEPT ![i] = @ + 1]
  BY <1>1 DEF GetLoad, CountInv, TypeOK
<1>3. /\ Getting' = Getting \ {t}
      /\ UNCHANGED <<Releasing, Exchanging, Storing>>
      /\ pc'[t] = "idle" /\ \A u \in Threads \ {t} : pc'[u] = pc[u]
  BY <1>1, PlacesMove DEF Getting, Releasing, Exchanging, Storing
<1>4. TypeOK'
  <2>1. held' \in [Ids -> Nat]
    BY <1>1, <1>2 DEF TypeOK
  <2> QED
    BY <1>1, <2>1 DEF TypeOK, Goto
<1>5. NextCounts' /\ IsFiniteSet(Getting') /\ IsFiniteSet(Holdings')
  <2>1. IsFiniteSet(Holdings') /\ Cardinality(Holdings') = Cardinality(Holdings) + 1
    BY <1>1, <1>2, HoldingsGrow DEF CountInv, TypeOK
  <2>2. IsFiniteSet(Getting') /\ Cardinality(Getting') = Cardinality(Getting) - 1
    BY <1>1, <1>3, OneMore DEF CountInv
  <2>3. /\ Cardinality(Getting) \in Nat /\ Cardinality(Holdings) \in Nat
        /\ Cardinality(Exchanging) \in Nat /\ failed \in Nat
    BY <1>1, FS_CardinalityType DEF CountInv, TypeOK
  <2> QED
    BY <1>1, <1>3, <2>1, <2>2, <2>3 DEF CountInv, NextCounts
<1> QED
  BY <1>1, <1>3, <1>4, <1>5 DEF CountInv

LEMMA ReleaseLoadCounts ==
    ASSUME CountInv, NEW t \in Threads, NEW i \in Ids, ReleaseLoad(t, i)
    PROVE  CountInv'
<1>1. /\ TypeOK /\ pc[t] = "idle" /\ held[i] > 0 /\ Goto(t, "cas")
      /\ held' = [held EXCEPT ![i] = @ - 1] /\ rid' = [rid EXCEPT ![t] = i]
      /\ curr' = [curr EXCEPT ![t] = next] /\ ptr' = [ptr EXCEPT ![t] = next - 1]
      /\ UNCHANGED <<next, ids, failed>>
  BY DEF CountInv, ReleaseLoad, pool
<1>2. /\ Getting' = Getting /\ t \notin Getting /\ Storing' = Storing /\ t \notin Storing
      /\ Releasing' = Releasing \cup {t}
      /\ Exchanging' = Exchanging \cup {t} /\ t \notin Exchanging
      /\ pc'[t] = "cas" /\ \A u \in Threads \ {t} : pc'[u] = pc[u]
  BY <1>1, PlacesMove DEF Getting, Releasing, Exchanging, Storing
<1>3. /\ rid'[t] = i /\ curr'[t] = next /\ ptr'[t] = next - 1
      /\ \A u \in Threads \ {t} : rid'[u] = rid[u] /\ curr'[u] = curr[u] /\ ptr'[u] = ptr[u]
  BY <1>1 DEF TypeOK
<1>4. TypeOK'
  <2>1. held' \in [Ids -> Nat]
    <3>1. held \in [Ids -> Nat] /\ held[i] \in Nat
      BY <1>1 DEF TypeOK
    <3>2. held[i] - 1 \in Nat
      BY <1>1, <3>1
    <3> QED
      BY <1>1, <3>1, <3>2
  <2>2. ptr' \in [Threads -> Int] /\ curr' \in [Threads -> Int]
    <3>1. next \in Int /\ next - 1 \in Int
      BY <1>1 DEF TypeOK
    <3> QED
      BY <1>1, <3>1 DEF TypeOK
  <2>3. rid' \in [Threads -> Ids \cup {None}]
    BY <1>1 DEF TypeOK
  <2> QED
    BY <1>1, <2>1, <2>2, <2>3 DEF TypeOK, Goto
<1>5. NextCounts' /\ IsFiniteSet(Holdings') /\ IsFiniteSet(Exchanging')
  <2>1. IsFiniteSet(Holdings') /\ Cardinality(Holdings') = Cardinality(Holdings) - 1
    BY <1>1, HoldingsShrink DEF CountInv, TypeOK
  <2>2. IsFiniteSet(Exchanging') /\ Cardinality(Exchanging') = Cardinality(Exchanging) + 1
    BY <1>2, OneMore DEF CountInv
  <2>3. /\ Cardinality(Getting) \in Nat /\ Cardinality(Holdings) \in Nat
        /\ Cardinality(Exchanging) \in Nat /\ failed \in Nat
    BY <1>1, FS_CardinalityType DEF CountInv, TypeOK
  <2> QED
    BY <1>1, <1>2, <2>1, <2>2, <2>3 DEF CountInv, NextCounts
<1>6. \A u \in Getting' : ptr'[u] \in Slots
  BY <1>2, <1>3 DEF CountInv, Getting
<1>7. \A u \in Threads : pc'[u] = "load" => ids'[ptr'[u]] # None
  BY <1>1, <1>2, <1>3 DEF CountInv
<1>8. \A u \in Releasing' : rid'[u] \in Ids
  BY <1>2, <1>3 DEF CountInv, Releasing
<1>9. \A u \in Exchanging' : ptr'[u] = curr'[u] - 1
  BY <1>2, <1>3 DEF CountInv, Exchanging
<1>10. failed' = 0 => \A u \in Storing' : ptr'[u] \in Slots
  BY <1>1, <1>2, <1>3 DEF CountInv, Storing
<1> QED
  BY <1>1, <1>2, <1>4, <1>5, <1>6, <1>7, <1>8, <1>9, <1>10 DEF CountInv

LEMMA ReleaseCasOkCounts ==
    ASSUME CountInv, NEW t \in Threads, ReleaseCasOk(t)
    PROVE  CountInv'
<1>1. /\ TypeOK /\ t \in Exchanging /\ t \in Releasing /\ Goto(t, "store")
      /\ next > 0 /\ ptr[t] = next - 1 /\ next' = next - 1 /\ next \in Int
      /\ UNCHANGED <<ids, ptr, curr, rid, held, failed>>
  <2>1. t \in Exchanging /\ t \in Releasing
    BY DEF ReleaseCasOk, Exchanging, Releasing
  <2> QED
    BY <2>1, CountsPositive DEF CountInv, ReleaseCasOk, TypeOK
<1>2. /\ Getting' = Getting /\ Releasing' = Releasing /\ Storing' = Storing \cup {t}
      /\ Exchanging' = Exchanging \ {t}
      /\ pc'[t] = "store" /\ \A u \in Threads \ {t} : pc'[u] = pc[u]
  BY <1>1, PlacesMove DEF ReleaseCasOk, Getting, Releasing
<1>3. TypeOK'
  BY <1>1 DEF TypeOK, Goto
<1>4. NextCounts' /\ IsFiniteSet(Holdings') /\ IsFiniteSet(Exchanging')
  <2>1. Holdings' = Holdings
    BY <1>1 DEF Holdings
  <2>2. IsFiniteSet(Exchanging') /\ Cardinality(Exchanging') = Cardinality(Exchanging) - 1
    BY <1>1, <1>2, OneMore DEF CountInv
  <2>3. /\ Cardinality(Getting) \in Nat /\ Cardinality(Holdings) \in Nat
        /\ Cardinality(Exchanging) \in Nat /\ failed \in Nat
    BY <1>1, FS_CardinalityType DEF CountInv, TypeOK
  <2> QED
    BY <1>1, <1>2, <2>1, <2>2, <2>3 DEF CountInv, NextCounts
<1>5. next' <= MaxIds + failed'
  BY <1>1, MaxIdsAssumption DEF CountInv, TypeOK
<1>6. failed' = 0 => \A u \in Storing' : ptr'[u] \in Slots
  <2>1. failed = 0 => ptr[t] \in Slots
    BY <1>1, MaxIdsAssumption DEF CountInv
  <2> QED
    BY <1>1, <1>2, <2>1 DEF CountInv
<1>7. \A u \in Threads : pc'[u] = "load" => ids'[ptr'[u]] # None
  BY <1>1, <1>2 DEF CountInv
<1> QED
  BY <1>1, <1>2, <1>3, <1>4, <1>5, <1>6, <1>7 DEF CountInv

LEMMA ReleaseCasFailCounts ==
    ASSUME CountInv, NEW t \in Threads, ReleaseCasFail(t)
    PROVE  CountInv'
<1>1. /\ TypeOK /\ pc[t] = "cas"
      /\ curr' = [curr EXCEPT ![t] = next] /\ ptr' = [ptr EXCEPT ![t] = next - 1]
      /\ UNCHANGED <<next, ids, pc, rid, held, failed>>
  BY DEF CountInv, ReleaseCasFail, pool
<1>2. /\ UNCHANGED <<Getting, Releasing, Exchanging, Storing, Holdings>>
      /\ t \notin Getting /\ t \notin Storing
  BY <1>1 DEF Getting, Releasing, Exchanging, Storing, Holdings
<1>3. /\ curr'[t] = next /\ ptr'[t] = next - 1
      /\ \A u \in Threads \ {t} : curr'[u] = curr[u] /\ ptr'[u] = ptr[u]
  BY <1>1 DEF TypeOK
<1>4. TypeOK'
  <2>1. next \in Int /\ next - 1 \in Int
    BY <1>1 DEF TypeOK
  <2> QED
    BY <1>1, <2>1 DEF TypeOK
<1>5. \A u \in Getting' : ptr'[u] \in Slots
  BY <1>2, <1>3 DEF CountInv, Getting
<1>6. \A u \in Threads : pc'[u] = "load" => ids'[ptr'[u]] # None
  BY <1>1, <1>3 DEF CountInv
<1>7. \A u \in Exchanging' : ptr'[u] = curr'[u] - 1
  BY <1>2, <1>3 DEF CountInv, Exchanging
<1>8. failed' = 0 => \A u \in Storing' : ptr'[u] \in Slots
  BY <1>1, <1>2, <1>3 DEF CountInv, Storing
<1> QED
  BY <1>1, <1>2, <1>4, <1>5, <1>6, <1>7, <1>8 DEF CountInv, NextCounts

LEMMA ReleaseStoreCounts ==
    ASSUME CountInv, NEW t \in Threads, ReleaseStore(t)
    PROVE  CountInv'
<1>1. /\ TypeOK /\ t \in Releasing /\ rid[t] \in Ids /\ pc[t] = "store" /\ Goto(t, "idle")
      /\ ids' = [s \in Slots |-> IF s = ptr[t] THEN rid[t] ELSE ids[s]]
      /\ rid' = [rid EXCEPT ![t] = None]
      /\ UNCHANGED <<next, ptr, curr, held, failed>>
  BY DEF CountInv, ReleaseStore, Releasing
<1>2. /\ Getting' = Getting /\ Exchanging' = Exchanging /\ Holdings' = Holdings
      /\ Releasing' = Releasing \ {t} /\ Storing' = Storing \ {t}
      /\ pc'[t] = "idle" /\ \A u \in Threads \ {t} : pc'[u] = pc[u]
  BY <1>1, PlacesMove DEF Getting, Exchanging, Holdings
<1>3. \A u \in Threads \ {t} : rid'[u] = rid[u]
  BY <1>1 DEF TypeOK
<1>4. /\ ids' \in [Slots -> Ids \cup {None}]
      /\ \A s \in Slots : ids[s] # None => ids'[s] # None
  BY <1>1 DEF TypeOK
<1>5. TypeOK'
  BY <1>1, <1>4 DEF TypeOK, Goto
<1>6. \A u \in Threads : pc'[u] = "load" => ids'[ptr'[u]] # None
  <2>1. \A u \in Threads \ {t} : pc[u] = "load" => ptr[u] \in Slots /\ ids[ptr[u]] # None
    BY DEF CountInv, Getting
  <2> QED
    BY <1>1, <1>2, <1>4, <2>1
<1>7. \A u \in Releasing' : rid'[u] \in Ids
  BY <1>2, <1>3 DEF CountInv, Releasing
<1> QED
  BY <1>1, <1>2, <1>5, <1>6, <1>7 DEF CountInv, NextCounts

LEMMA CountInvariant == Spec => []CountInv
<1>1. ASSUME CountInv, [Next]_vars PROVE CountInv'
  <2>1. CASE UNCHANGED vars
    <3>1. UNCHANGED <<Getting, Releasing, Exchanging, Storing, Holdings>>
      BY <2>1 DEF vars, Getting, Releasing, Exchanging, Storing, Holdings
    <3>2. TypeOK'
      BY <1>1, <2>1 DEF vars, CountInv, TypeOK
    <3> QED
      BY <1>1, <2>1, <3>1, <3>2 DEF vars, CountInv, NextCounts
  <2>2. ASSUME NEW t \in Threads, Get(t) PROVE CountInv'
    BY <1>1, <2>2, GetClaimCounts, GetNoneCounts, GetWorkCounts, GetLoadCounts DEF Get
  <2>3. ASSUME NEW t \in Threads, Release(t) PROVE CountInv'
    BY <1>1, <2>3, ReleaseLoadCounts, ReleaseCasOkCounts, ReleaseCasFailCounts, ReleaseStoreCounts
       DEF Release, ReleaseStep
  <2> QED
    BY <1>1, <2>1, <2>2, <2>3 DEF Next
<1> QED
  BY <1>1, InitCounts, PTL DEF Spec

(* Type correctness: every value stored in the pool is an id, and every    *)
(* get that succeeds answers one.                                          *)
THEOREM TypeCorrect == Spec => []TypeOK
<1>1. CountInv => TypeOK
  BY DEF CountInv
<1> QED
  BY <1>1, CountInvariant, PTL

(* However gets and releases (id_pool.c) interleave, next is the number of *)
(* ids that are out plus that of the gets that failed, and id_pool_get and *)
(* id_pool_release access ids inside the array until a get finds the pool  *)
(* exhausted.                                                              *)
THEOREM CounterIsSound == Spec => []CounterSound
<1>1. CountInv => NextCounts
  BY DEF CountInv
<1>2. CountInv => InBounds
  BY DEF CountInv, InBounds, Getting, Storing
<1>3. CountInv => CounterSound
  BY <1>1, <1>2 DEF CounterSound
<1> QED
  BY <1>3, CountInvariant, PTL

-----------------------------------------------------------------------------
(* The phased use: gets run against gets and releases against releases.    *)
(* Either the application sees to it, or it has a single thread.           *)
Phased == ~Overlap \/ \A t, u \in Threads : t = u

LEMMA GetMeetsNoRelease ==
    ASSUME Phased, NEW t \in Threads, GetClaim(t) \/ GetNone(t)
    PROVE  Releasing = {}
BY DEF Phased, GetClaim, GetNone, Releasing

LEMMA ReleaseMeetsNoGet ==
    ASSUME Phased, NEW t \in Threads, NEW i \in Ids, ReleaseLoad(t, i)
    PROVE  Getting = {}
BY DEF Phased, ReleaseLoad, Getting

(* A release that is about to lower the counter finds it above 0: were it  *)
(* 0, every slot would stand for an id other than the one being released,  *)
(* and there are as many slots as ids.                                     *)
LEMMA ReleaseFindsRoom ==
    ASSUME PhasedInv, NEW t \in Threads, pc[t] = "cas"
    PROVE  next > 0
<1>1. SUFFICES ASSUME next = 0 PROVE FALSE
  BY DEF PhasedInv, NextNotNegative, TypeOK
<1> DEFINE owner(s) == CHOOSE u \in Storing : ptr[u] = s
           f == [s \in Slots |-> IF s \in Pending THEN rid[owner(s)] ELSE SlotId(s)]
           Others == Ids \ {rid[t]}
<1>2. t \in Releasing /\ rid[t] \in Ids
  BY DEF Releasing, PhasedInv, ReleasedIdsDiffer
<1>3. \A s \in Slots : s \notin Pending => s \in Available
  BY <1>1, MaxIdsAssumption DEF Available
<1>4. \A s \in Slots \cap Pending :
         owner(s) \in Storing /\ ptr[owner(s)] = s /\ owner(s) \in Releasing /\ owner(s) # t
  <2>1. TAKE s \in Slots \cap Pending
  <2>2. \E u \in Storing : ptr[u] = s
    BY DEF Pending
  <2>3. owner(s) \in Storing /\ ptr[owner(s)] = s
    BY <2>2
  <2> QED
    BY <2>3 DEF Storing, Releasing
<1>5. f \in [Slots -> Others]
  <2>1. ASSUME NEW s \in Slots PROVE f[s] \in Others
    <3>1. CASE s \in Pending
      BY <1>2, <1>4, <3>1 DEF PhasedInv, ReleasedIdsDiffer
    <3>2. CASE s \notin Pending
      BY <1>2, <1>3, <3>2, SlotIdType DEF PhasedInv, AvailableIdsDiffer
    <3> QED
      BY <3>1, <3>2
  <2> QED
    BY <2>1
<1>6. ASSUME NEW r \in Slots, NEW s \in Slots, r # s PROVE f[r] # f[s]
  <2>1. CASE r \in Pending /\ s \in Pending
    BY <1>4, <1>6, <2>1 DEF PhasedInv, ReleasedIdsDiffer
  <2>2. CASE r \in Pending /\ s \notin Pending
    BY <1>3, <1>4, <2>2 DEF PhasedInv, AvailableIdsDiffer
  <2>3. CASE r \notin Pending /\ s \in Pending
    BY <1>3, <1>4, <2>3 DEF PhasedInv, AvailableIdsDiffer
  <2>4. CASE r \notin Pending /\ s \notin Pending
    BY <1>3, <1>6, <2>4 DEF PhasedInv, AvailableIdsDiffer
  <2> QED
    BY <2>1, <2>2, <2>3, <2>4
<1> HIDE DEF f, Others, owner
<1>7. IsFiniteSet(Slots) /\ Cardinality(Slots) = MaxIds
  BY FS_Interval, MaxIdsAssumption
<1>8. IsFiniteSet(Ids) /\ Cardinality(Ids) = MaxIds
  BY FS_Interval, MaxIdsAssumption
<1>9. IsFiniteSet(Others) /\ Cardinality(Others) = MaxIds - 1
  BY <1>2, <1>8, FS_RemoveElement DEF Others
<1>10. Cardinality(Others) < Cardinality(Slots)
  BY <1>7, <1>9, MaxIdsAssumption
<1>11. \E r, s \in Slots : r # s /\ f[r] = f[s]
  <2>1. \A g \in [Slots -> Others] : \E r, s \in Slots : r # s /\ g[r] = g[s]
    BY <1>7, <1>9, <1>10, FS_PigeonHole
  <2> QED
    BY <1>5, <2>1
<1> QED
  BY <1>6, <1>11

-----------------------------------------------------------------------------
LEMMA InitPhased ==
    ASSUME Init
    PROVE  PhasedInv
<1>1. TypeOK
  BY MaxIdsAssumption DEF Init, TypeOK
<1>2. NextNotNegative /\ UniqueIds
  BY DEF Init, NextNotNegative, UniqueIds
<1>3. Getting = {} /\ Releasing = {} /\ Storing = {}
  BY DEF Init, Getting, Releasing, Storing
<1>4. NoOverlap /\ GetsOwnSlots /\ ReleasesOwnSlots /\ ReleasedIdsDiffer
  BY <1>3 DEF Init, NoOverlap, GetsOwnSlots, ReleasesOwnSlots, ReleasedIdsDiffer
<1>5. \A s \in Slots : SlotId(s) = s + 1 /\ SlotId(s) \in Ids
  BY MaxIdsAssumption DEF Init, SlotId
<1>6. AvailableIdsDiffer
  BY <1>3, <1>5, MaxIdsAssumption DEF Init, AvailableIdsDiffer, Available
<1> QED
  BY <1>1, <1>2, <1>4, <1>6 DEF PhasedInv

(* One lemma per action: each keeps the invariant. *)

LEMMA GetClaimKeeps ==
    ASSUME Phased, PhasedInv, NEW t \in Threads, GetClaim(t)
    PROVE  PhasedInv'
<1> USE DEF GetClaim, Exhausted, Goto, pool
<1>1. TypeOK'
  BY DEF PhasedInv, TypeOK
<1>2. NextNotNegative' /\ UniqueIds'
  BY DEF PhasedInv, TypeOK, NextNotNegative, UniqueIds
<1>3. Releasing = {} /\ Releasing' = {} /\ Storing = {} /\ Storing' = {}
  BY GetMeetsNoRelease DEF PhasedInv, TypeOK, Releasing, Storing
<1>4. Getting' = Getting \cup {t} /\ t \notin Getting
  BY DEF PhasedInv, TypeOK, Getting
<1>5. next \in Slots /\ ptr'[t] = next /\ \A u \in Getting : ptr'[u] = ptr[u]
  BY <1>4, MaxIdsAssumption DEF PhasedInv, TypeOK, NextNotNegative, Getting
<1>6. GetsOwnSlots'
  BY <1>4, <1>5 DEF PhasedInv, TypeOK, GetsOwnSlots, Getting
<1>7. NoOverlap' /\ ReleasesOwnSlots' /\ ReleasedIdsDiffer'
  BY <1>3 DEF PhasedInv, TypeOK, NoOverlap, ReleasesOwnSlots, ReleasedIdsDiffer
<1>8. Available' = Available
  BY <1>3, <1>4, <1>5 DEF PhasedInv, TypeOK, Available, Pending, Claimed
<1>9. \A s \in Slots : SlotId(s)' = SlotId(s)
  BY DEF SlotId
<1>10. AvailableIdsDiffer'
  BY <1>3, <1>8, <1>9 DEF PhasedInv, AvailableIdsDiffer, Available
<1> QED
  BY <1>1, <1>2, <1>6, <1>7, <1>10 DEF PhasedInv

LEMMA GetNoneKeeps ==
    ASSUME Phased, PhasedInv, NEW t \in Threads, GetNone(t)
    PROVE  PhasedInv'
<1> USE DEF GetNone, Exhausted
<1>1. TypeOK' /\ NextNotNegative' /\ UniqueIds'
  BY DEF PhasedInv, TypeOK, NextNotNegative, UniqueIds
<1>2. Releasing = {} /\ Releasing' = {} /\ Storing = {} /\ Storing' = {}
  BY GetMeetsNoRelease DEF PhasedInv, TypeOK, Releasing, Storing
<1>3. Getting' = Getting
  BY DEF Getting
<1>4. GetsOwnSlots'
  BY <1>3 DEF PhasedInv, TypeOK, GetsOwnSlots, Getting
<1>5. NoOverlap' /\ ReleasesOwnSlots' /\ ReleasedIdsDiffer'
  BY <1>2 DEF PhasedInv, NoOverlap, ReleasesOwnSlots, ReleasedIdsDiffer
<1>6. Available' = Available
  <2>1. Pending' = {} /\ Pending = {} /\ Claimed' = Claimed
    BY <1>2, <1>3 DEF Pending, Claimed
  <2>2. \A s \in Slots : ~(s >= next) /\ ~(s >= next')
    BY MaxIdsAssumption DEF PhasedInv, TypeOK
  <2> QED
    BY <2>1, <2>2 DEF Available
<1>7. AvailableIdsDiffer'
  BY <1>2, <1>6 DEF PhasedInv, AvailableIdsDiffer, SlotId
<1> QED
  BY <1>1, <1>4, <1>5, <1>7 DEF PhasedInv

LEMMA GetTestKeeps ==
    ASSUME PhasedInv, NEW t \in Threads, GetTest(t)
    PROVE  PhasedInv'
<1> USE DEF GetTest, Goto, pool
<1>1. TypeOK' /\ NextNotNegative' /\ UniqueIds'
  BY DEF PhasedInv, TypeOK, NextNotNegative, UniqueIds
<1>2. Getting' = Getting /\ Releasing' = Releasing /\ Storing' = Storing
  BY DEF PhasedInv, TypeOK, Getting, Releasing, Storing
<1>3. GetsOwnSlots'
  BY <1>2 DEF PhasedInv, TypeOK, GetsOwnSlots, Getting
<1>4. NoOverlap' /\ ReleasesOwnSlots' /\ ReleasedIdsDiffer'
  BY <1>2 DEF PhasedInv, TypeOK, NoOverlap, ReleasesOwnSlots, ReleasedIdsDiffer
<1>5. Available' = Available
  BY <1>2 DEF Available, Pending, Claimed
<1>6. AvailableIdsDiffer'
  BY <1>2, <1>5 DEF PhasedInv, AvailableIdsDiffer, SlotId
<1> QED
  BY <1>1, <1>3, <1>4, <1>6 DEF PhasedInv

LEMMA GetInitKeeps ==
    ASSUME PhasedInv, NEW t \in Threads, GetInit(t)
    PROVE  PhasedInv'
<1> USE DEF GetInit, Goto
<1>1. t \in Getting /\ ptr[t] \in Slots /\ ids[ptr[t]] = None
  BY DEF PhasedInv, Getting, GetsOwnSlots
<1>2. TypeOK' /\ NextNotNegative' /\ UniqueIds'
  <2>1. TypeOK /\ NextNotNegative /\ UniqueIds
    BY DEF PhasedInv
  <2>2. ptr[t] + 1 \in Ids
    BY <1>1, MaxIdsAssumption
  <2>3. ids' \in [Slots -> Ids \cup {None}]
    BY <1>1, <2>1, <2>2 DEF TypeOK
  <2>4. pc' \in [Threads -> {"idle"} \cup GetPcs \cup ReleasePcs]
    BY <2>1 DEF TypeOK, GetPcs
  <2> QED
    BY <2>1, <2>3, <2>4 DEF TypeOK, NextNotNegative, UniqueIds
<1>3. Getting' = Getting /\ Releasing' = Releasing /\ Storing' = Storing
  BY DEF PhasedInv, TypeOK, Getting, Releasing, Storing
<1>4. GetsOwnSlots'
  <2>1. TypeOK /\ GetsOwnSlots
    BY DEF PhasedInv
  <2>2. \A u \in Getting : u # t => ptr[u] \in Slots /\ ptr[u] # ptr[t] /\ pc'[u] = pc[u]
    BY <1>1, <2>1 DEF GetsOwnSlots, TypeOK, Getting
  <2>3. pc'[t] = "load" /\ ids'[ptr[t]] # None
    BY <1>1, <2>1, MaxIdsAssumption DEF TypeOK
  <2>4. \A u \in Getting : u # t => ids'[ptr[u]] = ids[ptr[u]]
    BY <2>1, <2>2 DEF TypeOK
  <2> QED
    BY <1>3, <2>1, <2>2, <2>3, <2>4 DEF GetsOwnSlots
<1>5. NoOverlap' /\ ReleasesOwnSlots' /\ ReleasedIdsDiffer'
  BY <1>3 DEF PhasedInv, TypeOK, NoOverlap, ReleasesOwnSlots, ReleasedIdsDiffer
<1>6. Available' = Available
  BY <1>3 DEF Available, Pending, Claimed
<1>7. \A s \in Slots : SlotId(s)' = SlotId(s)
  BY <1>1, MaxIdsAssumption DEF PhasedInv, TypeOK, SlotId
<1>8. AvailableIdsDiffer'
  BY <1>3, <1>6, <1>7 DEF PhasedInv, AvailableIdsDiffer, Available
<1> QED
  BY <1>2, <1>4, <1>5, <1>8 DEF PhasedInv

LEMMA GetLoadKeeps ==
    ASSUME PhasedInv, NEW t \in Threads, GetLoad(t)
    PROVE  PhasedInv'
<1> USE DEF GetLoad, Goto, pool
<1> DEFINE i == ids[ptr[t]]
<1>1. t \in Getting /\ ptr[t] \in Slots /\ ptr[t] \in Available /\ i = SlotId(ptr[t])
  BY DEF PhasedInv, Getting, GetsOwnSlots, Available, Claimed, SlotId
<1>2. i \in Ids /\ held[i] = 0
  BY <1>1, SlotIdType DEF PhasedInv, AvailableIdsDiffer
<1>3. TypeOK' /\ NextNotNegative' /\ UniqueIds'
  BY <1>2 DEF PhasedInv, TypeOK, NextNotNegative, UniqueIds
<1>4. Getting' = Getting \ {t} /\ Releasing' = {} /\ Releasing = {}
      /\ Storing' = {} /\ Storing = {}
  BY <1>1 DEF PhasedInv, TypeOK, NoOverlap, Getting, Releasing, Storing
<1>5. GetsOwnSlots'
  BY <1>4 DEF PhasedInv, TypeOK, GetsOwnSlots, Getting
<1>6. NoOverlap' /\ ReleasesOwnSlots' /\ ReleasedIdsDiffer'
  BY <1>4 DEF PhasedInv, TypeOK, NoOverlap, ReleasesOwnSlots, ReleasedIdsDiffer
<1>7. Claimed' \subseteq Claimed /\ ptr[t] \notin Claimed'
  BY <1>1, <1>4 DEF PhasedInv, GetsOwnSlots, Claimed
<1>8. Available' \subseteq Available /\ ptr[t] \notin Available'
  BY <1>1, <1>4, <1>7 DEF PhasedInv, TypeOK, GetsOwnSlots, Available, Pending
<1>9. \A s \in Slots : SlotId(s)' = SlotId(s)
  BY DEF SlotId
<1>10. \A r, s \in Available' : r # s => SlotId(r)' # SlotId(s)'
  BY <1>8, <1>9 DEF PhasedInv, AvailableIdsDiffer, Available
<1>11. \A s \in Available' : held[SlotId(s)] = 0 /\ SlotId(s) # i
  BY <1>1, <1>8 DEF PhasedInv, AvailableIdsDiffer
<1>12. \A s \in Available' : held'[SlotId(s)'] = 0
  <2>1. TAKE s \in Available'
  <2>2. s \in Slots /\ SlotId(s) \in Ids
    BY <1>8, SlotIdType DEF PhasedInv, Available
  <2> QED
    BY <1>2, <1>9, <1>11, <2>2 DEF PhasedInv, TypeOK
<1>13. AvailableIdsDiffer'
  BY <1>4, <1>10, <1>12 DEF AvailableIdsDiffer
<1> QED
  BY <1>3, <1>5, <1>6, <1>13 DEF PhasedInv

LEMMA ReleaseLoadKeeps ==
    ASSUME Phased, PhasedInv, NEW t \in Threads, NEW i \in Ids, ReleaseLoad(t, i)
    PROVE  PhasedInv'
<1> USE DEF ReleaseLoad, Goto, pool
<1>1. TypeOK' /\ NextNotNegative' /\ UniqueIds'
  <2>1. held \in [Ids -> Nat] /\ held[i] - 1 \in Nat /\ next \in Int
    <3>1. held \in [Ids -> Nat] /\ next \in Int /\ held[i] > 0
      BY DEF PhasedInv, TypeOK
    <3>2. held[i] \in Nat
      BY <3>1
    <3> QED
      BY <3>1, <3>2
  <2>2. held' \in [Ids -> Nat] /\ \A j \in Ids : held'[j] <= held[j]
    BY <2>1
  <2>3. pc' \in [Threads -> {"idle"} \cup GetPcs \cup ReleasePcs]
    BY DEF PhasedInv, TypeOK
  <2>4. ptr' \in [Threads -> Int] /\ curr' \in [Threads -> Int]
    BY <2>1 DEF PhasedInv, TypeOK
  <2>5. rid' \in [Threads -> Ids \cup {None}]
    BY DEF PhasedInv, TypeOK
  <2>6. TypeOK'
    BY <2>2, <2>3, <2>4, <2>5 DEF PhasedInv, TypeOK
  <2>7. UniqueIds'
    BY <2>1, <2>2 DEF PhasedInv, UniqueIds
  <2> QED
    BY <2>6, <2>7 DEF PhasedInv, NextNotNegative
<1>2. Getting = {} /\ Getting' = {}
  BY ReleaseMeetsNoGet DEF PhasedInv, TypeOK, Getting
<1>3. Releasing' = Releasing \cup {t} /\ t \notin Releasing
  BY DEF PhasedInv, TypeOK, Releasing
<1>4. Storing' = Storing /\ t \notin Storing
  BY DEF PhasedInv, TypeOK, Storing
<1>5. held[i] = 1 /\ held'[i] = 0 /\ \A j \in Ids : j # i => held'[j] = held[j]
  BY DEF PhasedInv, TypeOK, UniqueIds
<1>6. rid'[t] = i /\ \A u \in Releasing : rid'[u] = rid[u] /\ rid[u] # i
  BY <1>3, <1>5 DEF PhasedInv, TypeOK, Releasing, ReleasedIdsDiffer
<1>7. NoOverlap' /\ GetsOwnSlots'
  BY <1>2 DEF NoOverlap, GetsOwnSlots
<1>8. ReleasesOwnSlots'
  BY <1>4 DEF PhasedInv, TypeOK, ReleasesOwnSlots, Storing
<1>9. ReleasedIdsDiffer'
  BY <1>3, <1>5, <1>6 DEF PhasedInv, ReleasedIdsDiffer
<1>10. Available' = Available
  <2>1. Pending' = Pending
    BY <1>4 DEF PhasedInv, TypeOK, Pending, Storing
  <2>2. Claimed' = {} /\ Claimed = {}
    BY <1>2 DEF Claimed
  <2> QED
    BY <2>1, <2>2 DEF Available
<1>11. \A s \in Available : SlotId(s) \in Ids /\ SlotId(s) # i /\ SlotId(s)' = SlotId(s)
  <2>1. TAKE s \in Available
  <2>2. SlotId(s) \in Ids
    BY SlotIdType DEF PhasedInv, Available
  <2>3. SlotId(s) # i
    BY <1>5 DEF PhasedInv, AvailableIdsDiffer
  <2> QED
    BY <2>2, <2>3 DEF SlotId
<1>12. AvailableIdsDiffer'
  BY <1>3, <1>5, <1>6, <1>10, <1>11 DEF PhasedInv, AvailableIdsDiffer
<1> QED
  BY <1>1, <1>7, <1>8, <1>9, <1>12 DEF PhasedInv

LEMMA ReleaseCasOkKeeps ==
    ASSUME PhasedInv, NEW t \in Threads, ReleaseCasOk(t)
    PROVE  PhasedInv'
<1> USE DEF ReleaseCasOk, Goto
<1>1. next > 0 /\ ptr[t] = next - 1 /\ next' = next - 1
  BY ReleaseFindsRoom DEF PhasedInv, ReleasesOwnSlots
<1>2. TypeOK' /\ NextNotNegative' /\ UniqueIds'
  BY <1>1 DEF PhasedInv, TypeOK, NextNotNegative, UniqueIds
<1>3. t \in Releasing /\ Releasing' = Releasing
  BY DEF PhasedInv, TypeOK, Releasing
<1>4. Getting = {} /\ Getting' = {}
  BY <1>3 DEF PhasedInv, TypeOK, NoOverlap, Getting
<1>5. Storing' = Storing \cup {t} /\ t \notin Storing
  BY DEF PhasedInv, TypeOK, Storing
<1>6. NoOverlap' /\ GetsOwnSlots'
  BY <1>4 DEF NoOverlap, GetsOwnSlots
<1>7. ReleasesOwnSlots'
  BY <1>1, <1>5 DEF PhasedInv, TypeOK, ReleasesOwnSlots, Storing
<1>8. ReleasedIdsDiffer'
  BY <1>3 DEF PhasedInv, ReleasedIdsDiffer
<1>9. Available' = Available
  <2>1. Pending' = Pending \cup {next - 1}
    BY <1>1, <1>5 DEF Pending
  <2>2. Claimed' = {} /\ Claimed = {}
    BY <1>4 DEF Claimed
  <2>3. next \in Int
    BY DEF PhasedInv, TypeOK
  <2> QED
    BY <1>1, <2>1, <2>2, <2>3, MaxIdsAssumption DEF Available
<1>10. AvailableIdsDiffer'
  BY <1>3, <1>9 DEF PhasedInv, AvailableIdsDiffer, SlotId
<1> QED
  BY <1>2, <1>6, <1>7, <1>8, <1>10 DEF PhasedInv

LEMMA ReleaseCasFailKeeps ==
    ASSUME PhasedInv, NEW t \in Threads, ReleaseCasFail(t)
    PROVE  PhasedInv'
<1> USE DEF ReleaseCasFail, pool
<1>1. TypeOK' /\ NextNotNegative' /\ UniqueIds'
  BY DEF PhasedInv, TypeOK, NextNotNegative, UniqueIds
<1>2. t \in Releasing /\ Releasing' = Releasing /\ Storing' = Storing /\ t \notin Storing
  BY DEF PhasedInv, TypeOK, Releasing, Storing
<1>3. Getting = {} /\ Getting' = {}
  BY <1>2 DEF PhasedInv, NoOverlap, Getting
<1>4. NoOverlap' /\ GetsOwnSlots' /\ ReleasedIdsDiffer'
  BY <1>2, <1>3 DEF PhasedInv, NoOverlap, GetsOwnSlots, ReleasedIdsDiffer
<1>5. ReleasesOwnSlots'
  BY <1>2 DEF PhasedInv, TypeOK, ReleasesOwnSlots
<1>6. Available' = Available
  <2>1. Pending' = Pending
    BY <1>2 DEF PhasedInv, TypeOK, Pending, Storing
  <2>2. Claimed' = {} /\ Claimed = {}
    BY <1>3 DEF Claimed
  <2> QED
    BY <2>1, <2>2 DEF Available
<1>7. AvailableIdsDiffer'
  BY <1>2, <1>6 DEF PhasedInv, AvailableIdsDiffer, SlotId
<1> QED
  BY <1>1, <1>4, <1>5, <1>7 DEF PhasedInv

LEMMA ReleaseStoreKeeps ==
    ASSUME PhasedInv, NEW t \in Threads, ReleaseStore(t)
    PROVE  PhasedInv'
<1> USE DEF ReleaseStore, Goto
<1>1. t \in Releasing /\ t \in Storing
  BY DEF Releasing, Storing
<1>2. rid[t] \in Ids /\ held[rid[t]] = 0
  BY <1>1 DEF PhasedInv, ReleasedIdsDiffer
<1>3. TypeOK' /\ NextNotNegative' /\ UniqueIds'
  BY <1>2 DEF PhasedInv, TypeOK, NextNotNegative, UniqueIds
<1>4. Releasing' = Releasing \ {t} /\ Storing' = Storing \ {t}
  BY DEF PhasedInv, TypeOK, Releasing, Storing
<1>5. Getting = {} /\ Getting' = {}
  BY <1>1 DEF PhasedInv, TypeOK, NoOverlap, Getting
<1>6. NoOverlap' /\ GetsOwnSlots'
  BY <1>5 DEF NoOverlap, GetsOwnSlots
<1>7. ReleasesOwnSlots'
  BY <1>4 DEF PhasedInv, TypeOK, ReleasesOwnSlots
<1>8. \A u \in Releasing' : u \in Releasing /\ u # t /\ rid'[u] = rid[u]
  BY <1>4 DEF PhasedInv, TypeOK, Releasing
<1>9. ReleasedIdsDiffer'
  BY <1>8 DEF PhasedInv, ReleasedIdsDiffer
<1>10. Available' \subseteq Available \cup {ptr[t]}
  <2>1. Pending \subseteq Pending' \cup {ptr[t]}
    BY <1>4 DEF Pending
  <2>2. Claimed' = {}
    BY <1>5 DEF Claimed
  <2> QED
    BY <2>1, <2>2 DEF Available
<1>11. ptr[t] \in Pending /\ ptr[t] \notin Available
  BY <1>1, <1>5 DEF Pending, Available, Claimed
<1>12. \A s \in Available' :
          \/ s \in Available /\ s # ptr[t] /\ SlotId(s)' = SlotId(s)
          \/ s = ptr[t] /\ SlotId(s)' = rid[t]
  <2>1. TAKE s \in Available'
  <2>2. s \in Slots
    BY DEF Available
  <2>3. CASE s = ptr[t]
    BY <1>2, <2>2, <2>3 DEF SlotId
  <2>4. CASE s # ptr[t]
    BY <1>10, <2>2, <2>4 DEF SlotId
  <2> QED
    BY <2>3, <2>4
<1>13. \A s \in Available : held[SlotId(s)] = 0 /\ \A u \in Releasing : rid[u] # SlotId(s)
  BY DEF PhasedInv, AvailableIdsDiffer
<1>14. \A r, s \in Available' : r # s => SlotId(r)' # SlotId(s)'
  BY <1>1, <1>12, <1>13 DEF PhasedInv, AvailableIdsDiffer
<1>15. \A s \in Available' : held'[SlotId(s)'] = 0
  BY <1>2, <1>12, <1>13
<1>16. \A s \in Available', u \in Releasing' : rid'[u] # SlotId(s)'
  BY <1>1, <1>8, <1>12, <1>13 DEF PhasedInv, ReleasedIdsDiffer
<1>17. AvailableIdsDiffer'
  BY <1>14, <1>15, <1>16 DEF AvailableIdsDiffer
<1> QED
  BY <1>3, <1>6, <1>7, <1>9, <1>17 DEF PhasedInv

-----------------------------------------------------------------------------
LEMMA NextPhased ==
    ASSUME Phased, PhasedInv, [Next]_vars
    PROVE  PhasedInv'
<1>1. CASE UNCHANGED vars
  <2>1. TypeOK' /\ NextNotNegative' /\ UniqueIds'
    BY <1>1 DEF vars, PhasedInv, TypeOK, NextNotNegative, UniqueIds
  <2>2. Getting' = Getting /\ Releasing' = Releasing /\ Storing' = Storing
    BY <1>1 DEF vars, Getting, Releasing, Storing
  <2>3. NoOverlap' /\ GetsOwnSlots' /\ ReleasesOwnSlots' /\ ReleasedIdsDiffer'
    BY <1>1, <2>2 DEF vars, PhasedInv, NoOverlap, GetsOwnSlots, ReleasesOwnSlots,
                     ReleasedIdsDiffer
  <2>4. Available' = Available
    BY <1>1, <2>2 DEF vars, Available, Pending, Claimed
  <2>5. AvailableIdsDiffer'
    BY <1>1, <2>2, <2>4 DEF vars, PhasedInv, AvailableIdsDiffer, SlotId
  <2> QED
    BY <2>1, <2>3, <2>5 DEF PhasedInv
<1>2. ASSUME NEW t \in Threads, Get(t) PROVE PhasedInv'
  BY <1>2, GetClaimKeeps, GetNoneKeeps, GetTestKeeps, GetInitKeeps, GetLoadKeeps DEF Get
<1>3. ASSUME NEW t \in Threads, Release(t) PROVE PhasedInv'
  BY <1>3, ReleaseLoadKeeps, ReleaseCasOkKeeps, ReleaseCasFailKeeps, ReleaseStoreKeeps
     DEF Release, ReleaseStep
<1> QED
  BY <1>1, <1>2, <1>3 DEF Next

(* When gets and releases do not overlap, PhasedInv holds throughout.      *)
THEOREM PhasedInvariant ==
    ASSUME Phased
    PROVE  Spec => []PhasedInv
<1>1. Init => PhasedInv
  BY InitPhased
<1>2. PhasedInv /\ [Next]_vars => PhasedInv'
  BY NextPhased
<1> QED
  BY <1>1, <1>2, PTL DEF Spec

(* No id is ever handed to two callers, however many gets fail, if gets    *)
(* and releases (id_pool.c) do not overlap.                                *)
THEOREM IdsAreUnique ==
    ASSUME Phased
    PROVE  Spec => []UniqueIds
<1>1. PhasedInv => UniqueIds
  BY DEF PhasedInv
<1> QED
  BY <1>1, PhasedInvariant, PTL

(* The plain accesses to the slots in id_pool_get and id_pool_release do   *)
(* not race when gets and releases do not overlap.                         *)
THEOREM SlotsAreNotShared ==
    ASSUME Phased
    PROVE  Spec => []SlotsNotShared
<1>1. PhasedInv => SlotsNotShared
  <2>1. SUFFICES ASSUME PhasedInv,
                        NEW t \in Threads, NEW u \in Threads, t # u,
                        {t, u} \subseteq Getting \cup Storing
                 PROVE  ptr[t] # ptr[u]
    BY DEF SlotsNotShared
  <2>2. Storing \subseteq Releasing
    BY DEF Storing, Releasing
  <2>3. CASE Getting = {}
    BY <2>1, <2>3 DEF PhasedInv, ReleasesOwnSlots
  <2>4. CASE Releasing = {}
    BY <2>1, <2>2, <2>4 DEF PhasedInv, GetsOwnSlots
  <2> QED
    BY <2>1, <2>3, <2>4 DEF PhasedInv, NoOverlap
<1> QED
  BY <1>1, PhasedInvariant, PTL

-----------------------------------------------------------------------------
(* Until a get finds the pool exhausted, next stays on the stack, and a    *)
(* release uncovers a slot of it.                                          *)
NextOnStack == failed = 0 => next <= MaxIds /\ \A t \in Storing : ptr[t] \in Slots

LEMMA NextStaysOnStack == Spec => []NextOnStack
<1>1. CountInv => NextOnStack
  BY MaxIdsAssumption DEF CountInv, TypeOK, NextOnStack
<1> QED
  BY <1>1, CountInvariant, PTL

(* Where an id is: in a slot, with a caller, or on its way back. *)
Somewhere(i) == IsAvailable(i) \/ held[i] > 0 \/ \E t \in Releasing : rid[t] = i

(* A step moves an id to the next place, if it moves it at all. *)
LEMMA NoIdLostStep ==
    ASSUME Phased, PhasedInv, NextOnStack, NoIdLost, [Next]_vars
    PROVE  NoIdLost'
<1> USE MaxIdsAssumption
<1>1. TypeOK /\ next >= 0
  BY DEF PhasedInv, NextNotNegative
<1>2. SUFFICES ASSUME failed' = 0, NEW i \in Ids PROVE Somewhere(i)'
  BY DEF NoIdLost, Somewhere, IsAvailable
<1>3. CASE UNCHANGED vars
  <2>1. failed = 0
    BY <1>2, <1>3 DEF vars
  <2> QED
    BY <1>3, <2>1 DEF vars, NoIdLost, Somewhere, IsAvailable, Available, Pending, Claimed, Storing,
                      Getting, Releasing, SlotId
<1>4. ASSUME NEW t \in Threads, Get(t) \/ Release(t) PROVE failed = 0 /\ ~GetNone(t)
  BY <1>1, <1>2, <1>4 DEF TypeOK, Get, Release, ReleaseStep, GetClaim, GetNone, GetTest, GetInit,
                          GetLoad, ReleaseLoad, ReleaseCasOk, ReleaseCasFail, ReleaseStore
<1>5. ASSUME failed = 0 PROVE Somewhere(i)
  BY <1>5 DEF NoIdLost, Somewhere, IsAvailable
(* Gets *)
<1>6. ASSUME NEW t \in Threads, GetClaim(t) PROVE Somewhere(i)'
  <2>1. Releasing = {} /\ Storing = {} /\ Releasing' = {} /\ Storing' = {}
    BY <1>1, <1>6, GetMeetsNoRelease DEF GetClaim, Goto, Releasing, Storing, TypeOK
  <2>2. Getting' = Getting \cup {t} /\ t \notin Getting
    BY <1>1, <1>6 DEF GetClaim, Goto, Getting, TypeOK
  <2>3. Claimed \cup {next} \subseteq Claimed'
    BY <1>1, <1>6, <2>2 DEF GetClaim, Claimed, TypeOK
  <2>4. Available \subseteq Available'
    BY <1>1, <1>6, <2>1, <2>3 DEF GetClaim, Available, Pending, TypeOK
  <2> QED
    BY <1>4, <1>5, <1>6, <2>1, <2>4 DEF GetClaim, Get, Somewhere, IsAvailable, SlotId, Available
<1>7. ASSUME NEW t \in Threads, GetTest(t) \/ GetInit(t) PROVE Somewhere(i)'
  <2>1. Getting' = Getting /\ Releasing' = Releasing /\ Storing' = Storing
    BY <1>1, <1>7 DEF GetTest, GetInit, Goto, Getting, Releasing, Storing, TypeOK
  <2>2. Available' = Available
    BY <1>7, <2>1 DEF GetTest, GetInit, pool, Available, Pending, Claimed
  <2>3. \A s \in Slots : SlotId(s)' = SlotId(s)
    <3>1. CASE GetTest(t)
      BY <3>1 DEF GetTest, pool, SlotId
    <3>2. CASE GetInit(t)
      <4>1. ptr[t] \in Slots /\ ids[ptr[t]] = None
        BY <3>2 DEF GetInit, PhasedInv, GetsOwnSlots, Getting
      <4> QED
        BY <1>1, <3>2, <4>1 DEF GetInit, SlotId, TypeOK
    <3> QED
      BY <1>7, <3>1, <3>2
  <2> QED
    BY <1>4, <1>5, <1>7, <2>1, <2>2, <2>3
       DEF GetTest, GetInit, Get, pool, Somewhere, IsAvailable, Available
<1>8. ASSUME NEW t \in Threads, GetLoad(t) PROVE Somewhere(i)'
  <2>1. /\ t \in Getting /\ ptr[t] \in Slots
        /\ SlotId(ptr[t]) = ids[ptr[t]] /\ ids[ptr[t]] \in Ids
    BY <1>1, <1>8 DEF GetLoad, Getting, PhasedInv, GetsOwnSlots, SlotId, TypeOK
  <2>2. Releasing = {} /\ Storing = {} /\ Releasing' = {} /\ Storing' = {}
    BY <1>1, <1>8, <2>1 DEF GetLoad, Goto, PhasedInv, NoOverlap, Releasing, Storing, TypeOK
  <2>3. Getting' = Getting \ {t}
    BY <1>1, <1>8 DEF GetLoad, Goto, Getting, TypeOK
  <2>4. Claimed \ {ptr[t]} \subseteq Claimed'
    BY <1>8, <2>3 DEF GetLoad, Claimed
  <2>5. Available \ {ptr[t]} \subseteq Available'
    BY <1>8, <2>2, <2>4 DEF GetLoad, pool, Available, Pending
  <2>6. /\ held'[ids[ptr[t]]] = held[ids[ptr[t]]] + 1
        /\ held'[i] \in Nat /\ held[i] \in Nat /\ held'[i] >= held[i]
        /\ held[ids[ptr[t]]] \in Nat
    BY <1>1, <1>8, <2>1 DEF GetLoad, TypeOK
  <2>7. \A s \in Slots : SlotId(s)' = SlotId(s)
    BY <1>8 DEF GetLoad, pool, SlotId
  <2>8. CASE i = SlotId(ptr[t])
    BY <2>1, <2>6, <2>8 DEF Somewhere
  <2>9. CASE i # SlotId(ptr[t])
    <3>1. IsAvailable(i) \/ held[i] > 0
      BY <1>4, <1>5, <1>8, <2>2 DEF Get, Somewhere
    <3>2. CASE held[i] > 0
      <4>1. held'[i] > 0
        BY <2>6, <3>2
      <4> QED
        BY <4>1 DEF Somewhere
    <3>3. CASE IsAvailable(i)
      BY <2>5, <2>7, <2>9, <3>3 DEF Somewhere, IsAvailable, Available
    <3> QED
      BY <3>1, <3>2, <3>3
  <2> QED
    BY <2>8, <2>9
(* Releases *)
<1>9. ASSUME NEW t \in Threads, NEW j \in Ids, ReleaseLoad(t, j) PROVE Somewhere(i)'
  <2>1. Getting = {} /\ Getting' = {} /\ Storing' = Storing /\ t \notin Releasing
    BY <1>1, <1>9, ReleaseMeetsNoGet DEF ReleaseLoad, Goto, Getting, Storing, Releasing, TypeOK
  <2>2. Releasing' = Releasing \cup {t} /\ rid'[t] = j /\ \A u \in Releasing : rid'[u] = rid[u]
    BY <1>1, <1>9, <2>1 DEF ReleaseLoad, Goto, Releasing, TypeOK
  <2>3. Available' = Available
    <3>1. Pending' = Pending
      BY <1>1, <1>9, <2>1 DEF ReleaseLoad, Pending, Storing, TypeOK
    <3> QED
      BY <1>9, <2>1, <3>1 DEF ReleaseLoad, pool, Available, Claimed
  <2>4. \A s \in Slots : SlotId(s)' = SlotId(s)
    BY <1>9 DEF ReleaseLoad, pool, SlotId
  <2>5. i # j => held'[i] = held[i]
    BY <1>1, <1>9 DEF ReleaseLoad, TypeOK
  <2> QED
    BY <1>4, <1>5, <1>9, <2>2, <2>3, <2>4, <2>5 DEF Release, Somewhere, IsAvailable, Available
<1>10. ASSUME NEW t \in Threads, ReleaseCasOk(t) PROVE Somewhere(i)'
  <2>1. next > 0 /\ ptr[t] = next - 1 /\ next' = next - 1
    BY <1>10, ReleaseFindsRoom DEF ReleaseCasOk, PhasedInv, ReleasesOwnSlots
  <2>2. t \in Releasing /\ Releasing' = Releasing /\ Storing' = Storing \cup {t}
    BY <1>1, <1>10 DEF ReleaseCasOk, Goto, Releasing, Storing, TypeOK
  <2>3. Getting = {} /\ Getting' = {}
    BY <1>1, <1>10, <2>2 DEF ReleaseCasOk, Goto, PhasedInv, NoOverlap, Getting, TypeOK
  <2>4. Pending' = Pending \cup {next - 1}
    BY <1>10, <2>1, <2>2 DEF ReleaseCasOk, Pending
  <2>5. Available' = Available
    <3>1. Claimed = {} /\ Claimed' = {}
      BY <2>3 DEF Claimed
    <3>2. next \in Int
      BY <1>1 DEF TypeOK
    <3> QED
      BY <2>1, <2>4, <3>1, <3>2 DEF Available
  <2> QED
    BY <1>4, <1>5, <1>10, <2>2, <2>5
       DEF ReleaseCasOk, Release, ReleaseStep, Somewhere, IsAvailable, SlotId
<1>11. ASSUME NEW t \in Threads, ReleaseCasFail(t) PROVE Somewhere(i)'
  <2>1. t \in Releasing /\ Releasing' = Releasing /\ Storing' = Storing /\ t \notin Storing
    BY <1>11 DEF ReleaseCasFail, Releasing, Storing
  <2>2. Getting = {} /\ Getting' = {}
    BY <1>11, <2>1 DEF ReleaseCasFail, PhasedInv, NoOverlap, Getting
  <2>3. Pending' = Pending
    BY <1>1, <1>11, <2>1 DEF ReleaseCasFail, Pending, Storing, TypeOK
  <2>4. Available' = Available
    BY <1>11, <2>2, <2>3 DEF ReleaseCasFail, pool, Available, Claimed
  <2> QED
    BY <1>4, <1>5, <1>11, <2>1, <2>4
       DEF ReleaseCasFail, pool, Release, ReleaseStep, Somewhere, IsAvailable, SlotId
<1>12. ASSUME NEW t \in Threads, ReleaseStore(t) PROVE Somewhere(i)'
  <2>1. failed = 0 /\ t \in Storing /\ t \in Releasing
    BY <1>4, <1>12 DEF ReleaseStore, Release, ReleaseStep, Storing, Releasing
  <2>2. ptr[t] \in Slots /\ ptr[t] >= next /\ rid[t] \in Ids
    BY <2>1 DEF NextOnStack, PhasedInv, ReleasesOwnSlots, ReleasedIdsDiffer
  <2>3. /\ Getting = {} /\ Getting' = {}
        /\ Releasing' = Releasing \ {t} /\ Storing' = Storing \ {t}
    BY <1>1, <1>12, <2>1
       DEF ReleaseStore, Goto, PhasedInv, NoOverlap, Getting, Releasing, Storing, TypeOK
  <2>4. ptr[t] \in Pending /\ Pending' = Pending \ {ptr[t]}
    BY <1>12, <2>1, <2>3 DEF ReleaseStore, PhasedInv, ReleasesOwnSlots, Pending
  <2>5. Available' = Available \cup {ptr[t]} /\ ptr[t] \notin Available
    BY <1>12, <2>2, <2>3, <2>4 DEF ReleaseStore, Available, Claimed
  <2>6. /\ UNCHANGED ptr
        /\ SlotId(ptr[t])' = rid[t]
        /\ \A s \in Slots \ {ptr[t]} : SlotId(s)' = SlotId(s)
    BY <1>12, <2>2 DEF ReleaseStore, SlotId
  <2>7. UNCHANGED held /\ \A u \in Releasing \ {t} : rid'[u] = rid[u]
    BY <1>1, <1>12 DEF ReleaseStore, Releasing, TypeOK
  <2>8. CASE i = rid[t]
    <3>1. ptr'[t] \in Available' /\ SlotId(ptr[t])' = i
      BY <2>5, <2>6, <2>8
    <3> QED
      BY <3>1 DEF Somewhere, IsAvailable
  <2>9. CASE i # rid[t]
    <3>1. CASE IsAvailable(i)
      BY <2>5, <2>6, <3>1 DEF Somewhere, IsAvailable, Available
    <3>2. CASE held[i] > 0
      BY <2>7, <3>2 DEF Somewhere
    <3>3. CASE \E u \in Releasing : rid[u] = i
      BY <2>3, <2>7, <2>9, <3>3 DEF Somewhere
    <3> QED
      BY <1>5, <2>1, <3>1, <3>2, <3>3 DEF Somewhere
  <2> QED
    BY <2>8, <2>9
<1> QED
  BY <1>3, <1>4, <1>6, <1>7, <1>8, <1>9, <1>10, <1>11, <1>12 DEF Next, Get, Release, ReleaseStep

(* Until a get finds the pool exhausted no id is lost.                     *)
THEOREM IdsAreNotLost ==
    ASSUME Phased
    PROVE  Spec => []NoIdLost
<1>1. Init => NoIdLost
  <2>1. SUFFICES ASSUME Init, NEW i \in Ids PROVE IsAvailable(i)
    BY DEF NoIdLost, IsAvailable
  <2>2. i - 1 \in Slots /\ SlotId(i - 1) = i
    BY <2>1, MaxIdsAssumption DEF Init, SlotId
  <2>3. i - 1 >= next /\ Pending = {}
    BY <2>1, MaxIdsAssumption DEF Init, Pending, Storing
  <2> QED
    BY <2>2, <2>3 DEF IsAvailable, Available
<1>2. PhasedInv /\ NextOnStack /\ NoIdLost /\ [Next]_vars => NoIdLost'
  BY NoIdLostStep
<1> QED
  BY <1>1, <1>2, PhasedInvariant, NextStaysOnStack, PTL DEF Spec

-----------------------------------------------------------------------------
(* The pool implements IdAllocator, when gets and releases do not overlap. *)

IsGranted(i) == \E t \in Getting : SlotId(ptr[t]) = i

(* The status of an id says where it is: the places exclude each other.    *)
StatusExact ==
    \A i \in Ids :
        /\ StatusOf(i) \in Abs!Status
        /\ StatusOf(i) = "held" <=> held[i] > 0
        /\ StatusOf(i) = "granted" <=> IsGranted(i)
        /\ StatusOf(i) = "free" <=> i \in FreeIds

LEMMA StatusIsExact == PhasedInv => StatusExact
<1>1. SUFFICES ASSUME PhasedInv, NEW i \in Ids
               PROVE  /\ StatusOf(i) \in Abs!Status
                      /\ StatusOf(i) = "held" <=> held[i] > 0
                      /\ StatusOf(i) = "granted" <=> IsGranted(i)
                      /\ StatusOf(i) = "free" <=> i \in FreeIds
  BY DEF StatusExact
<1>2. held[i] \in Nat
  BY <1>1 DEF PhasedInv, TypeOK
<1>3. ASSUME NEW t \in Getting, SlotId(ptr[t]) = i PROVE held[i] = 0 /\ i \notin FreeIds
  <2>1. ptr[t] \in Available /\ ptr[t] \in Claimed
    BY <1>1 DEF PhasedInv, GetsOwnSlots, Available, Claimed
  <2> QED
    BY <1>1, <1>3, <2>1 DEF PhasedInv, AvailableIdsDiffer, FreeIds
<1>4. i \in FreeIds => held[i] = 0
  BY <1>1 DEF FreeIds, PhasedInv, AvailableIdsDiffer
<1> QED
  BY <1>2, <1>3, <1>4 DEF StatusOf, IsGranted, Abs!Status

(* An id that is where it was has the status it had. *)
LEMMA SamePlace ==
    ASSUME StatusExact, StatusExact', NEW i \in Ids,
           held'[i] > 0 <=> held[i] > 0, IsGranted(i)' <=> IsGranted(i),
           (i \in FreeIds)' <=> i \in FreeIds
    PROVE  StatusOf(i)' = StatusOf(i)
BY DEF StatusExact, Abs!Status

(* A step that changes the status of one id is a step of IdAllocator. *)
LEMMA StatusMoves ==
    ASSUME NEW i \in Ids, NEW from, NEW to, StatusOf(i) = from, StatusOf(i)' = to,
           \A j \in Ids \ {i} : StatusOf(j)' = StatusOf(j)
    PROVE  Abs!Move(i, from, to)
BY DEF Abs!Move

(* A step after which every id is where it was stutters. *)
LEMMA StatusStays ==
    ASSUME StatusExact, StatusExact', UNCHANGED <<held, failed>>,
           \A i \in Ids : IsGranted(i)' <=> IsGranted(i),
           \A i \in Ids : (i \in FreeIds)' <=> i \in FreeIds
    PROVE  UNCHANGED Abs!vars
<1>1. \A i \in Ids : held'[i] > 0 <=> held[i] > 0
  OBVIOUS
<1>2. \A i \in Ids : StatusOf(i)' = StatusOf(i)
  BY <1>1, SamePlace
<1> QED
  BY <1>2 DEF Abs!vars

(* A get moves an id from free to granted, ... *)
LEMMA ClaimGrants ==
    ASSUME PhasedInv, StatusExact, StatusExact', NEW t \in Threads, GetClaim(t), Phased
    PROVE  Abs!Next
<1>1. TypeOK /\ next >= 0 /\ next \in Slots
  <2>1. TypeOK /\ next >= 0 /\ ~(next >= MaxIds)
    BY DEF PhasedInv, NextNotNegative, GetClaim, Exhausted
  <2>2. next \in Int
    BY <2>1 DEF TypeOK
  <2> QED
    BY <2>1, <2>2, MaxIdsAssumption
<1>2. Releasing = {} /\ Storing = {} /\ Releasing' = {} /\ Storing' = {}
  BY <1>1, GetMeetsNoRelease DEF GetClaim, Goto, Releasing, Storing, TypeOK
<1>3. /\ Getting' = Getting \cup {t} /\ t \notin Getting
      /\ ptr'[t] = next /\ \A u \in Getting : ptr'[u] = ptr[u]
  BY <1>1 DEF GetClaim, Goto, Getting, TypeOK
<1>4. \A u \in Getting : ptr[u] \in Slots /\ ptr[u] < next
  BY DEF PhasedInv, GetsOwnSlots
<1>5. \A s \in Slots : SlotId(s)' = SlotId(s)
  BY DEF GetClaim, SlotId
<1>6. next \notin Claimed /\ Claimed' = Claimed \cup {next}
  BY <1>1, <1>3, <1>4 DEF Claimed
<1>7. next \in Available /\ Available' = Available
  BY <1>1, <1>2, <1>6 DEF GetClaim, Available, Pending
<1>8. PICK i \in Ids : i = SlotId(next) /\ i \in FreeIds
  BY <1>1, <1>6, <1>7, SlotIdType DEF FreeIds
<1>9. \A j \in Ids : IsGranted(j)' <=> IsGranted(j) \/ j = i
  <2>1. \A u \in Getting : SlotId(ptr[u])' = SlotId(ptr[u])
    BY <1>3, <1>4, <1>5 DEF SlotId, GetClaim
  <2>2. SlotId(ptr[t])' = i
    BY <1>3, <1>8 DEF SlotId, GetClaim
  <2> QED
    BY <1>3, <2>1, <2>2 DEF IsGranted
<1>10. \A j \in Ids \ {i} : (j \in FreeIds)' <=> j \in FreeIds
  BY <1>5, <1>6, <1>7, <1>8 DEF FreeIds, Available
<1>11. UNCHANGED held /\ UNCHANGED failed
  BY DEF GetClaim
<1>12. \A j \in Ids \ {i} : StatusOf(j)' = StatusOf(j)
  BY <1>9, <1>10, <1>11, SamePlace
<1>13. StatusOf(i) = "free" /\ StatusOf(i)' = "granted"
  BY <1>8, <1>9 DEF StatusExact
<1>14. Abs!Move(i, "free", "granted")
  BY <1>8, <1>12, <1>13, StatusMoves
<1> QED
  BY <1>8, <1>11, <1>14 DEF Abs!Next, Abs!Grant

(* ... or is refused, when no id is free, ... *)
LEMMA NoneRefuses ==
    ASSUME PhasedInv, StatusExact, StatusExact', NEW t \in Threads, GetNone(t), Phased
    PROVE  Abs!Next
<1>1. /\ next >= MaxIds /\ next \in Int /\ next' = next + 1 /\ failed' = failed + 1
      /\ UNCHANGED <<ids, pc, ptr, rid, held>>
  BY DEF GetNone, Exhausted, PhasedInv, TypeOK
<1>2. \A s \in Slots : ~(s >= next) /\ ~(s >= next')
  BY <1>1, MaxIdsAssumption
<1>3. FreeIds = {} /\ FreeIds' = {}
  <2>1. Available \subseteq Claimed /\ Available' \subseteq Claimed'
    BY <1>2 DEF Available
  <2> QED
    BY <2>1 DEF FreeIds
<1>4. \A i \in Ids : IsGranted(i)' <=> IsGranted(i)
  BY <1>1 DEF IsGranted, Getting, SlotId
<1>5. \A i \in Ids : StatusOf(i)' = StatusOf(i)
  BY <1>1, <1>3, <1>4, SamePlace
<1>6. \A i \in Ids : StatusOf(i) # "free"
  BY <1>3 DEF StatusExact
<1> QED
  BY <1>1, <1>5, <1>6 DEF Abs!Next, Abs!Refuse, Abs!Free

(* ... and works on the slot, which still stands for the same id, ... *)
LEMMA TestStutters ==
    ASSUME PhasedInv, StatusExact, StatusExact', NEW t \in Threads, GetTest(t) \/ GetInit(t)
    PROVE  UNCHANGED Abs!vars
<1>1. TypeOK
  BY DEF PhasedInv
<1>2. UNCHANGED <<next, ptr, held, failed>>
  BY DEF GetTest, GetInit, pool
<1>3. Getting' = Getting /\ Releasing' = Releasing /\ Storing' = Storing
  BY <1>1 DEF GetTest, GetInit, Goto, Getting, Releasing, Storing, TypeOK
<1>4. \A s \in Slots : SlotId(s)' = SlotId(s)
  <2>1. CASE GetTest(t)
    BY <2>1 DEF GetTest, pool, SlotId
  <2>2. CASE GetInit(t)
    <3>1. ptr[t] \in Slots /\ ids[ptr[t]] = None
      BY <2>2 DEF GetInit, PhasedInv, GetsOwnSlots, Getting
    <3> QED
      BY <1>1, <2>2, <3>1, MaxIdsAssumption DEF GetInit, SlotId, TypeOK
  <2> QED
    BY <2>1, <2>2
<1>5. Available' = Available /\ Claimed' = Claimed
  BY <1>2, <1>3 DEF Available, Pending, Claimed
<1>6. \A u \in Getting : ptr[u] \in Slots
  BY DEF PhasedInv, GetsOwnSlots
<1>7. \A i \in Ids : IsGranted(i)' <=> IsGranted(i)
  <2>1. \A u \in Getting : SlotId(ptr[u])' = SlotId(ptr[u])
    BY <1>2, <1>4, <1>6 DEF SlotId
  <2> QED
    BY <1>3, <2>1 DEF IsGranted
<1>8. \A i \in Ids : (i \in FreeIds)' <=> i \in FreeIds
  BY <1>4, <1>5 DEF FreeIds, Available
<1> QED
  BY <1>2, <1>7, <1>8, StatusStays

(* ... until its caller has it. *)
LEMMA LoadDelivers ==
    ASSUME PhasedInv, StatusExact, StatusExact', NEW t \in Threads, GetLoad(t)
    PROVE  Abs!Next
<1>1. TypeOK
  BY DEF PhasedInv
<1>2. /\ t \in Getting /\ ptr[t] \in Slots /\ ids[ptr[t]] # None
      /\ UNCHANGED <<next, ids, ptr, failed>>
  BY DEF GetLoad, pool, Getting, PhasedInv, GetsOwnSlots
<1>3. PICK i \in Ids : i = ids[ptr[t]] /\ i = SlotId(ptr[t]) /\ IsGranted(i)
  BY <1>1, <1>2 DEF SlotId, IsGranted, TypeOK
<1>4. Getting' = Getting \ {t}
  BY <1>1 DEF GetLoad, Goto, Getting, TypeOK
<1>5. Releasing = {} /\ Storing = {} /\ Storing' = {}
  BY <1>1, <1>2 DEF GetLoad, Goto, PhasedInv, NoOverlap, Releasing, Storing, TypeOK
<1>6. \A s \in Slots : SlotId(s)' = SlotId(s)
  BY <1>2 DEF SlotId
<1>7. Available' \ Claimed' = Available \ Claimed
  <2>1. ptr[t] < next /\ next \in Int
    BY <1>1, <1>2 DEF PhasedInv, GetsOwnSlots, TypeOK
  <2>2. Claimed = Claimed' \cup {ptr[t]}
    BY <1>2, <1>4 DEF Claimed
  <2> QED
    BY <1>2, <1>5, <2>1, <2>2 DEF Available, Pending
<1>8. \A j \in Ids : (j \in FreeIds)' <=> j \in FreeIds
  BY <1>6, <1>7 DEF FreeIds, Available
<1>9. StatusOf(i) = "granted" /\ held[i] = 0
  BY <1>1, <1>3 DEF StatusExact, TypeOK
<1>10. held'[i] = 1 /\ \A j \in Ids \ {i} : held'[j] = held[j]
  BY <1>1, <1>3, <1>9 DEF GetLoad, TypeOK
<1>11. \A j \in Ids \ {i} : IsGranted(j)' <=> IsGranted(j)
  BY <1>2, <1>3, <1>4 DEF IsGranted, SlotId
<1>12. \A j \in Ids \ {i} : StatusOf(j)' = StatusOf(j)
  BY <1>8, <1>10, <1>11, SamePlace
<1>13. StatusOf(i)' = "held"
  BY <1>10 DEF StatusExact
<1>14. Abs!Move(i, "granted", "held")
  BY <1>9, <1>12, <1>13, StatusMoves
<1> QED
  BY <1>2, <1>14 DEF Abs!Next, Abs!Deliver

(* The call of release takes the id back from its holder, ... *)
LEMMA CallGivesBack ==
    ASSUME PhasedInv, PhasedInv', StatusExact, StatusExact', NEW t \in Threads, NEW i \in Ids,
           ReleaseLoad(t, i), Phased
    PROVE  Abs!Next
<1>1. TypeOK /\ UNCHANGED <<next, ids, failed>>
  BY DEF PhasedInv, ReleaseLoad, pool
<1>2. Getting = {} /\ Getting' = {} /\ Storing' = Storing /\ t \notin Storing
  BY <1>1, ReleaseMeetsNoGet DEF ReleaseLoad, Goto, Getting, Storing, TypeOK
<1>3. t \in Releasing' /\ rid'[t] = i
  BY <1>1 DEF ReleaseLoad, Goto, Releasing, TypeOK
<1>4. held[i] = 1 /\ held'[i] = 0 /\ \A j \in Ids \ {i} : held'[j] = held[j]
  <2>1. held \in [Ids -> Nat] /\ held[i] > 0 /\ held[i] <= 1
    BY <1>1 DEF ReleaseLoad, PhasedInv, UniqueIds, TypeOK
  <2>2. held' = [held EXCEPT ![i] = @ - 1]
    BY DEF ReleaseLoad
  <2> QED
    BY <2>1, <2>2
<1>5. \A j \in Ids : (j \in FreeIds)' <=> j \in FreeIds
  <2>1. Pending' = Pending
    BY <1>1, <1>2 DEF ReleaseLoad, Pending, Storing, TypeOK
  <2>2. Claimed' = {} /\ Claimed = {}
    BY <1>2 DEF Claimed
  <2>3. \A s \in Slots : SlotId(s)' = SlotId(s)
    BY <1>1 DEF SlotId
  <2> QED
    BY <1>1, <2>1, <2>2, <2>3 DEF FreeIds, Available
<1>6. \A j \in Ids : ~IsGranted(j) /\ ~IsGranted(j)'
  BY <1>2 DEF IsGranted
<1>7. StatusOf(i) = "held"
  BY <1>4 DEF StatusExact
<1>8. StatusOf(i)' = "returned"
  <2>1. StatusOf(i) # "free"
    BY <1>7
  <2> QED
    BY <1>4, <1>5, <1>6, <2>1 DEF StatusExact, Abs!Status
<1>9. \A j \in Ids \ {i} : StatusOf(j)' = StatusOf(j)
  BY <1>4, <1>5, <1>6, SamePlace
<1>10. Abs!Move(i, "held", "returned")
  BY <1>7, <1>8, <1>9, StatusMoves
<1> QED
  BY <1>1, <1>10 DEF Abs!Next, Abs!GiveBack

(* ... the exchange, tried once or often, changes nothing to be seen, ... *)
LEMMA CasStutters ==
    ASSUME PhasedInv, StatusExact, StatusExact', NEW t \in Threads,
           ReleaseCasOk(t) \/ ReleaseCasFail(t)
    PROVE  UNCHANGED Abs!vars
<1>1. TypeOK /\ UNCHANGED <<ids, held, failed>>
  BY DEF PhasedInv, ReleaseCasOk, ReleaseCasFail, pool
<1>2. t \in Releasing /\ t \notin Storing /\ Releasing' = Releasing
  BY <1>1 DEF ReleaseCasOk, ReleaseCasFail, Goto, Releasing, Storing, TypeOK
<1>3. Getting = {} /\ Getting' = {}
  BY <1>1, <1>2 DEF ReleaseCasOk, ReleaseCasFail, Goto, PhasedInv, NoOverlap, Getting, TypeOK
<1>4. Available' = Available
  <2>1. Claimed' = {} /\ Claimed = {}
    BY <1>3 DEF Claimed
  <2>2. CASE ReleaseCasOk(t)
    <3>1. next > 0 /\ ptr[t] = next - 1 /\ next' = next - 1
      BY <2>2, ReleaseFindsRoom DEF ReleaseCasOk, PhasedInv, ReleasesOwnSlots
    <3>2. Storing' = Storing \cup {t} /\ UNCHANGED ptr
      BY <1>1, <2>2 DEF ReleaseCasOk, Goto, Storing, TypeOK
    <3>3. Pending' = Pending \cup {next - 1}
      BY <3>1, <3>2 DEF Pending
    <3> QED
      BY <1>1, <2>1, <3>1, <3>3 DEF Available, TypeOK
  <2>3. CASE ReleaseCasFail(t)
    <3>1. Storing' = Storing /\ UNCHANGED next /\ \A u \in Storing : ptr'[u] = ptr[u]
      BY <1>1, <1>2, <2>3 DEF ReleaseCasFail, pool, Storing, TypeOK
    <3>2. Pending' = Pending
      BY <3>1 DEF Pending
    <3> QED
      BY <2>1, <3>1, <3>2 DEF Available
  <2> QED
    BY <2>2, <2>3
<1>5. \A i \in Ids : IsGranted(i)' <=> IsGranted(i)
  BY <1>3 DEF IsGranted
<1>6. \A i \in Ids : (i \in FreeIds)' <=> i \in FreeIds
  <2>1. \A s \in Slots : SlotId(s)' = SlotId(s)
    BY <1>1 DEF SlotId
  <2> QED
    BY <1>3, <1>4, <2>1 DEF FreeIds, Claimed, Available
<1> QED
  BY <1>1, <1>5, <1>6, StatusStays

(* ... and the store makes the id free.  A store above the array, after    *)
(* gets that found the pool exhausted, stutters: the id is lost.           *)
LEMMA StoreReclaims ==
    ASSUME PhasedInv, StatusExact, StatusExact', NEW t \in Threads, ReleaseStore(t)
    PROVE  [Abs!Next]_Abs!vars
<1>1. TypeOK /\ UNCHANGED <<next, ptr, held, failed>>
  BY DEF PhasedInv, ReleaseStore
<1>2. t \in Storing /\ t \in Releasing
  BY DEF ReleaseStore, Storing, Releasing
<1>3. PICK i \in Ids : i = rid[t] /\ held[i] = 0
  BY <1>2 DEF PhasedInv, ReleasedIdsDiffer
<1>4. /\ Getting = {} /\ Getting' = {} /\ Claimed = {} /\ Claimed' = {}
      /\ Storing' = Storing \ {t}
  BY <1>1, <1>2 DEF ReleaseStore, Goto, PhasedInv, NoOverlap, Getting, Claimed, Storing, TypeOK
<1>5. \A j \in Ids : ~IsGranted(j) /\ ~IsGranted(j)'
  BY <1>4 DEF IsGranted
<1>6. ptr[t] \in Pending /\ Pending' = Pending \ {ptr[t]} /\ ptr[t] >= next
  BY <1>1, <1>2, <1>4 DEF PhasedInv, ReleasesOwnSlots, Pending
<1>7. CASE ptr[t] \notin Slots
  <2>1. Available' = Available
    BY <1>1, <1>4, <1>6, <1>7 DEF Available
  <2>2. \A s \in Slots : SlotId(s)' = SlotId(s)
    BY <1>7 DEF ReleaseStore, SlotId
  <2>3. \A j \in Ids : (j \in FreeIds)' <=> j \in FreeIds
    BY <1>4, <2>1, <2>2 DEF FreeIds, Available
  <2> QED
    BY <1>1, <1>5, <2>3, StatusStays
<1>8. CASE ptr[t] \in Slots
  <2>1. Available' = Available \cup {ptr[t]} /\ ptr[t] \notin Available
    BY <1>1, <1>4, <1>6, <1>8 DEF Available
  <2>2. /\ SlotId(ptr[t])' = i
        /\ \A s \in Slots \ {ptr[t]} : SlotId(s)' = SlotId(s)
    BY <1>1, <1>3, <1>8 DEF ReleaseStore, SlotId
  <2>3. (i \in FreeIds)'
    BY <1>1, <1>4, <2>1, <2>2 DEF FreeIds
  <2>4. i \notin FreeIds
    BY <1>2, <1>3, <1>4 DEF FreeIds, PhasedInv, AvailableIdsDiffer
  <2>5. \A j \in Ids \ {i} : (j \in FreeIds)' <=> j \in FreeIds
    BY <1>1, <1>4, <2>1, <2>2 DEF FreeIds, Available
  <2>6. \A j \in Ids \ {i} : StatusOf(j)' = StatusOf(j)
    BY <1>1, <1>5, <2>5, SamePlace
  <2>7. StatusOf(i) = "returned" /\ StatusOf(i)' = "free"
    BY <1>3, <1>5, <2>3, <2>4 DEF StatusExact, Abs!Status
  <2>8. Abs!Move(i, "returned", "free")
    BY <2>6, <2>7, StatusMoves
  <2> QED
    BY <1>1, <2>8 DEF Abs!Next, Abs!Reclaim
<1> QED
  BY <1>7, <1>8

(* Gets and releases (id_pool.c) take effect atomically, and a get is      *)
(* refused only when nothing is free: to its callers, the pool is the      *)
(* allocator of IdAllocator, when gets and releases do not overlap.        *)
THEOREM PoolIsAllocator ==
    ASSUME Phased
    PROVE  Spec => Implements
<1>1. ASSUME Init PROVE Abs!Init
  <2>1. \A i \in Ids : i - 1 \in Available \ Claimed /\ SlotId(i - 1) = i /\ held[i] = 0
    BY <1>1, MaxIdsAssumption DEF Init, Available, Pending, Storing, Claimed, Getting, SlotId
  <2>2. \A i \in Ids : StatusOf(i) = "free"
    BY <2>1, <1>1, InitPhased, StatusIsExact DEF StatusExact, FreeIds
  <2> QED
    BY <1>1, <2>2 DEF Abs!Init, Init
<1>2. ASSUME PhasedInv, PhasedInv', StatusExact, StatusExact', [Next]_vars
      PROVE  [Abs!Next]_Abs!vars
  <2>1. CASE UNCHANGED vars
    BY <2>1 DEF vars, Abs!vars, StatusOf, FreeIds, Available, Pending, Claimed, Storing, Getting, SlotId
  <2>2. ASSUME NEW t \in Threads, Get(t) PROVE [Abs!Next]_Abs!vars
    BY <1>2, <2>2, ClaimGrants, NoneRefuses, TestStutters, LoadDelivers DEF Get
  <2>3. ASSUME NEW t \in Threads, Release(t) PROVE [Abs!Next]_Abs!vars
    BY <1>2, <2>3, CallGivesBack, CasStutters, StoreReclaims DEF Release, ReleaseStep
  <2> QED
    BY <1>2, <2>1, <2>2, <2>3 DEF Next
<1> QED
  BY <1>1, <1>2, PhasedInvariant, StatusIsExact, PTL DEF Spec, Implements, Abs!Spec

-----------------------------------------------------------------------------
(* The pool implements AtomicIdPool. *)

(* The stack of slots from slot m on, when slot s holds c[s] *)
From(c, m) == [k \in 1 .. MaxIds - m |-> c[m + k - 1]]

Contents == [s \in Slots |-> Content(s)]

(* What a get and a release do to it, ... *)
LEMMA FromPops ==
    ASSUME NEW c \in [Slots -> Ids], NEW m \in Slots
    PROVE  /\ From(c, m) # <<>>
           /\ Head(From(c, m)) = c[m]
           /\ Tail(From(c, m)) = From(c, m + 1)
<1> USE MaxIdsAssumption
<1>1. PICK n \in Nat : n = MaxIds - m /\ n > 0
  OBVIOUS
<1>2. \A k \in 1 .. n : m + k - 1 \in Slots
  BY <1>1
<1>3. From(c, m) \in Seq(Ids) /\ Len(From(c, m)) = n
  <2>1. From(c, m) \in [1 .. n -> Ids]
    BY <1>1, <1>2 DEF From
  <2> QED
    BY <2>1
<1>4. Head(From(c, m)) = c[m]
  <2>1. 1 \in 1 .. MaxIds - m /\ m + 1 - 1 = m
    BY <1>1
  <2>2. From(c, m)[1] = c[m]
    BY <2>1 DEF From
  <2> QED
    BY <1>3, <2>2
<1>5. Tail(From(c, m)) = From(c, m + 1)
  <2>1. PICK s \in Seq(Ids) : s = From(c, m) /\ Len(s) = n
    BY <1>3
  <2>2. PICK r \in Seq(Ids) : r = From(c, m + 1) /\ Len(r) = n - 1
    <3>1. PICK l \in Nat : l = n - 1
      BY <1>1
    <3>2. MaxIds - (m + 1) = l /\ \A k \in 1 .. l : (m + 1) + k - 1 \in Slots
      BY <1>1, <3>1
    <3>3. From(c, m + 1) \in [1 .. l -> Ids]
      BY <3>2 DEF From
    <3>4. From(c, m + 1) \in Seq(Ids) /\ Len(From(c, m + 1)) = l
      BY <3>3
    <3> QED
      BY <3>1, <3>4
  <2>3. s # <<>> /\ Tail(s) \in Seq(Ids) /\ Len(Tail(s)) = n - 1
    BY <1>1, <2>1
  <2>4. ASSUME NEW k \in 1 .. n - 1 PROVE Tail(s)[k] = r[k]
    <3>1. PICK j \in 1 .. MaxIds - m : j = k + 1 /\ m + j - 1 = (m + 1) + k - 1
      BY <1>1
    <3>2. From(c, m)[j] = c[m + j - 1]
      BY DEF From
    <3>3. k \in 1 .. MaxIds - (m + 1)
      BY <1>1
    <3>4. From(c, m + 1)[k] = c[(m + 1) + k - 1]
      BY <3>3 DEF From
    <3>5. Tail(s)[k] = s[k + 1]
      BY <2>1, <2>3
    <3> QED
      BY <2>1, <2>2, <3>1, <3>2, <3>4, <3>5
  <2>5. Tail(s) = r
    BY <2>2, <2>3, <2>4, SeqEqual
  <2> QED
    BY <2>1, <2>2, <2>5
<1> QED
  BY <1>1, <1>3, <1>4, <1>5

LEMMA FromPushes ==
    ASSUME NEW c \in [Slots -> Ids], NEW m \in 1 .. MaxIds
    PROVE  From(c, m - 1) = <<c[m - 1]>> \o From(c, m)
<1> USE MaxIdsAssumption
<1>1. PICK n \in Nat : n = MaxIds - m
  OBVIOUS
<1>2. \A k \in 1 .. n : m + k - 1 \in Slots
  BY <1>1
<1>3. From(c, m) \in Seq(Ids) /\ Len(From(c, m)) = n
  <2>1. From(c, m) \in [1 .. n -> Ids]
    BY <1>1, <1>2 DEF From
  <2> QED
    BY <2>1
<1>4. PICK i \in Ids : i = c[m - 1]
  BY m - 1 \in Slots
<1>5. PICK s : s = From(c, m)
  OBVIOUS
<1>6. /\ <<i>> \o s \in Seq(Ids) /\ Len(<<i>> \o s) = n + 1
      /\ (<<i>> \o s)[1] = i
      /\ \A k \in 2 .. n + 1 : (<<i>> \o s)[k] = s[k - 1]
  BY <1>3, <1>4, <1>5
<1>7. \A k \in 2 .. n + 1 : s[k - 1] = c[(m - 1) + k - 1]
  <2>1. TAKE k \in 2 .. n + 1
  <2>2. k - 1 \in 1 .. MaxIds - m /\ m + (k - 1) - 1 = (m - 1) + k - 1
    BY <1>1
  <2> QED
    BY <1>5, <2>2 DEF From
<1>8. \A k \in 1 .. n + 1 : (<<i>> \o s)[k] = c[(m - 1) + k - 1]
  <2>1. TAKE k \in 1 .. n + 1
  <2>2. CASE k = 1
    BY <1>4, <1>6, <2>2
  <2>3. CASE k # 1
    BY <1>6, <1>7, <2>3
  <2> QED
    BY <2>2, <2>3
<1>9. From(c, m - 1) = [k \in 1 .. n + 1 |-> c[(m - 1) + k - 1]]
  <2>1. MaxIds - (m - 1) = n + 1
    BY <1>1
  <2> QED
    BY <2>1 DEF From
<1>10. <<i>> \o s = [k \in 1 .. n + 1 |-> (<<i>> \o s)[k]]
  BY <1>6
<1> QED
  BY <1>4, <1>5, <1>8, <1>9, <1>10

(* ... and what does nothing to it *)
LEMMA FromEmpty ==
    ASSUME NEW c, NEW m \in Int, m >= MaxIds
    PROVE  From(c, m) = <<>>
<1>1. 1 .. MaxIds - m = {}
  BY MaxIdsAssumption
<1> QED
  BY <1>1 DEF From

LEMMA FromSame ==
    ASSUME NEW c, NEW d, NEW m \in Nat, \A s \in Slots : s >= m => c[s] = d[s]
    PROVE  From(c, m) = From(d, m)
<1>1. \A k \in 1 .. MaxIds - m : m + k - 1 \in Slots /\ m + k - 1 >= m
  BY MaxIdsAssumption
<1> QED
  BY <1>1 DEF From

-----------------------------------------------------------------------------
(* The mapped state *)

ContentNow ==
    /\ \A s \in Slots : \A t \in Storing : ptr[t] = s => Content(s) = rid[t]
    /\ \A s \in Slots : s \notin Pending => Content(s) = SlotId(s)
    /\ Contents \in [Slots -> Ids]

LEMMA ContentIs == PhasedInv => ContentNow
<1> SUFFICES ASSUME PhasedInv PROVE ContentNow
  OBVIOUS
<1>1. \A t, u \in Storing : t # u => ptr[t] # ptr[u]
  BY DEF PhasedInv, ReleasesOwnSlots
<1>2. ASSUME NEW t \in Storing PROVE Content(ptr[t]) = rid[t]
  <2>1. (CHOOSE u \in Storing : ptr[u] = ptr[t]) = t
    BY <1>1
  <2> QED
    BY <2>1 DEF Content, Pending
<1>3. \A s \in Slots : s \notin Pending => Content(s) = SlotId(s)
  BY DEF Content
<1>4. ASSUME NEW s \in Slots PROVE Content(s) \in Ids
  <2>1. CASE s \in Pending
    <3>1. PICK t \in Storing : ptr[t] = s
      BY <2>1 DEF Pending
    <3>2. rid[t] \in Ids
      BY DEF PhasedInv, ReleasedIdsDiffer, Releasing, Storing
    <3> QED
      BY <1>2, <3>1, <3>2
  <2>2. CASE s \notin Pending
    BY <1>3, <2>2, SlotIdType DEF PhasedInv
  <2> QED
    BY <2>1, <2>2
<1> QED
  BY <1>2, <1>3, <1>4 DEF Contents, ContentNow

LEMMA ContentIsAfter == PhasedInv' => ContentNow'
BY ContentIs, PTL

StackNow ==
    /\ next \in Nat
    /\ Stack.free = From(Contents, next)
    /\ next <= MaxIds => Stack.over = 0
    /\ next >= MaxIds => Stack.free = <<>> /\ Stack.over = next - MaxIds

LEMMA StackIs == PhasedInv => StackNow
<1> SUFFICES ASSUME PhasedInv PROVE StackNow
  OBVIOUS
<1>1. next \in Nat
  BY DEF PhasedInv, NextNotNegative, TypeOK
<1>2. Stack.free = From(Contents, next)
  <2>1. \A k \in 1 .. MaxIds - next : next + k - 1 \in Slots
    BY <1>1, MaxIdsAssumption
  <2>2. \A k \in 1 .. MaxIds - next : Contents[next + k - 1] = Content(next + k - 1)
    BY <2>1 DEF Contents
  <2> QED
    BY <2>2 DEF Stack, From
<1>3. next >= MaxIds => Stack.free = <<>>
  BY <1>1, <1>2, FromEmpty
<1>4. Stack.over = IF next > MaxIds THEN next - MaxIds ELSE 0
  BY DEF Stack
<1> QED
  BY <1>1, <1>2, <1>3, <1>4, MaxIdsAssumption DEF StackNow

LEMMA StackIsAfter == PhasedInv' => StackNow'
BY StackIs, PTL

(* Two stacks are equal when their parts are. *)
LEMMA StackParts ==
    /\ Stack = [free |-> Stack.free, over |-> Stack.over]
    /\ Stack' = [free |-> Stack'.free, over |-> Stack'.over]
BY DEF Stack

LEMMA AtomicInit ==
    ASSUME Init
    PROVE  Atomic!Init
<1>1. PhasedInv
  BY InitPhased
<1>2. Getting = {} /\ Exchanging = {} /\ Storing = {} /\ Pending = {} /\ next = 0
  BY DEF Init, Getting, Exchanging, Storing, Pending
<1>3. IdsOut = {}
  BY <1>2 DEF IdsOut, Init
<1>4. \A s \in Slots : Content(s) = s + 1
  BY <1>1, <1>2, ContentIs DEF Init, SlotId, ContentNow
<1>5. \A k \in 1 .. MaxIds : Content(0 + k - 1) = k
  <2>1. TAKE k \in 1 .. MaxIds
  <2>2. PICK s \in Slots : s = 0 + k - 1 /\ s + 1 = k
    BY MaxIdsAssumption
  <2> QED
    BY <1>4, <2>2
<1>6. Stack = [free |-> [k \in 1 .. MaxIds |-> k], over |-> 0]
  <2>1. MaxIds - next = MaxIds /\ ~(next > MaxIds)
    BY <1>2, MaxIdsAssumption
  <2>2. [k \in 1 .. MaxIds - next |-> Content(next + k - 1)] = [k \in 1 .. MaxIds |-> k]
    BY <1>2, <1>5, <2>1
  <2> QED
    BY <2>1, <2>2 DEF Stack
<1> QED
  BY <1>3, <1>6 DEF Atomic!Init, Atomic!NewPool

(* A get takes the top at its fetch_add, ... *)
LEMMA ClaimPops ==
    ASSUME Phased, PhasedInv, PhasedInv', NEW t \in Threads, GetClaim(t)
    PROVE  Atomic!Next
<1>1. /\ TypeOK /\ pc[t] = "idle" /\ next \in Slots /\ next' = next + 1
      /\ ptr' = [ptr EXCEPT ![t] = next] /\ Goto(t, "test") /\ UNCHANGED <<ids, curr, rid, held>>
  BY MaxIdsAssumption DEF PhasedInv, NextNotNegative, TypeOK, GetClaim, Exhausted
<1>2. /\ Getting' = Getting \cup {t} /\ t \notin Getting
      /\ Releasing = {} /\ Releasing' = {}
      /\ Exchanging = {} /\ Exchanging' = {} /\ Storing = {} /\ Storing' = {}
  <2>1. Releasing = {}
    BY GetMeetsNoRelease
  <2> QED
    BY <1>1, <2>1, PlacesMove DEF Getting, Releasing, Exchanging, Storing
<1>3. Pending = {} /\ Pending' = {}
  BY <1>2 DEF Pending
<1>4. Contents' = Contents
  <2>1. \A s \in Slots : SlotId(s)' = SlotId(s)
    BY <1>1 DEF SlotId
  <2>2. \A s \in Slots : Content(s)' = SlotId(s)' /\ Content(s) = SlotId(s)
    BY <1>3 DEF Content
  <2> QED
    BY <2>1, <2>2 DEF Contents
<1>5. PICK c \in [Slots -> Ids] : c = Contents
  BY ContentIs DEF ContentNow
<1>6. /\ Stack.free = From(c, next) /\ Stack.over = 0
      /\ Stack'.free = From(c, next + 1) /\ Stack'.over = 0
  <2>1. Stack.free = From(c, next) /\ Stack.over = 0
    BY <1>1, <1>5, StackIs, MaxIdsAssumption DEF StackNow
  <2>2. Stack'.free = From(Contents', next') /\ (next' <= MaxIds => Stack'.over = 0)
    BY StackIsAfter DEF StackNow
  <2> QED
    BY <1>1, <1>4, <1>5, <2>1, <2>2, MaxIdsAssumption
<1>7. c[next] = SlotId(next) /\ c[next] # 0
  BY <1>1, <1>3, <1>5, ContentIs DEF Contents, ContentNow
<1>8. Atomic!PoolTop(Stack) = SlotId(next) /\ SlotId(next) # Atomic!NoId
  BY <1>1, <1>6, <1>7, FromPops DEF Atomic!PoolTop, Atomic!NoId
<1>9. Stack' = Atomic!PoolGet(Stack)
  <2>1. Stack.free # <<>> /\ Stack'.free = Tail(Stack.free) /\ Stack'.over = Stack.over
    BY <1>1, <1>6, FromPops
  <2> QED
    BY <2>1, StackParts DEF Atomic!PoolGet
<1>10. IdsOut' = IdsOut \cup {SlotId(next)}
  <2>1. ptr'[t] = next /\ \A u \in Getting : ptr'[u] = ptr[u]
    BY <1>1, <1>2 DEF TypeOK, Getting
  <2>2. \A s : SlotId(s)' = SlotId(s)
    BY <1>1 DEF SlotId
  <2> QED
    BY <1>1, <1>2, <2>1, <2>2 DEF IdsOut
<1> QED
  BY <1>8, <1>9, <1>10 DEF Atomic!Next, Atomic!Get

(* ... or finds the stack empty; ... *)
LEMMA NonePushesEnd ==
    ASSUME Phased, PhasedInv, PhasedInv', NEW t \in Threads, GetNone(t)
    PROVE  Atomic!Next
<1>1. /\ next >= MaxIds /\ next \in Nat /\ next' = next + 1
      /\ UNCHANGED <<ids, pc, ptr, curr, rid, held>>
  BY DEF PhasedInv, NextNotNegative, TypeOK, GetNone, Exhausted
<1>2. IdsOut' = IdsOut
  BY <1>1 DEF IdsOut, Getting, Exchanging, SlotId
<1>3. Stack.free = <<>> /\ Stack.over = next - MaxIds
  BY <1>1, StackIs DEF StackNow
<1>4. Stack'.free = <<>> /\ Stack'.over = Stack.over + 1
  <2>1. next' >= MaxIds => Stack'.free = <<>> /\ Stack'.over = next' - MaxIds
    BY StackIsAfter DEF StackNow
  <2> QED
    BY <1>1, <1>3, <2>1, MaxIdsAssumption
<1>5. Atomic!PoolTop(Stack) = Atomic!NoId
  BY <1>3 DEF Atomic!PoolTop
<1>6. Stack' = Atomic!PoolGet(Stack)
  BY <1>3, <1>4, StackParts DEF Atomic!PoolGet
<1> QED
  BY <1>2, <1>5, <1>6 DEF Atomic!Next, Atomic!GetNone

(* A step that leaves every slot at or above the top with its id changes   *)
(* nothing of the stack.                                                   *)
LEMMA StackStays ==
    ASSUME PhasedInv, PhasedInv', UNCHANGED next,
           \A s \in Slots : s >= next => Content(s)' = Content(s)
    PROVE  Stack' = Stack
<1>1. next \in Nat /\ Stack.free = From(Contents, next)
  BY StackIs DEF StackNow
<1>2. Stack'.free = From(Contents', next)
  BY StackIsAfter DEF StackNow
<1>3. PICK c : c = Contents
  OBVIOUS
<1>4. PICK d : d = Contents'
  OBVIOUS
<1>5. \A s \in Slots : s >= next => c[s] = d[s]
  BY <1>3, <1>4 DEF Contents
<1>6. From(c, next) = From(d, next)
  BY <1>1, <1>5, FromSame
<1>7. Stack'.over = Stack.over
  BY DEF Stack
<1> QED
  BY <1>1, <1>2, <1>3, <1>4, <1>6, <1>7, StackParts

(* ... the rest of the get changes nothing to be seen, ... *)
LEMMA GetRestStutters ==
    ASSUME PhasedInv, PhasedInv', NEW t \in Threads, GetTest(t) \/ GetInit(t) \/ GetLoad(t)
    PROVE  UNCHANGED Atomic!vars
<1>1. /\ TypeOK /\ t \in Getting /\ ptr[t] \in Slots /\ UNCHANGED <<next, ptr, rid>>
      /\ (pc[t] = "load" => ids[ptr[t]] # None) /\ (pc[t] = "init" => ids[ptr[t]] = None)
  BY DEF PhasedInv, GetTest, GetInit, GetLoad, pool, Getting, GetsOwnSlots
<1>2. PICK label \in {"init", "load", "idle"} :
         Goto(t, label) /\ (label = "idle" <=> GetLoad(t))
  BY DEF GetTest, GetInit, GetLoad
<1>3. \A s \in Slots : SlotId(s)' = SlotId(s)
  <2>1. CASE GetInit(t)
    BY <1>1, <2>1, MaxIdsAssumption DEF GetInit, SlotId, TypeOK
  <2>2. CASE ~GetInit(t)
    BY <2>2 DEF GetTest, GetLoad, pool, SlotId
  <2> QED
    BY <2>1, <2>2
<1>4. /\ Releasing = {} /\ Storing = {} /\ Storing' = {} /\ Exchanging = {} /\ Exchanging' = {}
      /\ Getting' = IF GetLoad(t) THEN Getting \ {t} ELSE Getting
  <2>1. Releasing = {}
    BY <1>1 DEF PhasedInv, NoOverlap
  <2> QED
    BY <1>1, <1>2, <2>1, PlacesMove DEF Releasing, Storing, Exchanging
<1>5. Stack' = Stack
  <2>1. Pending = {} /\ Pending' = {}
    BY <1>4 DEF Pending
  <2>2. \A s \in Slots : Content(s)' = Content(s)
    BY <1>3, <2>1 DEF Content
  <2> QED
    BY <1>1, <2>2, StackStays
<1>6. \A u \in Getting : ptr[u] \in Slots /\ SlotId(ptr[u])' = SlotId(ptr[u])
  BY <1>1, <1>3 DEF PhasedInv, GetsOwnSlots, SlotId
<1>7. IdsOut' = IdsOut
  <2>1. CASE ~GetLoad(t)
    <3>1. UNCHANGED held
      BY <2>1 DEF GetTest, GetInit
    <3> QED
      BY <1>1, <1>4, <1>6, <2>1, <3>1 DEF IdsOut
  <2>2. CASE GetLoad(t)
    <3>1. PICK i \in Ids : i = SlotId(ptr[t]) /\ held' = [held EXCEPT ![i] = @ + 1]
      BY <1>1, <2>2 DEF GetLoad, SlotId, TypeOK
    <3>2. held'[i] > 0 /\ \A j \in Ids \ {i} : held'[j] = held[j]
      <4>1. held \in [Ids -> Nat] /\ held[i] \in Nat
        BY <1>1 DEF TypeOK
      <4> QED
        BY <3>1, <4>1
    <3>3. {j \in Ids : held'[j] > 0} = {j \in Ids : held[j] > 0} \cup {i}
      BY <3>2
    <3>4. {SlotId(ptr[u]) : u \in Getting} = {SlotId(ptr[u])' : u \in Getting'} \cup {i}
      BY <1>1, <1>4, <1>6, <2>2, <3>1
    <3> QED
      BY <1>4, <3>3, <3>4 DEF IdsOut
  <2> QED
    BY <2>1, <2>2
<1> QED
  BY <1>5, <1>7 DEF Atomic!vars

(* ... nor does a release until its exchange succeeds, ... *)
LEMMA ReleaseStartStutters ==
    ASSUME Phased, PhasedInv, PhasedInv', NEW t \in Threads,
           ReleaseCasFail(t) \/ \E i \in Ids : ReleaseLoad(t, i)
    PROVE  UNCHANGED Atomic!vars
<1>1. TypeOK /\ UNCHANGED <<next, ids>> /\ pc[t] # "store" /\ Getting = {}
  <2>1. TypeOK /\ UNCHANGED <<next, ids>> /\ pc[t] # "store"
    BY DEF PhasedInv, ReleaseCasFail, ReleaseLoad, pool
  <2>2. Getting = {}
    <3>1. CASE ReleaseCasFail(t)
      BY <3>1 DEF ReleaseCasFail, Releasing, PhasedInv, NoOverlap
    <3>2. CASE \E i \in Ids : ReleaseLoad(t, i)
      BY <3>2, ReleaseMeetsNoGet
    <3> QED
      BY <3>1, <3>2
  <2> QED
    BY <2>1, <2>2
<1>2. Goto(t, "cas") /\ t \notin Storing
  BY <1>1 DEF ReleaseCasFail, ReleaseLoad, Goto, Storing, TypeOK
<1>3. /\ Getting' = {} /\ Storing' = Storing /\ Exchanging' = Exchanging \cup {t}
  BY <1>1, <1>2, PlacesMove
<1>4. \A u \in Threads \ {t} : ptr'[u] = ptr[u] /\ rid'[u] = rid[u]
  BY <1>1 DEF ReleaseCasFail, ReleaseLoad, TypeOK
<1>5. Stack' = Stack
  <2>1. \A u \in Storing : ptr'[u] = ptr[u] /\ rid'[u] = rid[u]
    BY <1>2, <1>4 DEF Storing
  <2>2. Pending' = Pending
    BY <1>3, <2>1 DEF Pending
  <2>3. ASSUME NEW s \in Slots PROVE Content(s)' = Content(s)
    <3>1. CASE s \in Pending
      <4>1. PICK u \in Storing : ptr[u] = s
        BY <3>1 DEF Pending
      <4>2. Content(s) = rid[u]
        BY <4>1, ContentIs DEF ContentNow
      <4>3. Content(s)' = rid'[u]
        BY <1>3, <2>1, <4>1, ContentIsAfter DEF ContentNow
      <4> QED
        BY <2>1, <4>1, <4>2, <4>3
    <3>2. CASE s \notin Pending
      BY <1>1, <2>2, <3>2 DEF Content, SlotId
    <3> QED
      BY <3>1, <3>2
  <2> QED
    BY <1>1, <2>3, StackStays
<1>6. IdsOut' = IdsOut
  <2>1. CASE ReleaseCasFail(t)
    <3>1. UNCHANGED <<held, rid>> /\ t \in Exchanging
      BY <2>1 DEF ReleaseCasFail, Exchanging
    <3> QED
      BY <1>1, <1>3, <3>1 DEF IdsOut
  <2>2. ASSUME NEW i \in Ids, ReleaseLoad(t, i) PROVE IdsOut' = IdsOut
    <3>1. held[i] = 1 /\ held'[i] = 0 /\ \A j \in Ids \ {i} : held'[j] = held[j]
      <4>1. held \in [Ids -> Nat] /\ held[i] \in Nat /\ held[i] <= 1
        BY <1>1 DEF PhasedInv, UniqueIds, TypeOK
      <4> QED
        BY <2>2, <4>1 DEF ReleaseLoad
    <3>2. rid'[t] = i /\ t \notin Exchanging
      BY <1>1, <2>2 DEF ReleaseLoad, TypeOK, Exchanging
    <3>3. {j \in Ids : held[j] > 0} = {j \in Ids : held'[j] > 0} \cup {i}
      BY <3>1
    <3>4. {rid'[u] : u \in Exchanging'} = {rid[u] : u \in Exchanging} \cup {i}
      BY <1>3, <1>4, <3>2 DEF Exchanging
    <3> QED
      BY <1>1, <1>3, <3>3, <3>4 DEF IdsOut
  <2> QED
    BY <2>1, <2>2
<1> QED
  BY <1>5, <1>6 DEF Atomic!vars

(* ... which puts the id on top, ... *)
LEMMA CasPushes ==
    ASSUME PhasedInv, PhasedInv', NEW t \in Threads, ReleaseCasOk(t)
    PROVE  Atomic!Next
<1>1. /\ TypeOK /\ next > 0 /\ next \in Nat /\ ptr[t] = next - 1 /\ next' = next - 1
      /\ Goto(t, "store") /\ pc[t] = "cas" /\ UNCHANGED <<ids, ptr, curr, rid, held>>
  BY ReleaseFindsRoom DEF PhasedInv, ReleasesOwnSlots, NextNotNegative, TypeOK, ReleaseCasOk
<1>2. /\ t \in Exchanging /\ t \in Releasing /\ t \notin Storing
      /\ Getting = {} /\ Getting' = {}
      /\ Exchanging' = Exchanging \ {t} /\ Storing' = Storing \cup {t}
  <2>1. t \in Exchanging /\ t \in Releasing /\ t \notin Storing
    BY <1>1 DEF Exchanging, Releasing, Storing
  <2>2. Getting = {}
    BY <2>1 DEF PhasedInv, NoOverlap
  <2> QED
    BY <1>1, <2>1, <2>2, PlacesMove
<1>3. PICK i \in Ids : i = rid[t] /\ held[i] = 0
  BY <1>2 DEF PhasedInv, ReleasedIdsDiffer
<1>4. i \in IdsOut /\ IdsOut' = IdsOut \ {i}
  <2>1. \A u \in Exchanging \ {t} : rid[u] # i
    BY <1>2, <1>3 DEF PhasedInv, ReleasedIdsDiffer, Exchanging, Releasing
  <2>2. {rid[u] : u \in Exchanging'} = {rid[u] : u \in Exchanging} \ {i}
    BY <1>2, <1>3, <2>1
  <2>3. i \notin {j \in Ids : held[j] > 0}
    BY <1>3
  <2> QED
    BY <1>1, <1>2, <1>3, <2>2, <2>3 DEF IdsOut
<1>5. CASE next > MaxIds
  <2>1. Stack.free = <<>> /\ Stack.over = next - MaxIds
    BY <1>1, <1>5, StackIs, MaxIdsAssumption DEF StackNow
  <2>2. Stack'.free = <<>> /\ Stack'.over = next' - MaxIds
    BY <1>1, <1>5, StackIsAfter, MaxIdsAssumption DEF StackNow
  <2>3. Stack.over > 0 /\ Stack'.over = Stack.over - 1
    BY <1>1, <1>5, <2>1, <2>2, MaxIdsAssumption
  <2>4. Stack' = Atomic!PoolPut(Stack, i)
    BY <2>1, <2>2, <2>3, StackParts DEF Atomic!PoolPut
  <2> QED
    BY <1>4, <2>4 DEF Atomic!Next, Atomic!Release
<1>6. CASE next <= MaxIds
  <2>1. PICK c \in [Slots -> Ids] : c = Contents
    BY ContentIs DEF ContentNow
  <2>2. PICK d \in [Slots -> Ids] : d = Contents'
    BY ContentIsAfter DEF ContentNow
  <2>3. PICK m \in 1 .. MaxIds : m = next
    BY <1>1, <1>6
  <2>4. d[m - 1] = i
    <3>1. PICK s \in Slots : s = m - 1 /\ ptr'[t] = s
      BY <1>1, <2>3, MaxIdsAssumption
    <3>2. Content(s)' = rid'[t]
      BY <1>2, <3>1, ContentIsAfter DEF ContentNow
    <3> QED
      BY <1>1, <1>3, <2>2, <3>1, <3>2 DEF Contents
  <2>5. \A s \in Slots : s >= m => c[s] = d[s]
    <3>1. SUFFICES ASSUME NEW s \in Slots, s >= m PROVE Content(s) = Content(s)'
      BY <2>1, <2>2 DEF Contents
    <3>2. s # ptr[t]
      BY <1>1, <2>3, <3>1
    <3>3. s \in Pending' <=> s \in Pending
      BY <1>1, <1>2, <3>2 DEF Pending
    <3>4. CASE s \in Pending
      <4>1. PICK u \in Storing : ptr[u] = s
        BY <3>4 DEF Pending
      <4>2. Content(s) = rid[u]
        BY <4>1, ContentIs DEF ContentNow
      <4>3. Content(s)' = rid'[u]
        BY <1>1, <1>2, <4>1, ContentIsAfter DEF ContentNow
      <4> QED
        BY <1>1, <4>1, <4>2, <4>3
    <3>5. CASE s \notin Pending
      BY <1>1, <3>3, <3>5 DEF Content, SlotId
    <3> QED
      BY <3>4, <3>5
  <2>6. Stack'.free = <<i>> \o Stack.free
    <3>1. Stack.free = From(c, m)
      BY <2>1, <2>3, StackIs DEF StackNow
    <3>2. Stack'.free = From(d, m - 1)
      BY <1>1, <2>2, <2>3, StackIsAfter DEF StackNow
    <3>3. From(d, m - 1) = <<d[m - 1]>> \o From(d, m)
      BY FromPushes
    <3>4. From(d, m) = From(c, m)
      <4>1. m \in Nat /\ \A s \in Slots : s >= m => d[s] = c[s]
        BY <2>5
      <4> QED
        BY <4>1, FromSame
    <3> QED
      BY <2>4, <3>1, <3>2, <3>3, <3>4
  <2>7. Stack.over = 0 /\ Stack'.over = 0
    <3>1. next' <= MaxIds
      BY <1>1, <1>6, MaxIdsAssumption
    <3> QED
      BY <1>6, <3>1, StackIs, StackIsAfter DEF StackNow
  <2>8. Stack' = Atomic!PoolPut(Stack, i)
    BY <2>6, <2>7, StackParts DEF Atomic!PoolPut
  <2> QED
    BY <1>4, <2>8 DEF Atomic!Next, Atomic!Release
<1> QED
  BY <1>1, <1>5, <1>6, MaxIdsAssumption

(* ... where the store leaves it. *)
LEMMA StoreStutters ==
    ASSUME PhasedInv, PhasedInv', NEW t \in Threads, ReleaseStore(t)
    PROVE  UNCHANGED Atomic!vars
<1>1. /\ TypeOK /\ pc[t] = "store" /\ Goto(t, "idle") /\ UNCHANGED <<next, ptr, held>>
      /\ ids' = [s \in Slots |-> IF s = ptr[t] THEN rid[t] ELSE ids[s]]
      /\ rid' = [rid EXCEPT ![t] = None]
  BY DEF PhasedInv, ReleaseStore
<1>2. /\ t \in Storing /\ t \notin Exchanging /\ Getting = {} /\ Getting' = {}
      /\ Exchanging' = Exchanging /\ Storing' = Storing \ {t}
  <2>1. t \in Storing /\ t \in Releasing /\ t \notin Exchanging
    BY <1>1 DEF Exchanging, Releasing, Storing
  <2>2. Getting = {}
    BY <2>1 DEF PhasedInv, NoOverlap
  <2>3. /\ Getting' = Getting \ {t} /\ Exchanging' = Exchanging \ {t}
        /\ Storing' = Storing \ {t}
    BY <1>1, PlacesMove
  <2> QED
    BY <2>1, <2>2, <2>3
<1>3. rid[t] \in Ids /\ \A u \in Threads \ {t} : rid'[u] = rid[u]
  BY <1>1, <1>2 DEF PhasedInv, ReleasedIdsDiffer, Storing, Releasing, TypeOK
<1>4. \A u \in Storing' : ptr[u] # ptr[t]
  BY <1>2 DEF PhasedInv, ReleasesOwnSlots
<1>5. ASSUME NEW s \in Slots PROVE Content(s)' = Content(s)
  <2>1. CASE s = ptr[t]
    <3>1. s \notin Pending'
      BY <1>1, <1>4, <2>1 DEF Pending
    <3>2. SlotId(s)' = rid[t]
      BY <1>1, <1>3, <2>1 DEF SlotId
    <3>3. Content(s) = rid[t]
      BY <1>2, <2>1, ContentIs DEF ContentNow
    <3> QED
      BY <3>1, <3>2, <3>3 DEF Content
  <2>2. CASE s # ptr[t] /\ s \in Pending
    <3>1. PICK u \in Storing : ptr[u] = s
      BY <2>2 DEF Pending
    <3>2. Content(s) = rid[u]
      BY <3>1, ContentIs DEF ContentNow
    <3>3. u \in Storing' /\ ptr'[u] = s /\ rid'[u] = rid[u]
      BY <1>1, <1>2, <1>3, <2>2, <3>1 DEF Storing
    <3>4. Content(s)' = rid'[u]
      BY <3>3, ContentIsAfter DEF ContentNow
    <3> QED
      BY <3>2, <3>3, <3>4
  <2>3. CASE s # ptr[t] /\ s \notin Pending
    <3>1. s \notin Pending'
      BY <1>1, <1>2, <2>3 DEF Pending
    <3> QED
      BY <1>1, <2>3, <3>1 DEF Content, SlotId
  <2> QED
    BY <2>1, <2>2, <2>3
<1>6. Stack' = Stack
  BY <1>1, <1>5, StackStays
<1>7. IdsOut' = IdsOut
  BY <1>1, <1>2, <1>3 DEF IdsOut, Exchanging
<1> QED
  BY <1>6, <1>7 DEF Atomic!vars

(* The gets and releases of id_pool.c, called by any number of threads,    *)
(* are gets and releases of one stack, one at a time: what the modules of  *)
(* its users assume.                                                       *)
THEOREM PoolIsStack ==
    ASSUME Phased
    PROVE  Spec => IsAtomic
<1>1. ASSUME PhasedInv, PhasedInv', [Next]_vars
      PROVE  [Atomic!Next]_(Atomic!vars)
  <2>1. CASE UNCHANGED vars
    BY <2>1 DEF vars, Atomic!vars, Stack, IdsOut, Content, Pending, Storing, Getting, Exchanging,
                SlotId
  <2>2. ASSUME NEW t \in Threads, Get(t) PROVE [Atomic!Next]_(Atomic!vars)
    BY <1>1, <2>2, ClaimPops, NonePushesEnd, GetRestStutters DEF Get
  <2>3. ASSUME NEW t \in Threads, Release(t) PROVE [Atomic!Next]_(Atomic!vars)
    BY <1>1, <2>3, ReleaseStartStutters, CasPushes, StoreStutters DEF Release, ReleaseStep
  <2> QED
    BY <1>1, <2>1, <2>2, <2>3 DEF Next
<1> QED
  BY <1>1, AtomicInit, PhasedInvariant, PTL DEF Spec, IsAtomic, Atomic!Spec
=============================================================================
