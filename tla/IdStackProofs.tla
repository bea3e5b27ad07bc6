--------------------------- MODULE IdStackProofs ---------------------------
(***************************************************************************)
(* What gets and releases do to the pool of IdStack, for its users.        *)
(***************************************************************************)
EXTENDS IdStack, TLAPS

(* A new pool has every id, once. *)
LEMMA NewPoolFacts ==
    ASSUME NEW max \in Nat
    PROVE  /\ NewPool(max) \in Pools(1 .. max)
           /\ FreeOnce(NewPool(max))
           /\ Len(NewPool(max).free) = max
           /\ NewPool(max).over = 0
BY DEF NewPool, Pools, FreeOnce

(* A get that answers an id answers one that was free, and it is not free  *)
(* any more.                                                               *)
LEMMA PoolGetFacts ==
    ASSUME NEW S, NEW pool \in Pools(S), PoolTop(pool) # NoId
    PROVE  /\ PoolGet(pool) \in Pools(S)
           /\ PoolTop(pool) \in S
           /\ PoolTop(pool) \in FreeIds(pool)
           /\ FreeIds(PoolGet(pool)) \subseteq FreeIds(pool)
           /\ FreeOnce(pool) =>
                 FreeOnce(PoolGet(pool)) /\ PoolTop(pool) \notin FreeIds(PoolGet(pool))
           /\ Len(PoolGet(pool).free) = Len(pool.free) - 1
           /\ PoolGet(pool).over = pool.over
<1> DEFINE new == PoolGet(pool)
<1>1. pool.free \in Seq(S) /\ pool.over \in Nat /\ pool.free # <<>>
  BY DEF Pools, PoolTop
<1>2. new.free = Tail(pool.free) /\ new.over = pool.over /\ new \in Pools(S)
  BY <1>1 DEF PoolGet, Pools
<1>3. /\ Len(new.free) = Len(pool.free) - 1
      /\ DOMAIN pool.free = 1 .. Len(pool.free)
      /\ DOMAIN new.free = 1 .. Len(pool.free) - 1
      /\ \A k \in DOMAIN new.free :
            k \in Nat /\ k + 1 \in DOMAIN pool.free /\ k + 1 # 1 /\ new.free[k] = pool.free[k + 1]
  BY <1>1, <1>2
<1>4. PoolTop(pool) = pool.free[1] /\ 1 \in DOMAIN pool.free
  BY <1>1 DEF PoolTop
<1>5. PoolTop(pool) \in S /\ PoolTop(pool) \in FreeIds(pool)
  BY <1>1, <1>4 DEF FreeIds
<1>6. FreeIds(new) \subseteq FreeIds(pool)
  BY <1>3 DEF FreeIds
<1>7. ASSUME FreeOnce(pool)
      PROVE  FreeOnce(new) /\ PoolTop(pool) \notin FreeIds(new)
  <2>1. FreeOnce(new)
    <3>1. SUFFICES ASSUME NEW j \in DOMAIN new.free, NEW k \in DOMAIN new.free,
                          new.free[j] = new.free[k]
                   PROVE  j = k
      BY DEF FreeOnce
    <3>2. j + 1 \in DOMAIN pool.free /\ k + 1 \in DOMAIN pool.free
          /\ pool.free[j + 1] = pool.free[k + 1] /\ j \in Nat /\ k \in Nat
      BY <1>3, <3>1
    <3>3. j + 1 = k + 1
      BY <1>7, <3>2 DEF FreeOnce
    <3> QED
      BY <3>2, <3>3
  <2>2. PoolTop(pool) \notin FreeIds(new)
    <3>1. ASSUME NEW k \in DOMAIN new.free
          PROVE  new.free[k] # pool.free[1]
      <4>1. k + 1 \in DOMAIN pool.free /\ k + 1 # 1 /\ new.free[k] = pool.free[k + 1]
        BY <1>3, <3>1
      <4> QED
        BY <1>4, <1>7, <4>1 DEF FreeOnce
    <3> QED
      BY <1>4, <3>1 DEF FreeIds
  <2> QED
    BY <2>1, <2>2
<1> QED
  BY <1>2, <1>3, <1>5, <1>6, <1>7

(* Whatever a get answers, it is an id or there is none; without overlap   *)
(* it is the one on top.                                                   *)
LEMMA PoolAnswersFacts ==
    ASSUME NEW S, NEW pool \in Pools(S), NoId \notin S, NEW overlap,
           NEW i \in PoolAnswers(pool, S, overlap) \ {NoId}
    PROVE  /\ PoolTop(pool) # NoId
           /\ i \in S
           /\ ~overlap => i = PoolTop(pool)
<1>1. PoolTop(pool) \in S \cup {NoId}
  BY DEF Pools, PoolTop
<1> QED
  BY <1>1 DEF PoolAnswers

(* A get that finds nothing only moves next. *)
LEMMA PoolGetNothing ==
    ASSUME NEW S, 0 \notin S, NEW pool \in Pools(S), PoolTop(pool) = NoId
    PROVE  /\ PoolGet(pool) \in Pools(S)
           /\ PoolGet(pool).free = pool.free
           /\ PoolGet(pool).over = pool.over + 1
BY DEF Pools, PoolTop, PoolGet, NoId

(* A release brings its id back, at most, and an id that is not in the     *)
(* pool is there once; before any get has failed nothing is lost.          *)
LEMMA PoolPutFacts ==
    ASSUME NEW S, NEW pool \in Pools(S), NEW i \in S
    PROVE  /\ PoolPut(pool, i) \in Pools(S)
           /\ FreeIds(PoolPut(pool, i)) \subseteq FreeIds(pool) \cup {i}
           /\ FreeOnce(pool) /\ i \notin FreeIds(pool) => FreeOnce(PoolPut(pool, i))
           /\ pool.over = 0 =>
                 /\ Len(PoolPut(pool, i).free) = Len(pool.free) + 1
                 /\ PoolPut(pool, i).over = 0
           /\ pool.over > 0 =>
                 /\ PoolPut(pool, i).free = pool.free
                 /\ PoolPut(pool, i).over = pool.over - 1
<1> DEFINE new == PoolPut(pool, i)
<1>1. pool.free \in Seq(S) /\ pool.over \in Nat
  BY DEF Pools
<1>2. CASE pool.over > 0
  <2>1. new.free = pool.free /\ new.over = pool.over - 1 /\ new \in Pools(S)
    BY <1>1, <1>2 DEF PoolPut, Pools
  <2> QED
    BY <1>1, <1>2, <2>1 DEF FreeIds, FreeOnce
<1>3. CASE pool.over = 0
  <2>1. new.free = <<i>> \o pool.free /\ new.over = 0 /\ new \in Pools(S)
    <3>1. new = [pool EXCEPT !.free = <<i>> \o pool.free]
      BY <1>1, <1>3 DEF PoolPut
    <3>2. <<i>> \o pool.free \in Seq(S)
      BY <1>1
    <3> QED
      BY <1>3, <3>1, <3>2 DEF Pools
  <2>2. /\ Len(new.free) = Len(pool.free) + 1
        /\ DOMAIN pool.free = 1 .. Len(pool.free)
        /\ DOMAIN new.free = 1 .. Len(pool.free) + 1
        /\ new.free[1] = i
        /\ \A k \in DOMAIN new.free : k # 1 => k - 1 \in DOMAIN pool.free /\ new.free[k] = pool.free[k - 1]
    BY <1>1, <2>1
  <2>3. FreeIds(new) \subseteq FreeIds(pool) \cup {i}
    BY <2>2 DEF FreeIds
  <2>4. ASSUME FreeOnce(pool), i \notin FreeIds(pool)
        PROVE  FreeOnce(new)
    <3>1. SUFFICES ASSUME NEW j \in DOMAIN new.free, NEW k \in DOMAIN new.free,
                          new.free[j] = new.free[k]
                   PROVE  j = k
      BY DEF FreeOnce
    <3>2. CASE j = 1 \/ k = 1
      BY <2>2, <2>4, <3>1, <3>2 DEF FreeIds
    <3>3. CASE j # 1 /\ k # 1
      <4>1. j - 1 = k - 1
        BY <2>2, <2>4, <3>1, <3>3 DEF FreeOnce
      <4> QED
        BY <2>2, <4>1
    <3> QED
      BY <3>2, <3>3
  <2> QED
    BY <1>3, <2>1, <2>2, <2>3, <2>4
<1> QED
  BY <1>1, <1>2, <1>3
=============================================================================
