--------------------------- MODULE SessionsProofs ---------------------------
(***************************************************************************)
(* Proofs about Sessions, for any number of sessions, ids and failures:    *)
(* what the four parts of SessionsInv say of ids, directories and the      *)
(* table stays true at every step of every thread.  What is said of the    *)
(* ids themselves is for gets and releases that do not overlap; the rest   *)
(* does not depend on it.                                                  *)
(***************************************************************************)
EXTENDS Sessions, IdStackProofs, FiniteSetTheorems, TLAPS

SessionsInv ==
    /\ SessionIdsDiffer
    /\ OpenSessionHasRundir
    /\ RunningNotDangling
    /\ IdsConserved

USE MaxSessionsAssumption, NullAssumption

LEMMA IdsArePositive == Ids \subseteq Nat \ {0} /\ NoId \notin Ids
BY DEF Ids, NoId

LEMMA InitHolds ==
    ASSUME Init
    PROVE  SessionsInv
<1>1. /\ ids \in Pools(Ids) /\ FreeOnce(ids) /\ Len(ids.free) = MaxSessions /\ ids.over = 0
  BY NewPoolFacts DEF Init, Ids
<1>2. HaveId = {} /\ HaveDir = {}
  BY DEF Init, HaveId, HaveDir, InInit
<1>3. TypeOK
  BY <1>1 DEF Init, TypeOK, BetweenCalls, NoId
<1>4. SessionIdsDiffer /\ OpenSessionHasRundir
  BY <1>1, <1>2, <1>3 DEF SessionIdsDiffer, OpenSessionHasRundir
<1>5. RunningNotDangling
  BY DEF Init, RunningNotDangling
<1>6. IdsConserved
  BY <1>1, <1>2, FS_EmptySet DEF Init, IdsConserved
<1> QED
  BY <1>4, <1>5, <1>6 DEF SessionsInv

(* A session that takes part in a call changes nobody else's place.        *)
LEMMA GotoFacts ==
    ASSUME TypeOK, NEW s \in Sessions, NEW label, Goto(s, label)
    PROVE  /\ pc'[s] = label
           /\ \A u \in Sessions : u # s => pc'[u] = pc[u]
           /\ label \in {"mkdir", "undo", "store", "open"} => HaveId' = HaveId \cup {s}
           /\ label \in {"closed", "rmdir", "clear"} => HaveId' = HaveId \ {s}
           /\ label \in {"store", "open", "rmdir"} => HaveDir' = HaveDir \cup {s}
           /\ label \in {"closed", "mkdir", "undo", "clear"} => HaveDir' = HaveDir \ {s}
BY DEF TypeOK, Goto, HaveId, HaveDir, InInit

(* The ids of sessions *)
LEMMA IdsStep ==
    ASSUME SessionIdsDiffer, Next
    PROVE  SessionIdsDiffer'
<1> USE DEF SessionIdsDiffer
<1>1. PICK s \in Sessions : SessInit(s) \/ SessFree(s)
  BY DEF Next
<1>2. CASE InitGetId(s)
  <2>1. PICK id \in PoolAnswers(ids, Ids, Overlap) \ {NoId} :
           session_id' = [session_id EXCEPT ![s] = id]
    BY <1>2 DEF InitGetId
  <2>2. /\ s \notin HaveId
        /\ ids' = PoolGet(ids)
        /\ HaveId' = HaveId \cup {s}
    BY <1>2, GotoFacts DEF InitGetId, HaveId, InInit
  <2>3. /\ PoolTop(ids) # NoId /\ id \in Ids
        /\ ~Overlap => id = PoolTop(ids)
    BY <2>1, IdsArePositive, PoolAnswersFacts DEF TypeOK
  <2>4. /\ ids' \in Pools(Ids)
        /\ FreeIds(ids') \subseteq FreeIds(ids)
        /\ ~Overlap => id \in FreeIds(ids) /\ FreeOnce(ids') /\ id \notin FreeIds(ids')
    BY <2>2, <2>3, PoolGetFacts DEF TypeOK
  <2>5. TypeOK'
    BY <1>2, <2>1, <2>3, <2>4 DEF InitGetId, TypeOK, Goto, InInit, failures
  <2>6. /\ session_id'[s] = id
        /\ \A u \in HaveId : u # s /\ session_id'[u] = session_id[u]
    BY <2>1, <2>2 DEF TypeOK, HaveId
  <2> QED
    BY <2>2, <2>3, <2>4, <2>5, <2>6
<1>3. CASE InitNoId(s)
  <2>1. ids' \in Pools(Ids) /\ ids'.free = ids.free
    BY <1>3, PoolGetNothing, IdsArePositive DEF InitNoId, TypeOK, NoId
  <2>2. FreeIds(ids') = FreeIds(ids) /\ (FreeOnce(ids) => FreeOnce(ids'))
    BY <2>1 DEF FreeIds, FreeOnce
  <2>3. UNCHANGED <<HaveId, session_id>>
    BY <1>3 DEF InitNoId, HaveId
  <2>4. TypeOK'
    BY <1>3, <2>1 DEF InitNoId, TypeOK
  <2> QED
    BY <2>2, <2>3, <2>4
<1>4. CASE InitUndo(s) \/ FreePutId(s)
  <2>1. /\ s \in HaveId /\ HaveId' = HaveId \ {s}
        /\ UNCHANGED session_id
        /\ ids' = PoolPut(ids, session_id[s])
    BY <1>4, GotoFacts DEF InitUndo, FreePutId, HaveId, InInit
  <2>2. session_id[s] \in Ids
    BY <2>1
  <2>3. /\ ids' \in Pools(Ids)
        /\ FreeIds(ids') \subseteq FreeIds(ids) \cup {session_id[s]}
        /\ ~Overlap => FreeOnce(ids')
    BY <2>1, <2>2, PoolPutFacts DEF TypeOK
  <2>4. TypeOK'
    BY <1>4, <2>3 DEF InitUndo, FreePutId, TypeOK, Goto, BetweenCalls, InFree, failures
  <2> QED
    BY <2>1, <2>3, <2>4
<1>5. CASE InitMkdir(s) \/ InitMkdirExists(s) \/ InitMkdirFails(s) \/ InitStore(s)
  <2>1. UNCHANGED <<session_id, ids>> /\ HaveId' = HaveId /\ s \in HaveId
    BY <1>5, GotoFacts
       DEF InitMkdir, InitMkdirExists, InitMkdirFails, InitStore, HaveId, InInit
  <2>2. TypeOK'
    BY <1>5, <2>1 DEF InitMkdir, InitMkdirExists, InitMkdirFails, InitStore, TypeOK, Goto, InInit,
                      BetweenCalls, failures
  <2> QED
    BY <2>1, <2>2
<1>6. CASE FreeRmdir(s) \/ FreeRmdirFails(s) \/ FreeClear(s)
  <2>1. UNCHANGED <<session_id, ids>> /\ HaveId' = HaveId
    BY <1>6, GotoFacts DEF FreeRmdir, FreeRmdirFails, FreeClear, HaveId, InInit
  <2>2. TypeOK'
    BY <1>6, <2>1 DEF FreeRmdir, FreeRmdirFails, FreeClear, TypeOK, Goto, InFree, BetweenCalls,
                      failures
  <2> QED
    BY <2>1, <2>2
<1> QED
  BY <1>1, <1>2, <1>3, <1>4, <1>5, <1>6 DEF SessInit, SessFree

(* The directories.  A session makes its own only if it is not there, so   *)
(* nobody between mkdir and rmdir has that id.                             *)
LEMMA DirsStep ==
    ASSUME SessionIdsDiffer, OpenSessionHasRundir, Next
    PROVE  OpenSessionHasRundir'
<1> USE DEF OpenSessionHasRundir
<1>1. PICK s \in Sessions : SessInit(s) \/ SessFree(s)
  BY DEF Next
<1>2. TypeOK
  BY DEF SessionIdsDiffer
<1>3. CASE InitGetId(s)
  <2>1. HaveDir' = HaveDir /\ s \notin HaveDir /\ UNCHANGED dirs
    BY <1>2, <1>3, GotoFacts DEF InitGetId, HaveDir
  <2>2. \A u \in HaveDir : session_id'[u] = session_id[u]
    BY <1>2, <1>3, <2>1 DEF InitGetId, TypeOK, HaveDir
  <2> QED
    BY <2>1, <2>2
<1>4. CASE InitNoId(s) \/ InitMkdirExists(s) \/ InitMkdirFails(s) \/ InitUndo(s)
  <2>1. HaveDir' = HaveDir /\ UNCHANGED <<dirs, session_id>>
    BY <1>2, <1>4, GotoFacts DEF InitNoId, InitMkdirExists, InitMkdirFails, InitUndo, HaveDir
  <2> QED
    BY <2>1
<1>5. CASE InitMkdir(s)
  <2>1. /\ session_id[s] \notin dirs /\ dirs' = dirs \cup {session_id[s]}
        /\ HaveDir' = HaveDir \cup {s} /\ UNCHANGED session_id
    BY <1>2, <1>5, GotoFacts DEF InitMkdir
  <2> QED
    BY <2>1
<1>6. CASE InitStore(s) \/ FreePutId(s)
  <2>1. HaveDir' = HaveDir /\ UNCHANGED <<dirs, session_id>>
    BY <1>2, <1>6, GotoFacts DEF InitStore, FreePutId, HaveDir
  <2> QED
    BY <2>1
<1>7. CASE FreeRmdir(s)
  <2>1. /\ s \in HaveDir /\ HaveDir' = HaveDir \ {s}
        /\ dirs' = dirs \ {session_id[s]} /\ UNCHANGED session_id
    BY <1>2, <1>7, GotoFacts DEF FreeRmdir, HaveDir
  <2> QED
    BY <2>1
<1>8. CASE FreeRmdirFails(s) \/ FreeClear(s)
  <2>1. HaveDir' = HaveDir \ {s} /\ UNCHANGED <<dirs, session_id>>
    BY <1>2, <1>8, GotoFacts DEF FreeRmdirFails, FreeClear
  <2> QED
    BY <2>1
<1> QED
  BY <1>1, <1>3, <1>4, <1>5, <1>6, <1>7, <1>8 DEF SessInit, SessFree

(* The table.  Only the session itself is in its slot, so clearing the     *)
(* slot of its id takes it out of the table.                               *)
LEMMA TableStep ==
    ASSUME SessionIdsDiffer, RunningNotDangling, Next
    PROVE  RunningNotDangling'
<1>1. PICK s \in Sessions : SessInit(s) \/ SessFree(s)
  BY DEF Next
<1>2. TypeOK
  BY DEF SessionIdsDiffer
<1>3. CASE UNCHANGED running /\ pc[s] \notin {"open"} \cup InFree
  <2>1. \A i \in Ids : running[i] # NULL =>
           running[i] \in Sessions /\ running[i] # s
    BY <1>2, <1>3 DEF TypeOK, RunningNotDangling
  <2>2. \A u \in Sessions : u # s => pc'[u] = pc[u] /\ session_id'[u] = session_id[u]
    BY <1>1, <1>2 DEF SessInit, InitGetId, InitNoId, InitMkdir, InitMkdirExists, InitMkdirFails,
                      InitUndo, InitStore, SessFree, FreePutId, FreeRmdir, FreeRmdirFails, FreeClear,
                      Goto, TypeOK
  <2> QED
    BY <1>3, <2>1, <2>2 DEF RunningNotDangling
<1>4. CASE InitStore(s)
  <2>1. /\ running' = [running EXCEPT ![session_id[s]] = s] /\ UNCHANGED session_id
        /\ pc'[s] = "open" /\ \A u \in Sessions : u # s => pc'[u] = pc[u]
    BY <1>2, <1>4, GotoFacts DEF InitStore
  <2>2. session_id[s] \in Ids
    BY <1>4 DEF InitStore, SessionIdsDiffer, HaveId, InInit
  <2> QED
    BY <1>2, <2>1, <2>2 DEF TypeOK, RunningNotDangling
<1>5. CASE FreePutId(s) \/ FreeRmdir(s) \/ FreeRmdirFails(s)
  <2>1. /\ UNCHANGED <<running, session_id>>
        /\ pc'[s] \in InFree /\ \A u \in Sessions : u # s => pc'[u] = pc[u]
    BY <1>2, <1>5, GotoFacts DEF FreePutId, FreeRmdir, FreeRmdirFails, InFree
  <2> QED
    BY <1>2, <2>1 DEF TypeOK, RunningNotDangling
<1>6. CASE FreeClear(s)
  <2>1. /\ running' = [running EXCEPT ![session_id[s]] = NULL] /\ UNCHANGED session_id
        /\ \A u \in Sessions : u # s => pc'[u] = pc[u]
    BY <1>2, <1>6, GotoFacts DEF FreeClear
  <2>2. \A i \in Ids : running'[i] # NULL =>
           running'[i] = running[i] /\ running[i] \in Sessions /\ running[i] # s
    BY <1>2, <2>1 DEF TypeOK, RunningNotDangling
  <2> QED
    BY <2>1, <2>2 DEF RunningNotDangling
<1> QED
  BY <1>1, <1>3, <1>4, <1>5, <1>6
     DEF SessInit, InitGetId, InitNoId, InitMkdir, InitMkdirExists, InitMkdirFails, InitUndo,
         SessFree, InFree

(* Every id is somewhere. *)
LEMMA ConservedStep ==
    ASSUME SessionIdsDiffer, IdsConserved, Next
    PROVE  IdsConserved'
<1>1. PICK s \in Sessions : SessInit(s) \/ SessFree(s)
  BY DEF Next
<1>2. TypeOK /\ ids \in Pools(Ids) /\ ids.over \in Nat /\ refused \in Nat /\ Len(ids.free) \in Nat
  BY DEF SessionIdsDiffer, TypeOK, Pools
<1>3. IsFiniteSet(HaveId) /\ Cardinality(HaveId) \in Nat
  BY SessionsAssumption, FS_Subset, FS_CardinalityType DEF HaveId
<1>4. CASE InitGetId(s)
  <2>1. /\ s \notin HaveId /\ HaveId' = HaveId \cup {s}
        /\ ids' = PoolGet(ids) /\ PoolTop(ids) # NoId /\ UNCHANGED refused
    BY <1>2, <1>4, GotoFacts, IdsArePositive, PoolAnswersFacts
       DEF InitGetId, HaveId, InInit, failures
  <2>2. Len(ids'.free) = Len(ids.free) - 1 /\ ids'.over = ids.over
    BY <1>2, <2>1, PoolGetFacts
  <2>3. Cardinality(HaveId') = Cardinality(HaveId) + 1
    BY <1>3, <2>1, FS_AddElement
  <2> QED
    BY <1>2, <1>3, <2>1, <2>2, <2>3 DEF IdsConserved
<1>5. CASE InitNoId(s)
  <2>1. refused' = refused + 1 /\ ids' = PoolGet(ids) /\ PoolTop(ids) = NoId /\ HaveId' = HaveId
    BY <1>5 DEF InitNoId, HaveId
  <2>2. ids'.free = ids.free /\ ids'.over = ids.over + 1
    BY <1>2, <2>1, PoolGetNothing, IdsArePositive DEF NoId
  <2>3. /\ Len(ids'.free) = Len(ids.free) /\ Cardinality(HaveId') = Cardinality(HaveId)
        /\ refused' - ids'.over = refused - ids.over /\ (ids.over <= refused => ids'.over <= refused')
    BY <1>2, <2>1, <2>2
  <2> QED
    BY <2>3 DEF IdsConserved
<1>6. CASE InitUndo(s) \/ FreePutId(s)
  <2>1. /\ s \in HaveId /\ HaveId' = HaveId \ {s}
        /\ ids' = PoolPut(ids, session_id[s]) /\ session_id[s] \in Ids /\ UNCHANGED refused
    BY <1>2, <1>6, GotoFacts DEF InitUndo, FreePutId, HaveId, InInit, SessionIdsDiffer, failures
  <2>2. /\ ids.over = 0 => Len(ids'.free) = Len(ids.free) + 1 /\ ids'.over = 0
        /\ ids.over > 0 => ids'.free = ids.free /\ ids'.over = ids.over - 1
    BY <1>2, <2>1, PoolPutFacts
  <2>3. Cardinality(HaveId') = Cardinality(HaveId) - 1
    BY <1>3, <2>1, FS_RemoveElement
  <2>4. PICK l, h, r, o \in Nat :
           l = Len(ids.free) /\ h = Cardinality(HaveId) /\ r = refused /\ o = ids.over
    BY <1>2, <1>3
  <2>5. l + h + (r - o) = MaxSessions /\ o <= r
    BY <2>4 DEF IdsConserved
  <2>6. CASE o = 0
    <3>1. Len(ids'.free) = l + 1 /\ ids'.over = 0 /\ refused' = r /\ Cardinality(HaveId') = h - 1
      BY <2>1, <2>2, <2>3, <2>4, <2>6
    <3>2. (l + 1) + (h - 1) + (r - 0) = MaxSessions /\ 0 <= r
      BY <2>5, <2>6
    <3> QED
      BY <3>1, <3>2 DEF IdsConserved
  <2>7. CASE o > 0
    <3>1. Len(ids'.free) = l /\ ids'.over = o - 1 /\ refused' = r /\ Cardinality(HaveId') = h - 1
      BY <2>1, <2>2, <2>3, <2>4, <2>7
    <3>2. l + (h - 1) + (r - (o - 1)) = MaxSessions /\ o - 1 <= r
      BY <2>5
    <3> QED
      BY <3>1, <3>2 DEF IdsConserved
  <2> QED
    BY <2>6, <2>7
<1>7. CASE UNCHANGED <<ids, refused, HaveId>>
  BY <1>7 DEF IdsConserved
<1>8. ASSUME \/ InitMkdir(s) \/ InitMkdirExists(s) \/ InitMkdirFails(s) \/ InitStore(s)
             \/ FreeRmdir(s) \/ FreeRmdirFails(s) \/ FreeClear(s)
      PROVE  UNCHANGED <<ids, refused, HaveId>>
  BY <1>2, <1>8, GotoFacts
     DEF InitMkdir, InitMkdirExists, InitMkdirFails, InitStore, FreeRmdir, FreeRmdirFails, FreeClear,
         HaveId, InInit, failures
<1> QED
  BY <1>1, <1>4, <1>5, <1>6, <1>7, <1>8 DEF SessInit, SessFree

LEMMA SessionsStep ==
    ASSUME SessionsInv, [Next]_vars
    PROVE  SessionsInv'
<1>1. CASE Next
  BY <1>1, IdsStep, DirsStep, TableStep, ConservedStep DEF SessionsInv
<1>2. CASE UNCHANGED vars
  BY <1>2 DEF vars, failures, SessionsInv, SessionIdsDiffer, OpenSessionHasRundir,
              RunningNotDangling, IdsConserved, TypeOK, HaveId, HaveDir
<1> QED
  BY <1>1, <1>2

LEMMA SessionsInvariant == Spec => []SessionsInv
BY InitHolds, SessionsStep, PTL DEF Spec

(* vaccel_sess_init and vaccel_sess_free (session.c): however the steps of *)
(* any number of threads follow one another and fail, sessions hold        *)
(* different ids, and none that is free, as long as no id_pool_get runs    *)
(* while an id_pool_release is in progress.                                *)
THEOREM IdsDiffer == Spec => []SessionIdsDiffer
<1>1. SessionsInv => SessionIdsDiffer
  BY DEF SessionsInv
<1> QED
  BY <1>1, SessionsInvariant, PTL

(* An open session has its directory to itself (session.c:173, 205), with  *)
(* ids and paths handed on before the directory is removed, and whether    *)
(* gets of the pool overlap releases or not.                               *)
THEOREM RundirsAreKept == Spec => []OpenSessionHasRundir
<1>1. SessionsInv => OpenSessionHasRundir
  BY DEF SessionsInv
<1> QED
  BY <1>1, SessionsInvariant, PTL

(* running_sessions (session.c:245-250, 313) points to no session that was *)
(* freed.                                                                  *)
THEOREM TableHasNoFreedSession == Spec => []RunningNotDangling
<1>1. SessionsInv => RunningNotDangling
  BY DEF SessionsInv
<1> QED
  BY <1>1, SessionsInvariant, PTL

(* No path through the two calls makes an id, and none loses one but for   *)
(* those that are stored beyond the end of a pool that was exhausted.      *)
THEOREM IdsAreConserved == Spec => []IdsConserved
<1>1. SessionsInv => IdsConserved
  BY DEF SessionsInv
<1> QED
  BY <1>1, SessionsInvariant, PTL

-----------------------------------------------------------------------------
(* The ids of sessions are the ids that are out. *)

LEMMA PoolInit ==
    ASSUME Init
    PROVE  Pool!Init
<1>1. HaveId = {}
  BY DEF Init, HaveId, InInit
<1> QED
  BY <1>1 DEF Init, Pool!Init, NewPool, Pool!NewPool

LEMMA PoolStep ==
    ASSUME ~Overlap, SessionIdsDiffer, Next
    PROVE  [Pool!Next]_(Pool!vars)
<1> DEFINE Out == {session_id[u] : u \in HaveId}
<1>1. PICK s \in Sessions : SessInit(s) \/ SessFree(s)
  BY DEF Next
<1>2. TypeOK
  BY DEF SessionIdsDiffer
<1>3. CASE InitGetId(s)
  <2>1. /\ PoolTop(ids) # NoId /\ ids' = PoolGet(ids)
        /\ session_id' = [session_id EXCEPT ![s] = PoolTop(ids)]
        /\ HaveId' = HaveId \cup {s} /\ s \notin HaveId
    <3>1. PICK id \in PoolAnswers(ids, Ids, Overlap) \ {NoId} :
             session_id' = [session_id EXCEPT ![s] = id]
      BY <1>3 DEF InitGetId
    <3>2. PoolTop(ids) # NoId /\ id = PoolTop(ids)
      BY <3>1, <1>2, IdsArePositive, PoolAnswersFacts DEF TypeOK
    <3> QED
      BY <1>2, <1>3, <3>1, <3>2, GotoFacts DEF InitGetId, HaveId, InInit
  <2>2. session_id'[s] = PoolTop(ids) /\ \A u \in HaveId : session_id'[u] = session_id[u]
    BY <1>2, <2>1 DEF TypeOK, HaveId
  <2>3. Out' = Out \cup {PoolTop(ids)}
    BY <2>1, <2>2
  <2> QED
    BY <2>1, <2>3
       DEF Pool!Next, Pool!Get, Pool!PoolTop, Pool!PoolGet, Pool!NoId, PoolTop, PoolGet, NoId
<1>4. CASE InitNoId(s)
  <2>1. PoolTop(ids) = NoId /\ ids' = PoolGet(ids) /\ Out' = Out
    BY <1>4 DEF InitNoId, HaveId
  <2> QED
    BY <2>1
       DEF Pool!Next, Pool!GetNone, Pool!PoolTop, Pool!PoolGet, Pool!NoId, PoolTop, PoolGet, NoId
<1>5. CASE InitUndo(s) \/ FreePutId(s)
  <2>1. /\ s \in HaveId /\ HaveId' = HaveId \ {s}
        /\ UNCHANGED session_id
        /\ ids' = PoolPut(ids, session_id[s])
    BY <1>2, <1>5, GotoFacts DEF InitUndo, FreePutId, HaveId, InInit
  <2>2. \A u \in HaveId : session_id[u] = session_id[s] => u = s
    BY <2>1 DEF SessionIdsDiffer
  <2>3. PICK i : i = session_id[s]
    OBVIOUS
  <2>4. i \in Out /\ Out' = Out \ {i}
    BY <2>1, <2>2, <2>3
  <2>5. Pool!Release(i)
    BY <2>1, <2>3, <2>4 DEF Pool!Release, Pool!PoolPut, PoolPut
  <2> QED
    BY <2>4, <2>5 DEF Pool!Next
<1>6. CASE UNCHANGED <<ids, session_id, HaveId>>
  BY <1>6 DEF Pool!vars
<1>7. ASSUME \/ InitMkdir(s) \/ InitMkdirExists(s) \/ InitMkdirFails(s) \/ InitStore(s)
             \/ FreeRmdir(s) \/ FreeRmdirFails(s) \/ FreeClear(s)
      PROVE  UNCHANGED <<ids, session_id, HaveId>>
  BY <1>2, <1>7, GotoFacts
     DEF InitMkdir, InitMkdirExists, InitMkdirFails, InitStore, FreeRmdir, FreeRmdirFails, FreeClear,
         HaveId, InInit
<1> QED
  BY <1>1, <1>3, <1>4, <1>5, <1>6, <1>7 DEF SessInit, SessFree

(* vaccel_sess_init and vaccel_sess_free use the pool as id_pool.h has it: *)
(* one get or release at a time, and only ids that they hold are released. *)
(* IdPool is shown to serve such users, when none of their gets overlaps a *)
(* release.                                                                *)
THEOREM SessionsUseThePool == Spec => UsesPool
<1>1. SUFFICES ASSUME ~Overlap PROVE Spec => Pool!Spec
  BY DEF UsesPool
<1>2. ASSUME SessionsInv, [Next]_vars PROVE [Pool!Next]_(Pool!vars)
  <2>1. CASE Next
    BY <1>1, <1>2, <2>1, PoolStep DEF SessionsInv
  <2>2. CASE UNCHANGED vars
    BY <2>2 DEF vars, Pool!vars, HaveId
  <2> QED
    BY <1>2, <2>1, <2>2
<1> QED
  BY <1>2, PoolInit, SessionsInvariant, PTL DEF Spec, Pool!Spec
=============================================================================
