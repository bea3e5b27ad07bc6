-------------------------- MODULE ResourcesProofs --------------------------
(***************************************************************************)
(* Proofs about Resources, for any number of sessions, resources, ids and  *)
(* failures of the host.                                                   *)
(***************************************************************************)
EXTENDS Resources, IdStackProofs, FiniteSetTheorems, TLAPS

USE NullAssumption, MaxResourcesAssumption, MaxRegistrationsAssumption

LEMMA IdsArePositive == Ids \subseteq Nat \ {0} /\ NoId \notin Ids
BY DEF Ids, NoId

(* A table of counts with one count changed is a table of counts. *)
LEMMA CountsType ==
    ASSUME NEW f \in [Sessions -> [Resources -> Nat]], NEW s \in Sessions, NEW r \in Resources,
           NEW n \in Nat
    PROVE  [f EXCEPT ![s][r] = n] \in [Sessions -> [Resources -> Nat]]
OBVIOUS

(* Where the threads of sessions are, and that a session that is not open  *)
(* has nothing registered.                                                 *)
CallsInv ==
    /\ \A s \in Sessions : spc[s] \in {"count", "uncount"} => sarg[s] \in Resources
    /\ \A s \in Sessions : spc[s] = "idle" => sarg[s] = NULL
    /\ \A s \in Sessions : spc[s] = "count" => registered[s][sarg[s]] > 0
    /\ \A s \in Sessions \ open : spc[s] = "idle" /\ \A r \in Resources : registered[s][r] = 0

(* The list has the resources that exist, they have ids, and what is being *)
(* destroyed exists.                                                       *)
Listed ==
    /\ live = {r \in Resources : state[r] # "none"}
    /\ \A r \in live : rid[r] \in Ids
    /\ \A r \in Resources : dpc[r] # "idle" => state[r] = "live"

(* Types.  The id that is released is one of the pool. *)
LEMMA TypeStep ==
    ASSUME PoolSound, CallsInv, Listed, Next
    PROVE  TypeOK'
<1>1. TypeOK
  BY DEF PoolSound
<1>2. ASSUME NEW s \in Sessions, SessInit(s) PROVE TypeOK'
  BY <1>1, <1>2 DEF TypeOK, SessInit, callVars, resVars, dirVars
<1>3. ASSUME NEW s \in Sessions, RegisterCount(s) PROVE TypeOK'
  <2>1. sarg[s] \in Resources
    BY <1>3 DEF CallsInv, RegisterCount
  <2> QED
    BY <1>1, <1>3, <2>1 DEF TypeOK, RegisterCount, resource_refcount_inc, dirVars, hostVars
<1>4. ASSUME NEW s \in Sessions, UnregisterCount(s) \/ FreeUncount(s) PROVE TypeOK'
  <2>1. sarg[s] \in Resources
    BY <1>1, <1>4 DEF TypeOK, CallsInv, UnregisterCount, FreeUncount
  <2>2. /\ refcount' = [refcount EXCEPT ![sarg[s]] = @ - 1]
        /\ sarg' = [sarg EXCEPT ![s] = NULL]
        /\ spc' = [spc EXCEPT ![s] = "idle"] \/ UNCHANGED spc
        /\ UNCHANGED <<up, virtio, open, dpc, state, rid, live, pool, registered, dirVars, hostVars>>
    BY <1>4 DEF UnregisterCount, FreeUncount, Uncount, resource_refcount_dec
  <2>3. refcount' \in [Resources -> Int]
    BY <1>1, <2>1, <2>2 DEF TypeOK
  <2>4. sarg' \in [Sessions -> Resources \cup {NULL}]
    BY <1>1, <2>2 DEF TypeOK
  <2>5. spc' \in [Sessions -> {"idle", "count", "uncount", "freeing"}]
    BY <1>1, <2>2 DEF TypeOK
  <2> QED
    BY <1>1, <2>2, <2>3, <2>4, <2>5 DEF TypeOK, dirVars, hostVars
<1>5. ASSUME NEW s \in Sessions, SessFree(s) PROVE TypeOK'
  <2>1. spc' \in [Sessions -> {"idle", "count", "uncount", "freeing"}]
    BY <1>1, <1>5 DEF TypeOK, SessFree
  <2>2. hostOpen' \subseteq Sessions /\ hostReg' \in [Sessions -> [Resources -> Nat]]
    BY <1>1, <1>5 DEF TypeOK, SessFree
  <2>3. hostFailed' \in Nat
    BY <1>1, <1>5 DEF TypeOK, SessFree, HostRefuses
  <2>4. UNCHANGED <<up, virtio, open, sarg, dpc, resVars, registered, dirVars, hostRes>>
    BY <1>5 DEF SessFree
  <2> QED
    BY <1>1, <2>1, <2>2, <2>3, <2>4 DEF TypeOK, resVars, dirVars
<1>6. ASSUME NEW s \in Sessions, FreeDone(s) PROVE TypeOK'
  BY <1>1, <1>6 DEF TypeOK, FreeDone, resVars, dirVars, hostVars
<1>7. ASSUME NEW s \in Sessions, NEW r \in Resources, RegisterLink(s, r) PROVE TypeOK'
  BY <1>1, <1>7 DEF TypeOK, RegisterLink, HostRegister, resVars, dirVars
<1>8. ASSUME NEW s \in Sessions, NEW r \in Resources, RegisterRefused(s, r) PROVE TypeOK'
  BY <1>1, <1>8 DEF TypeOK, RegisterRefused, HostRefuses, callVars, resVars, dirVars
<1>9. ASSUME NEW s \in Sessions, NEW r \in Resources, Unregister(s, r) \/ FreeUnlink(s, r)
      PROVE  TypeOK'
  <2>1. /\ registered[s][r] > 0 /\ HostUnregister(s, r)
        /\ registered' = [registered EXCEPT ![s][r] = @ - 1]
        /\ UNCHANGED <<hostOpen, hostRes>>
    BY <1>9 DEF Unregister, FreeUnlink, Unlink
  <2>2. registered' \in [Sessions -> [Resources -> 0 .. MaxRegistrations]]
    <3>1. registered[s][r] - 1 \in 0 .. MaxRegistrations
      BY <1>1, <2>1 DEF TypeOK
    <3> QED
      BY <1>1, <2>1, <3>1 DEF TypeOK
  <2>3. hostReg' \in [Sessions -> [Resources -> Nat]] /\ hostFailed' \in Nat
    <3>1. hostReg \in [Sessions -> [Resources -> Nat]] /\ hostFailed \in Nat
      BY <1>1 DEF TypeOK
    <3>2. CASE /\ hostReg[s][r] > 0
               /\ hostReg' = [hostReg EXCEPT ![s][r] = @ - 1]
               /\ UNCHANGED hostFailed
      <4>1. hostReg[s][r] - 1 \in Nat
        BY <3>1, <3>2
      <4> QED
        BY <3>1, <3>2, <4>1, CountsType
    <3>3. CASE UNCHANGED <<hostReg, hostFailed>> \/ (HostRefuses /\ UNCHANGED hostReg)
      BY <3>1, <3>3 DEF HostRefuses
    <3> QED
      BY <2>1, <3>2, <3>3 DEF HostUnregister
  <2>4. /\ sarg' = [sarg EXCEPT ![s] = r]
        /\ spc' = [spc EXCEPT ![s] = "uncount"] \/ UNCHANGED spc
        /\ UNCHANGED <<up, virtio, open, dpc, resVars, dirVars, hostOpen, hostRes>>
    BY <1>9 DEF Unregister, FreeUnlink, Unlink
  <2> QED
    BY <1>1, <2>2, <2>3, <2>4 DEF TypeOK, resVars, dirVars
<1>10. ASSUME NEW r \in Resources, ResourceNew(r) PROVE TypeOK'
  <2>1. PICK i \in Ids :
           /\ rid' = [rid EXCEPT ![r] = i]
           /\ \/ hostRes' = hostRes \cup {i} /\ UNCHANGED pool
              \/ /\ i \in PoolAnswers(pool, Ids, Overlap) \ {NoId}
                 /\ pool' = PoolGet(pool) /\ UNCHANGED hostRes
    BY <1>10, IdsArePositive DEF ResourceNew
  <2>2. pool' \in Pools(Ids)
    <3>1. CASE UNCHANGED pool
      BY <1>1, <3>1 DEF TypeOK
    <3>2. CASE i \in PoolAnswers(pool, Ids, Overlap) \ {NoId} /\ pool' = PoolGet(pool)
      <4>1. pool \in Pools(Ids)
        BY <1>1 DEF TypeOK
      <4>2. PoolTop(pool) # NoId
        BY <3>2, <4>1, IdsArePositive, PoolAnswersFacts
      <4> QED
        BY <3>2, <4>1, <4>2, PoolGetFacts
    <3> QED
      BY <2>1, <3>1, <3>2
  <2> QED
    BY <1>1, <1>10, <2>1, <2>2 DEF TypeOK, ResourceNew, callVars
<1>11. ASSUME NEW r \in Resources, ResourceNewFails(r) PROVE TypeOK'
  <2>1. pool' \in Pools(Ids)
    BY <1>1, <1>11, IdsArePositive, PoolGetNothing DEF TypeOK, ResourceNewFails, NoId
  <2> QED
    BY <1>1, <1>11, <2>1 DEF TypeOK, ResourceNewFails, HostRefuses, callVars, dirVars
<1>12. ASSUME NEW r \in Resources, CreateRundir(r) PROVE TypeOK'
  <2>1. rid[r] \in Ids
    BY <1>12 DEF CreateRundir, Listed
  <2> QED
    BY <1>1, <1>12, <2>1 DEF TypeOK, CreateRundir, callVars, resVars, hostVars
<1>13. ASSUME NEW r \in Resources, DestroyCheck(r) \/ DestroyRefused(r) PROVE TypeOK'
  BY <1>1, <1>13 DEF TypeOK, DestroyCheck, DestroyRefused, callVars, resVars, dirVars, hostVars
<1>14. ASSUME NEW r \in Resources, DestroyRelease(r) PROVE TypeOK'
  <2>1. rid[r] \in Ids
    BY <1>14 DEF DestroyRelease, Listed
  <2>2. pool' \in Pools(Ids)
    BY <1>1, <1>14, <2>1, PoolPutFacts DEF TypeOK, DestroyRelease
  <2> QED
    BY <1>1, <1>14, <2>2 DEF TypeOK, DestroyRelease, HostRefuses, dirVars
<1>15. ASSUME NEW r \in Resources, DestroyUnlink(r) PROVE TypeOK'
  BY <1>1, <1>15 DEF TypeOK, DestroyUnlink, Unlist, hostVars
<1>16. ASSUME Fini PROVE TypeOK'
  <2>1. pool' \in Pools(Ids)
    BY <1>16 DEF Fini, Pools
  <2> QED
    BY <1>1, <1>16, <2>1 DEF TypeOK, Fini, callVars, hostVars
<1> QED
  BY <1>2, <1>3, <1>4, <1>5, <1>6, <1>7, <1>8, <1>9, <1>10, <1>11, <1>12, <1>13, <1>14, <1>15, <1>16
     DEF Next

(* Calls about sessions leave resources alone, but for their counts.       *)
LEMMA NextCases ==
    ASSUME Next
    PROVE  \/ UNCHANGED <<up, virtio, dpc, state, rid, live, pool, dirVars, hostRes>>
           \/ Fini
           \/ \E r \in Resources :
                 ResourceNew(r) \/ ResourceNewFails(r) \/ CreateRundir(r) \/ DestroyCheck(r)
                    \/ DestroyRefused(r) \/ DestroyRelease(r) \/ DestroyUnlink(r)
<1> DEFINE Same == UNCHANGED <<up, virtio, dpc, state, rid, live, pool, dirVars, hostRes>>
<1>1. ASSUME NEW s \in Sessions, SessInit(s) \/ SessFree(s) \/ FreeDone(s)
      PROVE  Same
  BY <1>1 DEF SessInit, SessFree, FreeDone, callVars, resVars, hostVars
<1>2. ASSUME NEW s \in Sessions, RegisterCount(s) \/ UnregisterCount(s) \/ FreeUncount(s)
      PROVE  Same
  BY <1>2 DEF RegisterCount, UnregisterCount, FreeUncount, Uncount, hostVars
<1>3. ASSUME NEW s \in Sessions, NEW r \in Resources, RegisterLink(s, r) \/ RegisterRefused(s, r)
      PROVE  Same
  BY <1>3 DEF RegisterLink, RegisterRefused, callVars, resVars
<1>4. ASSUME NEW s \in Sessions, NEW r \in Resources, Unregister(s, r) \/ FreeUnlink(s, r)
      PROVE  Same
  BY <1>4 DEF Unregister, FreeUnlink, Unlink, resVars
<1> HIDE DEF Same
<1>5. Same \/ Fini \/ \E r \in Resources :
          ResourceNew(r) \/ ResourceNewFails(r) \/ CreateRundir(r) \/ DestroyCheck(r)
             \/ DestroyRefused(r) \/ DestroyRelease(r) \/ DestroyUnlink(r)
  BY <1>1, <1>2, <1>3, <1>4 DEF Next
<1> QED
  BY <1>5 DEF Same

(* The list, and what is being destroyed *)
LEMMA ListedStep ==
    ASSUME TypeOK, Listed, Next
    PROVE  Listed'
<1>1. CASE UNCHANGED <<live, state, rid, dpc>>
  BY <1>1 DEF Listed
<1>2. ASSUME NEW r \in Resources, ResourceNew(r) PROVE Listed'
  <2>1. PICK i \in Ids : rid' = [rid EXCEPT ![r] = i]
    BY <1>2 DEF ResourceNew
  <2> QED
    BY <1>2, <2>1 DEF ResourceNew, Listed, TypeOK, callVars
<1>3. ASSUME NEW r \in Resources, DestroyCheck(r) \/ DestroyRefused(r) \/ DestroyRelease(r)
      PROVE  Listed'
  BY <1>3 DEF DestroyCheck, DestroyRefused, DestroyRelease, Listed, TypeOK, callVars, resVars
<1>4. ASSUME NEW r \in Resources, DestroyUnlink(r) PROVE Listed'
  BY <1>4 DEF DestroyUnlink, Unlist, Listed, TypeOK
<1>5. ASSUME Fini PROVE Listed'
  BY <1>5 DEF Fini, Quiet, Listed, TypeOK, callVars
<1>6. ASSUME NEW r \in Resources, ResourceNewFails(r) \/ CreateRundir(r) PROVE Listed'
  BY <1>1, <1>6 DEF ResourceNewFails, CreateRundir, callVars, resVars
<1> QED
  BY <1>1, <1>2, <1>3, <1>4, <1>5, <1>6, NextCases

(* The rundirs *)
LEMMA RundirsStep ==
    ASSUME TypeOK, RundirKept, Next
    PROVE  RundirKept'
<1>1. CASE UNCHANGED <<rid, rundirs, rundir>>
  BY <1>1 DEF RundirKept
<1>2. ASSUME NEW r \in Resources, ResourceNew(r) PROVE RundirKept'
  <2>1. /\ UNCHANGED rundirs /\ rundir' = [rundir EXCEPT ![r] = FALSE]
        /\ \A q \in Resources : q # r => rid'[q] = rid[q]
    BY <1>2 DEF ResourceNew, TypeOK
  <2> QED
    BY <2>1 DEF RundirKept, TypeOK
<1>3. ASSUME NEW r \in Resources, CreateRundir(r) PROVE RundirKept'
  BY <1>3 DEF CreateRundir, MayMkdir, RundirKept, TypeOK, resVars
<1>4. ASSUME NEW r \in Resources, DestroyUnlink(r) PROVE RundirKept'
  BY <1>4 DEF DestroyUnlink, RundirKept, TypeOK
<1>5. ASSUME Fini PROVE RundirKept'
  <2> DEFINE idle == {q \in live : Unused(q)}
  <2>1. /\ UNCHANGED rid
        /\ rundirs' = rundirs \ {rid[r] : r \in {q \in idle : rundir[q]}}
        /\ \A r \in Resources : rundir'[r] = (rundir[r] /\ r \notin idle)
    BY <1>5 DEF Fini
  <2>2. ASSUME NEW r \in Resources, rundir'[r]
        PROVE  rid[r] \in rundirs'
    <3>1. rundir[r] /\ r \notin idle
      BY <2>1, <2>2
    <3>2. \A q \in idle : rundir[q] => rid[q] # rid[r]
      BY <3>1 DEF RundirKept, TypeOK
    <3> QED
      BY <2>1, <3>1, <3>2 DEF RundirKept
  <2> QED
    BY <2>1, <2>2 DEF RundirKept
<1>6. ASSUME NEW r \in Resources, DestroyCheck(r) \/ DestroyRefused(r) PROVE RundirKept'
  BY <1>1, <1>6 DEF DestroyCheck, DestroyRefused, resVars, dirVars
<1>7. ASSUME NEW r \in Resources, ResourceNewFails(r) \/ DestroyRelease(r) PROVE RundirKept'
  BY <1>1, <1>7 DEF ResourceNewFails, DestroyRelease, dirVars
<1> QED
  BY <1>1, <1>2, <1>3, <1>4, <1>5, <1>6, <1>7, NextCases DEF dirVars

(* The threads of sessions *)
LEMMA CallsStep ==
    ASSUME TypeOK, CallsInv, Next
    PROVE  CallsInv'
<1>1. CASE UNCHANGED <<spc, sarg, registered, open>>
  BY <1>1 DEF CallsInv
<1>2. ASSUME NEW s \in Sessions, SessInit(s) PROVE CallsInv'
  BY <1>2 DEF SessInit, CallsInv, TypeOK, callVars
<1>3. ASSUME NEW s \in Sessions, RegisterCount(s) \/ UnregisterCount(s) \/ FreeUncount(s)
      PROVE  CallsInv'
  <2>1. /\ spc' = [spc EXCEPT ![s] = "idle"] \/ (spc' = spc /\ spc[s] = "freeing")
        /\ sarg' = [sarg EXCEPT ![s] = NULL]
        /\ spc[s] # "idle"
        /\ UNCHANGED <<registered, open>>
    BY <1>3 DEF RegisterCount, UnregisterCount, FreeUncount, Uncount
  <2> QED
    BY <2>1 DEF CallsInv, TypeOK
<1>4. ASSUME NEW s \in Sessions, SessFree(s) \/ FreeDone(s) PROVE CallsInv'
  BY <1>4 DEF SessFree, FreeDone, CallsInv, TypeOK
<1>5. ASSUME NEW s \in Sessions, NEW r \in Resources, RegisterLink(s, r) PROVE CallsInv'
  BY <1>5 DEF RegisterLink, CallsInv, TypeOK
<1>6. ASSUME NEW s \in Sessions, NEW r \in Resources, Unregister(s, r) \/ FreeUnlink(s, r)
      PROVE  CallsInv'
  <2>1. /\ s \in open
        /\ spc' = [spc EXCEPT ![s] = "uncount"] \/ (spc' = spc /\ spc[s] = "freeing")
        /\ sarg' = [sarg EXCEPT ![s] = r]
        /\ registered' = [registered EXCEPT ![s][r] = @ - 1]
        /\ UNCHANGED open
    BY <1>6 DEF Unregister, FreeUnlink, Unlink, CallsInv
  <2>2. \A q \in Sessions : q # s => registered'[q] = registered[q]
    BY <2>1 DEF TypeOK
  <2> QED
    BY <2>1, <2>2 DEF CallsInv, TypeOK
<1> QED
  BY <1>1, <1>2, <1>3, <1>4, <1>5, <1>6
     DEF Next, RegisterRefused, ResourceNew, ResourceNewFails, CreateRundir, DestroyCheck,
         DestroyRefused, DestroyRelease, DestroyUnlink, Fini, callVars

-----------------------------------------------------------------------------
(* Ids *)

(* The host has the resources that have their id. *)
HostHasResources == virtio /\ up => \A r \in HaveId : rid[r] \in hostRes

(* Which resources have an id changes by a creation and by a destruction.  *)
LEMMA IdsStep ==
    ASSUME PoolSound, HostHasResources, CallsInv, Listed, Next
    PROVE  PoolSound' /\ HostHasResources'
<1>1. TypeOK /\ TypeOK'
  BY TypeStep DEF PoolSound
<1>2. ASSUME UNCHANGED rid, HaveId' \subseteq HaveId, virtio' => virtio,
             up' => up /\ UNCHANGED <<virtio, pool, hostRes>>
      PROVE  PoolSound' /\ HostHasResources'
  BY <1>1, <1>2 DEF PoolSound, HostHasResources
<1>3. ASSUME NEW r \in Resources, ResourceNew(r)
      PROVE  PoolSound' /\ HostHasResources'
  <2>1. PICK i \in Ids :
           /\ \/ virtio /\ i \notin hostRes /\ hostRes' = hostRes \cup {i} /\ UNCHANGED pool
              \/ /\ ~virtio /\ i \in PoolAnswers(pool, Ids, Overlap)
                 /\ pool' = PoolGet(pool) /\ UNCHANGED hostRes
           /\ rid' = [rid EXCEPT ![r] = i]
           /\ up /\ UNCHANGED <<up, virtio>>
    BY <1>3 DEF ResourceNew
  <2>2. HaveId' = HaveId \cup {r} /\ r \notin HaveId
    <3>1. /\ state[r] = "none" /\ state' = [state EXCEPT ![r] = "live"] /\ dpc' = dpc
          /\ dpc[r] = "idle"
      BY <1>1, <1>3 DEF ResourceNew, Listed, TypeOK, callVars
    <3> QED
      BY <1>1, <3>1 DEF HaveId, TypeOK
  <2>3. rid'[r] = i /\ \A q \in HaveId : rid'[q] = rid[q]
    BY <1>1, <2>1, <2>2 DEF TypeOK, HaveId
  <2>4. CASE virtio
    BY <1>1, <2>1, <2>2, <2>3, <2>4 DEF PoolSound, HostHasResources
  <2>5. CASE ~virtio
    <3>1. ~Overlap => /\ i \in FreeIds(pool)
                      /\ FreeIds(pool') \subseteq FreeIds(pool)
                      /\ FreeOnce(pool') /\ i \notin FreeIds(pool')
      <4>1. /\ PoolTop(pool) # NoId /\ pool' = PoolGet(pool)
            /\ ~Overlap => i = PoolTop(pool)
        <5>1. pool \in Pools(Ids) /\ i \in PoolAnswers(pool, Ids, Overlap) \ {NoId}
          BY <1>1, <2>1, <2>5, IdsArePositive DEF TypeOK
        <5> QED
          BY <2>1, <2>5, <5>1, IdsArePositive, PoolAnswersFacts
      <4> QED
        BY <1>1, <2>1, <4>1, PoolGetFacts DEF PoolSound, TypeOK
    <3> QED
      BY <1>1, <2>1, <2>2, <2>3, <2>5, <3>1 DEF PoolSound, HostHasResources
  <2> QED
    BY <2>4, <2>5
<1>4. ASSUME NEW r \in Resources, ResourceNewFails(r)
      PROVE  PoolSound' /\ HostHasResources'
  <2>1. UNCHANGED <<HaveId, rid, up, virtio, hostRes>>
    BY <1>4 DEF ResourceNewFails, HaveId, callVars
  <2>2. CASE UNCHANGED pool
    BY <1>2, <2>1, <2>2
  <2>3. CASE ~virtio /\ PoolTop(pool) = NoId /\ pool' = PoolGet(pool)
    <3>1. pool'.free = pool.free
      BY <1>1, <2>3, IdsArePositive, PoolGetNothing DEF TypeOK, NoId
    <3> QED
      BY <1>1, <2>1, <2>3, <3>1 DEF PoolSound, HostHasResources, FreeOnce, FreeIds
  <2> QED
    BY <1>4, <2>2, <2>3 DEF ResourceNewFails
<1>5. ASSUME NEW r \in Resources, DestroyRelease(r)
      PROVE  PoolSound' /\ HostHasResources'
  <2>1. /\ r \in HaveId /\ HaveId' = HaveId \ {r}
        /\ rid[r] \in Ids
        /\ UNCHANGED <<rid, up, virtio>>
    <3>1. /\ dpc[r] = "release" /\ dpc' = [dpc EXCEPT ![r] = "unlink"]
          /\ UNCHANGED <<state, rid, up, virtio>>
      BY <1>5 DEF DestroyRelease
    <3>2. state[r] = "live" /\ rid[r] \in Ids
      BY <3>1 DEF Listed
    <3> QED
      BY <1>1, <3>1, <3>2 DEF HaveId, TypeOK
  <2>2. virtio \/ ~Overlap => \A q \in HaveId' : rid[q] # rid[r]
    BY <2>1 DEF PoolSound
  <2>3. CASE virtio
    <3>1. UNCHANGED pool /\ (hostRes' = hostRes \/ hostRes' = hostRes \ {rid[r]})
      BY <1>5, <2>3 DEF DestroyRelease
    <3> QED
      BY <1>1, <2>1, <2>2, <2>3, <3>1 DEF PoolSound, HostHasResources
  <2>4. CASE ~virtio
    <3>1. pool' = PoolPut(pool, rid[r])
      BY <1>5, <2>4 DEF DestroyRelease
    <3>2. CASE up /\ ~Overlap
      <4>1. FreeOnce(pool) /\ rid[r] \notin FreeIds(pool)
        BY <2>1, <2>4, <3>2 DEF PoolSound
      <4>2. FreeIds(pool') \subseteq FreeIds(pool) \cup {rid[r]} /\ FreeOnce(pool')
        BY <1>1, <2>1, <3>1, <4>1, PoolPutFacts DEF TypeOK
      <4> QED
        BY <1>1, <2>1, <2>2, <2>4, <4>1, <4>2 DEF PoolSound, HostHasResources
    <3> QED
      BY <1>1, <2>1, <2>2, <2>4, <3>2 DEF PoolSound, HostHasResources
  <2> QED
    BY <2>3, <2>4
<1>6. ASSUME NEW r \in Resources, DestroyUnlink(r)
      PROVE  PoolSound' /\ HostHasResources'
  <2>1. HaveId' \subseteq HaveId /\ UNCHANGED <<rid, up, virtio, pool, hostRes>>
    BY <1>1, <1>6 DEF DestroyUnlink, HaveId, TypeOK, hostVars
  <2> QED
    BY <1>2, <2>1
<1>7. ASSUME Fini
      PROVE  PoolSound' /\ HostHasResources'
  <2>1. HaveId' \subseteq HaveId /\ UNCHANGED rid /\ ~up' /\ ~virtio'
    BY <1>1, <1>7 DEF Fini, HaveId, TypeOK, callVars
  <2> QED
    BY <1>2, <2>1
<1>8. ASSUME NEW r \in Resources, DestroyCheck(r) \/ DestroyRefused(r) \/ CreateRundir(r)
      PROVE  PoolSound' /\ HostHasResources'
  <2>1. HaveId' \subseteq HaveId /\ UNCHANGED <<rid, up, virtio, pool, hostRes>>
    BY <1>1, <1>8
       DEF DestroyCheck, DestroyRefused, CreateRundir, HaveId, TypeOK, callVars, resVars, hostVars
  <2> QED
    BY <1>2, <2>1
<1>9. ASSUME UNCHANGED <<state, dpc, rid, up, virtio, pool, hostRes>>
      PROVE  PoolSound' /\ HostHasResources'
  <2>1. HaveId' = HaveId
    BY <1>9 DEF HaveId
  <2> QED
    BY <1>2, <1>9, <2>1
<1> QED
  BY <1>3, <1>4, <1>5, <1>6, <1>7, <1>8, <1>9, NextCases

(* The registrations of open sessions at the host *)
HostHasRegistrations ==
    virtio /\ up =>
        \A s \in open, r \in Resources :
            spc[s] # "freeing" => hostReg[s][r] >= registered[s][r]

LEMMA RegistrationsStep ==
    ASSUME TypeOK, CallsInv, HostHasRegistrations, Next
    PROVE  HostHasRegistrations'
<1>1. CASE UNCHANGED <<up, virtio, open, spc, hostReg, registered>>
  BY <1>1 DEF HostHasRegistrations
<1>2. ASSUME NEW s \in Sessions, SessInit(s) PROVE HostHasRegistrations'
  BY <1>2 DEF SessInit, HostHasRegistrations, TypeOK, callVars
<1>3. ASSUME NEW s \in Sessions, RegisterCount(s) \/ UnregisterCount(s) \/ FreeUncount(s)
      PROVE  HostHasRegistrations'
  <2>1. /\ (spc' = [spc EXCEPT ![s] = "idle"] /\ spc[s] # "freeing") \/ UNCHANGED spc
        /\ UNCHANGED <<up, virtio, open, registered, hostReg>>
    BY <1>3 DEF RegisterCount, UnregisterCount, FreeUncount, Uncount, hostVars
  <2> QED
    BY <2>1 DEF HostHasRegistrations, TypeOK
<1>4. ASSUME NEW s \in Sessions, SessFree(s) PROVE HostHasRegistrations'
  BY <1>4 DEF SessFree, HostHasRegistrations, TypeOK
<1>5. ASSUME NEW s \in Sessions, FreeDone(s) PROVE HostHasRegistrations'
  BY <1>5 DEF FreeDone, HostHasRegistrations, TypeOK, hostVars
<1>6. ASSUME NEW s \in Sessions, NEW r \in Resources, RegisterLink(s, r)
      PROVE  HostHasRegistrations'
  BY <1>6 DEF RegisterLink, HostRegister, HostHasRegistrations, TypeOK
<1>7. ASSUME NEW s \in Sessions, NEW r \in Resources, Unregister(s, r) \/ FreeUnlink(s, r)
      PROVE  HostHasRegistrations'
  <2>1. /\ registered' = [registered EXCEPT ![s][r] = @ - 1]
        /\ \/ hostReg[s][r] > 0 /\ hostReg' = [hostReg EXCEPT ![s][r] = @ - 1]
           \/ UNCHANGED hostReg
        /\ (spc' = [spc EXCEPT ![s] = "uncount"] /\ spc[s] # "freeing") \/ UNCHANGED spc
        /\ UNCHANGED <<up, virtio, open>>
    BY <1>7 DEF Unregister, FreeUnlink, Unlink, HostUnregister, HostRefuses
  <2>2. SUFFICES ASSUME virtio, up, NEW q \in open, NEW p \in Resources, spc'[q] # "freeing"
                 PROVE  hostReg'[q][p] >= registered'[q][p]
    BY <2>1 DEF HostHasRegistrations
  <2>3. q \in Sessions /\ spc[q] # "freeing" /\ hostReg[q][p] >= registered[q][p]
    BY <2>1, <2>2 DEF HostHasRegistrations, TypeOK
  <2>4. hostReg[q][p] \in Nat /\ registered[q][p] \in Nat
    BY <2>3 DEF TypeOK
  <2>5. CASE q = s /\ p = r
    BY <2>1, <2>3, <2>4, <2>5 DEF TypeOK
  <2>6. CASE ~(q = s /\ p = r)
    <3>1. hostReg'[q][p] = hostReg[q][p] /\ registered'[q][p] = registered[q][p]
      BY <2>1, <2>3, <2>6 DEF TypeOK
    <3> QED
      BY <2>3, <3>1
  <2> QED
    BY <2>5, <2>6
<1>8. ASSUME Fini PROVE HostHasRegistrations'
  BY <1>8 DEF Fini, HostHasRegistrations
<1> QED
  BY <1>1, <1>2, <1>3, <1>4, <1>5, <1>6, <1>7, <1>8
     DEF Next, RegisterRefused, ResourceNew, ResourceNewFails, CreateRundir, DestroyCheck,
         DestroyRefused, DestroyRelease, DestroyUnlink, callVars, hostVars

-----------------------------------------------------------------------------
(* Reference counts, of the resources whose register and destroy do not overlap *)

(* What does not exist, or is being destroyed, is not counted, not on any  *)
(* list of registered resources, and no call has it in hand.               *)
Unreferenced(r) ==
    /\ refcount[r] = 0
    /\ \A s \in Sessions : registered[s][r] = 0 /\ sarg[s] # r

Untouched ==
    \A r \in Resources \ Racing : state[r] = "none" \/ dpc[r] # "idle" => Unreferenced(r)

RefcountInv == RefcountExact /\ Untouched

LEMMA SetsAreFinite ==
    ASSUME NEW r
    PROVE  /\ IsFiniteSet(Containers(r)) /\ Cardinality(Containers(r)) \in Nat
           /\ IsFiniteSet(Counting(r)) /\ Cardinality(Counting(r)) \in Nat
           /\ IsFiniteSet(Uncounting(r)) /\ Cardinality(Uncounting(r)) \in Nat
<1>1. Containers(r) \subseteq AllContainers
  BY DEF Containers
<1>2. Counting(r) \subseteq Sessions /\ Uncounting(r) \subseteq Sessions
  BY DEF Counting, Uncounting
<1> QED
  BY <1>1, <1>2, SessionsAssumption, FS_Subset, FS_CardinalityType

(* A count of 0 that no call is about to raise means that nothing refers   *)
(* to the resource.                                                        *)
LEMMA ZeroMeansUnreferenced ==
    ASSUME TypeOK, CallsInv, RefcountExact, NEW r \in Resources \ Racing,
           refcount[r] = 0, Counting(r) = {}
    PROVE  Unreferenced(r)
<1>1. Cardinality(Counting(r)) = 0
  BY FS_EmptySet
<1>2. Cardinality(Containers(r)) = 0 /\ Cardinality(Uncounting(r)) = 0
  <2>1. /\ Cardinality(Containers(r)) \in Nat /\ Cardinality(Uncounting(r)) \in Nat
        /\ 0 = Cardinality(Containers(r)) - 0 + Cardinality(Uncounting(r))
    BY <1>1, SetsAreFinite DEF RefcountExact
  <2> QED
    BY <2>1
<1>3. Containers(r) = {} /\ Uncounting(r) = {}
  <2>1. IsFiniteSet(Containers(r)) /\ IsFiniteSet(Uncounting(r))
    BY SetsAreFinite
  <2> QED
    BY <1>2, <2>1, FS_EmptySet
<1>4. ASSUME NEW s \in Sessions PROVE registered[s][r] = 0
  <2>1. registered[s][r] \in 0 .. MaxRegistrations
    BY DEF TypeOK
  <2>2. CASE registered[s][r] > 0
    <3>1. 1 \in 1 .. MaxRegistrations /\ <<s, 1>> \in AllContainers
      BY <2>1, <2>2 DEF AllContainers
    <3>2. <<s, 1>> \in Containers(r)
      BY <2>1, <2>2, <3>1 DEF Containers
    <3> QED
      BY <1>3, <3>2
  <2> QED
    BY <2>1, <2>2
<1>5. ASSUME NEW s \in Sessions PROVE sarg[s] # r
  <2>1. r # NULL /\ spc[s] \in {"idle", "count", "uncount", "freeing"}
    BY DEF TypeOK
  <2> QED
    BY <1>3, <2>1 DEF Counting, Uncounting, CallsInv
<1> QED
  BY <1>4, <1>5 DEF Unreferenced

(* What the calls of sessions do to the sets that are counted *)
LEMMA RegisterLinkSets ==
    ASSUME TypeOK, CallsInv, NEW s \in Sessions, NEW r \in Resources, RegisterLink(s, r),
           NEW q \in Resources
    PROVE  /\ q # r => UNCHANGED <<Containers(q), Counting(q), Uncounting(q)>>
           /\ q = r =>
                 /\ Cardinality(Containers(q)') = Cardinality(Containers(q)) + 1
                 /\ Cardinality(Counting(q)') = Cardinality(Counting(q)) + 1
                 /\ UNCHANGED Uncounting(q)
<1> DEFINE n == registered[s][r]
<1>1. /\ spc[s] = "idle" /\ sarg[s] = NULL /\ n \in 0 .. MaxRegistrations /\ n < MaxRegistrations
      /\ registered' = [registered EXCEPT ![s][r] = n + 1]
      /\ spc' = [spc EXCEPT ![s] = "count"]
      /\ sarg' = [sarg EXCEPT ![s] = r]
  BY DEF RegisterLink, CallsInv, TypeOK
<1>2. CASE q # r
  <2>1. \A t \in Sessions : registered'[t][q] = registered[t][q]
    BY <1>1, <1>2 DEF TypeOK
  <2>2. UNCHANGED Containers(q)
    BY <2>1 DEF Containers, AllContainers
  <2>3. UNCHANGED <<Counting(q), Uncounting(q)>>
    BY <1>1, <1>2 DEF TypeOK, Counting, Uncounting
  <2> QED
    BY <1>2, <2>2, <2>3
<1>3. CASE q = r
  <2>1. Containers(r)' = Containers(r) \cup {<<s, n + 1>>} /\ <<s, n + 1>> \notin Containers(r)
    <3>1. <<s, n + 1>> \in AllContainers
      BY <1>1 DEF AllContainers
    <3>2. registered'[s][r] = n + 1 /\ \A t \in Sessions : t # s => registered'[t][r] = registered[t][r]
      BY <1>1 DEF TypeOK
    <3>3. \A c \in AllContainers :
             c[2] <= registered'[c[1]][r] <=> c[2] <= registered[c[1]][r] \/ c = <<s, n + 1>>
      <4>1. SUFFICES ASSUME NEW t \in Sessions, NEW k \in 1 .. MaxRegistrations
                     PROVE  k <= registered'[t][r] <=>
                              k <= registered[t][r] \/ <<t, k>> = <<s, n + 1>>
        BY DEF AllContainers
      <4>2. registered[t][r] \in Nat /\ k \in Nat /\ n \in Nat
        BY <1>1 DEF TypeOK
      <4>3. <<t, k>> = <<s, n + 1>> <=> t = s /\ k = n + 1
        OBVIOUS
      <4> QED
        BY <3>2, <4>2, <4>3
    <3>4. ~(n + 1 <= registered[s][r])
      BY <1>1
    <3> QED
      BY <3>1, <3>3, <3>4 DEF Containers
  <2>2. Counting(r)' = Counting(r) \cup {s} /\ s \notin Counting(r)
    BY <1>1 DEF TypeOK, Counting
  <2>3. UNCHANGED Uncounting(r)
    BY <1>1 DEF TypeOK, Uncounting
  <2>4. Cardinality(Containers(r)') = Cardinality(Containers(r)) + 1
    BY <2>1, SetsAreFinite, FS_AddElement
  <2>5. Cardinality(Counting(r)') = Cardinality(Counting(r)) + 1
    BY <2>2, SetsAreFinite, FS_AddElement
  <2> QED
    BY <1>3, <2>3, <2>4, <2>5
<1> QED
  BY <1>2, <1>3

LEMMA UnlinkSets ==
    ASSUME TypeOK, CallsInv, NEW s \in Sessions, NEW r \in Resources,
           Unregister(s, r) \/ FreeUnlink(s, r), NEW q \in Resources
    PROVE  /\ q # r => UNCHANGED <<Containers(q), Counting(q), Uncounting(q)>>
           /\ q = r =>
                 /\ Cardinality(Containers(q)') = Cardinality(Containers(q)) - 1
                 /\ Cardinality(Uncounting(q)') = Cardinality(Uncounting(q)) + 1
                 /\ UNCHANGED Counting(q)
<1> DEFINE n == registered[s][r]
<1>1. /\ spc[s] \in {"idle", "freeing"} /\ sarg[s] = NULL /\ n \in 0 .. MaxRegistrations /\ n > 0
      /\ registered' = [registered EXCEPT ![s][r] = n - 1]
      /\ spc'[s] \in {"uncount", "freeing"}
      /\ \A t \in Sessions : t # s => spc'[t] = spc[t]
      /\ sarg' = [sarg EXCEPT ![s] = r]
  BY DEF Unregister, FreeUnlink, Unlink, CallsInv, TypeOK
<1>2. CASE q # r
  <2>1. \A t \in Sessions : registered'[t][q] = registered[t][q]
    BY <1>1, <1>2 DEF TypeOK
  <2>2. UNCHANGED Containers(q)
    BY <2>1 DEF Containers, AllContainers
  <2>3. UNCHANGED <<Counting(q), Uncounting(q)>>
    BY <1>1, <1>2 DEF TypeOK, Counting, Uncounting
  <2> QED
    BY <1>2, <2>2, <2>3
<1>3. CASE q = r
  <2>1. Containers(r)' = Containers(r) \ {<<s, n>>} /\ <<s, n>> \in Containers(r)
    <3>1. <<s, n>> \in AllContainers
      BY <1>1 DEF AllContainers
    <3>2. registered'[s][r] = n - 1 /\ \A t \in Sessions : t # s => registered'[t][r] = registered[t][r]
      BY <1>1 DEF TypeOK
    <3>3. \A c \in AllContainers :
             c[2] <= registered'[c[1]][r] <=> c[2] <= registered[c[1]][r] /\ c # <<s, n>>
      <4>1. SUFFICES ASSUME NEW t \in Sessions, NEW k \in 1 .. MaxRegistrations
                     PROVE  k <= registered'[t][r] <=>
                              k <= registered[t][r] /\ <<t, k>> # <<s, n>>
        BY DEF AllContainers
      <4>2. registered[t][r] \in Nat /\ k \in Nat /\ n \in Nat
        BY <1>1 DEF TypeOK
      <4>3. <<t, k>> = <<s, n>> <=> t = s /\ k = n
        OBVIOUS
      <4> QED
        BY <3>2, <4>2, <4>3
    <3>4. n <= registered[s][r]
      BY <1>1
    <3> QED
      BY <3>1, <3>3, <3>4 DEF Containers
  <2>2. Uncounting(r)' = Uncounting(r) \cup {s} /\ s \notin Uncounting(r)
    BY <1>1 DEF TypeOK, Uncounting
  <2>3. UNCHANGED Counting(r)
    BY <1>1 DEF TypeOK, Counting
  <2>4. Cardinality(Containers(r)') = Cardinality(Containers(r)) - 1
    <3> DEFINE c == <<s, n>>
    <3>1. Containers(r)' = Containers(r) \ {c} /\ c \in Containers(r)
      BY <2>1
    <3> HIDE DEF c
    <3>2. IsFiniteSet(Containers(r))
      BY SetsAreFinite
    <3>3. Cardinality(Containers(r) \ {c}) = Cardinality(Containers(r)) - 1
      BY <3>1, <3>2, FS_RemoveElement
    <3> QED
      BY <3>1, <3>3
  <2>5. Cardinality(Uncounting(r)') = Cardinality(Uncounting(r)) + 1
    BY <2>2, SetsAreFinite, FS_AddElement
  <2> QED
    BY <1>3, <2>3, <2>4, <2>5
<1> QED
  BY <1>2, <1>3

LEMMA CountSets ==
    ASSUME TypeOK, CallsInv, NEW s \in Sessions, RegisterCount(s), NEW q \in Resources
    PROVE  /\ UNCHANGED <<Containers(q), Uncounting(q)>>
           /\ q # sarg[s] => UNCHANGED Counting(q)
           /\ q = sarg[s] => Cardinality(Counting(q)') = Cardinality(Counting(q)) - 1
<1>1. /\ spc[s] = "count" /\ q # NULL
      /\ spc' = [spc EXCEPT ![s] = "idle"]
      /\ sarg' = [sarg EXCEPT ![s] = NULL]
      /\ UNCHANGED registered
  BY DEF RegisterCount
<1>2. UNCHANGED <<Containers(q), Uncounting(q)>>
  BY <1>1 DEF TypeOK, Containers, Uncounting
<1>3. ASSUME q # sarg[s] PROVE UNCHANGED Counting(q)
  BY <1>1, <1>3 DEF TypeOK, Counting
<1>4. ASSUME q = sarg[s] PROVE Cardinality(Counting(q)') = Cardinality(Counting(q)) - 1
  <2>1. Counting(q)' = Counting(q) \ {s} /\ s \in Counting(q)
    BY <1>1, <1>4 DEF TypeOK, Counting
  <2>2. IsFiniteSet(Counting(q))
    BY SetsAreFinite
  <2>3. Cardinality(Counting(q) \ {s}) = Cardinality(Counting(q)) - 1
    BY <2>1, <2>2, FS_RemoveElement
  <2> QED
    BY <2>1, <2>3
<1> QED
  BY <1>2, <1>3, <1>4

LEMMA UncountSets ==
    ASSUME TypeOK, CallsInv, NEW s \in Sessions, UnregisterCount(s) \/ FreeUncount(s),
           NEW q \in Resources
    PROVE  /\ UNCHANGED <<Containers(q), Counting(q)>>
           /\ q # sarg[s] => UNCHANGED Uncounting(q)
           /\ q = sarg[s] => Cardinality(Uncounting(q)') = Cardinality(Uncounting(q)) - 1
<1>1. /\ spc[s] \in {"uncount", "freeing"} /\ q # NULL
      /\ spc'[s] \in {"idle", "freeing"}
      /\ \A t \in Sessions : t # s => spc'[t] = spc[t]
      /\ sarg' = [sarg EXCEPT ![s] = NULL]
      /\ UNCHANGED registered
  BY DEF UnregisterCount, FreeUncount, Uncount, TypeOK
<1>2. UNCHANGED <<Containers(q), Counting(q)>>
  BY <1>1 DEF TypeOK, Containers, Counting
<1>3. ASSUME q # sarg[s] PROVE UNCHANGED Uncounting(q)
  BY <1>1, <1>3 DEF TypeOK, Uncounting
<1>4. ASSUME q = sarg[s] PROVE Cardinality(Uncounting(q)') = Cardinality(Uncounting(q)) - 1
  <2>1. Uncounting(q)' = Uncounting(q) \ {s} /\ s \in Uncounting(q)
    BY <1>1, <1>4 DEF TypeOK, Uncounting
  <2>2. IsFiniteSet(Uncounting(q))
    BY SetsAreFinite
  <2>3. Cardinality(Uncounting(q) \ {s}) = Cardinality(Uncounting(q)) - 1
    BY <2>1, <2>2, FS_RemoveElement
  <2> QED
    BY <2>1, <2>3
<1> QED
  BY <1>2, <1>3, <1>4

(* The other steps leave the three sets of every resource alone. *)
LEMMA OtherSets ==
    ASSUME TypeOK, CallsInv, NEW q \in Resources,
           \/ UNCHANGED <<spc, sarg, registered>>
           \/ \E s \in Sessions : SessInit(s) \/ SessFree(s) \/ FreeDone(s)
    PROVE  UNCHANGED <<Containers(q), Counting(q), Uncounting(q)>>
<1>1. CASE UNCHANGED <<spc, sarg, registered>>
  BY <1>1 DEF Containers, Counting, Uncounting
<1>2. ASSUME NEW s \in Sessions, SessInit(s)
      PROVE  UNCHANGED <<Containers(q), Counting(q), Uncounting(q)>>
  <2>1. \A t \in Sessions : registered'[t][q] = registered[t][q]
    BY <1>2 DEF SessInit, CallsInv, TypeOK
  <2> QED
    BY <1>2, <2>1 DEF SessInit, callVars, Containers, AllContainers, Counting, Uncounting
<1>3. ASSUME NEW s \in Sessions, SessFree(s) \/ FreeDone(s)
      PROVE  UNCHANGED <<Containers(q), Counting(q), Uncounting(q)>>
  <2>1. /\ sarg[s] = NULL /\ q # NULL
        /\ \A t \in Sessions : t # s => spc'[t] = spc[t]
        /\ spc[s] # "count" /\ spc'[s] # "count"
        /\ UNCHANGED <<sarg, registered>>
    BY <1>3 DEF SessFree, FreeDone, CallsInv, TypeOK
  <2> QED
    BY <2>1 DEF Containers, Counting, Uncounting
<1> QED
  BY <1>1, <1>2, <1>3

(* A step that does not touch the three sets of a resource, nor its count, *)
(* keeps the count exact.                                                  *)
LEMMA CountKept ==
    ASSUME RefcountExact,
           \A q \in Resources \ Racing :
              UNCHANGED <<refcount[q], Containers(q), Counting(q), Uncounting(q)>>
    PROVE  RefcountExact'
BY DEF RefcountExact

LEMMA RefcountStep ==
    ASSUME TypeOK, CallsInv, Listed, RefcountInv, Next
    PROVE  RefcountInv'
<1>1. RefcountExact /\ Untouched
  BY DEF RefcountInv
<1>2. ASSUME NEW s \in Sessions, SessInit(s) \/ SessFree(s) \/ FreeDone(s)
      PROVE  RefcountInv'
  <2>1. RefcountExact'
    <3>1. UNCHANGED refcount
      BY <1>2 DEF SessInit, SessFree, FreeDone, resVars
    <3> QED
      BY <1>1, <1>2, <3>1, OtherSets, CountKept
  <2>2. /\ UNCHANGED <<state, dpc, refcount, sarg>>
        /\ \A t \in Sessions, r \in Resources : registered'[t][r] = registered[t][r]
    BY <1>2 DEF SessInit, SessFree, FreeDone, resVars, callVars, TypeOK, CallsInv
  <2>3. Untouched'
    BY <1>1, <2>2 DEF Untouched, Unreferenced
  <2> QED
    BY <2>1, <2>3 DEF RefcountInv
<1>3. ASSUME NEW s \in Sessions, NEW r \in Resources, RegisterLink(s, r)
      PROVE  RefcountInv'
  <2>1. UNCHANGED <<refcount, state, dpc>>
    BY <1>3 DEF RegisterLink, resVars
  <2>2. RefcountExact'
    BY <1>1, <1>3, <2>1, RegisterLinkSets, SetsAreFinite DEF RefcountExact, TypeOK
  <2>3. state[r] # "none" /\ (r \notin Racing => dpc[r] = "idle")
    BY <1>3 DEF RegisterLink
  <2>4. \A t \in Sessions, q \in Resources :
           q # r => registered'[t][q] = registered[t][q] /\ (sarg[t] # q => sarg'[t] # q)
    BY <1>3 DEF RegisterLink, TypeOK
  <2>5. Untouched'
    BY <1>1, <2>1, <2>3, <2>4 DEF Untouched, Unreferenced
  <2> QED
    BY <2>2, <2>5 DEF RefcountInv
<1>4. ASSUME NEW s \in Sessions, NEW r \in Resources, Unregister(s, r) \/ FreeUnlink(s, r)
      PROVE  RefcountInv'
  <2>1. UNCHANGED <<refcount, state, dpc>>
    BY <1>4 DEF Unregister, FreeUnlink, Unlink, resVars
  <2>2. RefcountExact'
    <3>1. ASSUME NEW q \in Resources \ Racing
          PROVE  Cardinality(Containers(q)') - Cardinality(Counting(q)') + Cardinality(Uncounting(q)')
                    = Cardinality(Containers(q)) - Cardinality(Counting(q)) + Cardinality(Uncounting(q))
      <4>1. /\ Cardinality(Containers(q)) \in Nat /\ Cardinality(Counting(q)) \in Nat
            /\ Cardinality(Uncounting(q)) \in Nat
        BY <1>1, SetsAreFinite
      <4>2. CASE q # r
        BY <1>1, <1>4, <4>2, UnlinkSets
      <4>3. CASE q = r
        BY <1>1, <1>4, <4>1, <4>3, UnlinkSets
      <4> QED
        BY <4>2, <4>3
    <3> QED
      BY <1>1, <2>1, <3>1 DEF RefcountExact
  <2>3. registered[s][r] # 0
    BY <1>4 DEF Unregister, FreeUnlink, Unlink, TypeOK
  <2>4. \A t \in Sessions, q \in Resources :
           q # r => registered'[t][q] = registered[t][q] /\ (sarg[t] # q => sarg'[t] # q)
    BY <1>4 DEF Unregister, FreeUnlink, Unlink, TypeOK
  <2>5. Untouched'
    BY <1>1, <2>1, <2>3, <2>4 DEF Untouched, Unreferenced
  <2> QED
    BY <2>2, <2>5 DEF RefcountInv
<1>5. ASSUME NEW s \in Sessions, RegisterCount(s)
      PROVE  RefcountInv'
  <2>1. /\ sarg[s] \in Resources
        /\ refcount' = [refcount EXCEPT ![sarg[s]] = @ + 1]
        /\ sarg' = [sarg EXCEPT ![s] = NULL]
        /\ UNCHANGED <<state, dpc, registered>>
    BY <1>5 DEF RegisterCount, resource_refcount_inc, CallsInv
  <2>2. ASSUME NEW q \in Resources \ Racing
        PROVE  refcount'[q] = Cardinality(Containers(q)') - Cardinality(Counting(q)')
                                 + Cardinality(Uncounting(q)')
    <3>1. refcount'[q] = IF q = sarg[s] THEN refcount[q] + 1 ELSE refcount[q]
      BY <2>1 DEF TypeOK
    <3>2. refcount[q] = Cardinality(Containers(q)) - Cardinality(Counting(q))
                           + Cardinality(Uncounting(q))
      BY <1>1 DEF RefcountExact
    <3> QED
      BY <1>5, <3>1, <3>2, CountSets, SetsAreFinite
  <2>3. RefcountExact'
    BY <2>2 DEF RefcountExact
  <2>4. Untouched'
    BY <1>1, <2>1 DEF Untouched, Unreferenced, TypeOK
  <2> QED
    BY <2>3, <2>4 DEF RefcountInv
<1>6. ASSUME NEW s \in Sessions, UnregisterCount(s) \/ FreeUncount(s)
      PROVE  RefcountInv'
  <2>1. /\ sarg[s] \in Resources
        /\ refcount' = [refcount EXCEPT ![sarg[s]] = @ - 1]
        /\ sarg' = [sarg EXCEPT ![s] = NULL]
        /\ UNCHANGED <<state, dpc, registered>>
    BY <1>6 DEF UnregisterCount, FreeUncount, Uncount, resource_refcount_dec, CallsInv, TypeOK
  <2>2. ASSUME NEW q \in Resources \ Racing
        PROVE  refcount'[q] = Cardinality(Containers(q)') - Cardinality(Counting(q)')
                                 + Cardinality(Uncounting(q)')
    <3>1. refcount'[q] = IF q = sarg[s] THEN refcount[q] - 1 ELSE refcount[q]
      BY <2>1 DEF TypeOK
    <3>2. refcount[q] = Cardinality(Containers(q)) - Cardinality(Counting(q))
                           + Cardinality(Uncounting(q))
      BY <1>1 DEF RefcountExact
    <3> QED
      BY <1>6, <3>1, <3>2, UncountSets, SetsAreFinite
  <2>3. RefcountExact'
    BY <2>2 DEF RefcountExact
  <2>4. Untouched'
    BY <1>1, <2>1 DEF Untouched, Unreferenced, TypeOK
  <2> QED
    BY <2>3, <2>4 DEF RefcountInv
<1>7. ASSUME NEW r \in Resources, ResourceNew(r)
      PROVE  RefcountInv'
  <2>1. /\ state[r] = "none" /\ dpc[r] = "idle"
        /\ refcount' = [refcount EXCEPT ![r] = 0]
        /\ state' = [state EXCEPT ![r] = "live"]
        /\ UNCHANGED <<dpc, spc, sarg, registered>>
    BY <1>7 DEF ResourceNew, Listed, callVars
  <2>2. \A q \in Resources \ Racing : refcount'[q] = refcount[q]
    BY <1>1, <2>1 DEF TypeOK, Untouched, Unreferenced
  <2>3. RefcountExact'
    BY <1>1, <2>1, <2>2, OtherSets, CountKept
  <2>4. Untouched'
    BY <1>1, <2>1, <2>2 DEF Untouched, Unreferenced, TypeOK
  <2> QED
    BY <2>3, <2>4 DEF RefcountInv
<1>8. ASSUME NEW r \in Resources, DestroyCheck(r)
      PROVE  RefcountInv'
  <2>1. /\ dpc' = [dpc EXCEPT ![r] = "release"]
        /\ UNCHANGED <<state, refcount, spc, sarg, registered>>
    BY <1>8 DEF DestroyCheck, resVars
  <2>2. r \notin Racing => Unreferenced(r)
    BY <1>1, <1>8, ZeroMeansUnreferenced DEF DestroyCheck, Unused
  <2>3. RefcountExact'
    BY <1>1, <2>1, OtherSets, CountKept
  <2>4. Untouched'
    BY <1>1, <2>1, <2>2 DEF Untouched, Unreferenced, TypeOK
  <2> QED
    BY <2>3, <2>4 DEF RefcountInv
<1>9. ASSUME Fini
      PROVE  RefcountInv'
  <2>1. /\ UNCHANGED <<refcount, spc, sarg, dpc, registered>>
        /\ \A r \in Resources : dpc[r] = "idle" /\ Counting(r) = {}
        /\ \A r \in Resources \ Racing : state'[r] = "none" => state[r] = "none" \/ refcount[r] = 0
    BY <1>9 DEF Fini, Quiet, Unused, Counting, callVars
  <2>2. RefcountExact'
    BY <1>1, <2>1, OtherSets, CountKept
  <2>3. \A r \in Resources \ Racing : state'[r] = "none" => Unreferenced(r)
    BY <1>1, <2>1, ZeroMeansUnreferenced DEF Untouched
  <2>4. Untouched'
    BY <2>1, <2>3 DEF Untouched, Unreferenced
  <2> QED
    BY <2>2, <2>4 DEF RefcountInv
<1>10. ASSUME NEW r \in Resources,
              DestroyRefused(r) \/ DestroyRelease(r) \/ DestroyUnlink(r)
       PROVE  RefcountInv'
  <2>1. /\ UNCHANGED <<refcount, spc, sarg, registered>>
        /\ \A q \in Resources :
              state'[q] = "none" \/ dpc'[q] # "idle" => state[q] = "none" \/ dpc[q] # "idle"
    BY <1>10 DEF DestroyRefused, DestroyRelease, DestroyUnlink, callVars, TypeOK
  <2>2. RefcountExact'
    BY <1>1, <2>1, OtherSets, CountKept
  <2>3. Untouched'
    BY <1>1, <2>1 DEF Untouched, Unreferenced
  <2> QED
    BY <2>2, <2>3 DEF RefcountInv
<1>11. CASE UNCHANGED <<state, dpc, refcount, spc, sarg, registered>>
  <2>1. RefcountExact'
    BY <1>1, <1>11, OtherSets, CountKept
  <2>2. Untouched'
    BY <1>1, <1>11 DEF Untouched, Unreferenced
  <2> QED
    BY <2>1, <2>2 DEF RefcountInv
<1> QED
  BY <1>2, <1>3, <1>4, <1>5, <1>6, <1>7, <1>8, <1>9, <1>10, <1>11
     DEF Next, RegisterRefused, ResourceNewFails, CreateRundir, callVars, resVars

-----------------------------------------------------------------------------
(* The invariant of the specification *)

ResourcesInv ==
    /\ PoolSound /\ HostHasResources /\ HostHasRegistrations
    /\ CallsInv /\ Listed /\ RundirKept
    /\ RefcountInv

LEMMA InitHolds ==
    ASSUME Init
    PROVE  ResourcesInv
<1>1. TypeOK /\ FreeOnce(pool)
  BY NewPoolFacts DEF Init, TypeOK, NoRegistration, Ids
<1>2. HaveId = {} /\ live = {}
  BY DEF Init, HaveId
<1>3. PoolSound /\ HostHasResources /\ HostHasRegistrations
  BY <1>1, <1>2 DEF Init, PoolSound, HostHasResources, HostHasRegistrations
<1>4. CallsInv /\ Listed /\ RundirKept
  BY <1>2 DEF Init, CallsInv, Listed, RundirKept, NoRegistration
<1>5. RefcountInv
  <2>1. ASSUME NEW r \in Resources
        PROVE  Containers(r) = {} /\ Counting(r) = {} /\ Uncounting(r) = {}
    <3>1. \A c \in AllContainers : ~(c[2] <= registered[c[1]][r])
      BY DEF Init, NoRegistration, AllContainers
    <3> QED
      BY <3>1 DEF Init, Containers, Counting, Uncounting
  <2>2. RefcountExact
    <3>1. Cardinality({}) = 0
      BY FS_EmptySet
    <3>2. \A r \in Resources : refcount[r] = 0
      BY DEF Init
    <3>3. ASSUME NEW r \in Resources
          PROVE  refcount[r] = Cardinality(Containers(r)) - Cardinality(Counting(r))
                                  + Cardinality(Uncounting(r))
      BY <2>1, <3>1, <3>2
    <3> QED
      BY <3>3 DEF RefcountExact
  <2>3. Untouched
    BY DEF Init, Untouched, Unreferenced, NoRegistration
  <2> QED
    BY <2>2, <2>3 DEF RefcountInv
<1> QED
  BY <1>3, <1>4, <1>5 DEF ResourcesInv

LEMMA ResourcesStep ==
    ASSUME ResourcesInv, [Next]_vars
    PROVE  ResourcesInv'
<1>1. TypeOK
  BY DEF ResourcesInv, PoolSound
<1>2. CASE Next
  <2>1. PoolSound' /\ HostHasResources'
    BY <1>2, IdsStep DEF ResourcesInv
  <2>2. HostHasRegistrations' /\ CallsInv' /\ Listed' /\ RundirKept'
    BY <1>1, <1>2, RegistrationsStep, CallsStep, ListedStep, RundirsStep DEF ResourcesInv
  <2>3. RefcountInv'
    BY <1>1, <1>2, RefcountStep DEF ResourcesInv
  <2> QED
    BY <2>1, <2>2, <2>3 DEF ResourcesInv
<1>3. CASE UNCHANGED vars
  <2>1. PoolSound' /\ HostHasResources' /\ HostHasRegistrations'
    BY <1>3 DEF vars, callVars, resVars, dirVars, hostVars, ResourcesInv, PoolSound, TypeOK, HaveId,
                HostHasResources, HostHasRegistrations
  <2>2. CallsInv' /\ Listed' /\ RundirKept'
    BY <1>3 DEF vars, callVars, resVars, dirVars, ResourcesInv, CallsInv, Listed, RundirKept
  <2>3. RefcountInv'
    BY <1>3 DEF vars, callVars, resVars, ResourcesInv, RefcountInv, RefcountExact, Untouched,
                Unreferenced, Containers, Counting, Uncounting
  <2> QED
    BY <2>1, <2>2, <2>3 DEF ResourcesInv
<1> QED
  BY <1>2, <1>3

LEMMA ResourcesInvariant == Spec => []ResourcesInv
BY InitHolds, ResourcesStep, PTL DEF Spec

(* resource_new, resource_destroy and the id pool (resources.c:70, 130):   *)
(* resources have different ids, and none that is free, with a host or as  *)
(* long as no id_pool_get runs while an id_pool_release is in progress.    *)
THEOREM IdsAreSound == Spec => []PoolSound
<1>1. ResourcesInv => PoolSound
  BY DEF ResourcesInv
<1> QED
  BY <1>1, ResourcesInvariant, PTL

(* resource_get_by_id (resources.c:111): between calls the id of a         *)
(* resource finds it, and nothing else, under the same condition.          *)
THEOREM LookupsAreExact == Spec => []LookupExact
<1>1. ASSUME ResourcesInv PROVE LookupExact
  <2>1. SUFFICES ASSUME virtio \/ ~Overlap, Quiet, NEW r \in Resources, state[r] # "none"
                 PROVE  GetById(NULL, rid[r]) = r
    BY <1>1 DEF LookupExact, ResourcesInv, Listed
  <2>2. HaveId = live /\ r \in live
    BY <1>1, <2>1 DEF Quiet, HaveId, ResourcesInv, Listed
  <2>3. {q \in live : rid[q] = rid[r]} = {r}
    BY <1>1, <2>1, <2>2 DEF ResourcesInv, PoolSound
  <2> QED
    BY <2>3 DEF GetById
<1> QED
  BY <1>1, ResourcesInvariant, PTL

(* resource_create_rundir and resource_destroy (resources.c:189, 161):     *)
(* nobody removes the directory of another resource, and this holds where  *)
(* gets of the pool overlap releases, too.                                 *)
THEOREM RundirsHold == Spec => []RundirKept
<1>1. ResourcesInv => RundirKept
  BY DEF ResourcesInv
<1> QED
  BY <1>1, ResourcesInvariant, PTL

(* Whatever the host refuses, it knows what the library knows.             *)
THEOREM HostKnows == Spec => []HostCovers
<1>1. ResourcesInv => HostCovers
  BY DEF ResourcesInv, HostHasResources, HostHasRegistrations, HostCovers
<1> QED
  BY <1>1, ResourcesInvariant, PTL

(* vaccel_sess_register and vaccel_sess_unregister (session.c): the counts *)
(* of the resources that are not raced for are exact, whatever happens to  *)
(* the others.                                                             *)
THEOREM CountsAreExact == Spec => []RefcountExact
<1>1. ResourcesInv => RefcountExact
  BY DEF ResourcesInv, RefcountInv
<1> QED
  BY <1>1, ResourcesInvariant, PTL

(* The same: the test of the count keeps resource_destroy away from what   *)
(* sessions have registered.                                               *)
THEOREM InUseIsNotDestroyed == Spec => []NotDestroyedInUse
<1>1. ASSUME ResourcesInv PROVE NotDestroyedInUse
  <2>1. \A r \in Resources \ Racing : state[r] = "none" => Unreferenced(r)
    BY <1>1 DEF ResourcesInv, RefcountInv, Untouched
  <2>2. TypeOK
    BY <1>1 DEF ResourcesInv, PoolSound
  <2> QED
    BY <2>1, <2>2 DEF NotDestroyedInUse, InUse, Unreferenced, TypeOK
<1> QED
  BY <1>1, ResourcesInvariant, PTL

-----------------------------------------------------------------------------
(* The ids of resources are the ids that are out. *)

LEMMA PoolStep ==
    ASSUME ~Overlap, PoolSound, CallsInv, Listed, Next, ~virtio, up'
    PROVE  [Pool!Next]_(Pool!vars)
<1> DEFINE Out == {rid[q] : q \in HaveId}
<1>1. TypeOK
  BY DEF PoolSound
<1>2. CASE UNCHANGED <<pool, rid, HaveId>>
  BY <1>2 DEF Pool!vars
<1>3. ASSUME NEW r \in Resources, ResourceNew(r)
      PROVE  [Pool!Next]_(Pool!vars)
  <2>1. /\ PoolTop(pool) # NoId /\ pool' = PoolGet(pool)
        /\ rid' = [rid EXCEPT ![r] = PoolTop(pool)]
    <3>1. PICK i \in Ids : /\ i \in PoolAnswers(pool, Ids, Overlap)
                           /\ rid' = [rid EXCEPT ![r] = i]
                           /\ pool' = PoolGet(pool)
      <4>1. ~virtio
        BY <1>3 DEF ResourceNew
      <4> QED
        BY <1>3, <4>1 DEF ResourceNew
    <3>2. pool \in Pools(Ids) /\ i \in PoolAnswers(pool, Ids, Overlap) \ {NoId}
      BY <1>1, <3>1, IdsArePositive DEF TypeOK
    <3>3. PoolTop(pool) # NoId /\ i = PoolTop(pool)
      BY <3>2, IdsArePositive, PoolAnswersFacts
    <3> QED
      BY <3>1, <3>3
  <2>2. HaveId' = HaveId \cup {r} /\ r \notin HaveId
    <3>1. /\ state[r] = "none" /\ state' = [state EXCEPT ![r] = "live"] /\ dpc' = dpc
          /\ dpc[r] = "idle"
      BY <1>1, <1>3 DEF ResourceNew, Listed, TypeOK, callVars
    <3> QED
      BY <1>1, <3>1 DEF HaveId, TypeOK
  <2>3. rid'[r] = PoolTop(pool) /\ \A q \in HaveId : rid'[q] = rid[q]
    BY <1>1, <2>1, <2>2 DEF TypeOK, HaveId
  <2>4. Out' = Out \cup {PoolTop(pool)}
    BY <2>2, <2>3
  <2> QED
    BY <2>1, <2>4
       DEF Pool!Next, Pool!Get, Pool!PoolTop, Pool!PoolGet, Pool!NoId, PoolTop, PoolGet, NoId
<1>4. ASSUME NEW r \in Resources, ResourceNewFails(r)
      PROVE  [Pool!Next]_(Pool!vars)
  <2>1. PoolTop(pool) = NoId /\ pool' = PoolGet(pool) /\ UNCHANGED <<rid, HaveId>>
    BY <1>4 DEF ResourceNewFails, HostRefuses, HaveId, callVars
  <2>2. Out' = Out
    BY <2>1
  <2> QED
    BY <2>1, <2>2
       DEF Pool!Next, Pool!GetNone, Pool!PoolTop, Pool!PoolGet, Pool!NoId, PoolTop, PoolGet, NoId
<1>5. ASSUME NEW r \in Resources, DestroyRelease(r)
      PROVE  [Pool!Next]_(Pool!vars)
  <2>1. /\ dpc[r] = "release" /\ dpc' = [dpc EXCEPT ![r] = "unlink"]
        /\ pool' = PoolPut(pool, rid[r]) /\ UNCHANGED <<state, rid>>
    BY <1>5 DEF DestroyRelease
  <2>2. r \in HaveId /\ HaveId' = HaveId \ {r}
    BY <1>1, <2>1 DEF Listed, HaveId, TypeOK
  <2>3. \A q \in HaveId : rid[q] = rid[r] => q = r
    BY <2>2 DEF PoolSound
  <2>4. PICK i : i = rid[r]
    OBVIOUS
  <2>5. i \in Out /\ Out' = Out \ {i}
    BY <2>1, <2>2, <2>3, <2>4
  <2>6. Pool!Release(i)
    BY <2>1, <2>4, <2>5 DEF Pool!Release, Pool!PoolPut, PoolPut
  <2> QED
    BY <2>5, <2>6 DEF Pool!Next
<1>6. ASSUME NEW r \in Resources,
             DestroyUnlink(r) \/ DestroyCheck(r) \/ DestroyRefused(r) \/ CreateRundir(r)
      PROVE  UNCHANGED <<pool, rid, HaveId>>
  <2>1. UNCHANGED <<pool, rid>>
    BY <1>6 DEF DestroyUnlink, DestroyCheck, DestroyRefused, CreateRundir, resVars
  <2>2. /\ \A q \in Resources : q # r => state'[q] = state[q] /\ dpc'[q] = dpc[q]
        /\ (state[r] # "none" /\ dpc[r] # "unlink") <=> (state'[r] # "none" /\ dpc'[r] # "unlink")
    BY <1>1, <1>6 DEF DestroyUnlink, DestroyCheck, DestroyRefused, CreateRundir, TypeOK, callVars,
                      resVars
  <2> QED
    BY <2>1, <2>2 DEF HaveId
<1>7. ASSUME UNCHANGED <<state, dpc, rid, pool>>
      PROVE  UNCHANGED <<pool, rid, HaveId>>
  BY <1>7 DEF HaveId
<1>8. CASE Fini
  BY <1>8 DEF Fini
<1> QED
  BY <1>2, <1>3, <1>4, <1>5, <1>6, <1>7, <1>8, NextCases

(* resource_new and resource_destroy (resources.c:70, 130) use the pool as *)
(* id_pool.h has it: one get or release at a time, and only the id of the  *)
(* resource that is destroyed goes back.  IdPool is shown to serve such    *)
(* users, when none of their gets overlaps a release.                      *)
THEOREM ResourcesUseThePool == Spec => UsesPool
<1>1. ASSUME ResourcesInv, [Next]_vars PROVE ~Overlap /\ ~virtio /\ up' => [Pool!Next]_(Pool!vars)
  <2>1. CASE Next
    BY <1>1, <2>1, PoolStep DEF ResourcesInv
  <2>2. CASE UNCHANGED vars
    BY <2>2 DEF vars, callVars, resVars, Pool!vars, HaveId
  <2> QED
    BY <1>1, <2>1, <2>2
<1>2. ResourcesInv /\ [Next]_vars => [~Overlap /\ ~virtio /\ up' => [Pool!Next]_(Pool!vars)]_vars
  BY <1>1
<1> QED
  BY <1>2, ResourcesInvariant, PTL DEF Spec, UsesPool
=============================================================================
