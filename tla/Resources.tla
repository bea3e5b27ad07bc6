----------------------------- MODULE Resources -----------------------------
(***************************************************************************)
(* The resources of src/src/resources.c and their registration to sessions *)
(* (src/src/session.c): creation, lookup, reference counts, destruction,   *)
(* and the end of the library (vaccel_fini).  With the virtio plugin       *)
(* loaded every operation is first done by the host, which may refuse.     *)
(*                                                                         *)
(* Each session is used by one thread, a resource by any of them.  A call  *)
(* is cut where other threads can see or miss what it does: between the    *)
(* list and the reference count, and between the test of the reference     *)
(* count and the destruction.  Two threads are never inside an operation   *)
(* on live_resources together: the library has no lock for it, and the     *)
(* application must see to that.  The memory of a resource that was freed  *)
(* while sessions point to it is taken to keep its contents.  A call of    *)
(* the id pool is one step; see IdStack for what that covers.              *)
(***************************************************************************)
EXTENDS IdStack, Integers, FiniteSets

CONSTANTS
    Sessions,           \* vaccel_session structures
    Resources,          \* vaccel_resource structures
    MaxResources,       \* MAX_RESOURCES
    Racing,             \* the resources whose register and destroy may overlap
    MaxRegistrations,   \* bound: how often one session registers a resource
    MaxHostFailures,    \* bound: how many requests the host refuses
    MaxExhausted,       \* bound: how often resource_new finds no id left
    Overlap,            \* may id_pool_get run while an id_pool_release is in progress?
    NULL

(* What can be on the lists of registered resources: the n-th container of *)
(* a session that points to a resource.                                    *)
AllContainers == Sessions \X (1 .. MaxRegistrations)

ASSUME SessionsAssumption == IsFiniteSet(Sessions) /\ IsFiniteSet(AllContainers)
ASSUME MaxResourcesAssumption == MaxResources \in Nat \ {0}
ASSUME MaxRegistrationsAssumption == MaxRegistrations \in Nat
ASSUME RacingAssumption == Racing \subseteq Resources
ASSUME OverlapAssumption == Overlap \in BOOLEAN
ASSUME NullAssumption == NULL \notin Sessions \cup Resources

Ids == 1 .. MaxResources

VARIABLES
    up,         \* FALSE once vaccel_fini has run
    virtio,     \* get_virtio_plugin() # NULL
    open,       \* the sessions with a session_resources structure
    spc, sarg,  \* where the thread of each session is, with which resource
    state,      \* "none", "live", or "freed" by a caller that was refused
    dpc,        \* where the destruction of each resource is
    rid,        \* res->id
    refcount,   \* res->refcount
    live,       \* live_resources[0], which has the resources of all types
    registered, \* registered[s][r]: the containers of s that point to r
    pool,       \* id_pool
    rundirs,    \* the ids whose directory resource.<id> exists
    rundir,     \* res->rundir # NULL
    hostOpen,   \* the host's sessions
    hostRes,    \* the ids of the host's resources
    hostReg,    \* the host's registrations
    hostFailed  \* how many requests the host has refused

callVars == <<spc, sarg, dpc>>
resVars == <<state, rid, refcount, live, pool>>
dirVars == <<rundirs, rundir>>
hostVars == <<hostOpen, hostRes, hostReg, hostFailed>>
vars == <<up, virtio, open, callVars, resVars, registered, dirVars, hostVars>>

TypeOK ==
    /\ up \in BOOLEAN
    /\ virtio \in BOOLEAN
    /\ open \subseteq Sessions
    /\ spc \in [Sessions -> {"idle", "count", "uncount", "freeing"}]
    /\ sarg \in [Sessions -> Resources \cup {NULL}]
    /\ state \in [Resources -> {"none", "live", "freed"}]
    /\ dpc \in [Resources -> {"idle", "release", "unlink"}]
    /\ rid \in [Resources -> Ids \cup {NoId}]
    /\ refcount \in [Resources -> Int]
    /\ live \subseteq Resources
    /\ registered \in [Sessions -> [Resources -> 0 .. MaxRegistrations]]
    /\ pool \in Pools(Ids)
    /\ rundirs \subseteq Ids
    /\ rundir \in [Resources -> BOOLEAN]
    /\ hostOpen \subseteq Sessions
    /\ hostRes \subseteq Ids
    /\ hostReg \in [Sessions -> [Resources -> Nat]]
    /\ hostFailed \in Nat

NoRegistration == [s \in Sessions |-> [r \in Resources |-> 0]]

(* resources_bootstrap and sessions_bootstrap, and the backends loaded: a  *)
(* virtio plugin is among them or not.                                     *)
Init ==
    /\ up = TRUE
    /\ virtio \in BOOLEAN
    /\ open = {}
    /\ spc = [s \in Sessions |-> "idle"]
    /\ sarg = [s \in Sessions |-> NULL]
    /\ state = [r \in Resources |-> "none"]
    /\ dpc = [r \in Resources |-> "idle"]
    /\ rid = [r \in Resources |-> NoId]
    /\ refcount = [r \in Resources |-> 0]
    /\ live = {}
    /\ registered = NoRegistration
    /\ pool = NewPool(MaxResources)
    /\ rundirs = {}
    /\ rundir = [r \in Resources |-> FALSE]
    /\ hostOpen = {}
    /\ hostRes = {}
    /\ hostReg = NoRegistration
    /\ hostFailed = 0

Quiet ==
    /\ \A s \in Sessions : spc[s] = "idle"
    /\ \A r \in Resources : dpc[r] = "idle"

HostRefuses ==
    /\ virtio
    /\ hostFailed < MaxHostFailures
    /\ hostFailed' = hostFailed + 1

-----------------------------------------------------------------------------
(* vaccel_sess_init, as far as resources go: the host opens its session,   *)
(* and the session gets empty lists of registered resources.  (A call that *)
(* fails leaves neither.)                                                  *)
SessInit(s) ==
    /\ up
    /\ s \notin open
    /\ open' = open \cup {s}
    /\ registered' = [registered EXCEPT ![s] = [r \in Resources |-> 0]]
    /\ IF virtio
       THEN /\ hostOpen' = hostOpen \cup {s}
            /\ hostReg' = [hostReg EXCEPT ![s] = [r \in Resources |-> 0]]
       ELSE UNCHANGED <<hostOpen, hostReg>>
    /\ UNCHANGED <<up, virtio, callVars, resVars, dirVars, hostRes, hostFailed>>

(* resource_new: the id comes from the host or from the pool, and the      *)
(* resource joins list number 0, whatever its type is.                     *)
ResourceNew(r) ==
    /\ up
    /\ state[r] = "none"
    /\ \E i \in Ids :
        /\ IF virtio
           THEN /\ i \notin hostRes
                /\ hostRes' = hostRes \cup {i}
                /\ UNCHANGED pool
           ELSE /\ i \in PoolAnswers(pool, Ids, Overlap)
                /\ pool' = PoolGet(pool)
                /\ UNCHANGED hostRes
        /\ rid' = [rid EXCEPT ![r] = i]
    /\ state' = [state EXCEPT ![r] = "live"]
    /\ refcount' = [refcount EXCEPT ![r] = 0]
    /\ live' = live \cup {r}
    /\ rundir' = [rundir EXCEPT ![r] = FALSE]
    /\ UNCHANGED <<up, virtio, open, callVars, registered, rundirs, hostOpen, hostReg,
                   hostFailed>>

(* resource_new fails: the host refuses, or the pool answers 0. *)
ResourceNewFails(r) ==
    /\ up
    /\ state[r] = "none"
    /\ \/ HostRefuses /\ UNCHANGED pool
       \/ /\ ~virtio
          /\ PoolTop(pool) = NoId
          /\ pool.over < MaxExhausted
          /\ pool' = PoolGet(pool)
          /\ UNCHANGED hostFailed
    /\ UNCHANGED <<up, virtio, open, callVars, state, rid, refcount, live, registered, dirVars,
                   hostOpen, hostRes, hostReg>>

(* A mutant of MayMkdir: the existing directory is as good. *)
MayMkdirAgain(r) == TRUE

MayMkdir(r) == rid[r] \notin rundirs

(* resource_create_rundir, called for a new resource by the persisting     *)
(* constructors; mkdir fails when the directory exists.                    *)
CreateRundir(r) ==
    /\ up
    /\ state[r] = "live" /\ dpc[r] = "idle"
    /\ ~rundir[r]
    /\ MayMkdir(r)
    /\ rundirs' = rundirs \cup {rid[r]}
    /\ rundir' = [rundir EXCEPT ![r] = TRUE]
    /\ UNCHANGED <<up, virtio, open, callVars, resVars, registered, hostVars>>

-----------------------------------------------------------------------------
(* vaccel_sess_register *)

(* A mutant of resource_refcount_inc: the count is set. *)
RefcountSet(r) == refcount' = [refcount EXCEPT ![r] = 1]

resource_refcount_inc(r) == refcount' = [refcount EXCEPT ![r] = @ + 1]

resource_refcount_dec(r) == refcount' = [refcount EXCEPT ![r] = @ - 1]

(* A mutant of HostRegister: the registration stays local. *)
HostNotAsked(s, r) == UNCHANGED hostReg

HostRegister(s, r) ==
    hostReg' = IF virtio THEN [hostReg EXCEPT ![s][r] = @ + 1] ELSE hostReg

(* The host registers the resource, and the session gets a container.      *)
RegisterLink(s, r) ==
    /\ up
    /\ s \in open /\ spc[s] = "idle"
    /\ state[r] = "live"
    /\ r \in Racing \/ dpc[r] = "idle"
    /\ registered[s][r] < MaxRegistrations
    /\ registered' = [registered EXCEPT ![s][r] = @ + 1]
    /\ HostRegister(s, r)
    /\ spc' = [spc EXCEPT ![s] = "count"]
    /\ sarg' = [sarg EXCEPT ![s] = r]
    /\ UNCHANGED <<up, virtio, open, dpc, resVars, dirVars, hostOpen, hostRes, hostFailed>>

(* The host refuses: the container is freed and the call returns. *)
RegisterRefused(s, r) ==
    /\ up
    /\ s \in open /\ spc[s] = "idle"
    /\ state[r] = "live"
    /\ HostRefuses
    /\ UNCHANGED <<up, virtio, open, callVars, resVars, registered, dirVars, hostOpen, hostRes,
                   hostReg>>

(* Then it is counted. *)
RegisterCount(s) ==
    /\ spc[s] = "count"
    /\ resource_refcount_inc(sarg[s])
    /\ spc' = [spc EXCEPT ![s] = "idle"]
    /\ sarg' = [sarg EXCEPT ![s] = NULL]
    /\ UNCHANGED <<up, virtio, open, dpc, state, rid, live, pool, registered, dirVars, hostVars>>

-----------------------------------------------------------------------------
(* vaccel_sess_unregister, called by the application or by the loop of     *)
(* cleanup_session_resources.                                              *)

(* The host unregisters the resource.  It cannot when it has no such       *)
(* registration (any more), and it may refuse: the error is logged, and    *)
(* nothing else comes of it.                                               *)
HostUnregister(s, r) ==
    \/ /\ virtio /\ hostReg[s][r] > 0
       /\ hostReg' = [hostReg EXCEPT ![s][r] = @ - 1]
       /\ UNCHANGED hostFailed
    \/ /\ ~virtio \/ hostReg[s][r] = 0
       /\ UNCHANGED <<hostReg, hostFailed>>
    \/ HostRefuses /\ UNCHANGED hostReg

(* The container leaves the list. *)
Unlink(s, r) ==
    /\ registered[s][r] > 0
    /\ HostUnregister(s, r)
    /\ registered' = [registered EXCEPT ![s][r] = @ - 1]
    /\ sarg' = [sarg EXCEPT ![s] = r]
    /\ UNCHANGED <<up, virtio, open, dpc, resVars, dirVars, hostOpen, hostRes>>

Unregister(s, r) ==
    /\ up
    /\ s \in open /\ spc[s] = "idle"
    /\ state[r] = "live"
    /\ Unlink(s, r)
    /\ spc' = [spc EXCEPT ![s] = "uncount"]

(* Then it is not counted any more. *)
Uncount(s) ==
    /\ resource_refcount_dec(sarg[s])
    /\ sarg' = [sarg EXCEPT ![s] = NULL]
    /\ UNCHANGED <<up, virtio, open, dpc, state, rid, live, pool, registered, dirVars, hostVars>>

UnregisterCount(s) ==
    /\ spc[s] = "uncount"
    /\ Uncount(s)
    /\ spc' = [spc EXCEPT ![s] = "idle"]

-----------------------------------------------------------------------------
(* vaccel_sess_free: first the host frees its session, or fails to.        *)
SessFree(s) ==
    /\ up
    /\ s \in open /\ spc[s] = "idle"
    /\ spc' = [spc EXCEPT ![s] = "freeing"]
    /\ \/ /\ hostOpen' = hostOpen \ {s}
          /\ hostReg' = [hostReg EXCEPT ![s] = [r \in Resources |-> 0]]
          /\ UNCHANGED hostFailed
       \/ HostRefuses /\ UNCHANGED <<hostOpen, hostReg>>
    /\ UNCHANGED <<up, virtio, open, sarg, dpc, resVars, registered, dirVars, hostRes>>

(* Then cleanup_session_resources unregisters all that is registered... *)
FreeUnlink(s, r) ==
    /\ spc[s] = "freeing" /\ sarg[s] = NULL
    /\ Unlink(s, r)
    /\ UNCHANGED spc

FreeUncount(s) ==
    /\ spc[s] = "freeing" /\ sarg[s] # NULL
    /\ Uncount(s)
    /\ UNCHANGED spc

(* ... and frees the session_resources structure. *)
FreeDone(s) ==
    /\ spc[s] = "freeing" /\ sarg[s] = NULL
    /\ \A r \in Resources : registered[s][r] = 0
    /\ open' = open \ {s}
    /\ spc' = [spc EXCEPT ![s] = "idle"]
    /\ UNCHANGED <<up, virtio, sarg, dpc, resVars, registered, dirVars, hostVars>>

-----------------------------------------------------------------------------
(* vaccel_shared_object_destroy, vaccel_tf_model_destroy and their like:   *)
(* resource_destroy, then free(object->resource).                          *)

(* The calls that are registering r, and have not counted it yet. *)
Counting(r) == {s \in Sessions : spc[s] = "count" /\ sarg[s] = r}

InUse(r) == \E s \in Sessions : registered[s][r] > 0

(* A mutant of Unused: there is no test. *)
UnusedUntested(r) == TRUE

(* !atomic_load(&res->refcount) *)
Unused(r) == refcount[r] = 0

(* The test of the reference count passes. *)
DestroyCheck(r) ==
    /\ up
    /\ state[r] = "live" /\ dpc[r] = "idle"
    /\ r \in Racing \/ Counting(r) = {}
    /\ Unused(r)
    /\ dpc' = [dpc EXCEPT ![r] = "release"]
    /\ UNCHANGED <<up, virtio, open, spc, sarg, resVars, registered, dirVars, hostVars>>

(* resource_destroy returns VACCEL_EBUSY; the caller warns and frees the   *)
(* structure all the same.                                                 *)
DestroyRefused(r) ==
    /\ up
    /\ state[r] = "live" /\ dpc[r] = "idle"
    /\ ~Unused(r)
    /\ state' = [state EXCEPT ![r] = "freed"]
    /\ UNCHANGED <<up, virtio, open, callVars, rid, refcount, live, pool, registered, dirVars,
                   hostVars>>

(* The host destroys its resource, or fails to; without a host the id      *)
(* returns to the pool.                                                    *)
DestroyRelease(r) ==
    /\ dpc[r] = "release"
    /\ dpc' = [dpc EXCEPT ![r] = "unlink"]
    /\ IF virtio
       THEN /\ \/ hostRes' = hostRes \ {rid[r]} /\ UNCHANGED hostFailed
               \/ HostRefuses /\ UNCHANGED hostRes
            /\ UNCHANGED pool
       ELSE /\ pool' = PoolPut(pool, rid[r])
            /\ UNCHANGED <<hostRes, hostFailed>>
    /\ UNCHANGED <<up, virtio, open, spc, sarg, state, rid, refcount, live, registered, dirVars,
                   hostOpen, hostReg>>

(* A mutant of Unlist: the resource stays on the list. *)
StayListed(r) == UNCHANGED live

Unlist(r) == live' = live \ {r}

(* The resource leaves its list, its data and its rundir are cleaned up,   *)
(* and the caller frees the structure.                                     *)
DestroyUnlink(r) ==
    /\ dpc[r] = "unlink"
    /\ dpc' = [dpc EXCEPT ![r] = "idle"]
    /\ Unlist(r)
    /\ state' = [state EXCEPT ![r] = "none"]
    /\ rundirs' = IF rundir[r] THEN rundirs \ {rid[r]} ELSE rundirs
    /\ rundir' = [rundir EXCEPT ![r] = FALSE]
    /\ UNCHANGED <<up, virtio, open, spc, sarg, rid, refcount, pool, registered, hostVars>>

-----------------------------------------------------------------------------
(* vaccel_fini: plugins_shutdown, after which no plugin is virtio;         *)
(* resources_cleanup, which calls resource_destroy on every live resource  *)
(* and then destroys the pool of ids; sessions_cleanup, which frees no     *)
(* session.                                                                *)
Fini ==
    LET idle == {r \in live : Unused(r)}
    IN  /\ up
        /\ Quiet
        /\ \A r \in Resources : state[r] # "freed"
        /\ up' = FALSE
        /\ virtio' = FALSE
        /\ pool' = [free |-> <<>>, over |-> 0]
        /\ live' = live \ idle
        /\ state' = [r \in Resources |-> IF r \in idle THEN "none" ELSE state[r]]
        /\ rundirs' = rundirs \ {rid[r] : r \in {q \in idle : rundir[q]}}
        /\ rundir' = [r \in Resources |-> rundir[r] /\ r \notin idle]
        /\ UNCHANGED <<open, callVars, rid, refcount, registered, hostVars>>

Next ==
    \/ \E s \in Sessions :
          SessInit(s) \/ RegisterCount(s) \/ UnregisterCount(s) \/ SessFree(s)
             \/ FreeUncount(s) \/ FreeDone(s)
    \/ \E s \in Sessions, r \in Resources :
          RegisterLink(s, r) \/ RegisterRefused(s, r) \/ Unregister(s, r) \/ FreeUnlink(s, r)
    \/ \E r \in Resources :
          ResourceNew(r) \/ ResourceNewFails(r) \/ CreateRundir(r) \/ DestroyCheck(r) \/ DestroyRefused(r)
             \/ DestroyRelease(r) \/ DestroyUnlink(r)
    \/ Fini

Spec == Init /\ [][Next]_vars
-----------------------------------------------------------------------------
(* resource_get_by_id, as a query: prior is what *resource is when the     *)
(* call starts.  If no list has the id the answer depends on it.           *)
GetById(prior, id) ==
    LET found == {r \in live : rid[r] = id}
    IN  CASE found # {} -> CHOOSE r \in found : TRUE
          [] found = {} /\ prior # NULL -> prior
          [] OTHER -> NULL

-----------------------------------------------------------------------------
(* Properties *)

Uncounting(r) == {s \in Sessions : spc[s] \in {"uncount", "freeing"} /\ sarg[s] = r}

(* The containers on the lists of sessions that point to r *)
Containers(r) == {c \in AllContainers : c[2] <= registered[c[1]][r]}

(* The resources that have their id *)
HaveId == {r \in Resources : state[r] # "none" /\ dpc[r] # "unlink"}

(* A resource is not destroyed (its data cleaned up, its id given to       *)
(* another one) while a session has it registered, whatever sessions do    *)
(* meanwhile, as long as they do not register it while it is destroyed:    *)
(* what is raced for in this way (Racing) does not affect the others.      *)
NotDestroyedInUse == \A r \in Resources \ Racing : InUse(r) => state[r] # "none"

(* resources.c:138: "We do not destroy currently-used resources".          *)
RegisteredIsLive == \A r \in Resources : InUse(r) => state[r] = "live"

(* The reference count is the number of registrations, but for the calls   *)
(* that have changed the list and not the count yet: whatever sessions do  *)
(* at the same time, no registration stays uncounted and none is counted   *)
(* after it has gone.  Again this is so for what is not raced for.         *)
RefcountExact ==
    \A r \in Resources \ Racing :
        refcount[r] = Cardinality(Containers(r)) - Cardinality(Counting(r))
                          + Cardinality(Uncounting(r))

(* With a host, or as long as no get of the pool overlaps a release: two   *)
(* resources never have the same id.  While the library is up the pool     *)
(* never offers an id that a resource has, nor an id twice, also after     *)
(* gets that found it exhausted.                                           *)
PoolSound ==
    /\ TypeOK
    /\ virtio \/ ~Overlap => \A q, r \in HaveId : rid[q] = rid[r] => q = r
    /\ up /\ ~Overlap =>
          /\ FreeOnce(pool)
          /\ ~virtio => \A r \in HaveId : rid[r] \in Ids \ FreeIds(pool)

(* Without a host, until vaccel_fini destroys the pool, and as long as no  *)
(* get overlaps a release, the calls are a user of AtomicIdPool: they      *)
(* change the pool by one get or one release at a time, and the id of a    *)
(* resource goes back once, when the resource is destroyed and not when    *)
(* that is refused.                                                        *)
Pool == INSTANCE AtomicIdPool
            WITH MaxIds <- MaxResources, ids <- pool, out <- {rid[r] : r \in HaveId}
UsesPool == [][~Overlap /\ ~virtio /\ up' => [Pool!Next]_(Pool!vars)]_vars

(* Between calls resource_get_by_id finds a resource by its id from its    *)
(* creation to its destruction, and no other resource answers to that id:  *)
(* with a host, or as long as no get of the pool overlaps a release.  A    *)
(* resource whose destruction was refused is found too.                    *)
LookupExact ==
    (virtio \/ ~Overlap) /\ Quiet => \A r \in Resources :
        IF state[r] = "none" THEN r \notin live ELSE GetById(NULL, rid[r]) = r

(* A resource that has a rundir has it to itself and on the disk, also     *)
(* while a resource that had the same id is being destroyed; and even      *)
(* where gets overlap releases and two resources have the same id.         *)
RundirKept ==
    /\ \A r \in Resources : rundir[r] => rid[r] \in rundirs
    /\ \A q, r \in Resources : q # r /\ rundir[q] /\ rundir[r] => rid[q] # rid[r]

(* The host knows every resource and every registration the library has,   *)
(* whatever it refused before: it can resolve what a session names.        *)
HostCovers ==
    virtio /\ up =>
        /\ \A r \in HaveId : rid[r] \in hostRes
        /\ \A s \in open, r \in Resources :
              spc[s] # "freeing" => hostReg[s][r] >= registered[s][r]
=============================================================================
