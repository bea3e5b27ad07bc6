------------------------------ MODULE Sessions ------------------------------
(***************************************************************************)
(* vaccel_sess_init and vaccel_sess_free of src/src/session.c, called by   *)
(* the threads of an application, one session structure per thread.  A     *)
(* step is one access to what the sessions share: the id pool, the         *)
(* directory tree under the rundir, and the table running_sessions.        *)
(* The path taken when no virtio plugin is loaded: ids are the library's.  *)
(* A call of the id pool is one step; see IdStack for what that covers.    *)
(***************************************************************************)
EXTENDS IdStack, FiniteSets, Integers

CONSTANTS
    Sessions,           \* the session structures of the application
    MaxSessions,        \* MAX_VACCEL_SESSIONS
    MaxMkdirFailures,   \* bound: how often mkdir fails for a reason of its own
    MaxRmdirFailures,   \* bound: how often rmdir of a session's rundir fails
    MaxRefused,         \* bound: how often a session finds no id left
    Overlap,            \* may id_pool_get run while an id_pool_release is in progress?
    NULL

ASSUME SessionsAssumption == IsFiniteSet(Sessions)
ASSUME MaxSessionsAssumption == MaxSessions \in Nat \ {0}
ASSUME OverlapAssumption == Overlap \in BOOLEAN
ASSUME NullAssumption == NULL \notin Sessions

Ids == 1 .. MaxSessions

VARIABLES
    pc,         \* where each session is in the calls that make or free it
    session_id, \* sess->session_id
    ids,        \* sessions.ids
    dirs,       \* the ids whose directory session.<id> exists
    running,    \* sessions.running_sessions, indexed by id
    refused, mkdirFailed, rmdirFailed   \* how often that has happened

failures == <<refused, mkdirFailed, rmdirFailed>>
vars == <<pc, session_id, ids, dirs, running, failures>>

(* "closed" and "open" are between calls.  In vaccel_sess_init a session   *)
(* has its id ("mkdir"), could not make its directory ("undo") or has it   *)
(* ("store"); in vaccel_sess_free it has given its id back ("rmdir") and   *)
(* has no resources any more ("clear").                                    *)
BetweenCalls == {"closed", "open"}
InInit == {"mkdir", "undo", "store"}
InFree == {"rmdir", "clear"}

TypeOK ==
    /\ pc \in [Sessions -> BetweenCalls \cup InInit \cup InFree]
    /\ session_id \in [Sessions -> Ids \cup {NoId}]
    /\ ids \in Pools(Ids)
    /\ dirs \subseteq Ids
    /\ running \in [Ids -> Sessions \cup {NULL}]
    /\ refused \in Nat /\ mkdirFailed \in Nat /\ rmdirFailed \in Nat

(* sessions_bootstrap, under a fresh rundir. *)
Init ==
    /\ pc = [s \in Sessions |-> "closed"]
    /\ session_id = [s \in Sessions |-> NoId]
    /\ ids = NewPool(MaxSessions)
    /\ dirs = {}
    /\ running = [i \in Ids |-> NULL]
    /\ refused = 0
    /\ mkdirFailed = 0
    /\ rmdirFailed = 0

Goto(s, label) == pc' = [pc EXCEPT ![s] = label]

-----------------------------------------------------------------------------
(* vaccel_sess_init *)

(* get_sess_id answers an id. *)
InitGetId(s) ==
    /\ pc[s] = "closed"
    /\ \E id \in PoolAnswers(ids, Ids, Overlap) \ {NoId} :
          session_id' = [session_id EXCEPT ![s] = id]
    /\ ids' = PoolGet(ids)
    /\ Goto(s, "mkdir")
    /\ UNCHANGED <<dirs, running, failures>>

(* get_sess_id answers 0: the call returns VACCEL_ESESS. *)
InitNoId(s) ==
    /\ pc[s] = "closed"
    /\ PoolTop(ids) = NoId
    /\ refused < MaxRefused
    /\ refused' = refused + 1
    /\ ids' = PoolGet(ids)
    /\ UNCHANGED <<pc, session_id, dirs, running, mkdirFailed, rmdirFailed>>

(* initialize_session_resources makes the directory of this id. *)
InitMkdir(s) ==
    /\ pc[s] = "mkdir"
    /\ session_id[s] \notin dirs
    /\ dirs' = dirs \cup {session_id[s]}
    /\ Goto(s, "store")
    /\ UNCHANGED <<session_id, ids, running, failures>>

(* A mutant of InitMkdirExists: the existing directory is as good. *)
InitMkdirReuses(s) ==
    /\ pc[s] = "mkdir"
    /\ session_id[s] \in dirs
    /\ Goto(s, "store")
    /\ UNCHANGED <<session_id, ids, dirs, running, failures>>

(* mkdir fails: the directory exists already. *)
InitMkdirExists(s) ==
    /\ pc[s] = "mkdir"
    /\ session_id[s] \in dirs
    /\ Goto(s, "undo")
    /\ UNCHANGED <<session_id, ids, dirs, running, failures>>

(* A mutant of InitMkdirFails: initialize_session_resources gives the id   *)
(* back too, before cleanup_session does.                                  *)
InitMkdirFailsPuts(s) ==
    /\ pc[s] = "mkdir"
    /\ mkdirFailed < MaxMkdirFailures
    /\ mkdirFailed' = mkdirFailed + 1
    /\ ids' = PoolPut(ids, session_id[s])
    /\ Goto(s, "undo")
    /\ UNCHANGED <<session_id, dirs, running, refused, rmdirFailed>>

(* malloc, the path or mkdir fails for another reason. *)
InitMkdirFails(s) ==
    /\ pc[s] = "mkdir"
    /\ mkdirFailed < MaxMkdirFailures
    /\ mkdirFailed' = mkdirFailed + 1
    /\ Goto(s, "undo")
    /\ UNCHANGED <<session_id, ids, dirs, running, refused, rmdirFailed>>

(* A mutant of InitUndo: the error path keeps the id. *)
InitUndoNothing(s) ==
    /\ pc[s] = "undo"
    /\ Goto(s, "closed")
    /\ UNCHANGED <<session_id, ids, dirs, running, failures>>

(* cleanup_session: put_sess_id, and the call fails. *)
InitUndo(s) ==
    /\ pc[s] = "undo"
    /\ ids' = PoolPut(ids, session_id[s])
    /\ Goto(s, "closed")
    /\ UNCHANGED <<session_id, dirs, running, failures>>

(* running_sessions[session_id - 1] = sess, and the call succeeds. *)
InitStore(s) ==
    /\ pc[s] = "store"
    /\ running' = [running EXCEPT ![session_id[s]] = s]
    /\ Goto(s, "open")
    /\ UNCHANGED <<session_id, ids, dirs, failures>>

-----------------------------------------------------------------------------
(* vaccel_sess_free *)

(* put_sess_id comes first: from here on another session can get this id.  *)
FreePutId(s) ==
    /\ pc[s] = "open"
    /\ ids' = PoolPut(ids, session_id[s])
    /\ Goto(s, "rmdir")
    /\ UNCHANGED <<session_id, dirs, running, failures>>

(* A mutant of FreeRmdir: the rundir is left to the end of the library. *)
FreeKeepsDir(s) ==
    /\ pc[s] = "rmdir"
    /\ Goto(s, "clear")
    /\ UNCHANGED <<session_id, ids, dirs, running, failures>>

(* cleanup_session_resources removes the rundir of the session. *)
FreeRmdir(s) ==
    /\ pc[s] = "rmdir"
    /\ dirs' = dirs \ {session_id[s]}
    /\ Goto(s, "clear")
    /\ UNCHANGED <<session_id, ids, running, failures>>

(* rmdir fails (the directory is not empty): a warning, nothing else. *)
FreeRmdirFails(s) ==
    /\ pc[s] = "rmdir"
    /\ rmdirFailed < MaxRmdirFailures
    /\ rmdirFailed' = rmdirFailed + 1
    /\ Goto(s, "clear")
    /\ UNCHANGED <<session_id, ids, dirs, running, refused, mkdirFailed>>

(* A mutant of FreeClear: the table keeps the session. *)
FreeLeaves(s) ==
    /\ pc[s] = "clear"
    /\ Goto(s, "closed")
    /\ UNCHANGED <<session_id, ids, dirs, running, failures>>

(* running_sessions[session_id - 1] = NULL, and the call returns. *)
FreeClear(s) ==
    /\ pc[s] = "clear"
    /\ running' = [running EXCEPT ![session_id[s]] = NULL]
    /\ Goto(s, "closed")
    /\ UNCHANGED <<session_id, ids, dirs, failures>>

-----------------------------------------------------------------------------
SessInit(s) ==
    \/ InitGetId(s) \/ InitNoId(s)
    \/ InitMkdir(s) \/ InitMkdirExists(s) \/ InitMkdirFails(s)
    \/ InitUndo(s) \/ InitStore(s)

SessFree(s) == FreePutId(s) \/ FreeRmdir(s) \/ FreeRmdirFails(s) \/ FreeClear(s)

Next == \E s \in Sessions : SessInit(s) \/ SessFree(s)

(* A thread inside a call is scheduled again.  For liveness the threads    *)
(* also keep asking for sessions, and free them some day.                  *)
Fairness ==
    \A s \in Sessions : WF_vars(SessInit(s)) /\ WF_vars(SessFree(s))

Spec == Init /\ [][Next]_vars

FairSpec == Spec /\ Fairness
-----------------------------------------------------------------------------
(* Properties *)

Open == {s \in Sessions : pc[s] = "open"}

(* The sessions that have taken an id and not given it back. *)
HaveId == {s \in Sessions : pc[s] \in {"open"} \cup InInit}

(* A session that holds an id holds one of the pool's.  As long as no get  *)
(* of the pool overlaps a release, two sessions that both hold an id hold  *)
(* different ones, none of them is free, and no id is free twice, wherever *)
(* the calls of other threads are between their steps and after sessions   *)
(* were refused: an id that vaccel_sess_init (when it fails) or            *)
(* vaccel_sess_free gives back is given back once.                         *)
SessionIdsDiffer ==
    /\ TypeOK
    /\ \A s \in HaveId : session_id[s] \in Ids
    /\ ~Overlap =>
          /\ \A s \in HaveId : session_id[s] \notin FreeIds(ids)
          /\ \A s, u \in HaveId : session_id[s] = session_id[u] => s = u
          /\ FreeOnce(ids)

(* Every place of the pool is free, out with a session, or lost because a  *)
(* session was refused: each refused session moves the pool beyond its end *)
(* (over), and the next id to come back moves it towards the end and is    *)
(* lost.  No path through the two calls loses or makes another, and this   *)
(* is so where gets overlap releases, too.                                 *)
IdsConserved ==
    /\ Len(ids.free) + Cardinality(HaveId) + (refused - ids.over) = MaxSessions
    /\ ids.over <= refused

(* To a pool whose gets and releases do not overlap the two calls are a    *)
(* user of AtomicIdPool: each changes it by one get or one release at a    *)
(* time, and releases an id the session has, whether it succeeds, fails or *)
(* frees.                                                                  *)
Pool == INSTANCE AtomicIdPool
            WITH MaxIds <- MaxSessions, out <- {session_id[s] : s \in HaveId}
UsesPool == ~Overlap => Pool!Spec

(* The sessions between their mkdir and their rmdir *)
HaveDir == {s \in Sessions : pc[s] \in {"store", "open", "rmdir"}}

(* An open session has its directory, to itself: no other session's free   *)
(* removes it, though the ids (and so the paths) are handed on before      *)
(* rmdir, and a session with the same id runs through vaccel_sess_init     *)
(* meanwhile.  Even where gets overlap releases and sessions get the same  *)
(* id, mkdir lets only one of them through.                                *)
OpenSessionHasRundir ==
    /\ \A s \in HaveDir : session_id[s] \in dirs
    /\ \A s, u \in HaveDir : session_id[s] = session_id[u] => s = u

(* The table never points to a session that vaccel_sess_free has finished  *)
(* with (the caller may free the structure then), nor to one of another    *)
(* id.                                                                     *)
RunningNotDangling ==
    \A i \in Ids : running[i] # NULL =>
        /\ pc[running[i]] \in {"open"} \cup InFree
        /\ session_id[running[i]] = i

(* As long as the threads keep asking for sessions, sessions are opened:   *)
(* neither a failed mkdir nor a collision with a session that is being     *)
(* freed makes vaccel_sess_init fail for ever.  (A pool that answers the   *)
(* id of another session time and again, because gets overlap releases,    *)
(* could.)                                                                 *)
SessionsKeepOpening ==
    \/ Overlap
    \/ <>(refused > 0 \/ rmdirFailed > 0)
    \/ []<>(Open # {})
=============================================================================
