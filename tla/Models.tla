------------------------------- MODULE Models -------------------------------
(***************************************************************************)
(* The resources that have files: TensorFlow and Torch saved models        *)
(* (src/src/resources/tf_saved_model.c, torch_saved_model.c), and frozen   *)
(* models and shared objects (tf_model.c, shared_object.c).  The files of  *)
(* an object are those of the application, or are written from memory to a *)
(* directory of the resource (resource.<id> under the rundir).             *)
(*                                                                         *)
(* Each object is used by one thread.  What the threads share is the pool  *)
(* of ids and the disk, and a call is cut where others can see its steps.  *)
(* A structure is thrown away once a call has failed after changing it,    *)
(* and once its resource is destroyed.  Sessions, reference counts and a   *)
(* host are in Resources; here no resource is registered to a session, and *)
(* ids are local.  A call of the id pool is one step; see IdStack for what *)
(* that covers.                                                            *)
(***************************************************************************)
EXTENDS IdStack, Files, FiniteSets

CONSTANTS
    SavedModels,    \* vaccel_tf_saved_model structures
    TorchModels,    \* vaccel_torch_saved_model structures
    Singles,        \* vaccel_tf_model and vaccel_shared_object structures
    MaxResources,   \* MAX_RESOURCES
    MaxFailures,    \* bound: how often the system fails a call, or no id is left
    Overlap         \* may id_pool_get run while an id_pool_release is in progress?

ASSUME ObjectsAssumption ==
    /\ SavedModels \cap TorchModels = {}
    /\ (SavedModels \cup TorchModels) \cap Singles = {}
ASSUME MaxResourcesAssumption == MaxResources \in Nat \ {0}
ASSUME MaxFailuresAssumption == MaxFailures \in Nat
ASSUME OverlapAssumption == Overlap \in BOOLEAN

Objects == SavedModels \cup TorchModels \cup Singles
Ids == 1 .. MaxResources

(* The files of an object, in the order in which they are persisted. *)
PartsOf(o) ==
    IF o \in SavedModels THEN <<"model", "checkpoint", "var_index">> ELSE <<"model">>

AllParts == {"model", "checkpoint", "var_index"}
Parts(o) == {PartsOf(o)[k] : k \in DOMAIN PartsOf(o)}

(* Those in the directory `variables`. *)
InVariables == {"checkpoint", "var_index"}

VARIABLES
    pc,         \* where the thread of each object is
    path,       \* is the path of the export directory set?
    files,      \* the vaccel_file structures of each object
    done,       \* how many of them vaccel_file_persist is through with
    rid,        \* the id of the resource of each object
    rundir,     \* res->rundir # NULL
    resource,   \* model->resource # NULL
    pool,       \* the pool of resource ids
    rundirs,    \* the ids i for which the directory resource.i exists
    vardirs,    \* those whose directory has a directory `variables`
    disk,       \* the length of each file in these directories, 0 if none
    failures    \* how often the system has failed a call

objVars == <<pc, path, files, done>>
resVars == <<rid, rundir, resource, pool>>
diskVars == <<rundirs, vardirs, disk>>
vars == <<objVars, resVars, diskVars, failures>>

(* Inside a call, from resource_new to where its effect is complete. *)
Busy == {"rundir", "variables", "persist", "undo", "cleanup", "again", "destroy"}

TypeOK ==
    /\ pc \in [Objects -> {"none", "set", "live"} \cup Busy]
    /\ path \in [Objects -> BOOLEAN]
    /\ \A o \in Objects : files[o] \in [Parts(o) -> File] /\ done[o] \in 0 .. Len(PartsOf(o))
    /\ rid \in [Objects -> Ids \cup {NoId}]
    /\ \A o \in Objects : pc[o] \in (Busy \cup {"live"}) \ {"again"} => rid[o] \in Ids
    /\ rundir \in [Objects -> BOOLEAN]
    /\ resource \in [Objects -> BOOLEAN]
    /\ FreeIds(pool) \subseteq Ids
    /\ rundirs \subseteq Ids
    /\ vardirs \subseteq rundirs
    /\ disk \in [Ids -> [AllParts -> Sizes \cup {0}]]
    /\ failures \in 0 .. MaxFailures

Init ==
    /\ pc = [o \in Objects |-> "none"]
    /\ path = [o \in Objects |-> FALSE]
    /\ files = [o \in Objects |-> [p \in Parts(o) |-> NoFile]]
    /\ done = [o \in Objects |-> 0]
    /\ rid = [o \in Objects |-> NoId]
    /\ rundir = [o \in Objects |-> FALSE]
    /\ resource = [o \in Objects |-> FALSE]
    /\ pool = NewPool(MaxResources)
    /\ rundirs = {}
    /\ vardirs = {}
    /\ disk = [i \in Ids |-> [p \in AllParts |-> 0]]
    /\ failures = 0

Fails == failures < MaxFailures /\ failures' = failures + 1

Goto(o, label) == pc' = [pc EXCEPT ![o] = label]

(* The application throws the structure of the object away. *)
Discard(o) ==
    /\ Goto(o, "none")
    /\ path' = [path EXCEPT ![o] = FALSE]
    /\ files' = [files EXCEPT ![o] = [p \in Parts(o) |-> NoFile]]
    /\ done' = [done EXCEPT ![o] = 0]
    /\ resource' = [resource EXCEPT ![o] = FALSE]
-----------------------------------------------------------------------------
(* Before the resource: vaccel_tf_saved_model_new,                         *)
(* vaccel_torch_saved_model_new, and the functions that set the files.     *)

New(o) ==
    /\ o \notin Singles
    /\ pc[o] = "none"
    /\ Goto(o, "set")
    /\ UNCHANGED <<path, files, done, resVars, diskVars, failures>>

(* The path of an export directory is set: file_from_regex looks for each  *)
(* file in turn.  One that no name matches is left alone, and that is no   *)
(* error.                                                                  *)
FindFiles(o) ==
    /\ pc[o] = "set"
    /\ \E found \in SUBSET Parts(o) :
          files' = [files EXCEPT ![o] =
              [p \in Parts(o) |-> IF p \in found THEN vaccel_file_new(@[p]) ELSE @[p]]]
    /\ path' = [path EXCEPT ![o] = TRUE]
    /\ resource' = [resource EXCEPT ![o] = FALSE]
    /\ UNCHANGED <<pc, done, rid, rundir, pool, diskVars, failures>>

SetPath(o) == o \in SavedModels /\ FindFiles(o)

(* There is no way to fail once the file of a Torch model is set. *)
TorchSetPath(o) == o \in TorchModels /\ FindFiles(o)

(* A file of `variables`, or `variables`, cannot be read: the files before *)
(* it are destroyed.  (If it is the first file, nothing has changed.)      *)
SetPathFails(o) ==
    /\ o \in SavedModels
    /\ pc[o] = "set"
    /\ Discard(o)
    /\ UNCHANGED <<rid, rundir, pool, diskVars, failures>>

(* ..._set_model, ..._set_checkpoint, ..._set_var_index *)
SetFromMemory(o, p) ==
    /\ pc[o] = "set"
    /\ \E n \in Sizes : files' = [files EXCEPT ![o][p] = vaccel_file_from_buffer(@, n)]
    /\ UNCHANGED <<pc, path, done, resVars, diskVars, failures>>

(* ..._get_model, ..._get_checkpoint, ..._get_var_index and                *)
(* vaccel_shared_object_get: vaccel_file_data reads the file when there is *)
(* no data yet.                                                            *)
GetData(o, p) ==
    /\ pc[o] \in {"set", "live"}
    /\ NeedsReading(files[o][p])
    /\ \E n \in Sizes \cup {0} : files' = [files EXCEPT ![o][p] = read_file(@, n)]
    /\ UNCHANGED <<pc, path, done, resVars, diskVars, failures>>

-----------------------------------------------------------------------------
(* Creating the resource *)

(* resource_new: res->id <= 0 *)
NoResource(id) == id = NoId

(* resource_new gives an id, and the object is ready if its files are on   *)
(* the disk.                                                               *)
ResourceNew(o, ready) ==
    /\ \E id \in PoolAnswers(pool, Ids, Overlap) :
          ~NoResource(id) /\ rid' = [rid EXCEPT ![o] = id]
    /\ pool' = PoolGet(pool)
    /\ rundir' = [rundir EXCEPT ![o] = FALSE]
    /\ resource' = [resource EXCEPT ![o] = ready]
    /\ done' = [done EXCEPT ![o] = 0]
    /\ Goto(o, IF ready THEN "live" ELSE "rundir")
    /\ UNCHANGED <<diskVars, failures>>

(* All files are set, and the resource is created; a model from a path is  *)
(* complete with that.                                                     *)
RegisterModel(o) ==
    /\ pc[o] = "set"
    /\ \A p \in Parts(o) : vaccel_file_initialized(files[o][p])
    /\ ResourceNew(o, path[o])
    /\ UNCHANGED <<path, files>>

Register(o) == o \in SavedModels /\ RegisterModel(o)

TorchRegister(o) == o \in TorchModels /\ RegisterModel(o)

(* No id is left: the structure of the resource is freed, and the model is *)
(* as it was.                                                              *)
RegisterNoId(o) ==
    /\ pc[o] = "set"
    /\ \A p \in Parts(o) : vaccel_file_initialized(files[o][p])
    /\ NoResource(PoolTop(pool))
    /\ Fails
    /\ pool' = PoolGet(pool)
    /\ UNCHANGED <<objVars, rid, rundir, resource, diskVars>>

(* vaccel_tf_model_new and vaccel_shared_object_new *)
NewFromPath(o) ==
    /\ o \in Singles
    /\ pc[o] = "none"
    /\ ResourceNew(o, TRUE)
    /\ files' = [files EXCEPT ![o]["model"] = vaccel_file_new(@)]
    /\ UNCHANGED path

(* vaccel_tf_model_new_from_buffer and vaccel_shared_object_new_from_buffer *)
NewFromBuffer(o) ==
    /\ o \in Singles
    /\ pc[o] = "none"
    /\ ResourceNew(o, FALSE)
    /\ \E n \in Sizes : files' = [files EXCEPT ![o]["model"] = vaccel_file_from_buffer(@, n)]
    /\ UNCHANGED path

(* No id is left for one of these: its file is destroyed. *)
NewNoId(o) ==
    /\ o \in Singles
    /\ pc[o] = "none"
    /\ NoResource(PoolTop(pool))
    /\ Fails
    /\ pool' = PoolGet(pool)
    /\ UNCHANGED <<objVars, rid, rundir, resource, diskVars>>
-----------------------------------------------------------------------------
(* Writing the files *)

(* A mutant of MayMkdir: a directory that exists is as good. *)
MayMkdirAgain(o) == TRUE

MayMkdir(o) == rid[o] \notin rundirs

(* resource_create_rundir *)
CreateRundir(o) ==
    /\ pc[o] = "rundir"
    /\ MayMkdir(o)
    /\ rundirs' = rundirs \cup {rid[o]}
    /\ rundir' = [rundir EXCEPT ![o] = TRUE]
    /\ Goto(o, IF o \in SavedModels THEN "variables" ELSE "persist")
    /\ UNCHANGED <<path, files, done, rid, resource, pool, vardirs, disk, failures>>

(* mkdir fails: the directory exists, or some other error. *)
CreateRundirFails(o) ==
    /\ pc[o] = "rundir"
    /\ IF rid[o] \in rundirs THEN UNCHANGED failures ELSE Fails
    /\ Goto(o, "undo")
    /\ UNCHANGED <<path, files, done, resVars, diskVars>>

(* The directory `variables` of a TensorFlow model. *)
CreateVariables(o) ==
    /\ pc[o] = "variables"
    /\ rid[o] \notin vardirs
    /\ vardirs' = vardirs \cup {rid[o]}
    /\ Goto(o, "persist")
    /\ UNCHANGED <<path, files, done, resVars, rundirs, disk, failures>>

CreateVariablesFails(o) ==
    /\ pc[o] = "variables"
    /\ IF rid[o] \in vardirs THEN UNCHANGED failures ELSE Fails
    /\ Goto(o, "undo")
    /\ UNCHANGED <<path, files, done, resVars, diskVars>>

(* The next file is persisted.  After the last one the path of a saved     *)
(* model is that of the directory, and the object has its resource.        *)
Persist(o) ==
    LET p == PartsOf(o)[done[o] + 1]
        last == done[o] + 1 = Len(PartsOf(o))
    IN  /\ pc[o] = "persist"
        /\ MayPersist(files[o][p])
        /\ files' = [files EXCEPT ![o][p] = vaccel_file_persist(@)]
        /\ disk' = [disk EXCEPT ![rid[o]][p] = files[o][p].size]
        /\ done' = [done EXCEPT ![o] = @ + 1]
        /\ path' = [path EXCEPT ![o] = @ \/ (last /\ o \notin Singles)]
        /\ resource' = [resource EXCEPT ![o] = last]
        /\ Goto(o, IF last THEN "live" ELSE "persist")
        /\ UNCHANGED <<rid, rundir, pool, rundirs, vardirs, failures>>

(* It is not.  Whatever was written is removed. *)
PersistFails(o) ==
    LET p == PartsOf(o)[done[o] + 1]
    IN  /\ pc[o] = "persist"
        /\ IF MayPersist(files[o][p])
           THEN /\ Fails
                /\ files' = [files EXCEPT ![o][p] = PersistFailed(@)]
           ELSE UNCHANGED <<files, failures>>
        /\ Goto(o, "undo")
        /\ UNCHANGED <<path, done, resVars, diskVars>>
-----------------------------------------------------------------------------
(* Destroying the resource: resource_destroy gives the id back, ...        *)

DestroyRelease(o, label) ==
    /\ pool' = PoolPut(pool, rid[o])
    /\ Goto(o, label)
    /\ UNCHANGED <<path, files, done, rid, rundir, resource, diskVars, failures>>

(* ... on the way out of a constructor or a register that failed, or for   *)
(* ..._destroy.                                                            *)
Undo(o) == pc[o] = "undo" /\ DestroyRelease(o, "cleanup")

Destroy(o) == pc[o] = "live" /\ DestroyRelease(o, "destroy")

(* A mutant of RemovesVariables: the directory stays. *)
RemovesVariablesNever(o) == FALSE

(* The destructors of saved models remove `variables` when the model has   *)
(* its resource, which has a directory; rmdir fails unless it is empty.    *)
RemovesVariables(o) == o \notin Singles /\ resource[o] /\ rundir[o]

(* Then the destructor of the type destroys the files and `variables`, and *)
(* cleanup_rundir removes the directory if it is empty.                    *)
Cleanup(o) ==
    LET i == rid[o]
        gone == {p \in Parts(o) : Removes(files[o][p])}
        left == [p \in AllParts |-> IF p \in gone THEN 0 ELSE disk[i][p]]
        vars_ == IF RemovesVariables(o) /\ \A p \in InVariables : left[p] = 0
                 THEN vardirs \ {i} ELSE vardirs
        empty == i \notin vars_ /\ \A p \in AllParts : left[p] = 0
    IN  /\ disk' = [disk EXCEPT ![i] = left]
        /\ vardirs' = vars_
        /\ rundirs' = IF rundir[o] /\ empty THEN rundirs \ {i} ELSE rundirs
        /\ rundir' = [rundir EXCEPT ![o] = FALSE]
        /\ rid' = [rid EXCEPT ![o] = NoId]
        /\ UNCHANGED <<pool, failures>>

UndoCleanup(o) ==
    /\ pc[o] = "cleanup"
    /\ Cleanup(o)
    /\ IF o \in Singles
       THEN /\ Goto(o, "again")
            /\ files' = [files EXCEPT ![o] = [p \in Parts(o) |-> vaccel_file_destroy(@[p])]]
            /\ UNCHANGED <<path, done, resource>>
       ELSE Discard(o)

(* The constructors from a buffer destroy the file a second time. *)
UndoAgain(o) ==
    /\ pc[o] = "again"
    /\ Discard(o)
    /\ UNCHANGED <<rid, rundir, pool, diskVars, failures>>

DestroyCleanup(o) ==
    /\ pc[o] = "destroy"
    /\ Cleanup(o)
    /\ Discard(o)

Next ==
    \E o \in Objects :
        \/ New(o) \/ SetPath(o) \/ TorchSetPath(o) \/ SetPathFails(o)
        \/ \E p \in Parts(o) : SetFromMemory(o, p) \/ GetData(o, p)
        \/ Register(o) \/ TorchRegister(o) \/ RegisterNoId(o)
        \/ NewFromPath(o) \/ NewFromBuffer(o) \/ NewNoId(o)
        \/ CreateRundir(o) \/ CreateRundirFails(o)
        \/ CreateVariables(o) \/ CreateVariablesFails(o)
        \/ Persist(o) \/ PersistFails(o)
        \/ Undo(o) \/ UndoCleanup(o) \/ UndoAgain(o)
        \/ Destroy(o) \/ DestroyCleanup(o)

Spec == Init /\ [][Next]_vars
-----------------------------------------------------------------------------
(* Properties *)

(* A file that is still to be destroyed can be: no path is freed twice, no *)
(* mapping unmapped twice, no memory of the application unmapped, on any   *)
(* way out of a registration that fails halfway.                           *)
NoStaleFiles ==
    /\ TypeOK
    /\ \A o \in Objects : pc[o] # "none" =>
          \A p \in Parts(o) : Destroyable(files[o][p])

(* An object created from memory finds its files on the disk as they were  *)
(* given, in a directory no other object has, whatever becomes of objects  *)
(* that had its id before, that fail to be registered, or that have the    *)
(* same id because a get of the pool overlapped a release.                 *)
FilesOnDisk ==
    \A o \in Objects : pc[o] = "live" /\ rundir[o] =>
        /\ rid[o] \in rundirs
        /\ \A p \in Parts(o) : files[o][p].path = "own" => disk[rid[o]][p] > 0
        /\ \A q \in Objects \ {o} : rundir[q] => rid[q] # rid[o]

(* Every file the library has created belongs to an object that will       *)
(* remove it: a registration that fails leaves no file behind.             *)
FilesOwned ==
    \A i \in Ids : \A p \in AllParts : disk[i][p] > 0 =>
        \E o \in Objects : /\ rid[o] = i /\ rundir[o] /\ p \in Parts(o)
                           /\ Removes(files[o][p])

(* The objects that have taken an id and not given it back *)
HaveId == {o \in Objects : pc[o] \in {"rundir", "variables", "persist", "undo", "live"}}

(* To a pool of resource ids whose gets and releases do not overlap the    *)
(* constructors, registers and destructors are a user of AtomicIdPool:     *)
(* objects have different ids, and an id goes back once, by an object that *)
(* has it, on whatever way out.                                            *)
Pool == INSTANCE AtomicIdPool
            WITH MaxIds <- MaxResources, ids <- pool, out <- {rid[o] : o \in HaveId}
UsesPool == ~Overlap => Pool!Spec

(* The destruction of an object removes its directory: its id can be used  *)
(* for another one.                                                        *)
DestroyLeavesNothing ==
    [][\A o \in Objects : pc[o] = "destroy" /\ pc'[o] = "none" /\ rundir[o] =>
           rid[o] \notin rundirs']_vars

(* utils.c:41 of cleanup_rundir: "assume that the rundir is empty, i.e.    *)
(* all contents have been cleaned up by the code that owns it".            *)
RundirEmptied ==
    [][\A o \in Objects : rundir[o] /\ ~rundir'[o] => rid[o] \notin rundirs']_vars
=============================================================================
