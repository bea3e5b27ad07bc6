---------------------------- MODULE ModelsProofs ----------------------------
(***************************************************************************)
(* Proofs about Models, for any number of structures, ids and failures.    *)
(* Everything follows from one inductive invariant, Owned.                 *)
(***************************************************************************)
EXTENDS Models, IdStackProofs

(* The types of the variables.  Those of the files of an object are in     *)
(* ObjectInv.                                                              *)
Types ==
    /\ pc \in [Objects -> {"none", "set", "live"} \cup Busy]
    /\ path \in [Objects -> BOOLEAN]
    /\ DOMAIN files = Objects
    /\ done \in [Objects -> Nat]
    /\ rid \in [Objects -> Ids \cup {NoId}]
    /\ rundir \in [Objects -> BOOLEAN]
    /\ resource \in [Objects -> BOOLEAN]
    /\ pool \in Pools(Ids)
    /\ rundirs \subseteq Ids
    /\ vardirs \subseteq rundirs
    /\ disk \in [Ids -> [AllParts -> Sizes \cup {0}]]
    /\ failures \in 0 .. MaxFailures

(* A path the library owns is that of a file on the disk, in the directory *)
(* of the object.                                                          *)
FileInv(o, p) ==
    LET f == files[o][p]
    IN  /\ Destroyable(f)
        /\ f.path = "null" => f.size \in Sizes \cup {0}
        /\ f.path = "own" => f.owned /\ rundir[o] /\ disk[rid[o]][p] > 0

(* What holds of an object and its directory wherever its thread is.       *)
ObjectInv(o) ==
    /\ files[o] \in [Parts(o) -> File]
    /\ done[o] \in 0 .. Len(PartsOf(o))
    /\ \A p \in Parts(o) : FileInv(o, p)
    /\ pc[o] \in (Busy \cup {"live"}) \ {"again"} => rid[o] \in Ids
    /\ pc[o] \in {"none", "set", "rundir", "again"} => ~rundir[o]
    /\ pc[o] \in {"variables", "persist"} => rundir[o]
    /\ pc[o] = "variables" => o \in SavedModels
    /\ pc[o] \in {"rundir", "variables", "persist"} => done[o] < Len(PartsOf(o))
    /\ pc[o] \in {"live", "destroy"} => resource[o]
    /\ o \in Singles /\ pc[o] \in {"rundir", "persist", "undo", "cleanup", "again"} =>
          files[o]["model"].path = "null"
    /\ rundir[o] => rid[o] \in rundirs /\ (rid[o] \in vardirs => o \in SavedModels)

(* Two objects never have one directory.                                   *)
DirsDiffer ==
    \A o, q \in Objects : o # q /\ rundir[o] /\ rundir[q] => rid[o] # rid[q]

Owned ==
    /\ Types
    /\ DirsDiffer
    /\ FilesOwned
    /\ \A o \in Objects : ObjectInv(o)
-----------------------------------------------------------------------------
(* The operators the model is built from                                   *)

(* The files an object has, and their order.                               *)
LEMMA PartsFacts ==
    ASSUME NEW o \in Objects
    PROVE  /\ Parts(o) \subseteq AllParts
           /\ "model" \in Parts(o)
           /\ o \in SavedModels => Parts(o) = AllParts /\ Len(PartsOf(o)) = 3
           /\ o \notin SavedModels => Parts(o) = {"model"} /\ Len(PartsOf(o)) = 1
           /\ Len(PartsOf(o)) \in Nat /\ Len(PartsOf(o)) > 0
           /\ \A k \in 1 .. Len(PartsOf(o)) : PartsOf(o)[k] \in Parts(o)
           /\ o \in Singles => o \notin SavedModels
<1>1. CASE o \in SavedModels
  <2>1. /\ PartsOf(o) = <<"model", "checkpoint", "var_index">>
        /\ DOMAIN PartsOf(o) = {1, 2, 3} /\ Len(PartsOf(o)) = 3
        /\ PartsOf(o)[1] = "model" /\ PartsOf(o)[2] = "checkpoint" /\ PartsOf(o)[3] = "var_index"
    BY <1>1 DEF PartsOf
  <2>2. Parts(o) = AllParts
    BY <2>1 DEF Parts, AllParts
  <2> QED
    BY <1>1, <2>1, <2>2, ObjectsAssumption DEF AllParts
<1>2. CASE o \notin SavedModels
  <2>1. /\ PartsOf(o) = <<"model">>
        /\ DOMAIN PartsOf(o) = {1} /\ Len(PartsOf(o)) = 1 /\ PartsOf(o)[1] = "model"
    BY <1>2 DEF PartsOf
  <2>2. Parts(o) = {"model"}
    BY <2>1 DEF Parts
  <2> QED
    BY <1>2, <2>1, <2>2 DEF AllParts
<1> QED
  BY <1>1, <1>2

(* Setting a file, from a path or from memory, leaves it destroyable.      *)
LEMMA SetFileFacts ==
    ASSUME NEW f \in File, NEW n \in Sizes
    PROVE  /\ vaccel_file_new(f) \in File
           /\ Destroyable(vaccel_file_new(f))
           /\ vaccel_file_new(f).path = "user"
           /\ vaccel_file_from_buffer(f, n) \in File
           /\ Destroyable(vaccel_file_from_buffer(f, n))
           /\ vaccel_file_from_buffer(f, n).path = "null"
           /\ vaccel_file_from_buffer(f, n).size = n
BY DEF File, vaccel_file_new, vaccel_file_from_buffer, Destroyable

(* So does reading it.                                                     *)
LEMMA ReadFileFacts ==
    ASSUME NEW f \in File, Destroyable(f), NeedsReading(f), NEW n \in Sizes \cup {0}
    PROVE  /\ read_file(f, n) \in File
           /\ Destroyable(read_file(f, n))
           /\ read_file(f, n).path = f.path /\ read_file(f, n).owned = f.owned
           /\ f.path # "null"
BY DEF File, read_file, Destroyable, NeedsReading

(* So does writing it to the disk, whether or not that works.              *)
LEMMA PersistFacts ==
    ASSUME NEW f \in File, f.path = "null" => f.size \in Sizes \cup {0}, MayPersist(f)
    PROVE  /\ f.path = "null" /\ f.size \in Sizes /\ f.size > 0
           /\ vaccel_file_persist(f) \in File
           /\ Destroyable(vaccel_file_persist(f))
           /\ Removes(vaccel_file_persist(f))
           /\ PersistFailed(f) \in File
           /\ Destroyable(PersistFailed(f))
           /\ PersistFailed(f).path = "null" /\ PersistFailed(f).size = f.size
<1>1. f.path = "null" /\ f.size \in Sizes /\ f.size > 0
  BY SizesAssumption DEF MayPersist
<1>2. /\ vaccel_file_persist(f).path = "own"
      /\ vaccel_file_persist(f).owned
      /\ vaccel_file_persist(f).data \in {"map", "failed"}
      /\ vaccel_file_persist(f) \in File
  <2> DEFINE m == Flushed(f.size)
  <2>1. m \in {Flushed(n) : n \in Sizes}
    BY <1>1
  <2> DEFINE g == [f EXCEPT !.path = "own", !.owned = TRUE]
  <2>2. g \in File /\ g.path = "own" /\ g.owned
    BY DEF File
  <2>3. vaccel_file_persist(f) = read_file(g, m)
    BY DEF vaccel_file_persist
  <2> HIDE DEF m, g
  <2>4. \A d \in {"map", "failed"} :
            LET h == [g EXCEPT !.data = d, !.size = m]
            IN  h \in File /\ h.path = "own" /\ h.owned /\ h.data = d
    BY <2>1, <2>2 DEF File
  <2> QED
    BY <2>3, <2>4 DEF read_file
<1>3. /\ PersistFailed(f) \in File
      /\ PersistFailed(f).path = "null" /\ PersistFailed(f).size = f.size
  BY <1>1 DEF File, PersistFailed
<1> QED
  BY <1>1, <1>2, <1>3 DEF Destroyable, Removes
-----------------------------------------------------------------------------
(* A step of one object leaves the others' structures alone.               *)
OthersKeep(o) ==
    \A q \in Objects \ {o} :
        /\ pc'[q] = pc[q] /\ path'[q] = path[q] /\ files'[q] = files[q] /\ done'[q] = done[q]
        /\ rid'[q] = rid[q] /\ rundir'[q] = rundir[q] /\ resource'[q] = resource[q]

(* What is left to show for a step of one object: that the disk of the     *)
(* others is as it was, and that every file there is owned.                *)
LEMMA StepKeeps ==
    ASSUME Owned, NEW o \in Objects, Types', ObjectInv(o)', OthersKeep(o),
           rundir'[o] => \A q \in Objects \ {o} : rundir[q] => rid[q] # rid'[o],
           \A q \in Objects \ {o} : rundir[q] =>
               /\ disk'[rid[q]] = disk[rid[q]]
               /\ rid[q] \in rundirs'
               /\ rid[q] \in vardirs' => rid[q] \in vardirs,
           \A i \in Ids : \A p \in AllParts : disk'[i][p] > 0 =>
               \/ \E q \in Objects \ {o} : /\ rid[q] = i /\ rundir[q] /\ p \in Parts(q)
                                           /\ Removes(files[q][p])
               \/ rid'[o] = i /\ rundir'[o] /\ p \in Parts(o) /\ Removes(files'[o][p])
    PROVE  Owned'
<1>1. DirsDiffer'
  BY DEF Owned, DirsDiffer, OthersKeep
<1>2. FilesOwned'
  <2>1. SUFFICES ASSUME NEW i \in Ids, NEW p \in AllParts, disk'[i][p] > 0
                 PROVE  \E q \in Objects : /\ rid'[q] = i /\ rundir'[q] /\ p \in Parts(q)
                                           /\ Removes(files'[q][p])
    BY DEF FilesOwned
  <2>2. CASE rid'[o] = i /\ rundir'[o] /\ p \in Parts(o) /\ Removes(files'[o][p])
    BY <2>2
  <2>3. ASSUME NEW q \in Objects \ {o}, rid[q] = i, rundir[q], p \in Parts(q), Removes(files[q][p])
        PROVE  rid'[q] = i /\ rundir'[q] /\ Removes(files'[q][p])
    BY <2>3 DEF OthersKeep
  <2> QED
    BY <2>1, <2>2, <2>3
<1>3. ASSUME NEW q \in Objects \ {o}
      PROVE  ObjectInv(q)'
  <2>1. /\ ObjectInv(q)
        /\ pc'[q] = pc[q] /\ files'[q] = files[q] /\ done'[q] = done[q]
        /\ rid'[q] = rid[q] /\ rundir'[q] = rundir[q] /\ resource'[q] = resource[q]
    BY DEF Owned, OthersKeep
  <2>2. \A p \in Parts(q) : FileInv(q, p)'
    BY <2>1 DEF ObjectInv, FileInv
  <2> QED
    BY <2>1, <2>2 DEF ObjectInv
<1> QED
  BY <1>1, <1>2, <1>3 DEF Owned

(* When the disk does not change either, only the object's own files have  *)
(* to stay its own.                                                        *)
LEMMA QuietStepKeeps ==
    ASSUME Owned, NEW o \in Objects, Types', ObjectInv(o)', OthersKeep(o), UNCHANGED diskVars,
           rundir'[o] => rundir[o] /\ rid'[o] = rid[o],
           rundir[o] => rundir'[o] /\ \A p \in Parts(o) : Removes(files[o][p]) => Removes(files'[o][p])
    PROVE  Owned'
<1>1. \A i \in Ids : \A p \in AllParts : disk'[i][p] > 0 =>
          \E q \in Objects : rid[q] = i /\ rundir[q] /\ p \in Parts(q) /\ Removes(files[q][p])
  BY DEF diskVars, Owned, FilesOwned
<1>2. \A q \in Objects \ {o} : rundir[q] => rid[q] \in rundirs'
  BY DEF diskVars, Owned, ObjectInv
<1>3. rundir'[o] => \A q \in Objects \ {o} : rundir[q] => rid[q] # rid'[o]
  BY DEF Owned, DirsDiffer
<1>4. \A i \in Ids : \A p \in AllParts : disk'[i][p] > 0 =>
          \/ \E q \in Objects \ {o} : /\ rid[q] = i /\ rundir[q] /\ p \in Parts(q)
                                      /\ Removes(files[q][p])
          \/ rid'[o] = i /\ rundir'[o] /\ p \in Parts(o) /\ Removes(files'[o][p])
  BY <1>1
<1> QED
  BY <1>2, <1>3, <1>4, StepKeeps DEF diskVars
-----------------------------------------------------------------------------
(* The actions.  First those that throw a structure away, ...              *)

LEMMA DiscardFacts ==
    ASSUME Types, NEW o \in Objects, Discard(o), ~rundir'[o]
    PROVE  /\ ObjectInv(o)'
           /\ pc' \in [Objects -> {"none", "set", "live"} \cup Busy]
           /\ path' \in [Objects -> BOOLEAN]
           /\ DOMAIN files' = Objects
           /\ done' \in [Objects -> Nat]
           /\ resource' \in [Objects -> BOOLEAN]
           /\ \A q \in Objects \ {o} :
                 /\ pc'[q] = pc[q] /\ path'[q] = path[q] /\ files'[q] = files[q]
                 /\ done'[q] = done[q] /\ resource'[q] = resource[q]
<1>1. /\ pc'[o] = "none"
      /\ done'[o] = 0
      /\ files'[o] = [p \in Parts(o) |-> NoFile]
  BY DEF Types, Discard, Goto
<1>2. NoFile \in File /\ Destroyable(NoFile) /\ NoFile.path = "null" /\ NoFile.size = 0
  BY DEF NoFile, File, Destroyable
<1>3. files'[o] \in [Parts(o) -> File] /\ \A p \in Parts(o) : FileInv(o, p)'
  BY <1>1, <1>2 DEF FileInv
<1>4. ObjectInv(o)'
  BY <1>1, <1>3, PartsFacts DEF ObjectInv, Busy
<1> QED
  BY <1>4 DEF Types, Discard, Goto

LEMMA SetPathFailsKeeps ==
    ASSUME Owned, NEW o \in Objects, SetPathFails(o)
    PROVE  Owned'
<1>1. Types /\ ObjectInv(o)
  BY DEF Owned
<1>2. ~rundir[o] /\ Discard(o) /\ UNCHANGED <<rid, rundir, pool, diskVars, failures>>
  BY <1>1 DEF SetPathFails, ObjectInv
<1>3. Types' /\ OthersKeep(o) /\ ObjectInv(o)'
  BY <1>1, <1>2, DiscardFacts DEF Types, OthersKeep, diskVars
<1> QED
  BY <1>2, <1>3, QuietStepKeeps

LEMMA UndoAgainKeeps ==
    ASSUME Owned, NEW o \in Objects, UndoAgain(o)
    PROVE  Owned'
<1>1. Types /\ ObjectInv(o)
  BY DEF Owned
<1>2. ~rundir[o] /\ Discard(o) /\ UNCHANGED <<rid, rundir, pool, diskVars, failures>>
  BY <1>1 DEF UndoAgain, ObjectInv
<1>3. Types' /\ OthersKeep(o) /\ ObjectInv(o)'
  BY <1>1, <1>2, DiscardFacts DEF Types, OthersKeep, diskVars
<1> QED
  BY <1>2, <1>3, QuietStepKeeps

(* ... those that set the files of an object that has no resource, ...     *)

LEMMA NewKeeps ==
    ASSUME Owned, NEW o \in Objects, New(o)
    PROVE  Owned'
<1>1. Types /\ ObjectInv(o)
  BY DEF Owned
<1>2. /\ o \notin Singles /\ pc[o] = "none" /\ pc' = [pc EXCEPT ![o] = "set"]
      /\ UNCHANGED <<path, files, done, resVars, diskVars, failures>>
  BY DEF New, Goto
<1>3. Types' /\ OthersKeep(o)
  BY <1>1, <1>2 DEF Types, OthersKeep, resVars, diskVars
<1>4. ObjectInv(o)' /\ ~rundir[o] /\ UNCHANGED rundir
  BY <1>1, <1>2 DEF Types, ObjectInv, FileInv, resVars, diskVars, Busy
<1> QED
  BY <1>2, <1>3, <1>4, QuietStepKeeps

LEMMA FindFilesKeeps ==
    ASSUME Owned, NEW o \in Objects, FindFiles(o)
    PROVE  Owned'
<1>1. Types /\ ObjectInv(o)
  BY DEF Owned
<1>2. PICK found \in SUBSET Parts(o) :
          files' = [files EXCEPT ![o] =
              [p \in Parts(o) |-> IF p \in found THEN vaccel_file_new(@[p]) ELSE @[p]]]
  BY DEF FindFiles
<1>3. /\ pc[o] = "set" /\ ~rundir[o]
      /\ path' = [path EXCEPT ![o] = TRUE]
      /\ resource' = [resource EXCEPT ![o] = FALSE]
      /\ UNCHANGED <<pc, done, rid, rundir, pool, diskVars, failures>>
  BY <1>1 DEF FindFiles, ObjectInv
<1>4. Types' /\ OthersKeep(o)
  BY <1>1, <1>2, <1>3 DEF Types, OthersKeep, diskVars
<1>5. files'[o] = [p \in Parts(o) |-> IF p \in found THEN vaccel_file_new(files[o][p]) ELSE files[o][p]]
  BY <1>1, <1>2 DEF Types
<1>6. ASSUME NEW p \in Parts(o)
      PROVE  files'[o][p] \in File /\ FileInv(o, p)'
  <2>1. files[o][p] \in File /\ FileInv(o, p) /\ files[o][p].path # "own"
    BY <1>1, <1>3 DEF ObjectInv, FileInv
  <2>2. CASE p \in found
    <3>1. files'[o][p] = vaccel_file_new(files[o][p])
      BY <1>5, <2>2
    <3> QED
      BY <3>1 DEF vaccel_file_new, File, Destroyable, FileInv
  <2>3. CASE p \notin found
    BY <1>5, <2>1, <2>3 DEF FileInv
  <2> QED
    BY <2>2, <2>3
<1>7. files'[o] \in [Parts(o) -> File]
  BY <1>5, <1>6
<1>8. ObjectInv(o)'
  BY <1>1, <1>3, <1>6, <1>7 DEF ObjectInv, Busy, diskVars
<1> QED
  BY <1>3, <1>4, <1>8, QuietStepKeeps

LEMMA SetFromMemoryKeeps ==
    ASSUME Owned, NEW o \in Objects, NEW r \in Parts(o), SetFromMemory(o, r)
    PROVE  Owned'
<1>1. Types /\ ObjectInv(o)
  BY DEF Owned
<1>2. PICK n \in Sizes : files' = [files EXCEPT ![o][r] = vaccel_file_from_buffer(@, n)]
  BY DEF SetFromMemory
<1>3. pc[o] = "set" /\ ~rundir[o] /\ UNCHANGED <<pc, path, done, resVars, diskVars, failures>>
  BY <1>1 DEF SetFromMemory, ObjectInv
<1>4. Types' /\ OthersKeep(o)
  BY <1>1, <1>2, <1>3 DEF Types, OthersKeep, resVars, diskVars
<1>5. files'[o] = [files[o] EXCEPT ![r] = vaccel_file_from_buffer(files[o][r], n)]
  BY <1>1, <1>2 DEF Types
<1>6. ASSUME NEW p \in Parts(o)
      PROVE  files'[o][p] \in File /\ FileInv(o, p)'
  <2>1. files[o][p] \in File /\ FileInv(o, p) /\ files[o][p].path # "own"
    BY <1>1, <1>3 DEF ObjectInv, FileInv
  <2>2. CASE p = r
    <3>1. files'[o][p] = vaccel_file_from_buffer(files[o][p], n)
      BY <1>1, <1>5, <2>2 DEF ObjectInv
    <3>2. /\ files'[o][p] \in File /\ Destroyable(files'[o][p])
          /\ files'[o][p].path = "null" /\ files'[o][p].size = n
      <4>1. files[o][p] \in File
        BY <2>1
      <4> QED
        BY <3>1, <4>1, SetFileFacts
    <3> QED
      BY <3>2 DEF FileInv
  <2>3. CASE p # r
    BY <1>1, <1>5, <2>1, <2>3 DEF FileInv, ObjectInv
  <2> QED
    BY <2>2, <2>3
<1>7. files'[o] \in [Parts(o) -> File]
  BY <1>1, <1>5, <1>6 DEF ObjectInv
<1>8. ObjectInv(o)'
  BY <1>1, <1>3, <1>6, <1>7 DEF ObjectInv, Busy, resVars, diskVars
<1> QED
  BY <1>3, <1>4, <1>8, QuietStepKeeps DEF resVars

LEMMA GetDataKeeps ==
    ASSUME Owned, NEW o \in Objects, NEW r \in Parts(o), GetData(o, r)
    PROVE  Owned'
<1>1. Types /\ ObjectInv(o)
  BY DEF Owned
<1>2. PICK n \in Sizes \cup {0} : files' = [files EXCEPT ![o][r] = read_file(@, n)]
  BY DEF GetData
<1>3. /\ pc[o] \in {"set", "live"} /\ NeedsReading(files[o][r])
      /\ UNCHANGED <<pc, path, done, resVars, diskVars, failures>>
  BY DEF GetData
<1>4. Types' /\ OthersKeep(o)
  BY <1>1, <1>2, <1>3 DEF Types, OthersKeep, resVars, diskVars
<1>5. files'[o] = [files[o] EXCEPT ![r] = read_file(files[o][r], n)]
  BY <1>1, <1>2 DEF Types
<1>6. ASSUME NEW p \in Parts(o)
      PROVE  files'[o][p] \in File /\ FileInv(o, p)' /\ Removes(files'[o][p]) = Removes(files[o][p])
  <2>1. files[o][p] \in File /\ FileInv(o, p) /\ Destroyable(files[o][p])
    BY <1>1 DEF ObjectInv, FileInv
  <2>2. UNCHANGED <<rundir, rid, disk>>
    BY <1>3 DEF resVars, diskVars
  <2>3. CASE p = r
    <3>1. files'[o][p] = read_file(files[o][p], n)
      BY <1>1, <1>5, <2>3 DEF ObjectInv
    <3>2. NeedsReading(files[o][p])
      BY <1>3, <2>3
    <3> QED
      BY <2>1, <2>2, <3>1, <3>2, ReadFileFacts DEF FileInv, Removes
  <2>4. CASE p # r
    BY <1>1, <1>5, <2>1, <2>2, <2>4 DEF FileInv, ObjectInv
  <2> QED
    BY <2>3, <2>4
<1>7. files'[o] \in [Parts(o) -> File]
  BY <1>1, <1>5, <1>6 DEF ObjectInv
<1>8. ObjectInv(o)'
  BY <1>1, <1>3, <1>6, <1>7 DEF ObjectInv, Busy, resVars, diskVars
<1> QED
  BY <1>3, <1>4, <1>6, <1>8, QuietStepKeeps DEF resVars

(* ... and those that create the resource.  Whatever id it gets, there may *)
(* be a directory of that name, which is not this object's.                *)
LEMMA ResourceNewFacts ==
    ASSUME Types, NEW o \in Objects, NEW ready \in BOOLEAN, ResourceNew(o, ready)
    PROVE  /\ rid'[o] \in Ids /\ ~rundir'[o] /\ resource'[o] = ready /\ done'[o] = 0
           /\ pc'[o] = IF ready THEN "live" ELSE "rundir"
           /\ pc' \in [Objects -> {"none", "set", "live"} \cup Busy]
           /\ done' \in [Objects -> Nat]
           /\ rid' \in [Objects -> Ids \cup {NoId}]
           /\ rundir' \in [Objects -> BOOLEAN]
           /\ resource' \in [Objects -> BOOLEAN]
           /\ pool' \in Pools(Ids)
           /\ \A q \in Objects \ {o} :
                 /\ pc'[q] = pc[q] /\ done'[q] = done[q] /\ rid'[q] = rid[q]
                 /\ rundir'[q] = rundir[q] /\ resource'[q] = resource[q]
           /\ UNCHANGED <<diskVars, failures>>
<1>1. PICK id \in PoolAnswers(pool, Ids, Overlap) \ {NoId} : rid' = [rid EXCEPT ![o] = id]
  BY DEF ResourceNew, NoResource
<1>2. id \in Ids /\ PoolGet(pool) \in Pools(Ids)
  <2>1. pool \in Pools(Ids) /\ NoId \notin Ids
    BY DEF Types, Ids, NoId
  <2>2. id \in Ids /\ PoolTop(pool) # NoId
    BY <2>1, PoolAnswersFacts
  <2> QED
    BY <2>1, <2>2, PoolGetFacts
<1>3. /\ pool' = PoolGet(pool)
      /\ rid' = [rid EXCEPT ![o] = id]
      /\ rundir' = [rundir EXCEPT ![o] = FALSE]
      /\ resource' = [resource EXCEPT ![o] = ready]
      /\ done' = [done EXCEPT ![o] = 0]
      /\ pc' = [pc EXCEPT ![o] = IF ready THEN "live" ELSE "rundir"]
      /\ UNCHANGED <<diskVars, failures>>
  BY <1>1 DEF ResourceNew, Goto
<1>4. pc' \in [Objects -> {"none", "set", "live"} \cup Busy]
  BY <1>3 DEF Types, Busy
<1> QED
  BY <1>2, <1>3, <1>4 DEF Types

LEMMA RegisterModelKeeps ==
    ASSUME Owned, NEW o \in SavedModels \cup TorchModels, RegisterModel(o)
    PROVE  Owned'
<1> o \in Objects
  BY DEF Objects
<1>1. Types /\ ObjectInv(o)
  BY DEF Owned
<1>2. /\ pc[o] = "set" /\ ~rundir[o] /\ path[o] \in BOOLEAN
      /\ ResourceNew(o, path[o]) /\ UNCHANGED <<path, files>>
  BY <1>1 DEF RegisterModel, ObjectInv, Types
<1>3. /\ Types' /\ OthersKeep(o)
      /\ rid'[o] \in Ids /\ ~rundir'[o] /\ resource'[o] = path[o] /\ done'[o] = 0
      /\ pc'[o] = IF path[o] THEN "live" ELSE "rundir"
      /\ UNCHANGED <<diskVars, failures>>
  BY <1>1, <1>2, ResourceNewFacts DEF Types, OthersKeep, diskVars
<1>4. \A p \in Parts(o) : FileInv(o, p)'
  BY <1>1, <1>2 DEF ObjectInv, FileInv
<1>5. o \notin Singles
  BY ObjectsAssumption
<1>6. ObjectInv(o)'
  BY <1>1, <1>2, <1>3, <1>4, <1>5, PartsFacts DEF ObjectInv, Busy
<1> QED
  BY <1>2, <1>3, <1>6, QuietStepKeeps

LEMMA NewFromPathKeeps ==
    ASSUME Owned, NEW o \in Objects, NewFromPath(o)
    PROVE  Owned'
<1>1. Types /\ ObjectInv(o)
  BY DEF Owned
<1>2. /\ pc[o] = "none" /\ ~rundir[o] /\ ResourceNew(o, TRUE) /\ UNCHANGED path
      /\ files' = [files EXCEPT ![o]["model"] = vaccel_file_new(@)]
  BY <1>1 DEF NewFromPath, ObjectInv
<1>3. /\ Types' /\ OthersKeep(o)
      /\ rid'[o] \in Ids /\ ~rundir'[o] /\ resource'[o] /\ done'[o] = 0 /\ pc'[o] = "live"
      /\ UNCHANGED <<diskVars, failures>>
  <2>1. DOMAIN files' = Objects /\ \A q \in Objects \ {o} : files'[q] = files[q]
    BY <1>1, <1>2 DEF Types
  <2>2. Types'
    BY <1>1, <1>2, <2>1, ResourceNewFacts DEF Types, diskVars
  <2>3. OthersKeep(o)
    <3>1. \A q \in Objects \ {o} :
             /\ pc'[q] = pc[q] /\ done'[q] = done[q] /\ rid'[q] = rid[q]
             /\ rundir'[q] = rundir[q] /\ resource'[q] = resource[q]
      BY <1>1, <1>2, ResourceNewFacts
    <3> QED
      BY <1>2, <2>1, <3>1 DEF OthersKeep
  <2> QED
    BY <1>1, <1>2, <2>2, <2>3, ResourceNewFacts
<1>4. Parts(o) = {"model"} /\ Len(PartsOf(o)) = 1
  BY PartsFacts DEF NewFromPath
<1>5. files'[o] = [files[o] EXCEPT !["model"] = vaccel_file_new(files[o]["model"])]
  BY <1>1, <1>2 DEF Types
<1>6. files'[o]["model"] = vaccel_file_new(files[o]["model"])
  BY <1>1, <1>4, <1>5 DEF ObjectInv
<1>7. /\ files'[o]["model"] \in File /\ Destroyable(files'[o]["model"])
      /\ files'[o]["model"].path = "user"
  BY <1>6 DEF vaccel_file_new, File, Destroyable
<1>8. files'[o] \in [Parts(o) -> File] /\ \A p \in Parts(o) : FileInv(o, p)'
  BY <1>1, <1>4, <1>5, <1>7 DEF ObjectInv, FileInv
<1>9. ObjectInv(o)'
  BY <1>3, <1>4, <1>8 DEF ObjectInv, Busy
<1> QED
  BY <1>2, <1>3, <1>9, QuietStepKeeps

LEMMA NewFromBufferKeeps ==
    ASSUME Owned, NEW o \in Objects, NewFromBuffer(o)
    PROVE  Owned'
<1>1. Types /\ ObjectInv(o)
  BY DEF Owned
<1>2. /\ o \in Singles /\ pc[o] = "none" /\ ~rundir[o] /\ ResourceNew(o, FALSE) /\ UNCHANGED path
  BY <1>1 DEF NewFromBuffer, ObjectInv
<1>3. PICK n \in Sizes : files' = [files EXCEPT ![o]["model"] = vaccel_file_from_buffer(@, n)]
  BY DEF NewFromBuffer
<1>4. /\ Types' /\ OthersKeep(o)
      /\ rid'[o] \in Ids /\ ~rundir'[o] /\ done'[o] = 0 /\ pc'[o] = "rundir"
      /\ UNCHANGED <<diskVars, failures>>
  BY <1>1, <1>2, <1>3, ResourceNewFacts DEF Types, OthersKeep, diskVars
<1>5. Parts(o) = {"model"} /\ Len(PartsOf(o)) = 1
  BY <1>2, PartsFacts
<1>6. files'[o] = [files[o] EXCEPT !["model"] = vaccel_file_from_buffer(files[o]["model"], n)]
  BY <1>1, <1>3 DEF Types
<1>7. files'[o]["model"] = vaccel_file_from_buffer(files[o]["model"], n)
  BY <1>1, <1>5, <1>6 DEF ObjectInv
<1>8. /\ files'[o]["model"] \in File /\ Destroyable(files'[o]["model"])
      /\ files'[o]["model"].path = "null" /\ files'[o]["model"].size = n
  <2>1. files[o]["model"] \in File
    BY <1>1, <1>5 DEF ObjectInv
  <2> QED
    BY <1>7, <2>1, SetFileFacts
<1>9. files'[o] \in [Parts(o) -> File] /\ \A p \in Parts(o) : FileInv(o, p)'
  BY <1>1, <1>5, <1>6, <1>8 DEF ObjectInv, FileInv
<1>10. ObjectInv(o)'
  BY <1>4, <1>5, <1>8, <1>9 DEF ObjectInv, Busy
<1> QED
  BY <1>2, <1>4, <1>10, QuietStepKeeps

(* No id is left: nothing changes but the pool.                            *)
LEMMA NoIdKeeps ==
    ASSUME Owned, NEW o \in Objects, RegisterNoId(o) \/ NewNoId(o)
    PROVE  Owned'
<1>1. Types /\ ObjectInv(o)
  BY DEF Owned
<1>2. /\ PoolTop(pool) = NoId /\ pool' = PoolGet(pool)
      /\ failures < MaxFailures /\ failures' = failures + 1
      /\ UNCHANGED <<objVars, rid, rundir, resource, diskVars>>
  BY DEF RegisterNoId, NewNoId, NoResource, Fails
<1>3. pool' \in Pools(Ids)
  <2>1. 0 \notin Ids /\ pool \in Pools(Ids)
    BY <1>1, MaxResourcesAssumption DEF Ids, Types
  <2> QED
    BY <1>2, <2>1, PoolGetNothing
<1>4. failures' \in 0 .. MaxFailures
  BY <1>1, <1>2, MaxFailuresAssumption DEF Types
<1>5. Types' /\ OthersKeep(o)
  BY <1>1, <1>2, <1>3, <1>4 DEF Types, OthersKeep, objVars, diskVars
<1>6. \A p \in Parts(o) : FileInv(o, p)'
  BY <1>1, <1>2 DEF ObjectInv, FileInv, objVars, diskVars
<1>7. ObjectInv(o)'
  BY <1>1, <1>2, <1>6 DEF ObjectInv, objVars, diskVars
<1> QED
  BY <1>2, <1>5, <1>7, QuietStepKeeps DEF objVars
-----------------------------------------------------------------------------
(* Writing the files.  The directory was not there: nobody else has it.    *)

LEMMA CreateRundirKeeps ==
    ASSUME Owned, NEW o \in Objects, CreateRundir(o)
    PROVE  Owned'
<1>1. Types /\ ObjectInv(o)
  BY DEF Owned
<1>2. /\ pc[o] = "rundir" /\ ~rundir[o] /\ rid[o] \in Ids /\ rid[o] \notin rundirs
      /\ rundirs' = rundirs \cup {rid[o]}
      /\ rundir' = [rundir EXCEPT ![o] = TRUE]
      /\ pc' = [pc EXCEPT ![o] = IF o \in SavedModels THEN "variables" ELSE "persist"]
      /\ UNCHANGED <<path, files, done, rid, resource, pool, vardirs, disk, failures>>
  BY <1>1 DEF CreateRundir, MayMkdir, Goto, ObjectInv, Busy
<1>3. Types' /\ OthersKeep(o)
  BY <1>1, <1>2 DEF Types, OthersKeep, Busy
<1>4. \A p \in Parts(o) : FileInv(o, p)'
  BY <1>1, <1>2 DEF ObjectInv, FileInv
<1>5. rid[o] \notin vardirs
  BY <1>1, <1>2 DEF Types
<1>6. ObjectInv(o)'
  BY <1>1, <1>2, <1>4, <1>5 DEF ObjectInv, Types
<1>7. \A q \in Objects \ {o} : rundir[q] => rid[q] \in rundirs
  BY DEF Owned, ObjectInv
<1>8. \A i \in Ids : \A p \in AllParts : disk'[i][p] > 0 =>
          \E q \in Objects \ {o} : rid[q] = i /\ rundir[q] /\ p \in Parts(q) /\ Removes(files[q][p])
  BY <1>2 DEF Owned, FilesOwned
<1> QED
  BY <1>2, <1>3, <1>6, <1>7, <1>8, StepKeeps

LEMMA CreateVariablesKeeps ==
    ASSUME Owned, NEW o \in Objects, CreateVariables(o)
    PROVE  Owned'
<1>1. Types /\ ObjectInv(o)
  BY DEF Owned
<1>2. /\ pc[o] = "variables" /\ rundir[o] /\ rid[o] \in rundirs /\ o \in SavedModels
      /\ vardirs' = vardirs \cup {rid[o]}
      /\ pc' = [pc EXCEPT ![o] = "persist"]
      /\ UNCHANGED <<path, files, done, resVars, rundirs, disk, failures>>
  BY <1>1 DEF CreateVariables, Goto, ObjectInv
<1>3. Types' /\ OthersKeep(o)
  BY <1>1, <1>2 DEF Types, OthersKeep, Busy, resVars
<1>4. \A p \in Parts(o) : FileInv(o, p)'
  BY <1>1, <1>2 DEF ObjectInv, FileInv, resVars
<1>5. o \notin Singles
  BY <1>2, PartsFacts
<1>6. ObjectInv(o)'
  BY <1>1, <1>2, <1>4, <1>5 DEF ObjectInv, Types, Busy, resVars
<1>7. \A q \in Objects \ {o} : rundir[q] => rid[q] \in rundirs /\ rid[q] # rid[o]
  BY <1>2 DEF Owned, ObjectInv, DirsDiffer
<1>8. \A i \in Ids : \A p \in AllParts : disk'[i][p] > 0 =>
          \E q \in Objects : rid[q] = i /\ rundir[q] /\ p \in Parts(q) /\ Removes(files[q][p])
  BY <1>2 DEF Owned, FilesOwned
<1>9. \A i \in Ids : \A p \in AllParts : disk'[i][p] > 0 =>
          \/ \E q \in Objects \ {o} : /\ rid[q] = i /\ rundir[q] /\ p \in Parts(q)
                                      /\ Removes(files[q][p])
          \/ rid'[o] = i /\ rundir'[o] /\ p \in Parts(o) /\ Removes(files'[o][p])
  BY <1>2, <1>8 DEF resVars
<1> QED
  BY <1>2, <1>3, <1>6, <1>7, <1>9, StepKeeps DEF resVars

(* A step of the way out: no file is set or written.                       *)
LEMMA WayOutKeeps ==
    ASSUME Owned, NEW o \in Objects, pc' \in [Objects -> {"none", "set", "live"} \cup Busy],
           failures' \in 0 .. MaxFailures, pool' \in Pools(Ids),
           pc[o] \in {"rundir", "variables", "undo", "live"},
           pc'[o] = CASE pc[o] = "undo" -> "cleanup" [] pc[o] = "live" -> "destroy"
                      [] OTHER -> "undo",
           \A q \in Objects \ {o} : pc'[q] = pc[q],
           UNCHANGED <<path, files, done, rid, rundir, resource, diskVars>>
    PROVE  Owned'
<1>1. Types /\ ObjectInv(o)
  BY DEF Owned
<1>2. Types' /\ OthersKeep(o)
  BY <1>1 DEF Types, OthersKeep, diskVars
<1>3. \A p \in Parts(o) : FileInv(o, p)'
  BY <1>1 DEF ObjectInv, FileInv, diskVars
<1>4. pc'[o] \in {"undo", "cleanup", "destroy"} /\ rid[o] \in Ids
  BY <1>1 DEF ObjectInv, Busy
<1>5. pc'[o] = "destroy" => resource[o]
  BY <1>1 DEF ObjectInv
<1>6. o \in Singles /\ pc'[o] \in {"undo", "cleanup"} => files[o]["model"].path = "null"
  <2>1. SUFFICES ASSUME o \in Singles, pc'[o] \in {"undo", "cleanup"}
                 PROVE  pc[o] \in {"rundir", "undo"}
    BY <1>1 DEF ObjectInv
  <2>2. pc[o] # "variables"
    BY <1>1, <2>1, PartsFacts DEF ObjectInv
  <2> QED
    BY <2>1, <2>2
<1>7. ObjectInv(o)'
  BY <1>1, <1>3, <1>4, <1>5, <1>6 DEF ObjectInv, diskVars
<1> QED
  BY <1>2, <1>7, QuietStepKeeps

LEMMA CreateFailsKeeps ==
    ASSUME Owned, NEW o \in Objects, CreateRundirFails(o) \/ CreateVariablesFails(o)
    PROVE  Owned'
<1>1. Types
  BY DEF Owned
<1>2. /\ pc[o] \in {"rundir", "variables"} /\ pc' = [pc EXCEPT ![o] = "undo"]
      /\ UNCHANGED failures \/ (failures < MaxFailures /\ failures' = failures + 1)
      /\ UNCHANGED <<path, files, done, resVars, diskVars>>
  BY DEF CreateRundirFails, CreateVariablesFails, Goto, Fails
<1>3. /\ pc' \in [Objects -> {"none", "set", "live"} \cup Busy] /\ pc'[o] = "undo"
      /\ \A q \in Objects \ {o} : pc'[q] = pc[q]
  BY <1>1, <1>2 DEF Types, Busy
<1>4. failures' \in 0 .. MaxFailures /\ pool' \in Pools(Ids)
  BY <1>1, <1>2, MaxFailuresAssumption DEF Types, resVars
<1> QED
  BY <1>2, <1>3, <1>4, WayOutKeeps DEF resVars

LEMMA ReleaseKeeps ==
    ASSUME Owned, NEW o \in Objects, Undo(o) \/ Destroy(o)
    PROVE  Owned'
<1>1. Types /\ ObjectInv(o)
  BY DEF Owned
<1>2. /\ \/ pc[o] = "undo" /\ pc' = [pc EXCEPT ![o] = "cleanup"]
         \/ pc[o] = "live" /\ pc' = [pc EXCEPT ![o] = "destroy"]
      /\ pool' = PoolPut(pool, rid[o])
      /\ UNCHANGED <<path, files, done, rid, rundir, resource, diskVars, failures>>
  BY DEF Undo, Destroy, DestroyRelease, Goto
<1>3. /\ pc' \in [Objects -> {"none", "set", "live"} \cup Busy]
      /\ \/ pc[o] = "undo" /\ pc'[o] = "cleanup"
         \/ pc[o] = "live" /\ pc'[o] = "destroy"
      /\ \A q \in Objects \ {o} : pc'[q] = pc[q]
  BY <1>1, <1>2 DEF Types, Busy
<1>4. pool' \in Pools(Ids)
  <2>1. pool \in Pools(Ids) /\ rid[o] \in Ids
    BY <1>1, <1>2 DEF Types, ObjectInv, Busy
  <2> QED
    BY <1>2, <2>1, PoolPutFacts
<1> QED
  BY <1>1, <1>2, <1>3, <1>4, WayOutKeeps DEF Types

(* The file that is persisted is the object's own from then on.            *)
LEMMA PersistKeeps ==
    ASSUME Owned, NEW o \in Objects, Persist(o)
    PROVE  Owned'
<1>1. Types /\ ObjectInv(o)
  BY DEF Owned
<1> DEFINE k == Len(PartsOf(o))
<1>2. PICK r \in Parts(o) : r = PartsOf(o)[done[o] + 1]
  <2>1. pc[o] = "persist"
    BY DEF Persist
  <2>2. done[o] + 1 \in 1 .. k
    BY <1>1, <2>1, PartsFacts DEF ObjectInv
  <2> QED
    BY <2>2, PartsFacts
<1>3. PICK last \in BOOLEAN : last = (done[o] + 1 = k)
  OBVIOUS
<1>4. /\ pc[o] = "persist" /\ rundir[o] /\ rid[o] \in Ids /\ rid[o] \in rundirs
      /\ done[o] \in Nat /\ done[o] < k
      /\ files[o] \in [Parts(o) -> File]
  <2>1. pc[o] = "persist"
    BY DEF Persist
  <2> QED
    BY <1>1, <2>1 DEF ObjectInv, Busy
<1>5. /\ MayPersist(files[o][r])
      /\ files' = [files EXCEPT ![o][r] = vaccel_file_persist(@)]
      /\ disk' = [disk EXCEPT ![rid[o]][r] = files[o][r].size]
      /\ done' = [done EXCEPT ![o] = @ + 1]
      /\ path' = [path EXCEPT ![o] = @ \/ (last /\ o \notin Singles)]
      /\ resource' = [resource EXCEPT ![o] = last]
      /\ pc' = [pc EXCEPT ![o] = IF last THEN "live" ELSE "persist"]
      /\ UNCHANGED <<rid, rundir, pool, rundirs, vardirs, failures>>
  BY <1>2, <1>3 DEF Persist, Goto
<1>size. k \in Nat /\ k > 0 /\ (o \in Singles => k = 1)
  BY PartsFacts
<1>which. (last => done[o] + 1 = k) /\ (~last => done[o] + 1 # k)
  BY <1>3, Zenon
<1> HIDE DEF k
<1>6. /\ files[o][r] \in File /\ files[o][r].size \in Sizes /\ files[o][r].size > 0
      /\ vaccel_file_persist(files[o][r]) \in File
      /\ Destroyable(vaccel_file_persist(files[o][r]))
      /\ Removes(vaccel_file_persist(files[o][r]))
  <2>1. files[o][r] \in File /\ (files[o][r].path = "null" => files[o][r].size \in Sizes \cup {0})
    BY <1>1, <1>4 DEF ObjectInv, FileInv
  <2> QED
    BY <1>5, <2>1, PersistFacts
<1>7. r \in AllParts
  BY PartsFacts
<1>8. Types' /\ OthersKeep(o)
  <2>1. disk' \in [Ids -> [AllParts -> Sizes \cup {0}]]
    BY <1>1, <1>5, <1>6, <1>7 DEF Types
  <2>2. path' \in [Objects -> BOOLEAN] /\ resource' \in [Objects -> BOOLEAN]
    BY <1>1, <1>5 DEF Types
  <2>3. /\ pc' \in [Objects -> {"none", "set", "live"} \cup Busy]
        /\ DOMAIN files' = Objects /\ done' \in [Objects -> Nat]
    BY <1>1, <1>5 DEF Types, Busy
  <2>4. Types'
    BY <1>1, <1>5, <2>1, <2>2, <2>3 DEF Types
  <2>5. OthersKeep(o)
    BY <1>1, <1>5 DEF Types, OthersKeep
  <2> QED
    BY <2>4, <2>5
<1>9. /\ files'[o] = [files[o] EXCEPT ![r] = vaccel_file_persist(files[o][r])]
      /\ pc'[o] = IF last THEN "live" ELSE "persist"
      /\ done'[o] = done[o] + 1 /\ resource'[o] = last
      /\ disk'[rid[o]][r] = files[o][r].size
      /\ \A i \in Ids : \A p \in AllParts : i # rid[o] \/ p # r => disk'[i][p] = disk[i][p]
  BY <1>1, <1>4, <1>5, <1>7 DEF Types
<1>10. /\ files'[o] \in [Parts(o) -> File]
       /\ files'[o][r] = vaccel_file_persist(files[o][r])
       /\ \A p \in Parts(o) : p # r => files'[o][p] = files[o][p]
  BY <1>4, <1>6, <1>9
<1>11. ASSUME NEW p \in Parts(o)
       PROVE  FileInv(o, p)'
  <2>1. rid'[o] = rid[o] /\ rundir'[o] /\ p \in AllParts
    BY <1>1, <1>4, <1>5, PartsFacts DEF Types
  <2>2. CASE p = r
    <3>1. disk'[rid'[o]][p] > 0
      BY <1>6, <1>9, <2>1, <2>2
    <3>2. /\ Destroyable(files'[o][p])
          /\ files'[o][p].path = "own" /\ files'[o][p].owned
      BY <1>6, <1>10, <2>2 DEF Removes
    <3> QED
      BY <2>1, <3>1, <3>2 DEF FileInv
  <2>3. CASE p # r
    <3>1. FileInv(o, p)
      BY <1>1 DEF ObjectInv
    <3>2. disk'[rid'[o]][p] = disk[rid[o]][p] /\ files'[o][p] = files[o][p]
      BY <1>4, <1>9, <1>10, <2>1, <2>3
    <3> QED
      BY <2>1, <3>1, <3>2 DEF FileInv
  <2> QED
    BY <2>2, <2>3
<1>12. /\ done'[o] \in 0 .. Len(PartsOf(o))
       /\ pc'[o] = "persist" => done'[o] < Len(PartsOf(o))
  <2>1. done'[o] \in 0 .. k /\ (~last => done'[o] < k)
    BY <1>size, <1>which, <1>4, <1>9
  <2>2. pc'[o] = "persist" => ~last
    BY <1>9
  <2> QED
    BY <2>1, <2>2 DEF k
<1>13. o \in Singles => last
  <2>1. o \in Singles => done[o] + 1 = k
    BY <1>size, <1>4
  <2> QED
    BY <1>which, <2>1
<1>14. ObjectInv(o)'
  BY <1>1, <1>4, <1>5, <1>9, <1>10, <1>11, <1>12, <1>13 DEF ObjectInv
<1>15. \A q \in Objects \ {o} : rundir[q] =>
           /\ rid[q] # rid[o] /\ rid[q] \in Ids /\ rid[q] \in rundirs /\ disk'[rid[q]] = disk[rid[q]]
  <2> SUFFICES ASSUME NEW q \in Objects \ {o}, rundir[q]
               PROVE  /\ rid[q] # rid[o] /\ rid[q] \in Ids /\ rid[q] \in rundirs
                      /\ disk'[rid[q]] = disk[rid[q]]
    OBVIOUS
  <2>1. rid[q] # rid[o]
    BY <1>4 DEF Owned, DirsDiffer
  <2>2. rid[q] \in rundirs /\ rid[q] \in Ids
    <3>1. ObjectInv(q)
      BY DEF Owned
    <3> QED
      BY <1>1, <3>1 DEF ObjectInv, Types
  <2>3. disk'[rid[q]] = disk[rid[q]]
    BY <1>1, <1>5, <2>1, <2>2 DEF Types
  <2> QED
    BY <2>1, <2>2, <2>3
<1>16. ASSUME NEW i \in Ids, NEW p \in AllParts, disk'[i][p] > 0
       PROVE  \/ \E q \in Objects \ {o} : /\ rid[q] = i /\ rundir[q] /\ p \in Parts(q)
                                           /\ Removes(files[q][p])
              \/ rid'[o] = i /\ rundir'[o] /\ p \in Parts(o) /\ Removes(files'[o][p])
  <2>1. CASE i = rid[o] /\ p = r
    BY <1>4, <1>5, <1>6, <1>10, <2>1
  <2>2. CASE i # rid[o] \/ p # r
    <3>1. PICK q \in Objects : rid[q] = i /\ rundir[q] /\ p \in Parts(q) /\ Removes(files[q][p])
      BY <1>9, <1>16, <2>2 DEF Owned, FilesOwned
    <3> QED
      BY <1>4, <1>5, <1>10, <2>2, <3>1
  <2> QED
    BY <2>1, <2>2
<1> QED
  BY <1>4, <1>5, <1>8, <1>14, <1>15, <1>16, StepKeeps

LEMMA PersistFailsKeeps ==
    ASSUME Owned, NEW o \in Objects, PersistFails(o)
    PROVE  Owned'
<1>1. Types /\ ObjectInv(o)
  BY DEF Owned
<1>2. PICK r \in Parts(o) : r = PartsOf(o)[done[o] + 1]
  <2>1. pc[o] = "persist"
    BY DEF PersistFails
  <2>2. done[o] + 1 \in 1 .. Len(PartsOf(o))
    BY <1>1, <2>1, PartsFacts DEF ObjectInv
  <2> QED
    BY <2>2, PartsFacts
<1>3. /\ pc[o] = "persist" /\ pc' = [pc EXCEPT ![o] = "undo"]
      /\ UNCHANGED <<path, done, resVars, diskVars>>
      /\ \/ /\ MayPersist(files[o][r])
            /\ failures < MaxFailures /\ failures' = failures + 1
            /\ files' = [files EXCEPT ![o][r] = PersistFailed(@)]
         \/ UNCHANGED <<files, failures>>
  BY <1>2 DEF PersistFails, Goto, Fails
<1>4. rundir[o] /\ rid[o] \in Ids /\ rid[o] \in rundirs /\ files[o] \in [Parts(o) -> File]
  BY <1>1, <1>3 DEF ObjectInv, Busy
<1>5. Types' /\ OthersKeep(o)
  <2>1. pc' \in [Objects -> {"none", "set", "live"} \cup Busy] /\ DOMAIN files' = Objects
    BY <1>1, <1>3 DEF Types, Busy
  <2>2. failures' \in 0 .. MaxFailures
    BY <1>1, <1>3, MaxFailuresAssumption DEF Types
  <2> QED
    BY <1>1, <1>3, <2>1, <2>2 DEF Types, OthersKeep, resVars, diskVars
<1>6. /\ files'[o] \in [Parts(o) -> File]
      /\ \A p \in Parts(o) : /\ FileInv(o, p)'
                             /\ (files[o][p].path = "null" => files'[o][p].path = "null")
                             /\ (Removes(files[o][p]) => Removes(files'[o][p]))
  <2>1. UNCHANGED <<rundir, rid, disk>> /\ \A p \in Parts(o) : FileInv(o, p)
    BY <1>1, <1>3 DEF ObjectInv, resVars, diskVars
  <2>2. CASE UNCHANGED files
    BY <1>4, <2>1, <2>2 DEF FileInv
  <2>3. CASE MayPersist(files[o][r]) /\ files' = [files EXCEPT ![o][r] = PersistFailed(@)]
    <3>1. /\ files'[o] = [files[o] EXCEPT ![r] = PersistFailed(files[o][r])]
      BY <1>1, <2>3 DEF Types
    <3>2. /\ files[o][r].path = "null"
          /\ PersistFailed(files[o][r]) \in File
          /\ Destroyable(PersistFailed(files[o][r]))
          /\ PersistFailed(files[o][r]).path = "null"
          /\ PersistFailed(files[o][r]).size \in Sizes \cup {0}
      <4>1. files[o][r] \in File /\ (files[o][r].path = "null" => files[o][r].size \in Sizes \cup {0})
        BY <1>4, <2>1 DEF FileInv
      <4> QED
        BY <2>3, <4>1, PersistFacts
    <3>3. /\ files'[o] \in [Parts(o) -> File]
          /\ files'[o][r] = PersistFailed(files[o][r])
          /\ \A p \in Parts(o) : p # r => files'[o][p] = files[o][p]
      BY <1>4, <3>1, <3>2
    <3> QED
      BY <2>1, <3>2, <3>3 DEF FileInv, Removes
  <2> QED
    BY <1>3, <2>2, <2>3
<1>7. pc'[o] = "undo" /\ rid'[o] \in Ids
  BY <1>1, <1>3, <1>4 DEF Types, resVars
<1>8. o \in Singles => files'[o]["model"].path = "null"
  BY <1>1, <1>3, <1>6, PartsFacts DEF ObjectInv
<1>9. ObjectInv(o)'
  BY <1>1, <1>3, <1>4, <1>6, <1>7, <1>8 DEF ObjectInv, resVars, diskVars
<1> QED
  BY <1>3, <1>4, <1>5, <1>6, <1>9, QuietStepKeeps DEF resVars
-----------------------------------------------------------------------------
(* The destruction.  All files of a directory are those of the object that *)
(* has the directory, so that it is empty once they are removed.           *)

LEMMA DirectoryIsOwn ==
    ASSUME Owned, NEW o \in Objects, rundir[o], NEW p \in AllParts, disk[rid[o]][p] > 0,
           rid[o] \in Ids
    PROVE  p \in Parts(o) /\ Removes(files[o][p])
<1>1. PICK q \in Objects : rid[q] = rid[o] /\ rundir[q] /\ p \in Parts(q) /\ Removes(files[q][p])
  BY DEF Owned, FilesOwned
<1>2. q = o
  BY <1>1 DEF Owned, DirsDiffer
<1> QED
  BY <1>1, <1>2

LEMMA CleanupFacts ==
    ASSUME Owned, NEW o \in Objects, rid[o] \in Ids, Cleanup(o)
    PROVE  /\ disk' \in [Ids -> [AllParts -> Sizes \cup {0}]]
           /\ rundirs' \subseteq Ids /\ vardirs' \subseteq rundirs'
           /\ rundir' = [rundir EXCEPT ![o] = FALSE]
           /\ rid' = [rid EXCEPT ![o] = NoId]
           /\ UNCHANGED <<pool, failures>>
           /\ ~rundir[o] => UNCHANGED diskVars
           /\ \A i \in Ids \ {rid[o]} :
                 /\ disk'[i] = disk[i]
                 /\ i \in rundirs => i \in rundirs'
                 /\ i \in vardirs' => i \in vardirs
           /\ rundir[o] => \A p \in AllParts : disk'[rid[o]][p] = 0
           /\ rundir[o] /\ resource[o] => rid[o] \notin rundirs'
<1> DEFINE i == rid[o]
           gone == {p \in Parts(o) : Removes(files[o][p])}
           left == [p \in AllParts |-> IF p \in gone THEN 0 ELSE disk[i][p]]
           vars_ == IF RemovesVariables(o) /\ \A p \in InVariables : left[p] = 0
                    THEN vardirs \ {i} ELSE vardirs
           empty == i \notin vars_ /\ \A p \in AllParts : left[p] = 0
<1>1. Types /\ ObjectInv(o) /\ i \in Ids
  BY DEF Owned
<1>2. /\ disk' = [disk EXCEPT ![i] = left]
      /\ vardirs' = vars_
      /\ rundirs' = IF rundir[o] /\ empty THEN rundirs \ {i} ELSE rundirs
      /\ rundir' = [rundir EXCEPT ![o] = FALSE]
      /\ rid' = [rid EXCEPT ![o] = NoId]
      /\ UNCHANGED <<pool, failures>>
  BY Zenon DEF Cleanup
<1>3. ~rundir[o] => gone = {} /\ vars_ = vardirs
  BY <1>1 DEF ObjectInv, FileInv, Removes, RemovesVariables
<1>4. disk[i] \in [AllParts -> Sizes \cup {0}] /\ 0 \notin Sizes
  BY <1>1, SizesAssumption DEF Types
<1>5. left \in [AllParts -> Sizes \cup {0}]
  BY <1>4
<1>6. ~rundir[o] => left = disk[i]
  BY <1>3, <1>4
<1>7. rundir[o] => \A p \in AllParts : left[p] = 0
  <2>1. SUFFICES ASSUME rundir[o], NEW p \in AllParts
                 PROVE  left[p] = 0
    OBVIOUS
  <2>2. CASE disk[i][p] > 0
    <3>1. p \in gone
      BY <1>1, <2>1, <2>2, DirectoryIsOwn
    <3> QED
      BY <3>1
  <2>3. CASE ~(disk[i][p] > 0)
    <3>1. disk[i][p] = 0
      <4>1. disk[i][p] \in Sizes \cup {0} /\ \A d \in Sizes : d > 0
        BY <1>4, <2>1, SizesAssumption
      <4> QED
        BY <2>3, <4>1
    <3> QED
      BY <3>1
  <2> QED
    BY <2>2, <2>3
<1> InVariables \subseteq AllParts
  BY DEF InVariables, AllParts
<1>8. rundir[o] /\ resource[o] => i \notin vars_
  <2>1. SUFFICES ASSUME rundir[o], resource[o]
                 PROVE  i \notin vars_
    OBVIOUS
  <2>2. CASE o \in Singles
    <3>1. i \notin vardirs
      BY <1>1, <2>1, <2>2, PartsFacts DEF ObjectInv
    <3> HIDE DEF i, left
    <3> QED
      BY <3>1
  <2>3. CASE o \notin Singles
    <3>1. RemovesVariables(o)
      BY <2>1, <2>3 DEF RemovesVariables
    <3>2. \A p \in InVariables : left[p] = 0
      BY <1>7, <2>1
    <3> HIDE DEF i, left
    <3> QED
      BY <3>1, <3>2
  <2> QED
    BY <2>2, <2>3
<1>9. vars_ \subseteq vardirs /\ vardirs \subseteq vars_ \cup {i}
  <2> HIDE DEF i, left
  <2> QED
    OBVIOUS
<1> HIDE DEF i, gone, left, vars_
<1>10. disk' \in [Ids -> [AllParts -> Sizes \cup {0}]] /\ disk'[i] = left
  BY <1>1, <1>2, <1>5 DEF Types
<1>11. rundirs' \subseteq Ids /\ vardirs' \subseteq rundirs'
  BY <1>1, <1>2, <1>9 DEF Types
<1>12. ~rundir[o] => UNCHANGED diskVars
  BY <1>1, <1>2, <1>3, <1>6 DEF Types, diskVars
<1>13. \A j \in Ids \ {i} : /\ disk'[j] = disk[j]
                            /\ j \in rundirs => j \in rundirs'
                            /\ j \in vardirs' => j \in vardirs
  BY <1>1, <1>2, <1>9 DEF Types
<1>14. rundir[o] /\ resource[o] => i \notin rundirs'
  BY <1>2, <1>7, <1>8
<1> QED
  BY <1>2, <1>7, <1>10, <1>11, <1>12, <1>13, <1>14 DEF i

(* What the step does besides: the structure is thrown away, or its file   *)
(* is destroyed once.                                                      *)
LEMMA CleanupKeeps ==
    ASSUME Owned, NEW o \in Objects, UndoCleanup(o) \/ DestroyCleanup(o)
    PROVE  Owned'
<1>1. Types /\ ObjectInv(o)
  BY DEF Owned
<1>2. pc[o] \in {"cleanup", "destroy"} /\ Cleanup(o) /\ rid[o] \in Ids
  BY <1>1 DEF UndoCleanup, DestroyCleanup, ObjectInv, Busy
<1>3. /\ disk' \in [Ids -> [AllParts -> Sizes \cup {0}]]
      /\ rundirs' \subseteq Ids /\ vardirs' \subseteq rundirs'
      /\ rundir' = [rundir EXCEPT ![o] = FALSE]
      /\ rid' = [rid EXCEPT ![o] = NoId]
      /\ UNCHANGED <<pool, failures>>
      /\ ~rundir[o] => UNCHANGED diskVars
      /\ \A i \in Ids \ {rid[o]} :
            /\ disk'[i] = disk[i]
            /\ i \in rundirs => i \in rundirs'
            /\ i \in vardirs' => i \in vardirs
      /\ rundir[o] => \A p \in AllParts : disk'[rid[o]][p] = 0
  BY <1>2, CleanupFacts
<1>4. ~rundir'[o]
  BY <1>1, <1>3 DEF Types
<1>5. Types' /\ OthersKeep(o) /\ ObjectInv(o)'
  <2>1. CASE Discard(o)
    BY <1>1, <1>3, <1>4, <2>1, DiscardFacts DEF Types, OthersKeep
  <2>2. CASE /\ o \in Singles /\ pc[o] = "cleanup"
             /\ pc' = [pc EXCEPT ![o] = "again"]
             /\ files' = [files EXCEPT ![o] = [p \in Parts(o) |-> vaccel_file_destroy(@[p])]]
             /\ UNCHANGED <<path, done, resource>>
    <3>1. Types' /\ OthersKeep(o)
      BY <1>1, <1>3, <2>2 DEF Types, OthersKeep, Busy
    <3>2. Parts(o) = {"model"}
      BY <2>2, PartsFacts
    <3>3. files[o]["model"].path = "null" /\ files[o] \in [Parts(o) -> File]
      BY <1>1, <2>2 DEF ObjectInv
    <3>4. files'[o] = [p \in Parts(o) |-> vaccel_file_destroy(files[o][p])]
      BY <1>1, <2>2 DEF Types
    <3>5. files'[o] = files[o]
      BY <3>2, <3>3, <3>4 DEF vaccel_file_destroy
    <3>6. \A p \in Parts(o) : FileInv(o, p)'
      BY <1>1, <3>2, <3>3, <3>5 DEF ObjectInv, FileInv
    <3>7. pc'[o] = "again"
      BY <1>1, <2>2 DEF Types
    <3>8. ObjectInv(o)'
      BY <1>1, <1>4, <2>2, <3>3, <3>5, <3>6, <3>7 DEF ObjectInv
    <3> QED
      BY <3>1, <3>8
  <2> QED
    BY <2>1, <2>2 DEF UndoCleanup, DestroyCleanup, Goto
<1>6. \A q \in Objects \ {o} : rundir[q] =>
          /\ rid[q] \in rundirs /\ rid[q] \in Ids
          /\ rundir[o] => rid[q] # rid[o]
  BY <1>1 DEF Owned, ObjectInv, DirsDiffer, Types
<1>7. \A q \in Objects \ {o} : rundir[q] =>
          /\ disk'[rid[q]] = disk[rid[q]]
          /\ rid[q] \in rundirs'
          /\ rid[q] \in vardirs' => rid[q] \in vardirs
  BY <1>3, <1>6 DEF diskVars
<1>8. ASSUME NEW i \in Ids, NEW p \in AllParts, disk'[i][p] > 0
      PROVE  \E q \in Objects \ {o} : rid[q] = i /\ rundir[q] /\ p \in Parts(q) /\ Removes(files[q][p])
  <2>1. disk[i][p] > 0 /\ ~(i = rid[o] /\ rundir[o])
    BY <1>3, <1>8 DEF diskVars
  <2> QED
    BY <2>1 DEF Owned, FilesOwned
<1> QED
  BY <1>4, <1>5, <1>7, <1>8, StepKeeps
-----------------------------------------------------------------------------
LEMMA InitOwned == Init => Owned
<1> SUFFICES ASSUME Init
             PROVE  Owned
  OBVIOUS
<1>1. Types
  <2>1. pool \in Pools(Ids)
    BY NewPoolFacts, MaxResourcesAssumption DEF Init, Ids
  <2> QED
    BY <2>1, MaxFailuresAssumption DEF Init, Types
<1>2. DirsDiffer
  BY DEF Init, DirsDiffer
<1>3. FilesOwned
  <2>1. \A i \in Ids : \A p \in AllParts : disk[i][p] = 0
    BY DEF Init
  <2> QED
    BY <2>1 DEF FilesOwned
<1>4. ASSUME NEW o \in Objects
      PROVE  ObjectInv(o)
  <2>1. NoFile \in File /\ Destroyable(NoFile) /\ NoFile.path = "null" /\ NoFile.size = 0
    BY DEF NoFile, File, Destroyable
  <2>2. files[o] \in [Parts(o) -> File] /\ \A p \in Parts(o) : FileInv(o, p)
    BY <2>1 DEF Init, FileInv
  <2> QED
    BY <2>2, PartsFacts DEF Init, ObjectInv, Busy
<1> QED
  BY <1>1, <1>2, <1>3, <1>4 DEF Owned

LEMMA NextOwned ==
    ASSUME Owned, Next
    PROVE  Owned'
<1>1. PICK o \in Objects :
          \/ New(o) \/ SetPath(o) \/ TorchSetPath(o) \/ SetPathFails(o)
          \/ \E p \in Parts(o) : SetFromMemory(o, p) \/ GetData(o, p)
          \/ Register(o) \/ TorchRegister(o) \/ RegisterNoId(o)
          \/ NewFromPath(o) \/ NewFromBuffer(o) \/ NewNoId(o)
          \/ CreateRundir(o) \/ CreateRundirFails(o)
          \/ CreateVariables(o) \/ CreateVariablesFails(o)
          \/ Persist(o) \/ PersistFails(o)
          \/ Undo(o) \/ UndoCleanup(o) \/ UndoAgain(o)
          \/ Destroy(o) \/ DestroyCleanup(o)
  BY DEF Next
<1>2. CASE New(o) \/ SetPath(o) \/ TorchSetPath(o) \/ SetPathFails(o)
  BY <1>2, NewKeeps, FindFilesKeeps, SetPathFailsKeeps DEF SetPath, TorchSetPath
<1>3. CASE \E p \in Parts(o) : SetFromMemory(o, p) \/ GetData(o, p)
  BY <1>3, SetFromMemoryKeeps, GetDataKeeps
<1>4. CASE Register(o) \/ TorchRegister(o) \/ RegisterNoId(o)
  BY <1>4, RegisterModelKeeps, NoIdKeeps DEF Register, TorchRegister
<1>5. CASE NewFromPath(o) \/ NewFromBuffer(o) \/ NewNoId(o)
  BY <1>5, NewFromPathKeeps, NewFromBufferKeeps, NoIdKeeps
<1>6. CASE CreateRundir(o) \/ CreateRundirFails(o) \/ CreateVariables(o) \/ CreateVariablesFails(o)
  BY <1>6, CreateRundirKeeps, CreateVariablesKeeps, CreateFailsKeeps
<1>7. CASE Persist(o) \/ PersistFails(o)
  BY <1>7, PersistKeeps, PersistFailsKeeps
<1>8. CASE Undo(o) \/ UndoCleanup(o) \/ UndoAgain(o) \/ Destroy(o) \/ DestroyCleanup(o)
  BY <1>8, ReleaseKeeps, CleanupKeeps, UndoAgainKeeps
<1> QED
  BY <1>1, <1>2, <1>3, <1>4, <1>5, <1>6, <1>7, <1>8

LEMMA StutterOwned ==
    ASSUME Owned, UNCHANGED vars
    PROVE  Owned'
<1>1. UNCHANGED <<pc, path, files, done, rid, rundir, resource, pool, rundirs, vardirs, disk, failures>>
  BY DEF vars, objVars, resVars, diskVars
<1>2. Types' /\ DirsDiffer' /\ FilesOwned'
  BY <1>1 DEF Owned, Types, DirsDiffer, FilesOwned
<1>3. \A o \in Objects : ObjectInv(o)'
  BY <1>1 DEF Owned, ObjectInv, FileInv
<1> QED
  BY <1>2, <1>3 DEF Owned

(* The inductive invariant: in every state each file on the disk has one   *)
(* object that will remove it, and each object one directory.              *)
THEOREM AlwaysOwned == Spec => []Owned
<1>1. Owned /\ [Next]_vars => Owned'
  BY NextOwned, StutterOwned
<1> QED
  BY InitOwned, <1>1, PTL DEF Spec

(* No path is freed twice, no mapping unmapped twice and no memory of the  *)
(* application unmapped, on any way out of a registration that fails.      *)
THEOREM FilesAreDestroyable == Spec => []NoStaleFiles
<1>1. Owned => NoStaleFiles
  <2>1. SUFFICES ASSUME Owned
                 PROVE  NoStaleFiles
    OBVIOUS
  <2>2. Types /\ \A o \in Objects : ObjectInv(o)
    BY <2>1 DEF Owned
  <2>3. FreeIds(pool) \subseteq Ids
    BY <2>2 DEF Types, Pools, FreeIds
  <2>4. \A o \in Objects : files[o] \in [Parts(o) -> File] /\ done[o] \in 0 .. Len(PartsOf(o))
    BY <2>2 DEF ObjectInv
  <2>5. \A o \in Objects : pc[o] \in (Busy \cup {"live"}) \ {"again"} => rid[o] \in Ids
    BY <2>2 DEF ObjectInv
  <2>6. TypeOK
    BY <2>2, <2>3, <2>4, <2>5 DEF TypeOK, Types
  <2>7. \A o \in Objects : \A p \in Parts(o) : Destroyable(files[o][p])
    BY <2>2 DEF ObjectInv, FileInv
  <2> QED
    BY <2>6, <2>7 DEF NoStaleFiles
<1> QED
  BY AlwaysOwned, <1>1, PTL

(* An object from memory has its files on the disk, in a directory of its  *)
(* own, whoever had its id before.                                         *)
THEOREM FilesAreOnDisk == Spec => []FilesOnDisk
<1>1. Owned => FilesOnDisk
  BY DEF Owned, ObjectInv, FileInv, DirsDiffer, FilesOnDisk
<1> QED
  BY AlwaysOwned, <1>1, PTL

(* No registration that fails, at whatever step, leaves a file behind.     *)
THEOREM FilesHaveOwners == Spec => []FilesOwned
<1>1. Owned => FilesOwned
  BY DEF Owned
<1> QED
  BY AlwaysOwned, <1>1, PTL

(* The destruction of an object leaves no directory.                       *)
THEOREM DestructionIsComplete == Spec => DestroyLeavesNothing
<1>1. ASSUME Owned, [Next]_vars, NEW o \in Objects, pc[o] = "destroy", pc'[o] = "none", rundir[o]
      PROVE  rid[o] \notin rundirs'
  <2>1. Types /\ ObjectInv(o) /\ Next
    BY <1>1 DEF Owned, vars, objVars
  <2>2. DestroyCleanup(o)
    <3>1. PICK q \in Objects :
              \/ New(q) \/ SetPath(q) \/ TorchSetPath(q) \/ SetPathFails(q)
              \/ \E p \in Parts(q) : SetFromMemory(q, p) \/ GetData(q, p)
              \/ Register(q) \/ TorchRegister(q) \/ RegisterNoId(q)
              \/ NewFromPath(q) \/ NewFromBuffer(q) \/ NewNoId(q)
              \/ CreateRundir(q) \/ CreateRundirFails(q)
              \/ CreateVariables(q) \/ CreateVariablesFails(q)
              \/ Persist(q) \/ PersistFails(q)
              \/ Undo(q) \/ UndoCleanup(q) \/ UndoAgain(q)
              \/ Destroy(q) \/ DestroyCleanup(q)
      BY <2>1 DEF Next
    <3>2. pc'[o] # pc[o]
      BY <1>1
    <3>3. CASE New(q) \/ SetPath(q) \/ TorchSetPath(q) \/ SetPathFails(q)
      BY <1>1, <2>1, <3>2, <3>3
         DEF New, SetPath, TorchSetPath, FindFiles, SetPathFails, Discard, Goto, Types
    <3>4. CASE \E p \in Parts(q) : SetFromMemory(q, p) \/ GetData(q, p)
      BY <3>2, <3>4 DEF SetFromMemory, GetData
    <3>5. CASE Register(q) \/ TorchRegister(q) \/ RegisterNoId(q)
      BY <1>1, <2>1, <3>2, <3>5
         DEF Register, TorchRegister, RegisterModel, RegisterNoId, ResourceNew, Goto, Types, objVars
    <3>6. CASE NewFromPath(q) \/ NewFromBuffer(q) \/ NewNoId(q)
      BY <1>1, <2>1, <3>2, <3>6
         DEF NewFromPath, NewFromBuffer, NewNoId, ResourceNew, Goto, Types, objVars
    <3>7. CASE CreateRundir(q) \/ CreateRundirFails(q) \/ CreateVariables(q) \/ CreateVariablesFails(q)
      BY <1>1, <2>1, <3>2, <3>7
         DEF CreateRundir, CreateRundirFails, CreateVariables, CreateVariablesFails, Goto, Types
    <3>8. CASE Persist(q) \/ PersistFails(q)
      BY <1>1, <2>1, <3>2, <3>8 DEF Persist, PersistFails, Goto, Types
    <3>9. CASE Undo(q) \/ UndoCleanup(q) \/ UndoAgain(q) \/ Destroy(q)
      <4>1. pc[q] # "destroy" /\ \E label : pc' = [pc EXCEPT ![q] = label]
        BY <3>9 DEF Undo, UndoCleanup, UndoAgain, Destroy, DestroyRelease, Discard, Goto
      <4> QED
        BY <1>1, <2>1, <3>2, <4>1 DEF Types
    <3>10. CASE DestroyCleanup(q)
      BY <2>1, <3>2, <3>10 DEF DestroyCleanup, Discard, Goto, Types
    <3> QED
      BY <3>1, <3>3, <3>4, <3>5, <3>6, <3>7, <3>8, <3>9, <3>10
  <2>3. rid[o] \in Ids /\ resource[o]
    BY <1>1, <2>1 DEF ObjectInv, Busy
  <2> QED
    BY <1>1, <2>2, <2>3, CleanupFacts DEF DestroyCleanup
<1>2. Owned /\ [Next]_vars =>
          [\A o \in Objects : pc[o] = "destroy" /\ pc'[o] = "none" /\ rundir[o] =>
               rid[o] \notin rundirs']_vars
  BY <1>1
<1> QED
  BY AlwaysOwned, <1>2, PTL DEF Spec, DestroyLeavesNothing

-----------------------------------------------------------------------------
(* The ids of the objects                                                  *)

(* Objects that have an id have different ones, and none that is free, as  *)
(* long as no get overlaps a release.                                      *)
IdsSound ==
    /\ FreeOnce(pool)
    /\ \A o \in HaveId : rid[o] \notin FreeIds(pool)
    /\ \A o, q \in HaveId : rid[o] = rid[q] => o = q

(* Where the ids go in a step of o, and what that is to the pool: a get, a *)
(* get that finds none, a release, or nothing.                             *)
Takes(o) ==
    /\ PoolTop(pool) # NoId /\ pool' = PoolGet(pool)
    /\ o \notin HaveId /\ HaveId' = HaveId \cup {o}
    /\ rid'[o] = PoolTop(pool)

TakesNone(o) ==
    /\ PoolTop(pool) = NoId /\ pool' = PoolGet(pool)
    /\ HaveId' = HaveId /\ rid' = rid

Releases(o) ==
    /\ pool' = PoolPut(pool, rid[o])
    /\ o \in HaveId /\ HaveId' = HaveId \ {o} /\ rid' = rid

KeepsIds(o) ==
    /\ pool' = pool /\ HaveId' = HaveId
    /\ o \in HaveId => rid'[o] = rid[o]

LEMMA IdsArePositive == NoId \notin Ids /\ 0 \notin Ids
BY DEF Ids, NoId

(* HaveId follows the program counter of the object.                       *)
LEMMA GotoHaveId ==
    ASSUME Types, NEW o \in Objects, NEW label, Goto(o, label)
    PROVE  /\ label \in {"rundir", "variables", "persist", "undo", "live"} =>
                 HaveId' = HaveId \cup {o}
           /\ label \notin {"rundir", "variables", "persist", "undo", "live"} =>
                 HaveId' = HaveId \ {o}
BY DEF Types, Goto, HaveId

LEMMA IdsMove ==
    ASSUME ~Overlap, Owned, NEW o \in Objects,
           \/ New(o) \/ SetPath(o) \/ TorchSetPath(o) \/ SetPathFails(o)
           \/ \E p \in Parts(o) : SetFromMemory(o, p) \/ GetData(o, p)
           \/ Register(o) \/ TorchRegister(o) \/ RegisterNoId(o)
           \/ NewFromPath(o) \/ NewFromBuffer(o) \/ NewNoId(o)
           \/ CreateRundir(o) \/ CreateRundirFails(o)
           \/ CreateVariables(o) \/ CreateVariablesFails(o)
           \/ Persist(o) \/ PersistFails(o)
           \/ Undo(o) \/ UndoCleanup(o) \/ UndoAgain(o)
           \/ Destroy(o) \/ DestroyCleanup(o)
    PROVE  /\ \A q \in Objects \ {o} : rid'[q] = rid[q]
           /\ Takes(o) \/ TakesNone(o) \/ Releases(o) \/ KeepsIds(o)
<1>1. Types
  BY DEF Owned
<1>2. CASE RegisterModel(o) \/ NewFromPath(o) \/ NewFromBuffer(o)
  <2>1. PICK ready \in BOOLEAN : ResourceNew(o, ready) /\ pc[o] \in {"none", "set"}
    BY <1>1, <1>2 DEF RegisterModel, NewFromPath, NewFromBuffer, Types
  <2>2. /\ PoolTop(pool) # NoId /\ pool' = PoolGet(pool)
        /\ rid' = [rid EXCEPT ![o] = PoolTop(pool)]
        /\ Goto(o, IF ready THEN "live" ELSE "rundir")
    <3>1. PICK id \in PoolAnswers(pool, Ids, Overlap) \ {NoId} : rid' = [rid EXCEPT ![o] = id]
      BY <2>1 DEF ResourceNew, NoResource
    <3>2. PoolTop(pool) # NoId /\ id = PoolTop(pool)
      BY <1>1, IdsArePositive, PoolAnswersFacts DEF Types
    <3> QED
      BY <2>1, <3>1, <3>2 DEF ResourceNew
  <2>3. o \notin HaveId /\ HaveId' = HaveId \cup {o}
    BY <1>1, <2>1, <2>2, GotoHaveId DEF HaveId
  <2> QED
    BY <1>1, <2>2, <2>3 DEF Takes, Types
<1>3. CASE RegisterNoId(o) \/ NewNoId(o)
  <2>1. /\ PoolTop(pool) = NoId /\ pool' = PoolGet(pool)
        /\ pc' = pc /\ rid' = rid
    BY <1>3 DEF RegisterNoId, NewNoId, NoResource, objVars
  <2> QED
    BY <2>1 DEF TakesNone, HaveId
<1>4. CASE Undo(o) \/ Destroy(o)
  <2>1. PICK label \in {"cleanup", "destroy"} :
           pc[o] \in {"undo", "live"} /\ DestroyRelease(o, label)
    BY <1>4 DEF Undo, Destroy
  <2>2. pool' = PoolPut(pool, rid[o]) /\ Goto(o, label) /\ rid' = rid
    BY <2>1 DEF DestroyRelease
  <2>3. o \in HaveId /\ HaveId' = HaveId \ {o}
    BY <1>1, <2>1, <2>2, GotoHaveId DEF HaveId
  <2> QED
    BY <2>2, <2>3 DEF Releases
<1>5. CASE UndoCleanup(o) \/ UndoAgain(o) \/ DestroyCleanup(o) \/ SetPathFails(o)
  <2>1. PICK label \in {"again", "none"} :
           /\ pc[o] \in {"cleanup", "again", "destroy", "set"} /\ Goto(o, label) /\ pool' = pool
           /\ rid' = rid \/ rid' = [rid EXCEPT ![o] = NoId]
    <3>1. CASE UndoAgain(o) \/ SetPathFails(o)
      BY <3>1 DEF UndoAgain, SetPathFails, Discard
    <3>2. CASE UndoCleanup(o) \/ DestroyCleanup(o)
      <4>1. pc[o] \in {"cleanup", "destroy"} /\ (Goto(o, "again") \/ Goto(o, "none"))
        BY <3>2 DEF UndoCleanup, DestroyCleanup, Discard
      <4>2. Cleanup(o) /\ rid[o] \in Ids
        BY <3>2, <4>1 DEF UndoCleanup, DestroyCleanup, Owned, ObjectInv, Busy
      <4> QED
        BY <4>1, <4>2, CleanupFacts
    <3> QED
      BY <1>5, <3>1, <3>2
  <2>2. o \notin HaveId /\ HaveId' = HaveId \ {o}
    BY <1>1, <2>1, GotoHaveId DEF HaveId
  <2> QED
    BY <1>1, <2>1, <2>2 DEF KeepsIds, Types
<1>6. CASE New(o)
  <2>1. pc[o] = "none" /\ Goto(o, "set") /\ pool' = pool /\ rid' = rid
    BY <1>6 DEF New, resVars
  <2>2. o \notin HaveId /\ HaveId' = HaveId \ {o}
    BY <1>1, <2>1, GotoHaveId DEF HaveId
  <2> QED
    BY <2>1, <2>2 DEF KeepsIds
<1>7. CASE FindFiles(o) \/ \E p \in Parts(o) : SetFromMemory(o, p) \/ GetData(o, p)
  <2>1. pc' = pc /\ pool' = pool /\ rid' = rid
    BY <1>7 DEF FindFiles, SetFromMemory, GetData, resVars
  <2> QED
    BY <2>1 DEF KeepsIds, HaveId
<1>8. CASE \/ CreateRundir(o) \/ CreateRundirFails(o)
           \/ CreateVariables(o) \/ CreateVariablesFails(o)
           \/ Persist(o) \/ PersistFails(o)
  <2>1. PICK label \in {"variables", "persist", "undo", "live"} :
           /\ pc[o] \in {"rundir", "variables", "persist"} /\ Goto(o, label)
           /\ pool' = pool /\ rid' = rid
    BY <1>8 DEF CreateRundir, CreateRundirFails, CreateVariables, CreateVariablesFails,
                Persist, PersistFails, resVars
  <2>2. o \in HaveId /\ HaveId' = HaveId \cup {o}
    BY <1>1, <2>1, GotoHaveId DEF HaveId
  <2> QED
    BY <2>1, <2>2 DEF KeepsIds
<1> QED
  BY <1>2, <1>3, <1>4, <1>5, <1>6, <1>7, <1>8
     DEF SetPath, TorchSetPath, Register, TorchRegister

(* Such a move keeps the ids apart, ...                                    *)
LEMMA MoveKeepsIds ==
    ASSUME Owned, IdsSound, NEW o \in Objects,
           \A q \in Objects \ {o} : rid'[q] = rid[q],
           Takes(o) \/ TakesNone(o) \/ Releases(o) \/ KeepsIds(o)
    PROVE  IdsSound'
<1>1. pool \in Pools(Ids) /\ HaveId \subseteq Objects /\ \A q \in HaveId : rid[q] \in Ids
  BY DEF Owned, Types, ObjectInv, HaveId, Busy
<1>2. CASE Takes(o)
  <2>1. /\ PoolTop(pool) \in FreeIds(pool) /\ PoolTop(pool) \notin FreeIds(pool')
        /\ FreeOnce(pool') /\ FreeIds(pool') \subseteq FreeIds(pool)
    BY <1>1, <1>2, PoolGetFacts DEF Takes, IdsSound
  <2>2. \A q \in HaveId : q # o /\ rid'[q] = rid[q] /\ rid[q] # PoolTop(pool)
    BY <1>1, <1>2, <2>1 DEF Takes, IdsSound
  <2> QED
    BY <1>2, <2>1, <2>2 DEF Takes, IdsSound
<1>3. CASE TakesNone(o)
  <2>1. pool'.free = pool.free
    BY <1>1, <1>3, PoolGetNothing, IdsArePositive DEF TakesNone
  <2>2. FreeIds(pool') = FreeIds(pool) /\ FreeOnce(pool')
    BY <2>1 DEF FreeIds, FreeOnce, IdsSound
  <2> QED
    BY <1>3, <2>2 DEF TakesNone, IdsSound
<1>4. CASE Releases(o)
  <2>1. rid[o] \in Ids \ FreeIds(pool)
    BY <1>1, <1>4 DEF Releases, IdsSound
  <2>2. FreeOnce(pool') /\ FreeIds(pool') \subseteq FreeIds(pool) \cup {rid[o]}
    BY <1>1, <1>4, <2>1, PoolPutFacts DEF Releases, IdsSound
  <2> QED
    BY <1>4, <2>2 DEF Releases, IdsSound
<1>5. CASE KeepsIds(o)
  <2>1. \A q \in HaveId : rid'[q] = rid[q]
    BY <1>1, <1>5 DEF KeepsIds
  <2> QED
    BY <1>5, <2>1 DEF KeepsIds, IdsSound
<1> QED
  BY <1>2, <1>3, <1>4, <1>5

(* ... and is a step of the pool.                                          *)
LEMMA MoveIsPoolStep ==
    ASSUME IdsSound, NEW o \in Objects,
           \A q \in Objects \ {o} : rid'[q] = rid[q],
           Takes(o) \/ TakesNone(o) \/ Releases(o) \/ KeepsIds(o)
    PROVE  [Pool!Next]_(Pool!vars)
<1> DEFINE Out == {rid[q] : q \in HaveId}
<1>1. HaveId \subseteq Objects
  BY DEF HaveId
<1>2. CASE Takes(o)
  <2>1. \A q \in HaveId : rid'[q] = rid[q]
    BY <1>1, <1>2 DEF Takes
  <2>2. Out' = Out \cup {PoolTop(pool)}
    BY <1>2, <2>1 DEF Takes
  <2> QED
    BY <1>2, <2>2 DEF Takes, Pool!Next, Pool!Get, Pool!PoolTop, Pool!PoolGet, Pool!NoId,
                      PoolTop, PoolGet, NoId
<1>3. CASE TakesNone(o)
  <2>1. Out' = Out
    BY <1>3 DEF TakesNone
  <2> QED
    BY <1>3, <2>1 DEF TakesNone, Pool!Next, Pool!GetNone, Pool!PoolTop, Pool!PoolGet, Pool!NoId,
                      PoolTop, PoolGet, NoId
<1>4. CASE Releases(o)
  <2>1. \A q \in HaveId : rid[q] = rid[o] => q = o
    BY <1>4 DEF Releases, IdsSound
  <2>2. PICK i : i = rid[o]
    OBVIOUS
  <2>3. i \in Out /\ Out' = Out \ {i}
    BY <1>4, <2>1, <2>2 DEF Releases
  <2>4. Pool!Release(i)
    BY <1>4, <2>2, <2>3 DEF Releases, Pool!Release, Pool!PoolPut, PoolPut
  <2> QED
    BY <2>3, <2>4 DEF Pool!Next
<1>5. CASE KeepsIds(o)
  <2>1. \A q \in HaveId : rid'[q] = rid[q]
    BY <1>1, <1>5 DEF KeepsIds
  <2>2. Out' = Out
    BY <1>5, <2>1 DEF KeepsIds
  <2> QED
    BY <1>5, <2>2 DEF KeepsIds, Pool!vars
<1> QED
  BY <1>2, <1>3, <1>4, <1>5

LEMMA IdsInit ==
    ASSUME Init
    PROVE  IdsSound /\ Pool!Init
<1>1. HaveId = {}
  BY DEF Init, HaveId
<1>2. FreeOnce(pool)
  BY NewPoolFacts, MaxResourcesAssumption DEF Init
<1> QED
  BY <1>1, <1>2 DEF Init, IdsSound, Pool!Init, NewPool, Pool!NewPool

LEMMA IdsStep ==
    ASSUME ~Overlap, Owned, IdsSound, [Next]_vars
    PROVE  IdsSound' /\ [Pool!Next]_(Pool!vars)
<1>1. CASE Next
  BY <1>1, IdsMove, MoveKeepsIds, MoveIsPoolStep DEF Next
<1>2. CASE UNCHANGED vars
  <2>1. UNCHANGED <<pc, rid, pool>>
    BY <1>2 DEF vars, objVars, resVars
  <2> QED
    BY <2>1 DEF IdsSound, HaveId, Pool!vars
<1> QED
  BY <1>1, <1>2

(* The constructors, registers and destructors of resources with files use *)
(* the pool as id_pool.h has it: no path through them, failed or not,      *)
(* releases an id that the object does not have.  IdPool is shown to serve *)
(* such users, when none of their gets overlaps a release.                 *)
THEOREM ModelsUseThePool == Spec => UsesPool
<1>1. SUFFICES ASSUME ~Overlap PROVE Spec => Pool!Spec
  BY DEF UsesPool
<1>2. ASSUME Owned, IdsSound, [Next]_vars PROVE IdsSound' /\ [Pool!Next]_(Pool!vars)
  BY <1>1, <1>2, IdsStep
<1>3. Spec => []IdsSound
  BY <1>2, AlwaysOwned, IdsInit, PTL DEF Spec
<1> QED
  BY <1>2, <1>3, AlwaysOwned, IdsInit, PTL DEF Spec, Pool!Spec
=============================================================================
