# vAccel runtime: TLA+ models and proofs

vAccel is a C library that dispatches accelerated operations to plugins.
Applications open sessions, create resources (models, shared objects), register
them to sessions, and call operations, which the library looks up among the
plugins that were loaded. This directory models the parts of it that keep state
and are used from several threads, the two plugins and the example programs that
come with it, checks them with TLC on small instances, and proves every invariant of these modules
but those of the example programs, every action property and every refinement with TLAPS.

Paths below are relative to `src/src/` unless they start otherwise.

## The system

| Component | State | Operations | Used by |
|---|---|---|---|
| Id pool (`id_pool.c`) | array of ids, atomic stack pointer `next` | new, get, release, destroy | sessions, resources |
| Linked lists (`list.h`) | `next`/`prev` of heads and entries | link, unlink, add, remove, (safe) loops | plugins, resources, sessions |
| Plugins (`plugin.c`) | list of plugins, `virtio`, list of implementations per operation | register, unregister, register functions, `get_plugin_op`, shutdown | every operation, sessions, resources |
| Library start and end (`vaccel.c`) | rundir, handles of backends | `vaccel_init` (loads `VACCEL_BACKENDS`), `vaccel_fini` | - |
| Sessions (`session.c`) | id pool, table `running_sessions`, a directory and lists of registered resources per session | init, update, free, register, unregister | applications |
| Resources (`resources.c`) | id pool, `live_resources`, a reference count and a rundir per resource | new, get by id, destroy, refcounts, create rundir | sessions, models |
| Files (`resources/file.c`, `utils.c`) | path (owned or not), mapping, size | new, from buffer, persist, read, destroy | models |
| Models and shared objects (`resources/*.c`) | files, resource, path | new, set, register, destroy | applications |
| Profiling (`profiling/vaccel_prof.c`) | growing array of samples per region | init, start, stop, clear, print | TensorFlow, Torch, plugins |
| Operations (`ops/*.c`) | static regions | one function each | applications |
| Tensors, buffers, nodes (`ops/tf.c`, `ops/torch.c`) | a pointer to memory, and for tensors whether it is theirs | new, allocate, set, take, destroy | applications, plugins |
| Generic operation (`ops/genop.c`) | none | `vaccel_genop`, an unpack function per operation | applications |
| Bundled plugins (`src/plugins`) | none | noop: an answer and dummy results for every operation; exec: calls a function of a library | operations |
| Examples (`src/examples`) | their variables | 28 programs, each a sequence of calls with ways out | - |
| Left out: logging (`log.c`, `misc.c`), Python helper, tests, third-party code | - | - | - |

They interact by plain calls. Threads share the pools, the table, the lists and
the directories under the rundir, and there is no lock anywhere: the only atomic
variables are `next` of a pool and `refcount` of a resource. With the virtio
plugin loaded, sessions and resources are first created, registered and
destroyed by a host, whose answers may be errors.

What makes it hard:

* *interleaving*: the two steps of `id_pool_release`; the id of a session that is
  handed on before its directory and its slot are cleaned up; the container that
  is linked before it is counted;
* *limits*: the pool that is exhausted;
* *failure*: mkdir and rmdir, the host, the init of a backend;
* *order*: what `vaccel_sess_free`, `resource_destroy` and `vaccel_fini` do first;
* *stale pointers*: destroyed resources, unloaded plugins, freed sessions, files that
  were destroyed once already;
* *clean-up*: a registration that fails halfway has files, two directories and an id to
  give back, in the destructor of an object that is not complete; the ways out of the
  examples, which free, close and destroy what was made before a call failed;
* *ownership*: memory that goes from application to tensor and back, or comes from a plugin.

What makes each component correct: a pool answers no id twice and loses none; an open
session has its directory and its slot; a registered resource is not destroyed and is
counted exactly; a lookup answers code that is loaded, and the same one as long as it is
there; the two directions of a list agree; a file is freed, unmapped and removed once, by
the object that owns it; a profiling region counts samples that were taken; a block of
memory has one party that frees it; a program uses what it has made, undoes all of it, and
reports what failed.

## Modules

| Module | Models | Notes |
|---|---|---|
| `IdPool` | `id_pool.c`, one action per access to shared memory | implements `IdAllocator` and `AtomicIdPool` |
| `IdAllocator` | what `id_pool.h` promises | an id is free, granted, held or returned |
| `IdStack` | the pool as a value | get and release as operators, for the users of a pool |
| `AtomicIdPool` | the pool with atomic gets and releases, the callers of which release what they hold | `IdPool` implements it; `Sessions`, `Models` and `Resources` are users of it |
| `Sessions` | `vaccel_sess_init`, `vaccel_sess_free` with local ids | uses `IdStack` |
| `Resources` | `resources.c`, registration in `session.c`, `vaccel_fini`, with and without a host | uses `IdStack` |
| `Plugins` | `plugin.c`, loading in `vaccel.c` | |
| `Profiling` | a region of `vaccel_prof.c` as a value | |
| `Genop` | `genop.c` and the unpack functions of `ops/` | pure operators |
| `Operations` | `ops/*.c`: lookup, call, profiling | composes `Plugins`, `Profiling`, `Genop` |
| `Files` | `file.c` and `read_file`: a `vaccel_file` as a value | |
| `Models` | `tf_saved_model.c`, `torch_saved_model.c`, `tf_model.c`, `shared_object.c` | composes `IdStack`, `Files`, the disk |
| `LinkedList` | `list.h` with the safe loop | `ListContents` is what it implements |
| `Tensors` | tensors, buffers and nodes of `ops/tf.c` and `ops/torch.c`, and what the noop plugin allocates | blocks of memory and who frees them |
| `BundledPlugins` | what the functions of the noop and exec plugins answer to which call | pure operators |
| `Examples` | the programs of `src/examples` as sequences of calls | data, for `Clients` |
| `Clients` | a process that runs one of these programs | composes `Examples`, `Genop`, `BundledPlugins` |
| `MC...` | small instances for TLC | |
| `IdPoolProofs`, `IdStackProofs`, `SessionsProofs`, `ResourcesProofs`, `LinkedListProofs`, `TensorsProofs`, `ModelsProofs`, `OperationsProofs` | theorems and lemmas | `OperationsProofs` has those of `Plugins` and `Profiling` |

**IdPool.** `next` and `ids` are the two fields of the pool. A thread is in
`id_pool_get` after the `fetch_add` (`GetClaim`, or `GetNone` when the pool is
exhausted): at the test of the slot (`GetTest`), at its initialisation
(`GetInit`), at the final load (`GetLoad`). In `id_pool_release` it is after the
first load of `next` (`ReleaseLoad`): the compare-and-exchange succeeds
(`ReleaseCasOk`) or fails and loads `next` again (`ReleaseCasFail`); then the slot
is stored (`ReleaseStore`), possibly outside the array. `held` counts the callers that
hold an id: they may only release what they hold. The constant `Overlap` says
whether a get may run while a release is in progress. The code allows it; with
`Overlap = TRUE` ids are duplicated (run `IdPoolDuplicate`), so what depends on unique ids is stated
for the phased use, where gets run against gets and releases against releases. What survives an
overlap is `CounterSound`: `next` is the number of ids that are out plus that of the gets that failed, so it
never leads below the array.

**AtomicIdPool.** Where a get or a release of `IdPool` takes effect: a get at its `fetch_add`, when the slot below
the new `next` is decided though it is read later; a release at its exchange, when its id is the top of the
stack though it is stored later. `Stack` and `IdsOut` are the refinement mapping. On the other side, `UsesPool` in
`Sessions`, `Models` and `Resources` says that their pool moves only by steps of this module
(in `Resources` without a host, whose ids are not the pool's, and until `vaccel_fini` destroys it), as long as no get overlaps
a release.

**IdStack.** A get and a release of the pool as one step each. `IdPool` justifies that for the phased use. The users of the
pool do not enforce it: a `vaccel_sess_init` may run into a `vaccel_sess_free` of another thread. `Sessions`, `Resources`
and `Models` have the constant `Overlap` of `IdPool` therefore. Where it is `TRUE`, a get that finds the pool not exhausted answers any of its ids
(`PoolAnswers`): the count of ids is right even so (`CounterSound`), but which id is in a slot is not known. That ids are different
(`SessionIdsDiffer`, `PoolSound`, `LookupExact`, `UsesPool`) and that sessions keep opening is claimed without overlap only.
The other properties hold with it, two sessions or resources with one id included: the second mkdir fails,
so `OpenSessionHasRundir`, `RundirKept` and those of `Models` do not depend on the pool.

**Sessions.** `pc` is where the thread of a session is between the accesses to
what sessions share: the pool, the directories, the table. `InitUndo` is the label
`cleanup_session`. mkdir fails when the directory exists (`InitMkdirExists`) or for a
reason of its own (`InitMkdirFails`, bounded). `FreePutId`, `FreeRmdir`, `FreeClear` keep
the order of the code, which gives the id back first. `vaccel_sess_update` only stores
a hint and is left out.

**Resources.** A register is cut between the list and the count (`RegisterLink`,
`RegisterCount`), an unregister likewise, a destroy between the test of the count, the
release of the id and the unlinking (`DestroyCheck`, `DestroyRelease`,
`DestroyUnlink`). `DestroyRefused` is the branch in which `resource_destroy` answers
`VACCEL_EBUSY` and its callers free the structure all the same: the resource is
`"freed"` but still listed. `resource_new` puts every resource on list number 0
(`resources.c:105`), though `resources.c:36` says that each list has the resources of
one type; so `live` is one set. `virtio` is chosen at the start. A host request can
fail `MaxHostFailures` times. `Racing` has the resources that an application may register
while it destroys them; nothing in the library stops it.

**Plugins.** A backend's memory is there while its library is open (`mapped`); built-in
plugins are always there. `Load` is a successful `load_backend_plugin`, whose
init registers the functions; `LoadInitFails` one whose init fails after any number of them: its library
is closed and it stays registered, so `DispatchInMemory` and `FiniMatchesInit` count what goes wrong
against the inits that failed. `set` has the backends whose init has succeeded. A plugin that the application registers itself
(`RegisterBuiltIn`) is never in it: `register_plugin` calls no init, though `unregister_plugin` calls fini (`plugin.c:141`), so
`FiniMatchesInit` speaks of the backends.
`Unregister` and `Shutdown` share `UnregisterAll`, which takes ops out of the lists and keeps the others in
their order (`Filter`). `get_plugin_op` is an operator: the first implementation
whose plugin type matches the hint, else the first one.

**Operations.** A thread calls an operation (`ProfiledOp`, `StopOnlyOp`, `PlainOp`, or any of
them by way of `vaccel_genop`: `Genop`), looks up the implementation (`Lookup`), is in it until
`Return`, and reaches the end, where the region is stopped (`Stop`; `Unsupported` goes there
directly). `AppInit`, `AppStart`, `AppStop`, `AppClear` and `AppDestroy` are an application's use of the
region functions. A sample is `"new"` in memory nobody has written, then `"started"`, then
`"timed"`; starting may fail when the array has to grow, which the operations ignore.
`vaccel_prof_region_start` is two steps: the read of `nr_entries` with the test that there is room (`StartRegion`), and
the counting, which may read `nr_entries` again (`TakeSample`).
`vaccel_tf_session_delete` stops a region it never starts. `Overlapping` has the regions in which several
threads may be at once, `overlapped` those in which they have been. Meanwhile any step of `Plugins`
may happen (`PluginStep`), with the assumption that no plugin is removed while it runs an
operation; nothing in the library enforces that.

**Genop.** Which operation an unpack function calls for how many arguments. An
`EXEC_WITH_RESOURCE` becomes a `vaccel_exec`, and `vaccel_noop_unpack`, the entry of every operation
that has no function of its own, refuses always. An `EXEC_WITH_RESOURCE` whose resource is not found or has no
object is refused.

**Files.** `path` is nothing, a copy of the application's path, the path of a file the library
has created, or freed memory; `data` is nothing, the application's buffer, a mapping, a mapping
that is gone, or `MAP_FAILED`. `vaccel_file_persist` maps the file before the stream is closed,
so only whole blocks of it (`Flushed`).

**Models.** A call is cut where others can see its steps: `ResourceNew` (an id), `CreateRundir`,
`CreateVariables`, `Persist` for each file; on failure `Undo` (the id goes back),
`UndoCleanup` (the destructor and `cleanup_rundir`), and `UndoAgain` (the second destroy of the
constructors from a buffer). `Destroy` and `DestroyCleanup` are the normal end. `resource` says
whether `model->resource` is set, on which the destructor of saved models depends. Files
that no name matches in an export directory are left alone (`FindFiles`), as in the code.
After a call has failed and changed the structure, the application throws it away: the
files in it may have been destroyed, and their paths are not reset.

**Tensors.** A holder (tensor, buffer or node) exists or not, points to a block or to nothing,
and owns it or not. `app` has the blocks the application has to free: it gives them up when it
makes a buffer or a node of them, or sets them as the data of a tensor whose flag `owned` is set,
and gets one when it takes the data of a buffer. `vaccel_tf_tensor_set_data` leaves the flag as it
is, so a tensor that owned other data frees what it was lent: `Informed` says whether the
application knows. `Run`, `RunWithStatus` and `Status` are answers of the noop plugin: it allocates
outputs and never writes their flag `owned`, which is then either; the message of a status is replaced
without being freed. `fromPlugin` records the blocks it allocated.

**BundledPlugins.** For each operation the set of answers of the plugin's function to a call, and
`Fits`: the arrays are as long as the function takes them to be. `noop_ops` and `exec_ops` are the
tables that the plugins register.

**Examples.** A program is a sequence of steps; a step has the call, the variable it is about, what
must be true of it (`needs`), what becomes of it (`then`, `else`, and `silent` for a call that answers success and has not had it, as
`vaccel_tf_saved_model_set_path` does when no file name matches), where the program goes when the call
fails (a label, an exit, or on) and which results are assigned to `ret`. Programs that
share their code, as the ten for images do, share an operator (`ImageProgram`).

**Clients.** `Do` makes the next call; each may answer what the library can answer there. A step
whose precondition does not hold is undefined behaviour: it is recorded in `misuse`, and the process
ends (`Crash`) or goes on. `Fini` is `vaccel_fini` at exit: it removes the rundir only when no session's
directory is left in it.

**LinkedList.** `next` and `prev` of all nodes; one safe loop at a time
(`LoopStart`, `LoopVisit`, `LoopNext`, `LoopEnd`), whose body may unlink the entry it
is at, while other code adds entries that are on no list. `LinksAgree` says that all pointers
are nodes and that the two directions of every list agree. `Walk(h)` is the sequence whose elements
`next` visits from `h` (`Chain`), which is what `ListContents` calls the contents of the list.

## Runs

Between them the passing runs take every action of the modules. Where a module's `TypeOK` is
worth a check, one of the invariants has it as its first part (`SessionIdsDiffer`, `PoolSound`,
`NoStaleFiles`, `SamplesInBounds`, `LinksAgree`, `PhasedInv`, `OwnershipInv`). `CHECK_DEADLOCK FALSE` is set where
the system may really stop (the library has ended, all ids are lost, or only bounded
failures are left).

| Run | Instance | Shows |
|---|---|---|
| `IdPool` | 3 threads, 2 ids, 1 failed get, no overlap | unique ids (`UniqueIds`), no two accesses to a slot (`SlotsNotShared`), ids are where they can be (`PhasedInv`); before a get has failed, no id is lost (`NoIdLost`); `next` counts what is out, and accesses stay in the array (`CounterSound`); releases end (`ReleasedComesBack`); requests and releases take effect atomically (`Implements`), as on a stack (`IsAtomic`) |
| `Sessions` | 3 sessions, 2 ids, one failure of each kind, no overlap in the pool | ids are given back once on each path (`SessionIdsDiffer`, `IdsConserved`); an open session has its directory though paths are handed on before rmdir; the table has no freed session; sessions keep being opened |
| `Resources` | 2 sessions, 3 resources, 2 ids, up to 2 registrations of a pair, one refusal of the host, one exhausted get, no overlap in the pool, no resource registered while it is destroyed (`Racing`); with and without virtio | nothing registered is destroyed; the count is exact at every step; ids are not offered while in use; lookups find what was made; rundirs are not shared; the host knows what the library believes |
| `Operations` | 2 threads, 4 types of operations, 2 backends (one virtio), 1 built-in plugin, 6 ops, one failed init, 2 samples per region, overlaps in the region of the application | op lists agree (`OpListsAgree`); lookups answer loaded code, but for that of backends that failed (`DispatchInMemory`), and are stable (`LookupStable`); only backends that were set up are finalised, with the same exception, and the shutdown leaves nothing (`FiniMatchesInit`); where operations have not overlapped, samples are timed (`SamplesTimed`) and in the array (`SamplesInBounds`), whatever overlaps elsewhere, and whether an operation found an implementation, or memory, or not |
| `Models` | one TensorFlow model, one Torch model, one shared object, 2 ids, one failing call, no overlap in the pool | nothing is freed or unmapped twice (`NoStaleFiles`); a created object's files are on disk in a directory of its own (`FilesOnDisk`); every file has an owner that removes it (`FilesOwned`); destruction removes the directory (`DestroyLeavesNothing`) |
| `LinkedList` | 2 lists, 3 entries | both directions agree (`LinksAgree`); the loop sees each entry once (`LoopSeesAll`) and ends (`LoopEnds`); pointers implement sequences (`Implements`) |
| `Tensors` | 3 tensors, 1 buffer, 1 node, 5 blocks, an informed application | a block has one owner at most, and no pointer dangles (`OwnershipInv`); only what the plugin allocated is ever lost (`NothingLost`); no call frees what the application has lent (`LentKept`) |
| `Examples` | all 28 programs, each with the noop plugin, the exec plugin or none, any call may fail, some of them without saying so | calls are legal (`CallsLegal`), nothing is left when a program comes to its last return (`NothingLeft`), failures are reported (`FailureReported`), all with their exceptions named; the noop plugin serves every operation that the programs ask for (`ServedByNoop`) |

Disagreements between the code and what it says of itself, each shown by a run that TLC
finds violated:

| Run | Statement | What happens |
|---|---|---|
| `IdPoolDuplicate` | `id_pool.h:45` "Get a new id from the pool" | a get between the exchange and the store of a release answers an id that is held |
| `IdPoolExhausted` | `id_pool.h:48` "Release an id back to the pool" | after a failed get, a released id is stored beyond the array and is lost |
| `ResourceFreedInUse` | `resources.c:138` "We do not destroy currently-used resources" | the callers of `resource_destroy` free the structure when it refuses |
| `RundirNotEmpty` | `utils.c:41` "assume that the rundir is empty" | when a TensorFlow model's registration fails, `variables` stays, hence the rundir, and its id cannot be used again |

Seen while modelling, and without a run of its own: a free clears the slot of `running_sessions`
that belongs to a session which took over its id meanwhile (`session.c:309`, `313`); a backend whose
init fails is closed and stays on the list of plugins (`vaccel.c:60`, `71`); the callers of
`set_data` (`ops/tf.c:218`) must know that a tensor which once owned data takes over what it is lent;
`noop_tf_session_run` leaves the flag `owned` of its outputs unset (`src/plugins/noop/vaccel.c:273`);
an address is passed as a length (`ops/fpga.c:83`). In the examples: ten programs free an image they
could not read (`src/examples/classify.c:111` and its siblings), `torch_inference` closes a session it has
not opened, `exec_with_res` loses a failure on its way out (line 208), `sgemm_generic` keeps a matrix when there is
no memory for the next (lines 122 to 125), `pynq_vector_add_generic` passes five elements for six,
`pynq_parallel_generic` prints sixteen of four, `tf_saved_model` takes the `MAP_FAILED` of a failing mmap for a pointer to the file
(line 44), and `tf_inference` and `torch_inference` have a model on the stack that `set_path` need not fill: `file_from_regex`
answers `VACCEL_OK` when no name matches (`resources/tf_saved_model.c:74` to `92`), and they register and destroy whatever was there. A session directory that could not
be removed blocks its id for ever (`session.c:203`, `173`); a resource registered twice is counted
twice, though `resources.h:46` speaks of the number of sessions; `resource_get_by_id` answers
`VACCEL_OK` for an unknown id if the caller's pointer was not NULL (`resources.c:126`); the host's
session is freed before its registrations are taken back, so each of them logs "BUG"
(`session.c:304`, `135`); `vaccel_fini` releases the host's ids into the local pool
(`resources.c:152` after `plugin.c:284`); `unregister_plugin` leaves `plugin_state.virtio`, and calls the fini of plugins whose init nobody has called (`plugin.c:141`); a file shorter than a stdio block is mapped as `MAP_FAILED`
(`resources/file.c:139`), which explains the munmap that "fails at times" (`file.c:211`); two threads
in one profiling region leave a sample without its time, and count more samples than the array has room for when both find one
place left (`profiling/vaccel_prof.c:91` to `97`), so `SamplesTimed` and `SamplesInBounds` fail for the regions in
`overlapped`; `vaccel_genop` can never reach `vaccel_noop` (`ops/noop.c:44`).

**Bounds.** Two ids are the least with which an id can be mistaken for another; three
threads make a get meet two others, or a release meet two others. With more sessions
(resources) than ids, the exhausted pool is reached, and with one failure of each kind
each error path is taken from every state. Files are longer than a block of stdio, so that
what is mapped is shorter than the file. The array of samples starts with room for one
(`MinSamples`; 1024 in the code) and grows. Up to four arguments per list (`MaxArgs`) reach the
types of the instance. Three tensors are an input, an output and one that is lent the same
memory; five blocks are one more than the other holders and the message need at once. `Examples` has
no bound but one: a loop of calls counts as any number of them, for the model stays at the step or
leaves it. `RundirNotEmpty` needs one model only. Counters that only grow (`failed`,
`failures`, `refused`, `mkdirFailed`, `rmdirFailed`, `hostFailed`, `over`, registrations of a pair) are
capped in the guards by the constants `Max...`. Symmetry is used in the runs `Resources`,
`Operations` and `Tensors`, which have no liveness property and whose initial states and
properties do not tell the permuted values apart.

**Fairness.** A thread that is inside a call of the pool is scheduled again
(`Continue` in `IdPool`): nothing in the code blocks. Nobody has to start a call. In
`Sessions` the threads moreover keep asking for sessions and free them: this is the
application's part in `SessionsKeepOpening`. A loop over a list goes on (`LinkedList`).

## Proofs

`IdPoolProofs` proves first what holds whatever overlaps, from `CountInv`: `TypeOK` and `CounterSound`, which is `NextCounts` and `InBounds`. `NextCounts` is
a conservation law: `next` is the number of gets between claim and answer, of ids callers hold, of releases
before their exchange and of failed gets. The exchange succeeds only if `next` is what the release has read (`curr`), which is above 0
because the releasing thread itself is counted (`CountsPositive`): this is what keeps the stack pointer in the array.

The rest is for the phased use, and is proved under `Phased`: no get overlaps a release, or there is one
thread. `PhasedInv` is an invariant, and from it follow `UniqueIds` and
`SlotsNotShared`. `UniqueIds` is not inductive: an id that is handed out must not be in
another slot as well, nor on its way back. `PhasedInv` says where ids can be. A get owns
its slot below `next` (`GetsOwnSlots`); a release owns the slot it has uncovered
(`ReleasesOwnSlots`); available slots stand for different ids, which nobody has
(`AvailableIdsDiffer`); a release has an id nobody else has (`ReleasedIdsDiffer`). There is one
lemma per action. The step that needs an argument is `ReleaseCasOk`: that `next` is
above 0 is a counting argument over the slots and the ids that are out
(`ReleaseFindsRoom`, by the pigeonhole theorem for finite sets). `NoIdLost` needs one fact
more, which holds until a get finds the pool exhausted: `next` is not above the top of the array
(`NextOnStack`, which `NextCounts` gives), so a release uncovers a slot and its store is not lost. `NoIdLost` then follows an
id from place to place, one step per action.

`PoolIsAllocator` is the first refinement: every step of the pool is a step of `IdAllocator` or
changes nothing there. `StatusExact` says for each value of `StatusOf` what it means in the pool, which follows from
`PhasedInv`. Then there is one lemma for each action: `GetClaim` grants an id (`ClaimGrants`), `GetLoad` delivers it
(`LoadDelivers`), a release gives it back when it is called (`CallGivesBack`) and makes it free with its store
(`StoreReclaims`), a failed get finds nothing free (`NoneRefuses`), and the tests and exchanges between stutter.

`PoolIsStack` is the second: the pool implements `AtomicIdPool`. `Content(s)` is what slot `s` holds for a later get, which may be an id
that a release has yet to store there (`ContentIs` replaces the `CHOOSE` in it), and the stack is the sequence of these from
`next` on. `GetClaim` takes its head (`ClaimPops`), an exchange puts an id before it (`CasPushes`), a failed get or an exchange beyond the
end moves `over`, and everything else stutters.

The theorems `SessionsUseThePool`, `ModelsUseThePool` and `ResourcesUseThePool` are the other half: to the pool, each user is a caller
that `AtomicIdPool` allows, and above all releases only an id it has, on every way out. The two halves
justify `IdStack` in the modules of the users, for threads that do not run a get into a release: the pool serves
such callers atomically, and they are such callers. Where a get runs into a release, the run `IdPoolDuplicate` shows what happens, and the theorems of the users that
speak of different ids have `~Overlap` as a hypothesis in the property itself.
`UsesPool` is proved only: the runs have the invariants of the same steps (`SessionIdsDiffer`, `PoolSound`, `FilesOnDisk`).

`IdStackProofs` has what gets and releases do to a pool, once for its users: which ids are free
afterwards, that none is in it twice, and how its length changes.

`SessionsProofs` proves the four invariants of `Sessions` for any number of threads, ids
and failures. `SessionIdsDiffer` is inductive once it also says that the pool has each id once and
none that a session has (a session has an id from `InitGetId` until `FreePutId`).
`OpenSessionHasRundir` says of every session between its mkdir and its rmdir that it has a
directory to itself, with `Overlap` too; the ids of two sessions may be equal for a while, when one is closing, or because of an overlap, and
then mkdir fails for the other. `IdsConserved` counts: the length of the pool, the number of
sessions with an id and the ids lost with refused sessions add up to the number of ids. An id is lost when it comes back while the pool is
beyond its end (`over`), which each refused session moves by one.

`ResourcesProofs` proves all six invariants of the run. `PoolSound` and the host's resources are
proved together (`IdsStep`): which resources have their id changes only by `ResourceNew` and
`DestroyRelease`, with the lemmas of `IdStackProofs`; with a host, a new id is one the host does not have,
and it has all that the library has. `LookupExact` follows from there and from `Listed` (the list has the
resources that exist). `RundirKept` is inductive by itself: mkdir is the test. `RefcountExact` and `NotDestroyedInUse`
are proved for each resource outside `Racing`, whatever is done to those in it, together with `Untouched`: what does not exist or is being destroyed has the count
0, is on no list and in nobody's hand. The argument is in `ZeroMeansUnreferenced`: at the test of `resource_destroy` a
count of 0 with no register underway means that the containers and the calls between list and count are both none, for the
count is the sum of their numbers. Five lemmas (`RegisterLinkSets` and its neighbours) say what each call does to
the sets that are counted.

`LinkedListProofs` proves that `LinksAgree` holds for any number of lists and entries, and from it
that no operation and no loop follows a pointer that is not a node. The two lemmas about
linking and unlinking carry that argument; the loop follows pointers that are nodes and unlinks
what it is at. Then it proves that the pointers are sequences. `Holds(c)` says that they implement the
sequences `c`: `next` goes along each (`Chain`), no entry is in two places, and what does not point to itself is in one.
There can be only one such `c` (`ChainsAgree`, `WalkIsRight`): at the least place where two chains from one head differ,
`next` of the place before would have two values. `Least`, the least element of a set of numbers, from the well-foundedness of
`<`, stands for induction. Linking a new entry after position `p` inserts it there (`LinkHolds`) and unlinking cuts
it out (`UnlinkHolds`), so each step of the pointers moves the sequences as `ListContents` allows (`StepMoves`):
this is `PointersAreLists`. `LoopSeesAll` needs to know where a loop is: `LoopAt(s, p)` says that
it stands at position `p` of its list, has seen nothing from there on and has or will see all that was there at the start,
and that `tmp` is the next position, or the head when what follows was added later. One lemma for each operation moves `p`.

`TensorsProofs` proves `OwnershipInv`, `NothingLost` and `LentKept` for informed applications. `OneOwner` alone is not
inductive: it needs that no pointer dangles (`PointersLive`: else a block that is allocated anew has an old owner) and that what a tensor
was lent belongs to no other holder (`LentIsNotOwned`).

`ModelsProofs` proves the four properties of the run from one inductive invariant, `Owned`. It says for each
object and each place its thread can be at which of its files are its own, freed or not made, whether it has an id and a
directory (`ObjectInv`, `FileInv`), that directories in use are different (`DirsDiffer`) and that every file on the disk has
an owner (`FilesOwned`). `StepKeeps` reduces a step of one object to that object and to what it changes on the disk,
`QuietStepKeeps` one that changes no files. The step that needs an argument is the end of an object (`CleanupFacts`): that its
directory is empty afterwards follows from `FilesOwned` and from nobody else being in it (`DirectoryIsOwn`).

`OperationsProofs` proves the six properties of its run from `OpInv`, in four parts: `OpsInv` (the list of a type and that
of a plugin have the same ops, each once), `PluginsInv` (what is mapped, set up or has ops listed is a registered plugin, and
the registered backends that are not set up are no more than the inits that failed: `FailuresCover`), `RegionsInv` (a region not in `overlapped` counts no more samples than it has room for; only its last one can lack its time, and only
while somebody is inside; a thread between the two steps of its start has room at its position: `ReadyToCount`) and `ThreadsInv` (where threads are). The lists are changed by `Filter`, of which the proofs need that it keeps the order and drops only what it
should: `FilterFacts` shows it from the rank of an element, which is an injection between finite sets of one size and so onto. `LookupStable` compares two
answers: a lookup is the first match, or else the first of all (`LookupIsRight`), and appending (`AppendKeepsAnswer`) or removing ops
(`RemoveKeepsAnswer`) leaves it unless the answer itself goes or a better match comes. Both properties of samples hold outside `overlapped` only: with two threads in a
region it is not the last sample alone that lacks its time, nor is the room that a thread has found still there when it counts. `DispatchInMemory` and `FiniMatchesInit` count: a failed init leaves one plugin on
the list whose library is closed (`OneMoreFailure`), and removing plugins leaves no more of them (`FewerFailures`), also when one that was not set up is
finalised. Whoever a lookup answers is the owner of a listed op, so registered (`ListedIsRegistered`).

Assumptions: the named ones of the modules, evaluated by TLC in the runs: `MaxIds` positive and the other bounds natural numbers; `NULL`
different from nodes, plugins, ops and types; heads and entries disjoint; finitely many sessions and entries (they are in memory), for the proofs that count them or choose
a sequence of them; `IsFiniteSet(AllContainers)` in `Resources`, a product of two finite sets; in `Plugins`, that `VACCEL_OP_INIT` gives an op the
plugin it is in as its owner and that no op is twice in the array of a plugin (`OpsAssumption`). Where a theorem says so, `Phased` (of the pool) or `Informed` (of the tensors), without
which it is false. All other theorems have no hypothesis but `Spec`. Some say more than their runs check: the run `IdPool` has
no overlap, where `CounterSound` needs no such restriction, and the run `Resources` has `Racing` empty, where
`RefcountExact` and `NotDestroyedInUse` are proved for the resources outside any `Racing`; the runs of `Sessions`, `Resources` and `Models` have
`Overlap = FALSE`, and the theorems cover both values.

Only model-checked: liveness (`ReleasedComesBack`, `SessionsKeepOpening`, `LoopEnds`), which is out of the prover's reach, and `Clients`, whose four properties
are about 28 given programs: there is no parameter to generalise, and the run explores all their paths.

## Not modelled, and the plan

In this order:

1. Operations that race with the removal of a plugin, and `vaccel_exec_with_res_unpack` with
   resources that are destroyed meanwhile (`Resources` and `Operations` composed).
2. Models registered to sessions and created at a host (`Models` and `Resources` composed), and sessions
   with the ids of a host.
3. What is left of the pool's promises when a get overlaps a release, beyond `NextCounts`: how many ids can be
   held twice at once.

Left out for good: formatting and logging (`log.c`, `misc.c`), `src/python`, whose helper is a wrapper around
one operation, the tests, which replace functions of the library, the third-party code (the largest file of the
repository, `fff.h`, is one of its headers), and the creation of the user's rundir, which one thread does once.
Allocation failures are modelled where an error path changes state (`InitMkdirFails`) or a program looks for
them (`Examples`), and left out where the call only returns. Concurrent changes of one linked list are data races; the
modules assume that the application serialises them. In `Models` no allocation fails, and an object is used by
one thread. Examples read files of the length they ask for: `read_file` of the image programs never returns when a
file shrinks while it is read. Of `vaccel_sess_update` nothing is modelled: it stores the hint of a session.
