----------------------------- MODULE Operations -----------------------------
(***************************************************************************)
(* The operations of src/src/ops/: each one asks get_plugin_op for an      *)
(* implementation and calls it, and those of TensorFlow and on images      *)
(* profile the call in a static region.  This composes the plugins, which  *)
(* come and go meanwhile, with the profiling regions and the generic       *)
(* operation.                                                              *)
(*                                                                         *)
(* The application calls the library while it runs, and does not remove a  *)
(* plugin that runs an operation.  There is no lock for a region.  What is *)
(* profiled in it may overlap where the region is in Overlapping: the      *)
(* start of a sample is two steps, and two threads may both make the first *)
(* before one makes the second.  What becomes of an array that two threads *)
(* grow at once is not modelled, so nothing is claimed of a region from    *)
(* the first overlap in it on.                                             *)
(***************************************************************************)
EXTENDS Plugins, Profiling, Genop

CONSTANTS
    Threads,
    MaxArgs,        \* bound: how many arguments vaccel_genop is given in each list
    AppRegion,      \* a region of the application
    Overlapping,    \* the regions in which operations may overlap
    MaxSamples      \* bound: how many samples are taken in a region

(* The region an operation is profiled in, if any. *)
RegionOf ==
    [ty \in OpTypes |->
        CASE ty \in {"IMG_CLASS", "IMG_DETEC", "IMG_SEGME", "IMG_POSE", "IMG_DEPTH"} ->
                "image_op_stats"
          [] ty = "TF_SESSION_LOAD" -> "tf_load_stats"
          [] ty = "TF_SESSION_RUN" -> "tf_session_run_stats"
          [] ty = "TF_SESSION_DELETE" -> "tf_session_delete_stats"
          [] OTHER -> NULL]

(* The operation that stops its region and does not start it. *)
StopOnly == {"TF_SESSION_DELETE"}

Regions == ({RegionOf[t] : t \in OpTypes} \cup {AppRegion}) \ {NULL}

ASSUME OperationsAssumption ==
    /\ MaxArgs \in Nat
    /\ \A t \in OpTypes : RegionOf[t] # AppRegion
    /\ \A t \in OpTypes \cap StopOnly : RegionOf[t] # NULL
    /\ AppRegion # NULL /\ NULL \notin OpTypes
    /\ MaxSamples \in Nat

VARIABLES
    pc,         \* where each thread is
    optype,     \* in the operation of which type
    op,         \* the implementation it has found
    position,   \* the sample it is about to start, while it is at "start"
    region,     \* the regions
    overlapped, \* those in which two threads have been at once
    appUp       \* is the region of the application initialised?

opVars == <<pc, optype, op, position, region, overlapped, appUp>>

OpTypeOK ==
    /\ TypeOK
    /\ pc \in [Threads -> {"idle", "start", "lookup", "call", "stop", "timing"}]
    /\ optype \in [Threads -> OpTypes \cup {NULL}]
    /\ op \in [Threads -> Ops \cup {NULL}]
    /\ position \in [Threads -> Nat]
    /\ DOMAIN region = Regions /\ \A r \in Regions : IsRegion(region[r])
    /\ overlapped \subseteq Regions \cap Overlapping
    /\ appUp \in BOOLEAN

OpInit ==
    /\ Init
    /\ pc = [t \in Threads |-> "idle"]
    /\ optype = [t \in Threads |-> NULL]
    /\ op = [t \in Threads |-> NULL]
    /\ position = [t \in Threads |-> 0]
    /\ region = [r \in Regions |-> StaticRegion]
    /\ overlapped = {}
    /\ appUp = FALSE

(* The region of a thread that is busy: that of its operation, if any, or  *)
(* that of the application.                                                *)
RegionIn(t) == IF optype[t] = NULL THEN AppRegion ELSE RegionOf[optype[t]]

(* The threads inside region r. *)
Inside(r) == {t \in Threads : pc[t] # "idle" /\ RegionIn(t) = r}

(* One more thread comes into region r. *)
EnterRegion(r) ==
    /\ region[r].nr < MaxSamples
    /\ r \in Overlapping \/ Inside(r) = {}
    /\ overlapped' = IF Inside(r) = {} THEN overlapped ELSE overlapped \cup {r}

GoOn(t, next) == pc' = [pc EXCEPT ![t] = next] /\ UNCHANGED <<position, region>>

(* vaccel_prof_region_start reads nr_entries and sees to it that the array *)
(* has room for one more.  If the array must grow and cannot, which the    *)
(* callers ignore, no sample is started.                                   *)
StartRegion(t, r, next) ==
    \/ /\ pc' = [pc EXCEPT ![t] = "start"]
       /\ position' = [position EXCEPT ![t] = region[r].nr]
       /\ region' = [region EXCEPT ![r] = MakeRoom(@)]
    \/ Full(region[r]) /\ GoOn(t, next)

(* Then it counts the sample and starts it.  The count is a plain variable *)
(* that the build may read again, or not.                                  *)
TakeSample(t) ==
    /\ pc[t] = "start"
    /\ pc' = [pc EXCEPT ![t] = IF optype[t] = NULL THEN "timing" ELSE "lookup"]
    /\ \E n \in {position[t], region[RegionIn(t)].nr} :
          region' = [region EXCEPT ![RegionIn(t)] = StartSample(@, position[t], n)]
    /\ position' = [position EXCEPT ![t] = 0]
    /\ UNCHANGED <<vars, optype, op, overlapped, appUp>>

Enter(t, ty) ==
    /\ phase = "running"
    /\ pc[t] = "idle"
    /\ optype' = [optype EXCEPT ![t] = ty]
    /\ UNCHANGED <<vars, op, appUp>>

(* vaccel_image_op, vaccel_tf_session_load and vaccel_tf_session_run. *)
ProfiledOp(t, ty) ==
    /\ RegionOf[ty] # NULL /\ ty \notin StopOnly
    /\ Enter(t, ty)
    /\ EnterRegion(RegionOf[ty])
    /\ StartRegion(t, RegionOf[ty], "lookup")

(* vaccel_tf_session_delete *)
StopOnlyOp(t, ty) ==
    /\ ty \in StopOnly
    /\ Enter(t, ty)
    /\ EnterRegion(RegionOf[ty])
    /\ GoOn(t, "lookup")

(* vaccel_sgemm, vaccel_exec, vaccel_fpga_..., vaccel_torch_... and so on. *)
PlainOp(t, ty) ==
    /\ RegionOf[ty] = NULL
    /\ Enter(t, ty)
    /\ GoOn(t, "lookup")
    /\ UNCHANGED overlapped

Call(t, ty) == ProfiledOp(t, ty) \/ StopOnlyOp(t, ty) \/ PlainOp(t, ty)

(* The operations that vaccel_genop calls for a type and some arguments.   *)
Callable ==
    [ty \in OpTypes |->
        {vaccel_genop(ty, n, w, o) : n \in 0 .. MaxArgs,
                                     w \in [nr : 0 .. MaxArgs, null : BOOLEAN],
                                     o \in {"none", "empty", "filled"}} \cap OpTypes]

(* An operation is called by way of vaccel_genop, which does nothing else. *)
Genop(t, ty) == \E called \in Callable[ty] : Call(t, called)

(* A mutant of Unsupported: the call returns at once. *)
UnsupportedReturns(t) ==
    /\ pc' = [pc EXCEPT ![t] = "idle"]
    /\ optype' = [optype EXCEPT ![t] = NULL]

(* VACCEL_ENOTSUP, by way of the end of the operation. *)
Unsupported(t) == pc' = [pc EXCEPT ![t] = "stop"] /\ UNCHANGED optype

(* get_plugin_op, with whatever hint the session has. *)
Lookup(t) ==
    /\ pc[t] = "lookup"
    /\ \E hint \in Hints :
        LET found == get_plugin_op(optype[t], hint)
        IN  IF found = NULL
            THEN Unsupported(t) /\ UNCHANGED op
            ELSE /\ pc' = [pc EXCEPT ![t] = "call"]
                 /\ op' = [op EXCEPT ![t] = found]
                 /\ UNCHANGED optype
    /\ UNCHANGED <<vars, position, region, overlapped, appUp>>

(* The implementation returns. *)
Return(t) ==
    /\ pc[t] = "call"
    /\ pc' = [pc EXCEPT ![t] = "stop"]
    /\ op' = [op EXCEPT ![t] = NULL]
    /\ UNCHANGED <<vars, optype, position, region, overlapped, appUp>>

(* The end of the operation stops its region. *)
Stop(t) ==
    LET r == RegionOf[optype[t]]
    IN  /\ pc[t] = "stop"
        /\ pc' = [pc EXCEPT ![t] = "idle"]
        /\ optype' = [optype EXCEPT ![t] = NULL]
        /\ region' = IF r = NULL THEN region
                     ELSE [region EXCEPT ![r] = vaccel_prof_region_stop(@)]
        /\ UNCHANGED <<vars, op, position, overlapped, appUp>>
-----------------------------------------------------------------------------
(* The application's own region *)

AppInit ==
    /\ phase = "running" /\ ~appUp
    /\ appUp' = TRUE
    /\ region' = [region EXCEPT ![AppRegion] = vaccel_prof_regions_init(@)]
    /\ UNCHANGED <<vars, pc, optype, op, position, overlapped>>

AppStart(t) ==
    /\ phase = "running" /\ appUp
    /\ pc[t] = "idle"
    /\ EnterRegion(AppRegion)
    /\ StartRegion(t, AppRegion, "timing")
    /\ UNCHANGED <<vars, optype, op, appUp>>

AppStop(t) ==
    /\ pc[t] = "timing"
    /\ region' = [region EXCEPT ![AppRegion] = vaccel_prof_region_stop(@)]
    /\ pc' = [pc EXCEPT ![t] = "idle"]
    /\ UNCHANGED <<vars, optype, op, position, overlapped, appUp>>

(* A region that was cleared is initialised before it is used again. *)
AppClear ==
    /\ appUp /\ Inside(AppRegion) = {}
    /\ appUp' = FALSE
    /\ region' = [region EXCEPT ![AppRegion] = vaccel_prof_regions_clear(@)]
    /\ UNCHANGED <<vars, pc, optype, op, position, overlapped>>

AppDestroy ==
    /\ appUp /\ Inside(AppRegion) = {}
    /\ appUp' = FALSE
    /\ region' = [region EXCEPT ![AppRegion] = vaccel_prof_region_destroy(@)]
    /\ UNCHANGED <<vars, pc, optype, op, position, overlapped>>

(* The plugins that run an operation. *)
Running == {Owner[op[t]] : t \in {u \in Threads : pc[u] = "call"}}

PluginStep ==
    /\ Next
    /\ Running \subseteq Elements(plugins')
    /\ phase' = "down" => \A t \in Threads : pc[t] = "idle"
    /\ UNCHANGED opVars

OpNext ==
    \/ PluginStep
    \/ \E t \in Threads, ty \in OpTypes : Call(t, ty) \/ Genop(t, ty)
    \/ \E t \in Threads : TakeSample(t) \/ Lookup(t) \/ Return(t) \/ Stop(t)
    \/ \E t \in Threads : AppStart(t) \/ AppStop(t)
    \/ AppInit \/ AppClear \/ AppDestroy

OpSpec == OpInit /\ [][OpNext]_<<vars, opVars>>
-----------------------------------------------------------------------------
(* Properties *)

(* When no operation is inside a region, whether those before found an     *)
(* implementation or not and even if some sample could not be taken, each  *)
(* sample that is counted has its time: vaccel_prof_region_print adds up   *)
(* no memory that was never written.  This is so for a region where        *)
(* operations have followed one another, whatever overlapped in others.    *)
SamplesTimed ==
    \A r \in Regions \ overlapped :
        Inside(r) = {} /\ (r = AppRegion => appUp) => Printable(region[r])

(* A region where operations have followed one another never counts more   *)
(* samples than its array has room for, through growing, growing that      *)
(* fails, clearing and initialising again.  Where they overlap this fails: *)
(* two threads may each find room for one more sample, and count two.      *)
SamplesInBounds ==
    /\ OpTypeOK
    /\ \A r \in Regions \ overlapped :
          (r = AppRegion => appUp) => region[r].nr <= region[r].size
=============================================================================
