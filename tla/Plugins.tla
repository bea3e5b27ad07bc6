------------------------------ MODULE Plugins ------------------------------
(***************************************************************************)
(* The plugins of vAccel (src/src/plugin.c) and the loading of backends    *)
(* (src/src/vaccel.c): the list of plugins, the implementations they       *)
(* register for each operation, the lookup every operation dispatches      *)
(* through, and the end of the subsystem.                                  *)
(*                                                                         *)
(* A backend lives in a shared library, whose memory - the descriptor, the *)
(* op structures and the code - is there only while the library is open.   *)
(* Other plugins are part of the application and register themselves.      *)
(* What the library reads in a library that was closed is taken to be what *)
(* was there.                                                              *)
(***************************************************************************)
EXTENDS Integers, Sequences, FiniteSets

CONSTANTS
    Backends,           \* plugins in the libraries that VACCEL_BACKENDS names
    BuiltIn,            \* plugins of the application
    VirtioPlugins,      \* those with sess_init and sess_free
    Ops,                \* vaccel_op structures
    OpTypes,            \* vaccel_op_type, the type of an operation
    Owner, TypeOf,      \* op->owner, op->type
    PluginTypes,        \* the bits of vaccel_plugin_type
    TypesOf,            \* plugin->info->type, as the set of its bits
    OpsOf,              \* the array of ops a plugin registers, as a sequence
    MaxInitFailures,    \* bound: how many backends fail to initialise
    NULL

AllPlugins == Backends \cup BuiltIn

ASSUME PluginsAssumption ==
    /\ Backends \cap BuiltIn = {}
    /\ VirtioPlugins \subseteq AllPlugins
    /\ Owner \in [Ops -> AllPlugins]
    /\ TypeOf \in [Ops -> OpTypes]
    /\ TypesOf \in [AllPlugins -> SUBSET PluginTypes]
    /\ OpsOf \in [AllPlugins -> Seq(Ops)]
    /\ NULL \notin AllPlugins \cup Ops

ASSUME MaxInitFailuresAssumption == MaxInitFailures \in Nat

(* VACCEL_OP_INIT: the owner of an op is the plugin whose array it is in,  *)
(* and no op is there twice.                                               *)
ASSUME OpsAssumption ==
    \A p \in AllPlugins :
        /\ \A k \in DOMAIN OpsOf[p] : Owner[OpsOf[p][k]] = p
        /\ \A j, k \in DOMAIN OpsOf[p] : OpsOf[p][j] = OpsOf[p][k] => j = k

VARIABLES
    phase,      \* "loading", "running", or "down" after plugins_shutdown
    plugins,    \* plugin_state.plugins
    virtio,     \* plugin_state.virtio
    ops,        \* plugin_state.ops: the implementations of each type
    ownOps,     \* plugin->ops of each plugin
    mapped,     \* the backends whose library is open
    set,        \* the backends whose init has succeeded and whose fini has not run
    misfini,    \* TRUE once the fini of a backend that is not set up was called
    initFailed  \* how many backends have failed to initialise

vars == <<phase, plugins, virtio, ops, ownOps, mapped, set, misfini, initFailed>>

Elements(seq) == {seq[k] : k \in DOMAIN seq}

(* The elements of seq that are in S, in their order: the n-th is the one  *)
(* at the position that is the n-th of theirs.                             *)
Filter(seq, S) ==
    LET kept == {k \in DOMAIN seq : seq[k] \in S}
        nth(n) == CHOOSE k \in kept : Cardinality({j \in kept : j <= k}) = n
    IN  [n \in 1 .. Cardinality(kept) |-> seq[nth(n)]]

Without(seq, gone) == Filter(seq, Elements(seq) \ gone)

OfType(t) == {o \in Ops : TypeOf[o] = t}

Registered == Elements(plugins)

(* The memory of the plugin can be accessed. *)
InMemory(p) == p \in BuiltIn \cup mapped

TypeOK ==
    /\ phase \in {"loading", "running", "down"}
    /\ plugins \in Seq(AllPlugins)
    /\ Len(plugins) = Cardinality(Registered)
    /\ virtio \in AllPlugins \cup {NULL}
    /\ ops \in [OpTypes -> Seq(Ops)]
    /\ ownOps \in [AllPlugins -> Seq(Ops)]
    /\ mapped \subseteq Backends
    /\ set \subseteq Backends
    /\ misfini \in BOOLEAN
    /\ initFailed \in 0 .. MaxInitFailures

(* plugins_bootstrap *)
Init ==
    /\ phase = "loading"
    /\ plugins = <<>>
    /\ virtio = NULL
    /\ ops = [t \in OpTypes |-> <<>>]
    /\ ownOps = [p \in AllPlugins |-> <<>>]
    /\ mapped = {}
    /\ set = {}
    /\ misfini = FALSE
    /\ initFailed = 0

(* register_plugin: the plugin joins the list, and the first one with the  *)
(* session functions becomes the virtio plugin.                            *)
RegisterPlugin(p) ==
    /\ p \notin Registered
    /\ ownOps[p] = <<>>
    /\ plugins' = Append(plugins, p)
    /\ virtio' = IF p \in VirtioPlugins /\ virtio = NULL THEN p ELSE virtio

(* A mutant of RegisterFunctions: ops are added at the head of the list. *)
RegisterFunctionsAtHead(p, n) ==
    LET new == SubSeq(OpsOf[p], 1, n)
    IN  /\ ownOps' = [ownOps EXCEPT ![p] = @ \o new]
        /\ ops' = [t \in OpTypes |-> Filter(new, OfType(t)) \o ops[t]]

(* register_plugin_functions, up to the n-th op of the array. *)
RegisterFunctions(p, n) ==
    LET new == SubSeq(OpsOf[p], 1, n)
    IN  /\ ownOps' = [ownOps EXCEPT ![p] = @ \o new]
        /\ ops' = [t \in OpTypes |-> ops[t] \o Filter(new, OfType(t))]

(* load_backend_plugin: the library is opened, the plugin registered and   *)
(* initialised; its init registers its functions.                          *)
Load(p) ==
    /\ phase = "loading"
    /\ p \in Backends
    /\ RegisterPlugin(p)
    /\ RegisterFunctions(p, Len(OpsOf[p]))
    /\ mapped' = mapped \cup {p}
    /\ set' = set \cup {p}
    /\ UNCHANGED <<phase, misfini, initFailed>>

(* Its init fails, after it has registered some of its functions: the      *)
(* library is closed, the plugin and its functions stay where they are.    *)
LoadInitFails(p) ==
    /\ phase = "loading"
    /\ p \in Backends
    /\ initFailed < MaxInitFailures
    /\ initFailed' = initFailed + 1
    /\ RegisterPlugin(p)
    /\ \E n \in 0 .. Len(OpsOf[p]) : RegisterFunctions(p, n)
    /\ phase' = "running"
    /\ UNCHANGED <<mapped, set, misfini>>

(* All backends are loaded, or one is refused (no library, no plugin,      *)
(* incomplete info, registered already): then its library is closed again  *)
(* and those that follow in VACCEL_BACKENDS are not loaded.                *)
LoadDone ==
    /\ phase = "loading"
    /\ phase' = "running"
    /\ UNCHANGED <<plugins, virtio, ops, ownOps, mapped, set, misfini, initFailed>>

(* The application registers a plugin of its own, then its functions.      *)
(* register_plugin does not call its init: whether the application does is *)
(* not known here, so such a plugin is never in set.                       *)
RegisterBuiltIn(p) ==
    /\ phase = "running"
    /\ p \in BuiltIn
    /\ RegisterPlugin(p)
    /\ UNCHANGED <<phase, ops, ownOps, mapped, set, misfini, initFailed>>

RegisterBuiltInFunctions(p) ==
    /\ phase = "running"
    /\ p \in BuiltIn \cap Registered
    /\ ownOps[p] = <<>>
    /\ RegisterFunctions(p, Len(OpsOf[p]))
    /\ UNCHANGED <<phase, plugins, virtio, mapped, set, misfini, initFailed>>

(* Mutants of UnlinkOps: an op leaves the list of its plugin only, or the  *)
(* list of its type only.                                                  *)
UnlinkPluginEntry(gone) ==
    /\ ownOps' = [p \in AllPlugins |-> IF p \in gone THEN <<>> ELSE ownOps[p]]
    /\ UNCHANGED ops

UnlinkFuncEntry(gone) ==
    LET dropped == UNION {Elements(ownOps[p]) : p \in gone}
    IN  ops' = [t \in OpTypes |-> Without(ops[t], dropped)] /\ UNCHANGED ownOps

(* The loop of unregister_plugin: the ops of the plugin leave both lists.  *)
UnlinkOps(gone) ==
    LET dropped == UNION {Elements(ownOps[p]) : p \in gone}
    IN  /\ ops' = [t \in OpTypes |-> Without(ops[t], dropped)]
        /\ ownOps' = [p \in AllPlugins |-> IF p \in gone THEN <<>> ELSE ownOps[p]]

(* A mutant of Fini: it is not called. *)
FiniSkipped(gone) == UNCHANGED <<misfini, set>>

(* plugin->info->fini(), of the plugins of the application too. *)
Fini(gone) ==
    /\ misfini' = (misfini \/ ~(gone \cap Backends \subseteq set))
    /\ set' = set \ gone

(* unregister_plugin for each plugin of gone: its ops and the plugin leave *)
(* their lists, its fini runs and its library is closed.  virtio is left   *)
(* as it is.                                                               *)
UnregisterAll(gone) ==
    /\ UnlinkOps(gone)
    /\ plugins' = Without(plugins, gone)
    /\ Fini(gone)
    /\ mapped' = mapped \ gone

Unregister(p) ==
    /\ phase = "running"
    /\ p \in Registered
    /\ UnregisterAll({p})
    /\ UNCHANGED <<phase, virtio, initFailed>>

(* plugins_shutdown *)
Shutdown ==
    /\ phase = "running"
    /\ UnregisterAll(Registered)
    /\ virtio' = NULL
    /\ phase' = "down"
    /\ UNCHANGED initFailed

Next ==
    \/ \E p \in AllPlugins :
          \/ Load(p) \/ LoadInitFails(p)
          \/ RegisterBuiltIn(p) \/ RegisterBuiltInFunctions(p)
          \/ Unregister(p)
    \/ LoadDone \/ Shutdown

Spec == Init /\ [][Next]_vars

-----------------------------------------------------------------------------
(* get_plugin_op *)

Hints == SUBSET PluginTypes

(* The hint, a bit set, asks for this implementation. *)
Matches(hint, o) == TypesOf[Owner[o]] \cap hint # {}

(* The first implementation that matches the hint, else the first one.     *)
get_plugin_op(t, hint) ==
    LET matching == {k \in DOMAIN ops[t] : Matches(hint, ops[t][k])}
    IN  CASE ops[t] = <<>> -> NULL
          [] matching # {} -> ops[t][CHOOSE k \in matching : \A j \in matching : k <= j]
          [] OTHER -> Head(ops[t])

-----------------------------------------------------------------------------
(* Properties *)

(* Whatever is called, the code is there, but for that of a backend that   *)
(* has failed to initialise: the implementations a lookup may answer are   *)
(* in closed libraries of at most as many plugins as have failed.          *)
DispatchInMemory ==
    LET answers == {get_plugin_op(t, hint) : t \in OpTypes, hint \in Hints} \ {NULL}
        owners == {Owner[o] : o \in answers}
    IN  Cardinality({p \in owners : ~InMemory(p)}) <= initFailed

(* The two lists an op is on agree: the implementations of a type are the  *)
(* ops of that type of the registered plugins, each of them once.          *)
OpListsAgree ==
    /\ \A t \in OpTypes :
          /\ Elements(ops[t]) =
                {o \in UNION {Elements(ownOps[p]) : p \in Registered} : TypeOf[o] = t}
          /\ Len(ops[t]) = Cardinality(Elements(ops[t]))
    /\ \A p \in AllPlugins \ Registered : ownOps[p] = <<>>

(* The backends on the list whose init has not succeeded. *)
NotSetUp == (Registered \cap Backends) \ set

(* A backend is on the list without being set up, or was finalised so, only *)
(* where a backend has failed to initialise: each failure accounts for one *)
(* of them.  The plugins of the application are not meant: the library     *)
(* never calls their init, and yet it calls their fini.  In any case       *)
(* plugins_shutdown leaves nothing behind: no backend set up, no library   *)
(* open, no implementation to be found.                                    *)
FiniMatchesInit ==
    /\ Cardinality(NotSetUp) + (IF misfini THEN 1 ELSE 0) <= initFailed
    /\ phase = "down" =>
          /\ set = {} /\ mapped = {} /\ virtio = NULL
          /\ \A t \in OpTypes : ops[t] = <<>>

(* A lookup changes its answer only if the implementation it answered has  *)
(* been unregistered, or if a plugin came that matches the hint better: a  *)
(* plugin loaded later never takes the place of one that matches as well.  *)
LookupStable ==
    [][\A t \in OpTypes, hint \in Hints :
          LET old == get_plugin_op(t, hint)
              new == get_plugin_op(t, hint)'
          IN  old # NULL /\ new # old =>
                \/ old \notin Elements(ops'[t])
                \/ ~Matches(hint, old) /\ Matches(hint, new)]_vars
=============================================================================
