------------------------------ MODULE Clients -------------------------------
(***************************************************************************)
(* A process that runs one of the programs of Examples, with one plugin or *)
(* none, and what its exit leaves behind.  The calls of the library answer *)
(* what they can answer without a virtio plugin: vaccel_sess_init,         *)
(* vaccel_sess_register and the constructors may fail, a resource that is  *)
(* registered is unregistered, vaccel_sess_free and the destructors answer *)
(* VACCEL_OK, and an operation answers what the plugin does.               *)
(***************************************************************************)
EXTENDS Sequences, Integers, BundledPlugins

CONSTANTS
    Programs,       \* the names of the programs
    Code,           \* their steps
    Backends        \* what VACCEL_BACKENDS may name: "noop", "exec" or "none"

VARIABLES
    prog, backend,
    pc,
    thing,          \* the state of each variable of the program
    registered,     \* the objects whose resource is registered with sess
    ret,
    broken,         \* the calls that failed and whose result was looked at
    misuse,         \* the steps that are undefined behaviour, as <<call, on>>
    phase,          \* running, returned, exited, crashed or ended
    rundir          \* does the rundir of the process exist?

vars == <<prog, backend, pc, thing, registered, ret, broken, misuse, phase, rundir>>

Steps(p) == {Code[p][i] : i \in DOMAIN Code[p]}
Variables == UNION {{s.on : s \in Steps(p)} : p \in Programs} \cup {"sess"}

(* The variables with a resource *)
Objects == {v \in Variables : \E s \in Steps(prog) : s.call = "destroy" /\ s.on = v}

Results == {OK, "failed"}
Phases == {"running", "returned", "exited", "crashed", "ended"}

(* vaccel_init has made the rundir. *)
Init ==
    /\ prog \in Programs
    /\ backend \in Backends
    /\ pc = 1
    /\ thing = [v \in Variables |-> "unset"]
    /\ registered = {}
    /\ ret = OK
    /\ broken = {}
    /\ misuse = {}
    /\ phase = "running"
    /\ rundir = TRUE

step == Code[prog][pc]
-----------------------------------------------------------------------------
(* One step *)

(* The call an operation's plugin gets. *)
Arguments ==
    [session |-> TRUE, model |-> TRUE, registered |-> step.on \in registered,
     status |-> TRUE, sizes |-> step.sizes]

OpResults ==
    IF ~step.reached THEN {"failed"}
    ELSE {IF a = OK THEN OK ELSE "failed" : a \in Answers(backend, step.type, Arguments)}

(* What the call may answer. *)
Answer ==
    CASE step.call \in {"label", "use", "free", "print", "destroy", "vaccel_sess_free"} -> {OK}
      [] step.call = "vaccel_sess_unregister" -> {IF step.on \in registered THEN OK ELSE "failed"}
      [] step.call = "op" -> OpResults
      [] step.call = "model_register" /\ thing[step.on] = "set" -> {"failed"}
      [] OTHER -> Results

(* May it also fail, or find nothing, without saying so? *)
Silent == IF step.silent = "never" THEN {FALSE} ELSE BOOLEAN

UsesSession ==
    {"op", "vaccel_sess_register", "vaccel_sess_unregister", "vaccel_sess_free"}

(* Is the step defined behaviour, when the call has this outcome?  A       *)
(* resource that is destroyed while it is registered leaves a dangling     *)
(* pointer in the session.  When it fails, the set_path of a TensorFlow    *)
(* model destroys its files: those it has not set may be without a value.  *)
Legal(result, silent) ==
    /\ thing[step.on] \in step.needs
    /\ step.call = "vaccel_tf_saved_model_set_path" /\ silent /\ result # OK =>
          thing[step.on] # "unset"
    /\ step.call \in UsesSession => thing["sess"] = "live"
    /\ step.call = "destroy" => step.on \notin registered
    /\ step.call = "op" /\ step.reached => Fits(backend, step.type, Arguments)
    /\ step.call = "print" => step.sizes[1] <= step.sizes[2]

(* Undefined behaviour may end the process, or it goes on. *)
Crash ==
    /\ phase = "running"
    /\ \E result \in Answer, silent \in Silent : ~Legal(result, silent)
    /\ misuse' = misuse \cup {<<step.call, step.on>>}
    /\ phase' = "crashed"
    /\ UNCHANGED <<prog, backend, pc, thing, registered, ret, broken, rundir>>

NewState(result, silent) ==
    LET state == CASE result # OK -> step.else
                   [] result = OK /\ silent -> step.silent
                   [] OTHER -> step.then
    IN  IF state = "same" THEN thing ELSE [thing EXCEPT ![step.on] = state]

(* vaccel_sess_free unregisters what is registered. *)
NewRegistered(result) ==
    CASE result = OK /\ step.call = "vaccel_sess_register" -> registered \cup {step.on}
      [] result = OK /\ step.call = "vaccel_sess_unregister" -> registered \ {step.on}
      [] result = OK /\ step.call = "vaccel_sess_free" -> {}
      [] OTHER -> registered

IsLabel(p, i, name) == Code[p][i].call = "label" /\ Code[p][i].on = name

Target(p, name) == CHOOSE i \in DOMAIN Code[p] : IsLabel(p, i, name)

Exits == {"exit 1", "exit ret"}

(* Where it goes after a failure: on, out of the process, or to a label.   *)
Fail ==
    CASE step.otherwise = "go on" -> pc' = pc + 1 /\ UNCHANGED <<phase, broken>>
      [] step.otherwise \in Exits ->
            /\ phase' = "exited"
            /\ broken' = broken \cup {step.call}
            /\ UNCHANGED pc
      [] OTHER ->
            /\ pc' = Target(prog, step.otherwise)
            /\ broken' = broken \cup {step.call}
            /\ UNCHANGED phase

Assign(result) ==
    ret' = CASE result \in step.assigns -> result
             [] result = "failed" /\ step.otherwise = "exit 1" -> "failed"
             [] OTHER -> ret

(* An operation in a loop may be the last one, or not.  A variable that is *)
(* used in an undefined way is as it was.                                  *)
Do ==
    /\ phase = "running" /\ step.call # "return"
    /\ \E result \in Answer, silent \in Silent :
          /\ IF Legal(result, silent)
             THEN thing' = NewState(result, silent) /\ UNCHANGED misuse
             ELSE misuse' = misuse \cup {<<step.call, step.on>>} /\ UNCHANGED thing
          /\ registered' = NewRegistered(result)
          /\ Assign(result)
          /\ IF result = OK THEN pc' = pc + 1 /\ UNCHANGED <<phase, broken>> ELSE Fail
    /\ UNCHANGED <<prog, backend, rundir>>

(* ... or there is none. *)
SkipLoop ==
    /\ phase = "running" /\ step.loop
    /\ pc' = pc + 1
    /\ UNCHANGED <<prog, backend, thing, registered, ret, broken, misuse, phase, rundir>>

Return ==
    /\ phase = "running" /\ step.call = "return"
    /\ ret' = IF step.on = "0" THEN OK ELSE ret
    /\ phase' = "returned"
    /\ UNCHANGED <<prog, backend, pc, thing, registered, broken, misuse, rundir>>

(* vaccel_fini: the resources that are not registered are destroyed, the   *)
(* sessions are not closed, and the rundir stays when there is anything in *)
(* it: the directory of a session.                                         *)
Fini ==
    /\ phase \in {"returned", "exited"}
    /\ rundir' = (thing["sess"] = "live")
    /\ thing' = [v \in Variables |->
                    IF v \in Objects /\ thing[v] = "live" /\ v \notin registered
                    THEN "freed" ELSE thing[v]]
    /\ phase' = "ended"
    /\ UNCHANGED <<prog, backend, pc, registered, ret, broken, misuse>>

Next == Crash \/ Do \/ SkipLoop \/ Return \/ Fini

Spec == Init /\ [][Next]_vars
-----------------------------------------------------------------------------
(* Properties *)

(* The program has come to its last return. *)
Orderly == phase = "ended" /\ step.call = "return"

ReadsImage == {"classify", "detect", "segment", "pose", "depth", "classify_generic",
               "detect_generic", "segment_generic", "pose_generic", "depth_generic"}

(* The programs with a model on the stack *)
OnStack == {"tf_inference", "torch_inference"}

(* Whatever fails, a call is only made on what is there: sessions are open *)
(* when they are used, resources live when they are registered and not     *)
(* registered when they are destroyed, memory is freed once, and arrays    *)
(* are as long as the operation takes them to be.  The exceptions that are *)
(* known: a file that cannot be read leaves a pointer or a session without *)
(* a value, which the way out frees; three mallocs are not tested, and one *)
(* mmap is tested for the wrong value; two programs are wrong about the    *)
(* length of an array; and two have a model on the stack that set_path may *)
(* leave without a value, in part, when it answers VACCEL_OK or, where it  *)
(* undoes what it did, on its own way out.                                 *)
CallsLegal ==
    \A m \in misuse :
        \/ m = <<"free", "image">> /\ prog \in ReadsImage /\ "read_file" \in broken
        \/ m = <<"vaccel_sess_free", "sess">> /\ prog = "torch_inference" /\ "read_file" \in broken
        \/ m[1] = "use" /\ prog = "sgemm_generic" /\ thing[m[2]] = "null"
        \/ m[1] = "use" /\ prog = "tf_saved_model" /\ thing[m[2]] = "bad"
        \/ m[2] = "model" /\ prog \in OnStack /\ thing["model"] = "unset"
        \/ m[1] = "op" /\ prog = "pynq_vector_add_generic" /\ backend = "noop"
        \/ m[1] = "print" /\ prog = "pynq_parallel_generic"

(* A program that comes to its last return by way of defined steps, after  *)
(* a failure or without one, has closed its session, destroyed its         *)
(* resources and freed what it frees at all (but one matrix, when there    *)
(* was no memory for the next): the process leaves no directory.           *)
NothingLeft ==
    Orderly /\ misuse = {} =>
        /\ thing["sess"] # "live" /\ ~rundir
        /\ registered = {} /\ \A v \in Objects : thing[v] # "live"
        /\ \A s \in Steps(prog) : s.call = "free" /\ thing[s.on] = "live" =>
              prog = "sgemm_generic" /\ s.on = "A" /\ "malloc" \in broken

(* The process reports the failure of a call it looks at, also when the    *)
(* way out has calls that succeed.  The exceptions: exec_with_res assigns  *)
(* their results to ret, and torch_inference does not set ret when there   *)
(* is no memory for a tensor.                                              *)
FailureReported ==
    phase = "ended" /\ broken # {} =>
        \/ ret = "failed"
        \/ prog = "exec_with_res" /\ "op" \in broken
        \/ prog = "torch_inference" /\ "malloc" \in broken

(* With the noop plugin no operation of a program fails, called directly   *)
(* or by way of vaccel_genop, unless there is no memory for the message of *)
(* a status: it has the implementation, the number of arguments is right,  *)
(* and what it wants to be registered is.                                  *)
ServedByNoop ==
    backend = "noop" /\ "op" \in broken => prog = "tf_inference"
=============================================================================
