-------------------------- MODULE BundledPlugins ---------------------------
(***************************************************************************)
(* The two plugins of the repository: noop (src/plugins/noop/vaccel.c),    *)
(* which prints the arguments of an operation, and exec                    *)
(* (src/plugins/exec/vaccel.c), which calls a function of a library.       *)
(*                                                                         *)
(* A call c has the fields                                                 *)
(*   session, model   are the pointers to the session and to the model or  *)
(*                    shared object there (not NULL)?                      *)
(*   registered       is the resource of the model registered with it?     *)
(*   status           is there a structure for the status?                 *)
(*   sizes            the number of elements of each array                 *)
(***************************************************************************)
EXTENDS Integers

OK == "OK"
EINVAL == "EINVAL"
ENOENT == "ENOENT"
ENOMEM == "ENOMEM"
ENOEXEC == "ENOEXEC"
ENOTSUP == "ENOTSUP"
-----------------------------------------------------------------------------
(* noop *)

(* noop_noop and noop_sgemm *)
noop_print(c) == {OK}

(* noop_img_class, noop_img_detect, noop_img_segme, noop_img_pose, noop_img_depth *)
noop_img(c) == {OK}

noop_exec(c) == {OK}

noop_opencv(c) == {OK}

noop_minmax(c) == IF c.session THEN {OK} ELSE {EINVAL}

noop_torch_sgemm(c) == IF c.session THEN {OK} ELSE {EINVAL}

(* v_arraycopy, v_vectoradd, v_parallel, v_mmult *)
v_arrays(c) == {OK}

noop_exec_with_resource(c) ==
    IF ~c.session \/ ~c.model THEN {EINVAL}
    ELSE IF c.registered THEN {OK} ELSE {ENOENT}

(* There may be no memory for the message of the status. *)
Message(c) == IF c.status THEN {OK, ENOMEM} ELSE {OK}

noop_tf_session_load(c) ==
    IF ~c.session \/ ~c.model THEN {EINVAL}
    ELSE IF c.registered THEN Message(c) ELSE {ENOENT}

(* This one and the next do not ask whether the model is registered. *)
noop_tf_session_run(c) ==
    IF ~c.session \/ ~c.model THEN {EINVAL} ELSE Message(c)

noop_tf_session_delete(c) ==
    IF ~c.session \/ ~c.model THEN {EINVAL} ELSE Message(c)

noop_torch_jitload_forward(c) ==
    IF ~c.session \/ ~c.model THEN {EINVAL} ELSE {OK}

noop_types ==
    {"NO_OP", "BLAS_SGEMM", "IMG_CLASS", "IMG_DETEC", "IMG_SEGME", "IMG_POSE",
     "IMG_DEPTH", "EXEC", "TF_SESSION_LOAD", "TF_SESSION_RUN",
     "TF_SESSION_DELETE", "MINMAX", "F_ARRAYCOPY", "F_VECTORADD", "F_PARALLEL",
     "F_MMULT", "EXEC_WITH_RESOURCE", "TORCH_JITLOAD_FORWARD", "TORCH_SGEMM",
     "OPENCV"}

noop_ops(type, c) ==
    CASE type \in {"NO_OP", "BLAS_SGEMM"} -> noop_print(c)
      [] type \in {"IMG_CLASS", "IMG_DETEC", "IMG_SEGME", "IMG_POSE", "IMG_DEPTH"} -> noop_img(c)
      [] type = "EXEC" -> noop_exec(c)
      [] type = "TF_SESSION_LOAD" -> noop_tf_session_load(c)
      [] type = "TF_SESSION_RUN" -> noop_tf_session_run(c)
      [] type = "TF_SESSION_DELETE" -> noop_tf_session_delete(c)
      [] type = "MINMAX" -> noop_minmax(c)
      [] type \in {"F_ARRAYCOPY", "F_VECTORADD", "F_PARALLEL", "F_MMULT"} -> v_arrays(c)
      [] type = "EXEC_WITH_RESOURCE" -> noop_exec_with_resource(c)
      [] type = "TORCH_JITLOAD_FORWARD" -> noop_torch_jitload_forward(c)
      [] type = "TORCH_SGEMM" -> noop_torch_sgemm(c)
      [] type = "OPENCV" -> noop_opencv(c)

(* The operations on arrays go through all of them by the number of        *)
(* elements of the first, whatever the others have.                        *)
noop_fits(type, c) ==
    type \in {"F_ARRAYCOPY", "F_VECTORADD", "F_PARALLEL", "MINMAX"} =>
        \A i \in DOMAIN c.sizes : c.sizes[i] >= c.sizes[1]
-----------------------------------------------------------------------------
(* exec *)

exec_noop(c) == {OK}

(* The library cannot be opened or does not have the symbol; the function  *)
(* answers something but 0.                                                *)
exec(c) == {OK, EINVAL, ENOEXEC}

(* The same with the path of the shared object, registered or not. *)
exec_with_resource(c) == {OK, EINVAL, ENOEXEC}

exec_ops(type, c) ==
    CASE type = "NO_OP" -> exec_noop(c)
      [] type = "EXEC" -> exec(c)
      [] type = "EXEC_WITH_RESOURCE" -> exec_with_resource(c)

exec_types == {"NO_OP", "EXEC", "EXEC_WITH_RESOURCE"}
-----------------------------------------------------------------------------
(* What an operation answers when this plugin, or none, is loaded: a type  *)
(* with no implementation is not supported, and whatever the hint, the     *)
(* only implementation is taken.                                           *)
Answers(plugin, type, c) ==
    CASE plugin = "noop" /\ type \in noop_types -> noop_ops(type, c)
      [] plugin = "exec" /\ type \in exec_types -> exec_ops(type, c)
      [] OTHER -> {ENOTSUP}

(* Does it stay in the arrays it is given? *)
Fits(plugin, type, c) == plugin = "noop" => noop_fits(type, c)
=============================================================================
