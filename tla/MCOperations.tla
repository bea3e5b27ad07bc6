---------------------------- MODULE MCOperations ----------------------------
(***************************************************************************)
(* A small instance of Operations.  Two backends, one of them a virtio     *)
(* plugin, and a plugin of the application; all of them implement EXEC,    *)
(* two TF_SESSION_RUN too, and a backend has two op structures of one      *)
(* type.  TF_SESSION_RUN is profiled, TF_SESSION_DELETE stops its region   *)
(* only and has no implementation.                                         *)
(***************************************************************************)
EXTENDS Operations, TLC

CONSTANTS noop, virt, mock, exec1, exec2, exec3, exec4, tf1, tf3, cpu, gpu

MCOwner ==
    exec1 :> noop @@ exec4 :> noop @@ tf1 :> noop @@ exec2 :> virt
          @@ exec3 :> mock @@ tf3 :> mock
MCOpTypes == {"EXEC", "EXEC_WITH_RESOURCE", "TF_SESSION_RUN", "TF_SESSION_DELETE"}
MCTypeOf == [o \in {exec1, exec2, exec3, exec4, tf1, tf3} |->
                IF o \in {tf1, tf3} THEN "TF_SESSION_RUN" ELSE "EXEC"]
MCTypesOf == noop :> {cpu} @@ virt :> {cpu, gpu} @@ mock :> {gpu}
MCOpsOf == noop :> <<exec1, tf1, exec4>> @@ virt :> <<exec2>> @@ mock :> <<tf3, exec3>>

ThreadSymmetry == Permutations(Threads)
=============================================================================
