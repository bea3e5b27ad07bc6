------------------------------- MODULE Tensors -------------------------------
(***************************************************************************)
(* Tensors, buffers and nodes of src/src/ops/tf.c and src/src/ops/torch.c: *)
(* who frees the memory they point to, along the calls of an application   *)
(* and the answers of the noop plugin (src/plugins/noop/vaccel.c).  The    *)
(* two files have the same code for tensors and buffers.                   *)
(*                                                                         *)
(* Pointers are blocks of the heap.  The structures themselves are what    *)
(* tells tensors apart; their dims are allocated and freed with them.      *)
(***************************************************************************)
CONSTANTS
    Blocks,         \* areas of memory
    Tensors,
    Buffers,
    Nodes,
    NULL,
    Informed        \* does the application know that a tensor whose owned flag
                    \* is set takes over the data it is given?

Holders == Tensors \cup Buffers \cup Nodes

ASSUME TensorsAssumption ==
    /\ NULL \notin Blocks
    /\ Informed \in BOOLEAN
    /\ Tensors \cap Buffers = {} /\ Tensors \cap Nodes = {} /\ Buffers \cap Nodes = {}

VARIABLES
    heap,           \* the blocks that are allocated
    app,            \* those the application has to free
    holder,         \* tensors, buffers and nodes: do they exist, their data, is it theirs?
    message,        \* the message of the application's status
    fromPlugin      \* the blocks a plugin has allocated

vars == <<heap, app, holder, message, fromPlugin>>

Pointers == Blocks \cup {NULL}

Holder(data, owned) == [live |-> TRUE, data |-> data, owned |-> owned]
Gone == [live |-> FALSE, data |-> NULL, owned |-> FALSE]

TypeOK ==
    /\ heap \subseteq Blocks
    /\ app \subseteq Blocks
    /\ holder \in [Holders -> [live : BOOLEAN, data : Pointers, owned : BOOLEAN]]
    /\ message \in Pointers
    /\ fromPlugin \subseteq Blocks

Init ==
    /\ heap = {}
    /\ app = {}
    /\ holder = [h \in Holders |-> Gone]
    /\ message = NULL
    /\ fromPlugin = {}

Fresh(b) == b \in Blocks \ heap

(* The block a holder frees with itself. *)
Owned(h) == IF holder[h].live /\ holder[h].owned THEN {holder[h].data} \ {NULL} ELSE {}

(* No tensor, buffer or node points to b. *)
Unused(b) == \A h \in Holders : holder[h].live => holder[h].data # b
-----------------------------------------------------------------------------
(* The application's own memory *)

AppMalloc(b) ==
    /\ Fresh(b)
    /\ heap' = heap \cup {b}
    /\ app' = app \cup {b}
    /\ UNCHANGED <<holder, message, fromPlugin>>

(* It frees what it has lent to nobody. *)
AppFree(b) ==
    /\ b \in app /\ Unused(b)
    /\ heap' = heap \ {b}
    /\ app' = app \ {b}
    /\ fromPlugin' = fromPlugin \ {b}
    /\ UNCHANGED <<holder, message>>
-----------------------------------------------------------------------------
(* The library *)

(* vaccel_tf_tensor_new; vaccel_tf_tensor_allocate with size 0 *)
TensorNew(t) ==
    /\ ~holder[t].live
    /\ holder' = [holder EXCEPT ![t] = Holder(NULL, FALSE)]
    /\ UNCHANGED <<heap, app, message, fromPlugin>>

(* vaccel_tf_tensor_allocate *)
TensorAllocate(t, b) ==
    /\ ~holder[t].live
    /\ Fresh(b)
    /\ holder' = [holder EXCEPT ![t] = Holder(b, TRUE)]
    /\ heap' = heap \cup {b}
    /\ UNCHANGED <<app, message, fromPlugin>>

(* There is no memory for the data.  The code tests the tensor in place of *)
(* its data, and answers a tensor that owns nothing.                       *)
TensorAllocateNoMemory(t) ==
    /\ ~holder[t].live
    /\ holder' = [holder EXCEPT ![t] = Holder(NULL, TRUE)]
    /\ UNCHANGED <<heap, app, message, fromPlugin>>

(* A mutant of SetData: it frees what the tensor was lent, too. *)
SetDataFreesLent(t, d) ==
    /\ holder[t].live
    /\ d \in app \cup {NULL}
    /\ heap' = heap \ {holder[t].data}
    /\ holder' = [holder EXCEPT ![t].data = d]
    /\ app' = IF holder[t].owned THEN app \ {d} ELSE app
    /\ UNCHANGED <<message, fromPlugin>>

(* The data an application gives away or lends is its own.  A tensor frees *)
(* its old data and keeps its flag, so the new data becomes the tensor's   *)
(* when the old data was: an informed application then forgets about it,   *)
(* and has it lent to nobody else.                                         *)
SetData(t, d) ==
    /\ holder[t].live
    /\ d \in app \cup {NULL}
    /\ holder[t].owned /\ Informed /\ d # NULL => Unused(d)
    /\ heap' = heap \ Owned(t)
    /\ fromPlugin' = fromPlugin \ Owned(t)
    /\ holder' = [holder EXCEPT ![t].data = d]
    /\ app' = IF holder[t].owned /\ Informed THEN app \ {d} ELSE app
    /\ UNCHANGED message

(* A mutant of Destroy: the data of a tensor is never freed. *)
DestroyKeepsData(h) ==
    /\ holder[h].live
    /\ holder' = [holder EXCEPT ![h] = Gone]
    /\ UNCHANGED <<heap, app, message, fromPlugin>>

Destroy(h) ==
    /\ holder[h].live
    /\ heap' = heap \ Owned(h)
    /\ fromPlugin' = fromPlugin \ Owned(h)
    /\ holder' = [holder EXCEPT ![h] = Gone]
    /\ UNCHANGED <<app, message>>

TensorDestroy(t) == Destroy(t)

(* vaccel_tf_buffer_new: the buffer takes the data over. *)
BufferNew(u, b) ==
    /\ ~holder[u].live
    /\ b \in app /\ Unused(b)
    /\ holder' = [holder EXCEPT ![u] = Holder(b, TRUE)]
    /\ app' = app \ {b}
    /\ UNCHANGED <<heap, message, fromPlugin>>

(* A mutant of BufferTake: the buffer keeps its pointer. *)
BufferTakeKeeps(u) ==
    /\ holder[u].live
    /\ app' = app \cup Owned(u)
    /\ UNCHANGED <<heap, holder, message, fromPlugin>>

(* vaccel_tf_buffer_take_data: the application has the data back. *)
BufferTake(u) ==
    /\ holder[u].live
    /\ app' = app \cup Owned(u)
    /\ holder' = [holder EXCEPT ![u].data = NULL]
    /\ UNCHANGED <<heap, message, fromPlugin>>

BufferDestroy(u) == Destroy(u)

(* vaccel_tf_node_new copies the name. *)
NodeNew(n, b) ==
    /\ ~holder[n].live
    /\ Fresh(b)
    /\ holder' = [holder EXCEPT ![n] = Holder(b, TRUE)]
    /\ heap' = heap \cup {b}
    /\ UNCHANGED <<app, message, fromPlugin>>

NodeDestroy(n) == Destroy(n)
-----------------------------------------------------------------------------
(* The noop plugin *)

(* vaccel_tf_session_load and vaccel_tf_session_delete with a status: the  *)
(* message is a new string, or nothing when there is no memory, and        *)
(* replaces the one before, which nobody frees.                            *)
Status(m) ==
    /\ m = NULL \/ Fresh(m)
    /\ heap' = heap \cup ({m} \ {NULL})
    /\ fromPlugin' = fromPlugin \cup ({m} \ {NULL})
    /\ message' = m
    /\ UNCHANGED <<app, holder>>

(* The output of a run is a new tensor o, with a copy of the input's data  *)
(* and a flag owned that nobody has written.                               *)
Output(t, o, b) ==
    /\ holder[t].live /\ holder[t].data # NULL
    /\ ~holder[o].live
    /\ Fresh(b)
    /\ \E junk \in BOOLEAN : holder' = [holder EXCEPT ![o] = Holder(b, junk)]

(* vaccel_torch_jitload_forward, and vaccel_tf_session_run without a status *)
Run(t, o, b) ==
    /\ Output(t, o, b)
    /\ heap' = heap \cup {b}
    /\ fromPlugin' = fromPlugin \cup {b}
    /\ UNCHANGED <<app, message>>

(* vaccel_tf_session_run with a status *)
RunWithStatus(t, o, b, m) ==
    /\ Output(t, o, b)
    /\ m = NULL \/ (Fresh(m) /\ m # b)
    /\ heap' = heap \cup {b} \cup ({m} \ {NULL})
    /\ fromPlugin' = fromPlugin \cup {b} \cup ({m} \ {NULL})
    /\ message' = m
    /\ UNCHANGED app

AppStep == \E b \in Blocks : AppMalloc(b) \/ AppFree(b)

TensorStep(t) ==
    \/ TensorNew(t) \/ TensorAllocateNoMemory(t) \/ TensorDestroy(t)
    \/ \E b \in Blocks : TensorAllocate(t, b)
    \/ \E d \in Pointers : SetData(t, d)

BufferStep(u) == BufferTake(u) \/ BufferDestroy(u) \/ \E b \in Blocks : BufferNew(u, b)

NodeStep(n) == NodeDestroy(n) \/ \E b \in Blocks : NodeNew(n, b)

PluginStep ==
    \/ \E m \in Pointers : Status(m)
    \/ \E t \in Tensors, o \in Tensors, b \in Blocks :
          Run(t, o, b) \/ \E m \in Pointers : RunWithStatus(t, o, b, m)

Next ==
    \/ AppStep
    \/ \E t \in Tensors : TensorStep(t)
    \/ \E u \in Buffers : BufferStep(u)
    \/ \E n \in Nodes : NodeStep(n)
    \/ PluginStep

Spec == Init /\ [][Next]_vars
-----------------------------------------------------------------------------
(* Properties *)

Owns(h, b) == holder[h].live /\ holder[h].owned /\ holder[h].data = b

(* Every block has at most one party that frees it: a holder, the          *)
(* application, or nobody (the message of a status, which is not freed).   *)
OneOwner ==
    /\ \A b \in Blocks : \A h, k \in Holders : Owns(h, b) /\ Owns(k, b) => h = k
    /\ \A b \in Blocks : \A h \in Holders : Owns(h, b) => b \notin app /\ b # message
    /\ message \notin app

(* No pointer dangles. *)
PointersLive ==
    /\ \A h \in Holders : holder[h].live => holder[h].data \in heap \cup {NULL}
    /\ app \subseteq heap
    /\ message \in (heap \cap fromPlugin) \cup {NULL}

(* What a tensor points to and does not own belongs to no other holder,    *)
(* which could free it before the tensor is used; and buffers and nodes    *)
(* always own what they point to.                                          *)
LentIsNotOwned ==
    /\ \A b \in Blocks : \A h, k \in Holders :
          holder[h].live /\ ~holder[h].owned /\ holder[h].data = b => ~Owns(k, b) /\ b # message
    /\ \A h \in Holders \ Tensors : holder[h].live => holder[h].owned

(* Whatever the order in which tensors, buffers and nodes are made, filled,*)
(* emptied and destroyed, nothing is freed twice and nothing freed is used,*)
(* as long as the application knows about the flag owned.                  *)
OwnershipInv == TypeOK /\ OneOwner /\ PointersLive /\ LentIsNotOwned

(* Only memory that a plugin allocated is ever lost: messages that were    *)
(* replaced, and data of outputs whose flag owned happened to be FALSE.    *)
NothingLost ==
    \A b \in heap :
        \/ b \in app \cup {message} \cup fromPlugin
        \/ \E h \in Holders : Owns(h, b)

(* What the application has lent it frees itself: no call of the library   *)
(* frees it.                                                               *)
LentKept == [][\A b \in app : b \notin heap' => AppFree(b)]_vars
=============================================================================
