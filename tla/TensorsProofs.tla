--------------------------- MODULE TensorsProofs ---------------------------
(***************************************************************************)
(* Ownership of the data of tensors, buffers and nodes, for any number of  *)
(* them and any amount of memory.                                          *)
(***************************************************************************)
EXTENDS Tensors, TLAPS

(* Application memory: what is allocated is new to everybody, and what is  *)
(* freed nobody points to.                                                 *)
LEMMA AppStepKeeps ==
    ASSUME OwnershipInv, AppStep
    PROVE  OwnershipInv'
<1> USE TensorsAssumption
<1>1. ASSUME NEW b \in Blocks, AppMalloc(b) PROVE OwnershipInv'
  BY <1>1 DEF OwnershipInv, TypeOK, OneOwner, PointersLive, LentIsNotOwned, Owns,
              AppMalloc, Fresh, Holders, Pointers
<1>2. ASSUME NEW b \in Blocks, AppFree(b) PROVE OwnershipInv'
  BY <1>2 DEF OwnershipInv, TypeOK, OneOwner, PointersLive, LentIsNotOwned, Owns,
              AppFree, Unused, Holders, Pointers
<1> QED
  BY <1>1, <1>2 DEF AppStep

(* A holder that did not exist is made with a new block or none.           *)
LEMMA NewHolderKeeps ==
    ASSUME OwnershipInv,
           NEW h \in Holders, ~holder[h].live,
           NEW b \in Pointers, b \notin heap,
           NEW owned \in BOOLEAN, h \notin Tensors => owned,
           holder' = [holder EXCEPT ![h] = Holder(b, owned)],
           heap' = heap \cup ({b} \ {NULL}),
           app' = app, message' = message,
           fromPlugin \subseteq fromPlugin', fromPlugin' \subseteq Blocks
    PROVE  OwnershipInv'
<1> USE TensorsAssumption
<1>1. b \notin app /\ (b # NULL => b # message)
  BY DEF OwnershipInv, PointersLive, Pointers
<1>2. \A k \in Holders : holder[k].live => holder[k].data # b \/ b = NULL
  BY DEF OwnershipInv, TypeOK, PointersLive, Pointers
<1>3. TypeOK'
  BY DEF OwnershipInv, TypeOK, Holder, Pointers
<1>4. /\ holder'[h] = Holder(b, owned)
      /\ \A k \in Holders \ {h} : holder'[k] = holder[k]
  BY DEF OwnershipInv, TypeOK
<1>5. OneOwner'
  BY <1>1, <1>2, <1>4 DEF OwnershipInv, TypeOK, OneOwner, Owns, Holder, Pointers
<1>6. PointersLive'
  BY <1>4 DEF OwnershipInv, PointersLive, Holder, Pointers
<1>7. LentIsNotOwned'
  BY <1>1, <1>2, <1>4 DEF OwnershipInv, LentIsNotOwned, Owns, Holder, Pointers
<1> QED
  BY <1>3, <1>5, <1>6, <1>7 DEF OwnershipInv

(* A holder that gives up its data, or is destroyed, frees what it owns,   *)
(* which nobody else points to.                                            *)
LEMMA DestroyKeeps ==
    ASSUME OwnershipInv, NEW h \in Holders, Destroy(h)
    PROVE  OwnershipInv'
<1> USE TensorsAssumption
<1>1. /\ holder'[h] = Gone
      /\ \A k \in Holders \ {h} : holder'[k] = holder[k]
      /\ app' = app /\ message' = message
  BY DEF OwnershipInv, TypeOK, Destroy
<1>2. TypeOK'
  BY DEF OwnershipInv, TypeOK, Destroy, Gone, Pointers
<1>3. OneOwner' /\ LentIsNotOwned'
  BY <1>1 DEF OwnershipInv, TypeOK, OneOwner, LentIsNotOwned, Owns, Gone
<1>4. ASSUME NEW b \in Owned(h)
      PROVE  /\ b \notin app /\ b # message
             /\ \A k \in Holders \ {h} : holder[k].live => holder[k].data # b
  BY <1>4 DEF OwnershipInv, TypeOK, OneOwner, LentIsNotOwned, Owned, Owns, Pointers
<1>5. PointersLive'
  BY <1>1, <1>4 DEF OwnershipInv, PointersLive, Destroy, Gone
<1> QED
  BY <1>2, <1>3, <1>5 DEF OwnershipInv

(* An informed application gives the tensor what it will not free itself.  *)
LEMMA SetDataKeeps ==
    ASSUME Informed, OwnershipInv,
           NEW t \in Tensors, NEW d \in Pointers, SetData(t, d)
    PROVE  OwnershipInv'
<1> USE TensorsAssumption
<1>1. t \in Holders
  BY DEF Holders
<1>2. /\ holder'[t] = [holder[t] EXCEPT !.data = d]
      /\ \A k \in Holders \ {t} : holder'[k] = holder[k]
      /\ message' = message
      /\ heap' = heap \ Owned(t) /\ fromPlugin' = fromPlugin \ Owned(t)
  BY <1>1 DEF OwnershipInv, TypeOK, SetData
<1>3. TypeOK'
  BY DEF OwnershipInv, TypeOK, SetData
<1>4. ASSUME NEW b \in Owned(t)
      PROVE  /\ b \notin app /\ b # message
             /\ \A k \in Holders \ {t} : holder[k].live => holder[k].data # b
  BY <1>1, <1>4 DEF OwnershipInv, TypeOK, OneOwner, LentIsNotOwned, Owned, Owns, Pointers
<1>5. d # NULL => d \in app /\ d # message /\ \A k \in Holders : ~Owns(k, d)
  BY DEF SetData, OwnershipInv, TypeOK, OneOwner, Owns, Pointers
<1>6. CASE holder[t].owned
  <2>1. app' = app \ {d} /\ (d # NULL => Unused(d))
    BY <1>6 DEF SetData
  <2>2. OneOwner'
    BY <1>1, <1>2, <1>5, <2>1 DEF OwnershipInv, TypeOK, OneOwner, Owns, Unused, Pointers
  <2>3. PointersLive'
    BY <1>1, <1>2, <1>4, <1>5, <2>1 DEF OwnershipInv, TypeOK, PointersLive
  <2>4. LentIsNotOwned'
    BY <1>1, <1>2, <1>5, <1>6, <2>1 DEF OwnershipInv, TypeOK, LentIsNotOwned, Owns, Unused
  <2> QED
    BY <1>3, <2>2, <2>3, <2>4 DEF OwnershipInv
<1>7. CASE ~holder[t].owned
  <2>1. app' = app /\ Owned(t) = {}
    BY <1>7 DEF SetData, Owned
  <2>2. OneOwner'
    BY <1>1, <1>2, <1>7, <2>1 DEF OwnershipInv, TypeOK, OneOwner, Owns
  <2>3. PointersLive'
    BY <1>1, <1>2, <1>5, <2>1 DEF OwnershipInv, TypeOK, PointersLive
  <2>4. LentIsNotOwned'
    BY <1>1, <1>2, <1>5, <1>7, <2>1 DEF OwnershipInv, TypeOK, LentIsNotOwned, Owns
  <2> QED
    BY <1>3, <2>2, <2>3, <2>4 DEF OwnershipInv
<1> QED
  BY <1>6, <1>7

(* A buffer takes over the application's data, and gives it back.          *)
LEMMA BufferStepKeeps ==
    ASSUME OwnershipInv, NEW u \in Buffers, BufferStep(u)
    PROVE  OwnershipInv'
<1> USE TensorsAssumption
<1>1. u \in Holders /\ u \notin Tensors
  BY DEF Holders
<1>2. CASE BufferDestroy(u)
  BY <1>1, <1>2, DestroyKeeps DEF BufferDestroy
<1>3. ASSUME NEW b \in Blocks, BufferNew(u, b) PROVE OwnershipInv'
  <2>1. /\ holder'[u] = Holder(b, TRUE)
        /\ \A k \in Holders \ {u} : holder'[k] = holder[k]
        /\ heap' = heap /\ message' = message /\ app' = app \ {b} /\ fromPlugin' = fromPlugin
        /\ b \in app /\ Unused(b) /\ b # NULL
    BY <1>1, <1>3 DEF OwnershipInv, TypeOK, BufferNew
  <2>2. TypeOK'
    BY <1>3 DEF OwnershipInv, TypeOK, BufferNew, Holder, Pointers
  <2>3. OneOwner'
    BY <1>1, <2>1 DEF OwnershipInv, OneOwner, Owns, Holder, Unused
  <2>4. PointersLive'
    BY <1>1, <2>1 DEF OwnershipInv, PointersLive, Holder
  <2>5. LentIsNotOwned'
    BY <1>1, <2>1 DEF OwnershipInv, OneOwner, LentIsNotOwned, Owns, Holder, Unused
  <2> QED
    BY <2>2, <2>3, <2>4, <2>5 DEF OwnershipInv
<1>4. ASSUME BufferTake(u) PROVE OwnershipInv'
  <2>1. /\ holder'[u] = [holder[u] EXCEPT !.data = NULL]
        /\ \A k \in Holders \ {u} : holder'[k] = holder[k]
        /\ heap' = heap /\ message' = message /\ app' = app \cup Owned(u)
        /\ holder[u].live /\ holder[u].owned /\ fromPlugin' = fromPlugin
    BY <1>1, <1>4 DEF OwnershipInv, TypeOK, LentIsNotOwned, BufferTake
  <2>2. TypeOK'
    BY <1>1, <1>4 DEF BufferTake, OwnershipInv, TypeOK, Owned, Pointers
  <2>3. \A b \in Owned(u) : /\ b \in heap /\ b # message
                            /\ \A k \in Holders \ {u} : ~Owns(k, b)
    BY <1>1, <2>1 DEF OwnershipInv, TypeOK, OneOwner, PointersLive, Owned, Owns, Pointers
  <2>4. OneOwner'
    BY <1>1, <2>1, <2>3 DEF OwnershipInv, TypeOK, OneOwner, Owns, Pointers
  <2>5. PointersLive'
    BY <1>1, <2>1, <2>3 DEF OwnershipInv, TypeOK, PointersLive
  <2>6. LentIsNotOwned'
    BY <1>1, <2>1 DEF OwnershipInv, TypeOK, LentIsNotOwned, Owns
  <2> QED
    BY <2>2, <2>4, <2>5, <2>6 DEF OwnershipInv
<1> QED
  BY <1>2, <1>3, <1>4 DEF BufferStep

(* The messages and the outputs of a plugin are new memory.                *)
LEMMA PluginStepKeeps ==
    ASSUME OwnershipInv, PluginStep
    PROVE  OwnershipInv'
<1> USE TensorsAssumption
<1>1. ASSUME NEW m \in Pointers, Status(m) PROVE OwnershipInv'
  BY <1>1 DEF OwnershipInv, TypeOK, OneOwner, PointersLive, LentIsNotOwned, Owns,
              Status, Fresh, Pointers
<1>2. ASSUME NEW t \in Tensors, NEW o \in Tensors, NEW b \in Blocks, Run(t, o, b)
      PROVE  OwnershipInv'
  <2>1. PICK junk \in BOOLEAN : holder' = [holder EXCEPT ![o] = Holder(b, junk)]
    BY <1>2 DEF Run, Output
  <2>2. /\ ~holder[o].live /\ b \notin heap /\ b \in Pointers /\ o \in Holders
        /\ heap' = heap \cup ({b} \ {NULL})
        /\ app' = app /\ message' = message /\ fromPlugin' \subseteq Blocks /\ fromPlugin \subseteq fromPlugin'
    BY <1>2 DEF Run, Output, Fresh, Pointers, Holders, OwnershipInv, TypeOK
  <2> QED
    BY <2>1, <2>2, NewHolderKeeps
<1>3. ASSUME NEW t \in Tensors, NEW o \in Tensors, NEW b \in Blocks, NEW m \in Pointers,
             RunWithStatus(t, o, b, m)
      PROVE  OwnershipInv'
  <2>1. PICK junk \in BOOLEAN : holder' = [holder EXCEPT ![o] = Holder(b, junk)]
    BY <1>3 DEF RunWithStatus, Output
  <2>2. /\ b \notin heap /\ b # NULL /\ o \in Holders /\ o \in Tensors
        /\ m = NULL \/ (m \in Blocks \ heap /\ m # b)
        /\ heap' = heap \cup {b} \cup ({m} \ {NULL})
        /\ app' = app /\ message' = m /\ message' \in fromPlugin' \cup {NULL}
        /\ fromPlugin' \subseteq Blocks
    BY <1>3 DEF RunWithStatus, Output, Fresh, Pointers, Holders, OwnershipInv, TypeOK
  <2>3. /\ holder'[o] = Holder(b, junk)
        /\ \A k \in Holders \ {o} : holder'[k] = holder[k]
    BY <2>1, <2>2 DEF OwnershipInv, TypeOK
  <2>4. TypeOK'
    BY <2>1, <2>2 DEF OwnershipInv, TypeOK, Holder, Pointers
  <2>5. OneOwner'
    BY <2>2, <2>3 DEF OwnershipInv, TypeOK, OneOwner, PointersLive, Owns, Holder, Pointers
  <2>6. PointersLive'
    BY <2>2, <2>3 DEF OwnershipInv, PointersLive, Holder
  <2>7. LentIsNotOwned'
    BY <2>2, <2>3 DEF OwnershipInv, TypeOK, PointersLive, LentIsNotOwned, Owns, Holder, Pointers
  <2> QED
    BY <2>4, <2>5, <2>6, <2>7 DEF OwnershipInv
<1> QED
  BY <1>1, <1>2, <1>3 DEF PluginStep

LEMMA TensorStepKeeps ==
    ASSUME Informed, OwnershipInv, NEW t \in Tensors, TensorStep(t)
    PROVE  OwnershipInv'
<1> USE TensorsAssumption
<1>1. t \in Holders /\ NULL \in Pointers /\ NULL \notin heap /\ Blocks \subseteq Pointers
      /\ fromPlugin \subseteq Blocks
  BY DEF Holders, Pointers, OwnershipInv, TypeOK
<1>2. CASE TensorNew(t)
  BY <1>1, <1>2, NewHolderKeeps DEF TensorNew
<1>3. CASE TensorAllocateNoMemory(t)
  BY <1>1, <1>3, NewHolderKeeps DEF TensorAllocateNoMemory
<1>4. ASSUME NEW b \in Blocks, TensorAllocate(t, b) PROVE OwnershipInv'
  BY <1>1, <1>4, NewHolderKeeps DEF TensorAllocate, Fresh
<1>5. CASE TensorDestroy(t)
  BY <1>1, <1>5, DestroyKeeps DEF TensorDestroy
<1>6. ASSUME NEW d \in Pointers, SetData(t, d) PROVE OwnershipInv'
  BY <1>6, SetDataKeeps
<1> QED
  BY <1>2, <1>3, <1>4, <1>5, <1>6 DEF TensorStep

LEMMA NodeStepKeeps ==
    ASSUME OwnershipInv, NEW n \in Nodes, NodeStep(n)
    PROVE  OwnershipInv'
<1> USE TensorsAssumption
<1>1. n \in Holders /\ Blocks \subseteq Pointers /\ fromPlugin \subseteq Blocks
  BY DEF Holders, Pointers, OwnershipInv, TypeOK
<1>2. ASSUME NEW b \in Blocks, NodeNew(n, b) PROVE OwnershipInv'
  BY <1>1, <1>2, NewHolderKeeps DEF NodeNew, Fresh
<1>3. CASE NodeDestroy(n)
  BY <1>1, <1>3, DestroyKeeps DEF NodeDestroy
<1> QED
  BY <1>2, <1>3 DEF NodeStep

(* No memory of tensors, buffers and nodes (ops/tf.c, ops/torch.c) is      *)
(* freed twice or used after it was freed, whatever an application that    *)
(* heeds the flag owned does with however many of them.                    *)
THEOREM OwnershipHolds ==
    ASSUME Informed
    PROVE  Spec => []OwnershipInv
<1>1. Init => OwnershipInv
  BY TensorsAssumption DEF Init, OwnershipInv, TypeOK, OneOwner, PointersLive, LentIsNotOwned,
     Owns, Gone, Pointers
<1>2. OwnershipInv /\ [Next]_vars => OwnershipInv'
  <2> SUFFICES ASSUME OwnershipInv, [Next]_vars PROVE OwnershipInv'
    OBVIOUS
  <2>1. CASE Next
    BY <2>1, AppStepKeeps, TensorStepKeeps, BufferStepKeeps, NodeStepKeeps, PluginStepKeeps
       DEF Next
  <2>2. CASE UNCHANGED vars
    BY <2>2 DEF vars, OwnershipInv, TypeOK, OneOwner, PointersLive, LentIsNotOwned, Owns
  <2> QED
    BY <2>1, <2>2
<1> QED
  BY <1>1, <1>2, PTL DEF Spec

(* What the application has lent to a tensor (set_data of ops/tf.c and     *)
(* ops/torch.c) no call of the library frees, whatever was allocated, lent *)
(* or given away before.                                                   *)
THEOREM LentIsKept ==
    ASSUME Informed
    PROVE  Spec => LentKept
<1>1. OwnershipInv /\ [Next]_vars => [\A b \in app : b \notin heap' => AppFree(b)]_vars
  <2> SUFFICES ASSUME OwnershipInv, Next, NEW b \in app, b \notin heap'
               PROVE  AppFree(b)
    OBVIOUS
  <2>1. b \in Blocks /\ b \in heap /\ \A h \in Holders : b \notin Owned(h)
    BY DEF OwnershipInv, TypeOK, OneOwner, PointersLive, Owned, Owns
  <2>2. CASE AppStep
    BY <2>1, <2>2 DEF AppStep, AppMalloc, AppFree
  <2>3. ASSUME NEW t \in Tensors, TensorStep(t) PROVE FALSE
    BY <2>1, <2>3 DEF TensorStep, TensorNew, TensorAllocateNoMemory, TensorDestroy, Destroy,
       TensorAllocate, SetData, Holders
  <2>4. ASSUME NEW u \in Buffers, BufferStep(u) PROVE FALSE
    BY <2>1, <2>4 DEF BufferStep, BufferTake, BufferDestroy, Destroy, BufferNew, Holders
  <2>5. ASSUME NEW n \in Nodes, NodeStep(n) PROVE FALSE
    BY <2>1, <2>5 DEF NodeStep, NodeDestroy, Destroy, NodeNew, Holders
  <2>6. CASE PluginStep
    BY <2>1, <2>6 DEF PluginStep, Status, Run, RunWithStatus
  <2> QED
    BY <2>2, <2>3, <2>4, <2>5, <2>6 DEF Next
<1> QED
  BY <1>1, OwnershipHolds, PTL DEF Spec, LentKept

(* Every allocated block has somebody who frees it, or comes from a plugin.*)
LEMMA NothingLostStep ==
    ASSUME OwnershipInv, NothingLost, Next
    PROVE  NothingLost'
<1> USE TensorsAssumption
<1>1. CASE AppStep
  BY <1>1 DEF OwnershipInv, TypeOK, OneOwner, NothingLost, Owns, AppStep, AppMalloc, AppFree, Fresh
<1>2. ASSUME NEW h \in Holders, ~holder[h].live,
             holder' = [holder EXCEPT ![h] = holder'[h]],
             NEW b \in Pointers, heap' = heap \cup ({b} \ {NULL}),
             UNCHANGED <<app, message, fromPlugin>>,
             b = NULL \/ Owns(h, b)'
      PROVE  NothingLost'
  BY <1>2 DEF OwnershipInv, TypeOK, NothingLost, Owns
<1>3. ASSUME NEW h \in Holders, Destroy(h) PROVE NothingLost'
  BY <1>3 DEF OwnershipInv, TypeOK, NothingLost, Owns, Owned, Destroy, Gone
<1>4. ASSUME NEW t \in Tensors, TensorStep(t) PROVE NothingLost'
  <2>1. t \in Holders /\ NULL \in Pointers /\ heap = heap \cup ({NULL} \ {NULL})
        /\ Blocks \subseteq Pointers /\ holder = [h \in Holders |-> holder[h]]
    BY DEF Holders, Pointers, OwnershipInv, TypeOK
  <2>2. CASE TensorNew(t) \/ TensorAllocateNoMemory(t)
    BY <1>2, <2>1, <2>2 DEF TensorNew, TensorAllocateNoMemory
  <2>3. ASSUME NEW b \in Blocks, TensorAllocate(t, b) PROVE NothingLost'
    BY <1>2, <2>1, <2>3 DEF TensorAllocate, Owns, Holder, Fresh
  <2>4. CASE TensorDestroy(t)
    BY <1>3, <2>1, <2>4 DEF TensorDestroy
  <2>5. ASSUME NEW d \in Pointers, SetData(t, d) PROVE NothingLost'
    BY <2>1, <2>5 DEF SetData, OwnershipInv, TypeOK, OneOwner, NothingLost, Owns, Owned, Pointers
  <2> QED
    BY <1>4, <2>2, <2>3, <2>4, <2>5 DEF TensorStep
<1>5. ASSUME NEW u \in Buffers, BufferStep(u) PROVE NothingLost'
  <2>1. u \in Holders /\ u \notin Tensors
    BY DEF Holders
  <2>2. CASE BufferDestroy(u)
    BY <1>3, <2>1, <2>2 DEF BufferDestroy
  <2>3. ASSUME NEW b \in Blocks, BufferNew(u, b) PROVE NothingLost'
    BY <2>1, <2>3 DEF BufferNew, OwnershipInv, TypeOK, NothingLost, Owns, Holder
  <2>4. CASE BufferTake(u)
    <3>1. /\ holder'[u].live = holder[u].live
          /\ \A k \in Holders \ {u} : holder'[k] = holder[k]
          /\ UNCHANGED <<heap, message, fromPlugin>> /\ app' = app \cup Owned(u)
      BY <2>1, <2>4 DEF BufferTake, OwnershipInv, TypeOK
    <3>2. ASSUME NEW b \in heap, Owns(u, b) PROVE b \in app'
      BY <3>1, <3>2 DEF OwnershipInv, TypeOK, Owns, Owned
    <3> QED
      BY <3>1, <3>2 DEF NothingLost, Owns
  <2> QED
    BY <1>5, <2>2, <2>3, <2>4 DEF BufferStep
<1>6. ASSUME NEW n \in Nodes, NodeStep(n) PROVE NothingLost'
  <2>1. n \in Holders /\ Blocks \subseteq Pointers
    BY DEF Holders, Pointers
  <2>2. ASSUME NEW b \in Blocks, NodeNew(n, b) PROVE NothingLost'
    BY <2>1, <2>2 DEF NodeNew, NothingLost, OwnershipInv, TypeOK, Owns, Holder, Fresh
  <2> QED
    BY <1>3, <1>6, <2>1, <2>2 DEF NodeStep, NodeDestroy
<1>7. CASE PluginStep
  <2>1. ASSUME NEW m \in Pointers, Status(m) PROVE NothingLost'
    BY <2>1 DEF Status, OwnershipInv, TypeOK, PointersLive, NothingLost, Owns
  <2>2. ASSUME NEW t \in Tensors, NEW o \in Tensors, NEW b \in Blocks,
               Run(t, o, b) PROVE NothingLost'
    BY <2>2 DEF Run, Output, OwnershipInv, TypeOK, NothingLost, Owns
  <2>3. ASSUME NEW t \in Tensors, NEW o \in Tensors, NEW b \in Blocks, NEW m \in Pointers,
               RunWithStatus(t, o, b, m) PROVE NothingLost'
    BY <2>3 DEF RunWithStatus, Output, OwnershipInv, TypeOK, PointersLive, NothingLost, Owns
  <2> QED
    BY <1>7, <2>1, <2>2, <2>3 DEF PluginStep
<1> QED
  BY <1>1, <1>4, <1>5, <1>6, <1>7 DEF Next

(* Memory of tensors, buffers and nodes (ops/tf.c, ops/torch.c) that no    *)
(* plugin has allocated always has somebody who frees it.                  *)
THEOREM NothingIsLost ==
    ASSUME Informed
    PROVE  Spec => []NothingLost
<1>1. Init => NothingLost
  BY DEF Init, NothingLost
<1>2. OwnershipInv /\ NothingLost /\ [Next]_vars => NothingLost'
  <2>1. OwnershipInv /\ NothingLost /\ UNCHANGED vars => NothingLost'
    BY DEF vars, NothingLost, Owns
  <2> QED
    BY <2>1, NothingLostStep
<1> QED
  BY <1>1, <1>2, OwnershipHolds, PTL DEF Spec
=============================================================================
