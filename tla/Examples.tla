------------------------------ MODULE Examples ------------------------------
(***************************************************************************)
(* The programs of src/examples, as sequences of the calls they make that  *)
(* open, use or close something.  Names are those of their variables.      *)
(* What Clients does with a step s:                                        *)
(*   s.needs      the states s.on may be in when the call is made          *)
(*   s.then, s.else   its state when the call succeeds, or fails           *)
(*   s.silent     its state when the call answers that it has succeeded    *)
(*                and has not; "never" when that does not happen           *)
(*   s.otherwise  where the program goes when it fails: a label, an exit   *)
(*                or, when nobody looks at the result, "go on"             *)
(*   s.assigns    the results that are assigned to ret                     *)
(*   s.loop       the call is made again and again, or not at all          *)
(*   s.type, s.reached, s.sizes   an operation, whether vaccel_genop finds *)
(*                it, and the number of elements of its arrays             *)
(* Usage messages, texts and the contents of arrays are left out.          *)
(***************************************************************************)
EXTENDS Sequences, Integers

G == INSTANCE Genop

AnyState == {"unset", "null", "bad", "set", "filled", "live", "freed"}
Closed == {"unset", "freed"}

Step(call, on, needs, then, otherwise) ==
    [call |-> call, on |-> on, needs |-> needs, then |-> then, else |-> "same",
     silent |-> "never", otherwise |-> otherwise, assigns |-> {"OK", "failed"}, loop |-> FALSE,
     type |-> "", reached |-> TRUE, sizes |-> <<>>]

Loop(step) == [step EXCEPT !.loop = TRUE]

(* if (call() != VACCEL_OK) *)
Test(step) == [step EXCEPT !.assigns = {}]

(* call(); *)
Just(step) == [step EXCEPT !.otherwise = "go on", !.assigns = {}]

(* p = call(); if (!p) *)
OrNull(step) == [step EXCEPT !.else = "null", !.assigns = {"failed"}]

Label(name) == Just(Step("label", name, AnyState, "same", "go on"))
Return(value) == Just(Step("return", value, AnyState, "same", "go on"))
-----------------------------------------------------------------------------
(* The library *)

SessInit(otherwise) == Step("vaccel_sess_init", "sess", Closed, "live", otherwise)
SessFree(otherwise) == Step("vaccel_sess_free", "sess", {"live"}, "freed", otherwise)
Register(r, otherwise) == Step("vaccel_sess_register", r, {"live"}, "same", otherwise)
Unregister(r, otherwise) == Step("vaccel_sess_unregister", r, {"live"}, "same", otherwise)

(* A model or shared object with its resource, from a path or a buffer *)
New(r, otherwise) == Step("new", r, Closed, "live", otherwise)
Destroy(r, otherwise) == Step("destroy", r, {"live"}, "freed", otherwise)

(* A saved model has a structure, set to zeros, then it is filled with its *)
(* files, then it has a resource.                                          *)
ModelNew(r, otherwise) == OrNull(Step("model_new", r, Closed, "set", otherwise))
RegisterModel(r, otherwise) == Step("model_register", r, {"set", "filled"}, "live", otherwise)

(* ..._set_path: a file for which no name matches stays what it was, and   *)
(* the answer is VACCEL_OK.                                                *)
SetFiles(call, r, otherwise) ==
    [Step(call, r, {"unset", "set"}, "filled", otherwise) EXCEPT !.silent = "same"]

(* vaccel_tf_saved_model_set_model and so on: one of the files *)
SetFile(r, otherwise) == Step("set_file", r, {"set", "filled"}, "filled", otherwise)

OpOn(type, r, otherwise) ==
    [Step("op", r, {"live"}, "same", otherwise) EXCEPT !.type = type]

Op(type, otherwise) == OpOn(type, "sess", otherwise)

Genop(type, nr_read, nr_write, otherwise) ==
    [Op(type, otherwise) EXCEPT
        !.reached = G!vaccel_genop(type, nr_read, G!Pointer(nr_write), "none") = type]

Arrays(op, sizes) == [op EXCEPT !.sizes = sizes]
-----------------------------------------------------------------------------
(* Memory and files *)

Malloc(p, otherwise) == OrNull(Step("malloc", p, Closed, "live", otherwise))
Use(p) == Just(Step("use", p, {"live"}, "same", "go on"))
Free(p) == Just(Step("free", p, {"null", "live"}, "freed", "go on"))

(* fopen and fscanf, into what is there already *)
ReadValues(otherwise) ==
    [Step("read_file", "ret", AnyState, "same", otherwise) EXCEPT !.assigns = {"failed"}]

(* ret = read_file(..., &p): p is not written when it fails. *)
ReadInto(p, otherwise) == Step("read_file", p, Closed, "live", otherwise)

(* p = read_file(...) *)
ReadFile(p, otherwise) == OrNull(Step("read_file", p, AnyState, "live", otherwise))

(* The read_file of tf_saved_model.c tests for NULL when mmap answers      *)
(* MAP_FAILED.                                                             *)
MapFile(p, otherwise) == [ReadFile(p, otherwise) EXCEPT !.silent = "bad"]

(* The first n elements of an array are printed. *)
PrintArray(n, size) == Arrays(Just(Step("print", "ret", AnyState, "same", "go on")), <<n, size>>)
-----------------------------------------------------------------------------
(* Images *)

ImageProgram(op) ==
    <<SessInit("exit 1"),
      ReadInto("image", "close_session"),
      Loop(op),
      Label("close_session"),
      Free("image"),
      Test(SessFree("exit 1")),
      Return("ret")>>

classify == ImageProgram(Op("IMG_CLASS", "close_session"))
detect == ImageProgram(Op("IMG_DETEC", "close_session"))
segment == ImageProgram(Op("IMG_SEGME", "close_session"))
pose == ImageProgram(Op("IMG_POSE", "close_session"))
depth == ImageProgram(Op("IMG_DEPTH", "close_session"))
classify_generic == ImageProgram(Genop("IMG_CLASS", 2, 2, "close_session"))
detect_generic == ImageProgram(Genop("IMG_DETEC", 2, 1, "close_session"))
segment_generic == ImageProgram(Genop("IMG_SEGME", 2, 1, "close_session"))
pose_generic == ImageProgram(Genop("IMG_POSE", 2, 1, "close_session"))
depth_generic == ImageProgram(Genop("IMG_DEPTH", 2, 1, "close_session"))
-----------------------------------------------------------------------------
(* Programs that need nothing but a session *)

(* A mutant of SessionProgram: the result of the operation is lost. *)
SessionProgramOK(ops) ==
    <<SessInit("exit 1")>>
    \o ops
    \o <<Label("close_session"), Test(SessFree("exit 1")), Return("0")>>

SessionProgram(ops) ==
    <<SessInit("exit 1")>>
    \o ops
    \o <<Label("close_session"), Test(SessFree("exit 1")), Return("ret")>>

noop == SessionProgram(<<Op("NO_OP", "close_session")>>)
exec == SessionProgram(<<Loop(Op("EXEC", "close_session"))>>)
exec_generic == SessionProgram(<<Loop(Genop("EXEC", 4, 1, "close_session"))>>)

(* arrays a and b *)
pynq_array_copy ==
    SessionProgram(<<Arrays(Op("F_ARRAYCOPY", "close_session"), <<6, 6>>),
                     PrintArray(6, 6)>>)

pynq_array_copy_generic ==
    SessionProgram(<<Arrays(Genop("F_ARRAYCOPY", 2, 1, "close_session"), <<6, 6>>),
                     PrintArray(6, 6)>>)

(* arrays a, b and c *)
pynq_vector_add ==
    SessionProgram(<<Arrays(Op("F_VECTORADD", "close_session"), <<5, 5, 5>>),
                     PrintArray(5, 5)>>)

pynq_vector_add_generic ==
    SessionProgram(<<Arrays(Genop("F_VECTORADD", 3, 1, "close_session"), <<6, 5, 6>>),
                     PrintArray(6, 6)>>)

(* arrays a, b, c and d *)
pynq_parallel ==
    SessionProgram(<<Arrays(Op("F_PARALLEL", "close_session"), <<4, 4, 4, 4>>),
                     PrintArray(4, 4), PrintArray(4, 4)>>)

(* After the first operation it prints as many elements as a has bytes. *)
pynq_parallel_generic ==
    SessionProgram(<<Arrays(Genop("F_PARALLEL", 3, 2, "close_session"), <<4, 4, 4, 4>>),
                     PrintArray(16, 4), PrintArray(16, 4),
                     Arrays(Op("F_PARALLEL", "close_session"), <<4, 4, 4, 4>>),
                     PrintArray(4, 4), PrintArray(4, 4)>>)
-----------------------------------------------------------------------------
(* Matrices and vectors *)

sgemm ==
    <<SessInit("exit ret"),
      Op("BLAS_SGEMM", "out"),
      Label("out"),
      Just(SessFree("")),
      Return("ret")>>

(* Nobody asks whether there is memory for m, n and k. *)
sgemm_generic ==
    <<Malloc("A", "free_out"),
      Malloc("B", "free_out_1"),
      Malloc("C", "free_out_2"),
      Malloc("m", "go on"), Malloc("n", "go on"), Malloc("k", "go on"),
      Use("m"), Use("n"), Use("k"),
      SessInit("exit ret"),
      Genop("BLAS_SGEMM", 8, 1, "out"),
      Label("out"),
      Just(SessFree("")),
      Free("C"),
      Label("free_out_2"),
      Free("A"),
      Label("free_out_1"),
      Free("B"),
      Label("free_out"),
      Return("ret")>>

(* A mutant of MinmaxProgram: its session stays open when the operation    *)
(* fails.                                                                  *)
MinmaxProgramKeepsSession(op) ==
    <<Malloc("indata", "exit 1"),
      ReadValues("free_in"),
      Malloc("outdata", "free_out"),
      SessInit("free_out"),
      [op EXCEPT !.otherwise = "free_out"],
      Just(SessFree("")),
      Label("free_out"),
      Free("outdata"),
      Label("free_in"),
      Free("indata"),
      Return("ret")>>

MinmaxProgram(op) ==
    <<Malloc("indata", "exit 1"),
      ReadValues("free_in"),
      Malloc("outdata", "free_out"),
      SessInit("free_out"),
      op,
      Label("close_sess"),
      Just(SessFree("")),
      Label("free_out"),
      Free("outdata"),
      Label("free_in"),
      Free("indata"),
      Return("ret")>>

minmax == MinmaxProgram(Op("MINMAX", "close_sess"))
minmax_generic == MinmaxProgram(Genop("MINMAX", 5, 3, "close_sess"))
-----------------------------------------------------------------------------
(* Shared objects and models *)

(* A mutant of OpenTwo: the second object is not registered. *)
OpenTwoRegisterOne(x, y) ==
    <<New(x, "exit 1"),
      SessInit("exit 1"),
      Register(x, "exit 1"),
      ReadFile("buff", "exit 1"),
      New(y, "exit 1")>>

(* exec_with_res.c and tf_model.c have the same code for two objects: the  *)
(* first is made from a path, the second from the contents of the file.    *)
OpenTwo(x, y) ==
    <<New(x, "exit 1"),
      SessInit("exit 1"),
      Register(x, "exit 1"),
      ReadFile("buff", "exit 1"),
      New(y, "exit 1"),
      Register(y, "exit 1")>>

(* A mutant of CloseTwo: the second object is destroyed where it is used. *)
CloseTwoAtOnce(x, y) ==
    <<Unregister(x, "exit 1"),
      Destroy(x, "exit 1"),
      Destroy(y, "exit 1"),
      SessFree("exit 1"),
      Free("buff")>>

CloseTwo(x, y) ==
    <<Unregister(x, "exit 1"),
      Unregister(y, "exit 1"),
      Destroy(x, "exit 1"),
      Destroy(y, "exit 1"),
      SessFree("exit 1"),
      Free("buff")>>

(* On the way out after a failed operation the results of the calls take   *)
(* its place in ret.                                                       *)
exec_with_res ==
    OpenTwo("object", "object2")
    \o <<Loop(OpOn("EXEC_WITH_RESOURCE", "object", "close_session")),
         Loop(OpOn("EXEC_WITH_RESOURCE", "object2", "close_session"))>>
    \o CloseTwo("object", "object2")
    \o <<Return("0"), Label("close_session")>>
    \o CloseTwo("object", "object2")
    \o <<Return("ret")>>

tf_model == OpenTwo("model", "model2") \o CloseTwo("model", "model2") \o <<Return("0")>>

(* tf_saved_model.c: a registered model is used in a session, and goes     *)
(* before it.                                                              *)
UseModel(r) ==
    <<RegisterModel(r, "exit ret"),
      SessInit("exit ret"),
      Register(r, "exit ret"),
      Unregister(r, "exit ret"),
      Destroy(r, "exit ret"),
      Just(SessFree(""))>>

create_from_path ==
    <<ModelNew("model", "exit 1"),
      SetFiles("vaccel_tf_saved_model_set_path", "model", "exit ret")>> \o UseModel("model")

(* ptr points to one file after the other here; the registration reads     *)
(* them.                                                                   *)
create_from_in_mem ==
    <<ModelNew("model2", "exit 1"),
      MapFile("saved_model.pb", "exit 1"), SetFile("model2", "exit ret"),
      MapFile("checkpoint", "exit 1"), SetFile("model2", "exit ret"),
      MapFile("variables.index", "exit 1"), SetFile("model2", "exit ret"),
      Use("saved_model.pb"), Use("checkpoint"), Use("variables.index")>> \o UseModel("model2")

tf_saved_model == create_from_path \o create_from_in_mem \o <<Return("ret")>>

(* The structure of the model is on the stack, as it is in torch_inference. *)
tf_inference ==
    <<SetFiles("vaccel_tf_saved_model_set_path", "model", "exit 1"),
      RegisterModel("model", "exit 1"),
      SessInit("destroy_resource"),
      Register("model", "close_session"),
      OpOn("TF_SESSION_LOAD", "model", "unregister_resource"),
      Malloc("in", "exit 1"),
      OpOn("TF_SESSION_RUN", "model", "unload_session"),
      Label("unload_session"),
      Just(OpOn("TF_SESSION_DELETE", "model", "")),
      Label("unregister_resource"),
      Just(Unregister("model", "")),
      Label("close_session"),
      Just(SessFree("")),
      Label("destroy_resource"),
      Just(Destroy("model", "")),
      Return("ret")>>

(* Three different failures lead to close_session, one of them before      *)
(* there is a session, another without a result.                           *)
torch_inference ==
    <<SetFiles("vaccel_torch_saved_model_set_path", "model", "exit 1"),
      RegisterModel("model", "exit 1"),
      ReadInto("image", "close_session"),
      SessInit("destroy_resource"),
      Register("model", "close_session"),
      Test(Malloc("in", "close_session")),
      OpOn("TORCH_JITLOAD_FORWARD", "model", "close_session"),
      Unregister("model", "return_sess_free"),
      Label("close_session"),
      Test(SessFree("exit 1")),
      Label("destroy_resource"),
      Just(Destroy("model", "")),
      Return("ret"),
      Label("return_sess_free"),
      SessFree(""),
      Return("ret")>>
-----------------------------------------------------------------------------
AllPrograms ==
    [classify |-> classify, detect |-> detect, segment |-> segment, pose |-> pose,
     depth |-> depth, classify_generic |-> classify_generic,
     detect_generic |-> detect_generic, segment_generic |-> segment_generic,
     pose_generic |-> pose_generic, depth_generic |-> depth_generic,
     noop |-> noop, exec |-> exec, exec_generic |-> exec_generic,
     pynq_array_copy |-> pynq_array_copy,
     pynq_array_copy_generic |-> pynq_array_copy_generic,
     pynq_vector_add |-> pynq_vector_add,
     pynq_vector_add_generic |-> pynq_vector_add_generic,
     pynq_parallel |-> pynq_parallel, pynq_parallel_generic |-> pynq_parallel_generic,
     sgemm |-> sgemm, sgemm_generic |-> sgemm_generic,
     minmax |-> minmax, minmax_generic |-> minmax_generic,
     exec_with_res |-> exec_with_res, tf_model |-> tf_model,
     tf_saved_model |-> tf_saved_model, tf_inference |-> tf_inference,
     torch_inference |-> torch_inference]
=============================================================================
