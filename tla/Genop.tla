------------------------------- MODULE Genop -------------------------------
(***************************************************************************)
(* vaccel_genop (src/src/ops/genop.c), through which an operation is       *)
(* called with lists of arguments, and the unpack functions it calls.      *)
(* Each of them looks at the number of arguments and either refuses        *)
(* (EINVAL) or calls the function of an operation: the value is its type.  *)
(*                                                                         *)
(*   args.read    what there is in the array read: the number nr of its    *)
(*                elements, and whether the pointer to it is NULL          *)
(*   args.write   the same of the array write                              *)
(*   args.object  what the first argument is as the id of a resource:      *)
(*                of "none", of one that is "empty" or of a "filled" one   *)
(***************************************************************************)
EXTENDS Integers

EINVAL == "EINVAL"

Pointer(n) == [nr |-> n, null |-> FALSE]

Exactly(args, nr_read, nr_write, type) ==
    IF args.read.nr = nr_read /\ args.write.nr = nr_write THEN type ELSE EINVAL

vaccel_noop_unpack(args) ==
    IF \A a \in {args.read, args.write} : a.nr = 0 /\ a.null THEN "NO_OP" ELSE EINVAL

vaccel_sgemm_unpack(args) == Exactly(args, 7, 1, "BLAS_SGEMM")

vaccel_image_op_unpack(type, args, nr_write) == Exactly(args, 1, nr_write, type)

(* The image operations that answer an image, and the one that answers a   *)
(* text as well.                                                           *)
vaccel_image_unpack(type, args) == vaccel_image_op_unpack(type, args, 1)

vaccel_image_classification_unpack(args) == vaccel_image_op_unpack("IMG_CLASS", args, 2)

vaccel_exec_unpack(args) == IF args.read.nr < 2 THEN EINVAL ELSE "EXEC"

(* The library is that of the resource whose id is an argument: the call   *)
(* is a vaccel_exec all the same.  A resource that is not found and one    *)
(* without a shared object are refused.                                    *)
vaccel_exec_with_res_unpack(args) ==
    IF args.read.nr < 2 \/ args.object # "filled" THEN EINVAL ELSE "EXEC"

vaccel_minmax_unpack(args) == Exactly(args, 4, 3, "MINMAX")

vaccel_fpga_arraycopy_unpack(args) == Exactly(args, 1, 1, "F_ARRAYCOPY")

vaccel_fpga_mmult_unpack(args) == Exactly(args, 2, 1, "F_MMULT")

vaccel_fpga_parallel_unpack(args) == Exactly(args, 2, 2, "F_PARALLEL")

vaccel_fpga_vadd_unpack(args) == Exactly(args, 2, 1, "F_VECTORADD")

(* Its test of the arguments is not compiled. *)
vaccel_opencv_unpack(args) == "OPENCV"

(* The operations of TensorFlow and Torch have vaccel_noop_unpack. *)
callbacks(type, args) ==
    CASE type = "BLAS_SGEMM" -> vaccel_sgemm_unpack(args)
      [] type = "IMG_CLASS" -> vaccel_image_classification_unpack(args)
      [] type \in {"IMG_DETEC", "IMG_SEGME", "IMG_POSE", "IMG_DEPTH"} ->
            vaccel_image_unpack(type, args)
      [] type = "EXEC" -> vaccel_exec_unpack(args)
      [] type = "MINMAX" -> vaccel_minmax_unpack(args)
      [] type = "F_ARRAYCOPY" -> vaccel_fpga_arraycopy_unpack(args)
      [] type = "F_MMULT" -> vaccel_fpga_mmult_unpack(args)
      [] type = "F_PARALLEL" -> vaccel_fpga_parallel_unpack(args)
      [] type = "F_VECTORADD" -> vaccel_fpga_vadd_unpack(args)
      [] type = "EXEC_WITH_RESOURCE" -> vaccel_exec_with_res_unpack(args)
      [] type = "OPENCV" -> vaccel_opencv_unpack(args)
      [] OTHER -> vaccel_noop_unpack(args)

(* The first element of read is the type; the pointer to the rest is not   *)
(* NULL even when there is none.                                           *)
vaccel_genop(type, nr_read, write, object) ==
    IF nr_read = 0 THEN EINVAL
    ELSE callbacks(type, [read |-> Pointer(nr_read - 1), write |-> write, object |-> object])
=============================================================================
