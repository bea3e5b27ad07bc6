------------------------------- MODULE Files -------------------------------
(***************************************************************************)
(* struct vaccel_file of src/src/resources/file.c as a value, and what its *)
(* functions make of it.                                                   *)
(*                                                                         *)
(*   path   "null", or a string the library allocated: the path of a file  *)
(*          of the application ("user"), of a file the library has created *)
(*          ("own"), or memory that was freed since ("freed")              *)
(*   owned  path_owned                                                     *)
(*   data   "null", memory of the application ("buffer"), a mapping        *)
(*          ("map"), the answer MAP_FAILED of an mmap ("failed"), or a     *)
(*          mapping that was unmapped since ("gone")                       *)
(*   size   the length of data                                             *)
(*                                                                         *)
(* That allocations fail (malloc, strdup, fdopen) is left out.             *)
(***************************************************************************)
EXTENDS Integers

CONSTANTS
    Sizes,      \* the lengths of the files and buffers of the application
    Block       \* the size of the buffer of a stdio stream

ASSUME SizesAssumption == Sizes \subseteq Nat \ {0}
ASSUME BlockAssumption == Block \in Nat \ {0}

(* What fwrite has handed to the system before the stream is closed: whole *)
(* blocks.                                                                 *)
Flushed(n) == (n \div Block) * Block

File == [path : {"null", "user", "own", "freed"}, owned : BOOLEAN,
         data : {"null", "buffer", "map", "failed", "gone"},
         size : Sizes \cup {Flushed(n) : n \in Sizes} \cup {0}]

(* A file of a structure that calloc returned. *)
NoFile == [path |-> "null", owned |-> FALSE, data |-> "null", size |-> 0]

(* vaccel_file_new, for a path that can be read. *)
vaccel_file_new(f) == [path |-> "user", owned |-> FALSE, data |-> "null", size |-> 0]

(* vaccel_file_from_buffer without persisting: path_owned is not written.  *)
vaccel_file_from_buffer(f, n) ==
    [path |-> "null", owned |-> f.owned, data |-> "buffer", size |-> n]

(* read_file of a file that has n bytes: mmap refuses a length of zero,    *)
(* which is not noticed, for its answer is then MAP_FAILED and not NULL.   *)
read_file(f, n) == [f EXCEPT !.data = IF n = 0 THEN "failed" ELSE "map", !.size = n]

(* What vaccel_file_persist asks of the file.                              *)
MayPersist(f) == f.data # "null" /\ f.size > 0 /\ f.path = "null"

(* vaccel_file_persist: the file is created, written, and mapped before    *)
(* the stream it was written with is closed.                               *)
vaccel_file_persist(f) ==
    read_file([f EXCEPT !.path = "own", !.owned = TRUE], Flushed(f.size))

(* A mutant of PersistFailed: the path is freed and not reset. *)
PersistFailedKeepsPath(f) == [f EXCEPT !.path = "freed", !.owned = TRUE]

(* The same, when the file cannot be opened, written or read: what there   *)
(* is of the file is removed, the path is freed, the data is what it was.  *)
PersistFailed(f) == [f EXCEPT !.owned = TRUE]

(* vaccel_file_destroy: the mapping goes (a munmap that fails is ignored), *)
(* the path goes, and the fields of the structure stay as they are.        *)
vaccel_file_destroy(f) ==
    IF f.path = "null"
    THEN f
    ELSE [f EXCEPT !.path = "freed", !.data = IF @ \in {"map", "buffer"} THEN "gone" ELSE @]

(* A mutant of Removes: the file on the disk is forgotten. *)
RemovesNothing(f) == FALSE

(* It removes the file from the disk. *)
Removes(f) == f.path = "own" /\ f.owned

(* The file can be given to vaccel_file_destroy: nothing is freed twice,   *)
(* no memory of the application is unmapped and no file of it removed.     *)
Destroyable(f) ==
    /\ f.path # "freed"
    /\ f.path # "null" => f.data \notin {"buffer", "gone"}
    /\ f.path = "user" => ~f.owned

(* vaccel_file_initialized *)
vaccel_file_initialized(f) == f.path # "null" \/ (f.data # "null" /\ f.size > 0)

(* vaccel_file_data finds no data, and a path to read it from. *)
NeedsReading(f) == f.data = "null" /\ f.path # "null"
=============================================================================
