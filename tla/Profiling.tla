----------------------------- MODULE Profiling -----------------------------
(***************************************************************************)
(* A profiling region of src/src/profiling/vaccel_prof.c as a value, and   *)
(* what its functions make of it while profiling is enabled (when it is    *)
(* not they return at once).                                               *)
(*                                                                         *)
(*   nr        nr_entries, how many samples were taken                     *)
(*   size      the size of the array of samples                            *)
(*   samples   the array: a sample is "new" in memory nobody has written,  *)
(*             then "started", then "timed"                                *)
(***************************************************************************)
EXTENDS Naturals, Sequences

CONSTANT MinSamples     \* MIN_SAMPLES

ASSUME MinSamplesAssumption == MinSamples \in Nat \ {0}

(* VACCEL_PROF_REGION_INIT *)
StaticRegion == [nr |-> 0, size |-> 0, samples |-> <<>>]

IsRegion(r) ==
    /\ r \in [nr : Nat, size : Nat, samples : Seq({"new", "started", "timed"})]
    /\ Len(r.samples) = r.size

(* grow_samples_array: realloc keeps the samples there are. *)
grow_samples_array(r) ==
    LET alloc_size == IF r.size > 0 THEN 2 * r.size ELSE MinSamples
    IN  [r EXCEPT !.size = alloc_size,
                  !.samples = [k \in 1 .. alloc_size |-> IF k <= r.size THEN @[k] ELSE "new"]]

(* A mutant of Full: the array overflows by one. *)
FullLate(r) == r.nr > r.size

Full(r) == r.nr >= r.size

(* get_next_sample, before it counts: the next sample is in the array. *)
MakeRoom(r) == IF Full(r) THEN grow_samples_array(r) ELSE r

(* The k-th sample is written.  A write outside the array is not recorded. *)
Write(r, k, sample) ==
    [r EXCEPT !.samples = [j \in 1 .. r.size |-> IF j = k THEN sample ELSE r.samples[j]]]

(* The rest of vaccel_prof_region_start: n samples become n + 1, and the   *)
(* one at the position that was read before starts.                        *)
StartSample(r, position, n) == Write([r EXCEPT !.nr = n + 1], position + 1, "started")

(* get_last_sample, then prof_sample_stop: with no sample nothing is done. *)
vaccel_prof_region_stop(r) == IF r.nr = 0 THEN r ELSE Write(r, r.nr, "timed")

(* The array is grown, whatever size the region says it has. *)
vaccel_prof_region_init(r) == grow_samples_array([r EXCEPT !.nr = 0])

(* What vaccel_prof_regions_init makes of each region of its array. *)
vaccel_prof_regions_init(r) == vaccel_prof_region_init([r EXCEPT !.size = 0, !.samples = <<>>])

(* vaccel_prof_regions_clear: nr_entries is not reset. *)
vaccel_prof_regions_clear(r) == [r EXCEPT !.size = 0, !.samples = <<>>]

vaccel_prof_region_destroy(r) == StaticRegion

(* vaccel_prof_region_print and its like can add up the times: each one    *)
(* has been written.                                                       *)
Printable(r) == \A k \in 1 .. r.nr : k <= r.size /\ r.samples[k] = "timed"
=============================================================================
