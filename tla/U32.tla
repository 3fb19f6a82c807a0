--------------------------------- MODULE U32 ---------------------------------
(***************************************************************************)
(* The uint32_t arithmetic of the tracker, for a width given by U32Max     *)
(* (UINT32_MAX in the code; small in the model-checking instances, so that *)
(* wrapping, clamping and saturation happen within a few operations).      *)
(***************************************************************************)
EXTENDS Integers

CONSTANT U32Max

ASSUME U32Assumption == U32Max \in Nat \ {0}

Word == 0..U32Max

(* Mutant of Inc: the counter outgrows its type *)
IncUnbounded(x) == x + 1

(* x++ on a uint32_t *)
Inc(x) == IF x = U32Max THEN 0 ELSE x + 1

(* The cast (uint32_t)x of a size_t *)
Trunc(x) == x % (U32Max + 1)

(* mt_clamp_size_u32: a size_t that does not fit becomes UINT32_MAX *)
Clamp(x) == IF x > U32Max THEN U32Max ELSE x

(* Mutant of AddSat: plain uint32_t addition *)
AddWrapping(x, d) == (x + d) % (U32Max + 1)

(* g_current_used after mt_add_current_used(d): saturates *)
AddSat(x, d) == IF U32Max - x < d THEN U32Max ELSE x + d

(* g_current_used after mt_sub_current_used(d): floors at zero *)
SubFloor(x, d) == IF x < d THEN 0 ELSE x - d

=============================================================================
