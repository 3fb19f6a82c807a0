------------------------------ MODULE MCProbe --------------------------------
(* Constant values of the model-checking instance of ProbeLoops: three     *)
(* addresses whose probe sequences start in the last, last and first slot. *)
EXTENDS ProbeLoops, TLC

CONSTANTS p1, p2, p3

Ptrs == {p1, p2, p3}
Collide == (p1 :> 3) @@ (p2 :> 7) @@ (p3 :> 0)
=============================================================================
