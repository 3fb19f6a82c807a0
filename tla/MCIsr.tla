------------------------------- MODULE MCIsr ---------------------------------
(* Constant values of the model-checking instances of MTIsr. *)
EXTENDS MTIsr, TLC

CONSTANTS p1, p2, p3, main, isr, task1, task2

(* Two colliding addresses and one that does not collide *)
Ptrs == {p1, p2, p3}
Collide == (p1 :> 1) @@ (p2 :> 1) @@ (p3 :> 0)

(* Two addresses with the same home slot *)
FewPtrs == {p1, p2}
CollideFew == (p1 :> 1) @@ (p2 :> 1)

(* Main code and one interrupt handler *)
IsrCtx == {main, isr}
IsrPreempts == {<<isr, main>>}

(* Two tasks the scheduler switches between at any point *)
TaskCtx == {task1, task2}
TaskPreempts == {<<task1, task2>>, <<task2, task1>>}
=============================================================================
