------------------------------- MODULE MCLink --------------------------------
(* Constant values of the model-checking instances of MTV1Link. *)
EXTENDS MTV1Link

(* A payload that is a magic, one that is too long, a snapshot too short to *)
(* be sent and one that is sent, which ends like a magic begins, and the end *)
Messages ==
  {[type |-> "telemetry", payload |-> Magic],
   [type |-> "mark", payload |-> <<"x", "x", "x", "x", "x">>],
   [type |-> "snapshot", payload |-> <<"x">>],
   [type |-> "snapshot", payload |-> <<"x", "M">>],
   [type |-> "end", payload |-> <<>>]}

(* What a header that the line garbled may say: no payload and the end, a   *)
(* payload that is too short, the longest, which reaches over a whole frame *)
GarbledHeaders ==
  {[type |-> "end", len |-> 0], [type |-> "none", len |-> 1],
   [type |-> "mark", len |-> 5]}

(* Bound: two faults in three frames, one where a fourth frame follows *)
Sparse == Len(sent) > 3 => faults <= 1

MCSpec == Init /\ [][Next /\ Sparse']_linkVars
=============================================================================
