------------------------------ MODULE MCReaders ------------------------------
(* Constant values of the model-checking instances of MTReaders. *)
EXTENDS MTReaders, TLC

CONSTANTS p1, p2, p3

(* Three addresses in a table of three slots; the order of the slots is not *)
(* that of the addresses.                                                   *)
Ptrs == {p1, p2, p3}
Homes == (p1 :> 2) @@ (p2 :> 2) @@ (p3 :> 0)
Addresses == (p1 :> 30) @@ (p2 :> 10) @@ (p3 :> 20)

(* The arguments from the last to the first *)
LastFirst == <<"seq", "line", "file_id", "size", "ptr">>

OneFile == {"a"}
OneId == ("a" :> 1)
=============================================================================
