------------------------------- MODULE MCCore --------------------------------
(* Constant values of the model-checking instances of MTCore. *)
EXTENDS MTCore, TLC

CONSTANTS p1, p2, p3, p4

(* Three addresses, two of which collide in the last slot of a table of    *)
(* two or four slots, so that probing wraps around.                        *)
Ptrs == {p1, p2, p3}
Collide == (p1 :> 3) @@ (p2 :> 3) @@ (p3 :> 0)

(* Two addresses with the same home slot *)
FewPtrs == {p1, p2}
CollideFew == (p1 :> 1) @@ (p2 :> 1)

(* Four addresses for a table of four slots: three collide in the last.    *)
ManyPtrs == {p1, p2, p3, p4}
CollideMany == (p1 :> 3) @@ (p2 :> 3) @@ (p3 :> 3) @@ (p4 :> 4)

(* Addresses with one hash value may be exchanged: nothing in the tracker  *)
(* compares addresses but for equality.  No run of MTCore checks liveness.  *)
ExchangeablePair == Permutations({p1, p2})
Exchangeable == Permutations({p1, p2, p3})

(* Two files with different hashes, or one file *)
TwoFiles == {"a", "b"}
TwoIds == ("a" :> 1) @@ ("b" :> 2)
OneFile == {"a"}
OneId == ("a" :> 1)
=============================================================================
