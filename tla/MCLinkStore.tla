----------------------------- MODULE MCLinkStore -----------------------------
(* Instances of LinkStore for TLC. *)
EXTENDS LinkStore, TLC

CONSTANTS w1, w2, a1, i1, i2

WebOnly == [r \in {w1, w2} |-> "web"]
TwoWebAndAdmin == [r \in {w1, w2, a1} |-> IF r = a1 THEN "admin" ELSE "web"]
WebAndAdmin == [r \in {w1, a1} |-> IF r = a1 THEN "admin" ELSE "web"]
IdAndSlotSymmetry == Permutations({i1, i2}) \cup Permutations({w1, w2})
=============================================================================
