---------------------------- MODULE MCBitsPurchase ---------------------------
(* Constants with which TLC checks BitsPurchase.                             *)
EXTENDS BitsPurchase, TLC

TenBits == [p \in Purchases |-> 10]
Symmetry == Permutations(Requests) \cup Permutations(Users)
=============================================================================
