------------------------------ MODULE MCAirdrop ------------------------------
(* Instances of the airdrop for TLC. *)
EXTENDS Airdrop, TLC

RequestSymmetry == Permutations(Requests)
=============================================================================
