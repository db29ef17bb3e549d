--------------------------- MODULE MCTokenEconomy ----------------------------
(* Constants with which TLC checks TokenEconomy.                             *)
EXTENDS TokenEconomy, TLC

CONSTANTS u1

AllOfOne == [l \in Ledgers |-> u1]

EconomySymmetry == Permutations(Claims) \cup Permutations(Redemptions)
==============================================================================
