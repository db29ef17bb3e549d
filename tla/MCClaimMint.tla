----------------------------- MODULE MCClaimMint -----------------------------
(* Constants with which TLC checks ClaimMint and what is built on it.        *)
EXTENDS ClaimMint

CONSTANTS u1, c1, c2

TwoLedgersOfOne == [l \in Ledgers |-> u1]
==============================================================================
