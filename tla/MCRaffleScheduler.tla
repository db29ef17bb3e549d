-------------------------- MODULE MCRaffleScheduler --------------------------
(* Constants with which TLC checks RaffleScheduler.                          *)
EXTENDS RaffleScheduler

Owner == <<"s1", "s2", "s2">>
OneOfS2 == [s \in Streamers |-> IF s = "s2" THEN {"v"} ELSE {}]
=============================================================================
