--------------------------- MODULE MCWatchRewards ---------------------------
(* Instances of the watch rewards for TLC. *)
EXTENDS WatchRewards, TLC

Symmetry == Permutations(Viewers) \cup Permutations(Sessions) \cup Permutations(Streamers)
                \cup Permutations(Requests)

(* One viewer of a channel that has had no streamer. *)
Alone ==
    /\ Cardinality({v \in Viewers : SessionsOf(v) # {}}) <= 1
    /\ streamer = NoStreamer /\ \A m \in Streamers : broadcastStat[m] = 0

(* Bound: with a second viewer or a streamer the clock stops at 2, the      *)
(* channel keeps its lowest rate and nobody clicks.                         *)
Focus ==
    \/ Alone
    \/ now <= 2 /\ perPoint = Min(SecondsPerPoint) /\ \A v \in Viewers : clickedAt[v] = Never
=============================================================================
