--------------------------- MODULE MCAccountPages ----------------------------
(* Constants with which TLC checks AccountPages.                             *)
EXTENDS AccountPages, TLC

Roles == [u \in Users |-> IF u = "s" THEN "streamer" ELSE "agency"]
OldTable == [c \in Channels |-> {"g"}]
Ids == "a" :> "1" @@ "b" :> "2"

Symmetry == Permutations(Requests) \cup Permutations(Addresses) \cup Permutations(Viewers)

(* Bound: two entries and one draw. *)
FewEntries ==
    /\ Cardinality({n \in Names : entrant[n] # NoViewer}) <= 2
    /\ Cardinality({n \in Names : draw[n] # "none"}) <= 1
=============================================================================
