---------------------------- MODULE PointExchange ----------------------------
(***************************************************************************)
(* What the claim flow promises, without its tables, transactions, chain   *)
(* calls and crashes: a stake takes points from a viewer and is either     *)
(* held for good, paid out in tokens once, or given back once.  A viewer's *)
(* points are one number, whatever channels they were earned in.           *)
(***************************************************************************)
EXTENDS Integers

CONSTANTS
    Users,      \* the viewers
    Stakes,     \* the exchanges
    Nobody,     \* the owner of a stake not placed
    Credits,    \* the amounts points are earned and spent in
    MaxStake    \* bound: the points of one stake

VARIABLES
    points,     \* points[u]: what u can still spend or exchange
    tokens,     \* tokens[u]: what u received in exchange
    owner,      \* owner[s]: who placed the stake
    size,       \* size[s]: the points taken for it
    phase       \* "open", "held", "paid" or "returned"

vars == <<points, tokens, owner, size, phase>>

Init ==
    /\ points \in [Users -> Nat]
    /\ tokens = [u \in Users |-> 0]
    /\ owner = [s \in Stakes |-> Nobody]
    /\ size = [s \in Stakes |-> 0]
    /\ phase = [s \in Stakes |-> "open"]

Earn(u, n) ==
    /\ n > 0
    /\ points' = [points EXCEPT ![u] = @ + n]
    /\ UNCHANGED <<tokens, owner, size, phase>>

Spend(u, n) ==
    /\ n > 0
    /\ n <= points[u]
    /\ points' = [points EXCEPT ![u] = @ - n]
    /\ UNCHANGED <<tokens, owner, size, phase>>

Place(s, u, n) ==
    /\ phase[s] = "open"
    /\ n <= points[u]
    /\ points' = [points EXCEPT ![u] = @ - n]
    /\ owner' = [owner EXCEPT ![s] = u]
    /\ size' = [size EXCEPT ![s] = n]
    /\ phase' = [phase EXCEPT ![s] = "held"]
    /\ UNCHANGED tokens

Pay(s) ==
    /\ phase[s] = "held"
    /\ tokens' = [tokens EXCEPT ![owner[s]] = @ + size[s]]
    /\ phase' = [phase EXCEPT ![s] = "paid"]
    /\ UNCHANGED <<points, owner, size>>

Return(s) ==
    /\ phase[s] = "held"
    /\ points' = [points EXCEPT ![owner[s]] = @ + size[s]]
    /\ phase' = [phase EXCEPT ![s] = "returned"]
    /\ UNCHANGED <<tokens, owner, size>>

Next ==
    \/ \E u \in Users, n \in Credits : Earn(u, n) \/ Spend(u, n)
    \/ \E s \in Stakes :
          \/ \E u \in Users, n \in 1..MaxStake : Place(s, u, n)
          \/ Pay(s)
          \/ Return(s)

Spec == Init /\ [][Next]_vars
=============================================================================
