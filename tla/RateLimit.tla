------------------------------ MODULE RateLimit ------------------------------
(***************************************************************************)
(* RateLimiter: for each key a window that begins with a request and the   *)
(* number of requests let through in it.  One mutex makes each decision a  *)
(* step; the entries live in the memory of the server.                     *)
(***************************************************************************)
EXTENDS Integers, Sequences, FiniteSets

CONSTANTS
    Keys,           \* limiter name and client address
    Limit,          \* requests in a window (60)
    Window,         \* its length (a minute)
    MaxEntries,     \* entries from which expired ones are removed (10000)
    MaxTime         \* bound: the clock

ASSUME LimitAssumption ==
    /\ Limit \in Nat \ {0} /\ Window \in Nat \ {0}
    /\ MaxEntries \in Nat /\ MaxTime \in Nat

VARIABLES
    now,
    entry,          \* start and count of the window of each key
    passed          \* history: when requests of a key were let through, in order

limitVars == <<now, entry, passed>>

NoEntry == [start |-> 0, count |-> 0]

LimitInit ==
    /\ now = 0
    /\ entry = [k \in Keys |-> NoEntry]
    /\ passed = [k \in Keys |-> <<>>]

(* The window has passed, or there is none. *)
Fresh(e) == e.count = 0 \/ now - e.start >= Window

(* Mutant: the removal takes windows that have not passed. *)
CleanedAll(es, key) == [k \in Keys |-> IF k = key THEN es[k] ELSE NoEntry]

Cleaned(es, key) ==
    IF Cardinality({k \in Keys : es[k] # NoEntry}) < MaxEntries THEN es
    ELSE [k \in Keys |-> IF Fresh(es[k]) /\ k # key THEN NoEntry ELSE es[k]]

(* The first request of a window opens it and tidies the table up. *)
Allow(key) ==
    /\ IF Fresh(entry[key])
       THEN entry' = Cleaned([entry EXCEPT ![key] = [start |-> now, count |-> 1]], key)
       ELSE entry[key].count < Limit /\ entry' = [entry EXCEPT ![key].count = @ + 1]
    /\ passed' = [passed EXCEPT ![key] = Append(@, now)]
    /\ UNCHANGED now

Refuse(key) == ~Fresh(entry[key]) /\ entry[key].count >= Limit /\ UNCHANGED limitVars

Tick == now < MaxTime /\ now' = now + 1 /\ UNCHANGED <<entry, passed>>

(* A restart forgets the windows. *)
Restart ==
    /\ entry' = [k \in Keys |-> NoEntry]
    /\ passed' = [k \in Keys |-> <<>>]
    /\ UNCHANGED now

LimitNext == Tick \/ Restart \/ \E k \in Keys : Allow(k) \/ Refuse(k)

LimitSpec == LimitInit /\ [][LimitNext]_limitVars

-----------------------------------------------------------------------------

LimitTypeOK ==
    /\ now \in Nat
    /\ entry \in [Keys -> [start : 0..now, count : 0..Limit]]
    /\ passed \in [Keys -> Seq(0..now)]

(***************************************************************************)
(* Windows begin with a request, not with the clock: between two restarts  *)
(* no stretch of time as long as a window sees twice the limit, wherever   *)
(* it begins and whatever the removal of old entries does.                 *)
(***************************************************************************)
BurstBound ==
    \A k \in Keys : \A i \in DOMAIN passed[k] :
        i + 2 * Limit - 1 \in DOMAIN passed[k] =>
            passed[k][i + 2 * Limit - 1] - passed[k][i] >= Window
=============================================================================
