------------------------------- MODULE Airdrop -------------------------------
(***************************************************************************)
(* AirdropService for one channel: an amount is shared out among the       *)
(* viewers who watch, in proportion to their watch time, and a UTC day's   *)
(* airdrops stay within the channel's limit.                               *)
(*                                                                         *)
(* Each attempt is one SERIALIZABLE transaction with a snapshot: Attempt   *)
(* is what it reads, Commit what it writes.  PostgreSQL aborts (40001) an  *)
(* attempt whose day's total another airdrop has changed since, and may    *)
(* abort any other one, for a ledger row changed by a heartbeat say.       *)
(***************************************************************************)
EXTENDS Calls, Integers, FiniteSets, FiniteSetsExt

CONSTANTS
    Viewers,        \* user ids, in the order of their text form
    MaxSeconds,     \* bound: the watch time of a session
    Amounts,        \* the amounts a streamer asks for
    Limits,         \* what daily_airdrop_limit may hold; 0 also for no row
    DefaultLimit,   \* defaultDailyAirdropLimit (5000)
    MaxAttempts,    \* maxAirdropTxRetries (5)
    Days            \* bound: the days the clock reaches

ASSUME AirdropAssumption ==
    /\ Viewers \subseteq Nat /\ IsFiniteSet(Viewers) /\ IsFiniteSet(Requests)
    /\ MaxSeconds \in Nat /\ Amounts \subseteq Nat \ {0}
    /\ Limits \subseteq Nat /\ DefaultLimit \in Nat
    /\ MaxAttempts \in Nat \ {0} /\ Days \in Nat \ {0}

VARIABLES
    today,          \* the clock's day
    session,        \* accumulated_seconds of a viewer's fresh active session, or Absent
    limit,          \* channel_configs.daily_airdrop_limit
    airdropped      \* the airdrop transactions of a viewer and a day, summed

airdropVars == <<today, session, limit, airdropped, call>>

Absent == -1
watching == {v \in Viewers : session[v] # Absent}

Total(f, S) == SumFunctionOnSet(f, S)

(* Before its k-th attempt, in an attempt, and at its end. *)
Start(n, k) == [place |-> "start", amount |-> n, attempt |-> k]
Sharing(n, k, d, share) ==
    [place |-> "sharing", amount |-> n, attempt |-> k, day |-> d, share |-> share,
     overtaken |-> FALSE]
Refused == [place |-> "refused"]
Ended(place, n, d) == [place |-> place, amount |-> n, day |-> d]

AirdropInit ==
    /\ today = 1
    /\ session = [v \in Viewers |-> Absent]
    /\ limit \in Limits
    /\ airdropped = [v \in Viewers |-> [d \in 1..Days |-> 0]]
    /\ call \in [Requests -> {Start(n, 1) : n \in Amounts}]

-----------------------------------------------------------------------------
(* distributeAirdrop: the largest remainders take what rounding leaves.     *)

(* The order of the remainders; the seconds and then the id decide a tie.   *)
Before(v, w, rest, acc) ==
    \/ rest[v] > rest[w]
    \/ rest[v] = rest[w] /\ acc[v] > acc[w]
    \/ rest[v] = rest[w] /\ acc[v] = acc[w] /\ v < w

(* Mutant: what rounding leaves is not given to anybody. *)
RoundedDown(amount, S, acc) ==
    LET weight == IF Total(acc, S) = 0 THEN [v \in S |-> 1] ELSE acc
    IN  [v \in S |-> (amount * weight[v]) \div Total(weight, S)]

(* Mutant: the remainders are sorted the wrong way round. *)
SmallestRemainder(amount, S, acc) ==
    LET weight == IF Total(acc, S) = 0 THEN [v \in S |-> 1] ELSE acc
        sum == Total(weight, S)
        rest == [v \in S |-> (amount * weight[v]) % sum]
        floor == [v \in S |-> (amount * weight[v]) \div sum]
        left == amount - Total(floor, S)
    IN  [v \in S |->
            floor[v] + IF Cardinality({w \in S : Before(v, w, rest, acc)}) < left THEN 1 ELSE 0]

(* Without any watch time all viewers weigh the same. *)
Shares(amount, S, acc) ==
    LET weight == IF Total(acc, S) = 0 THEN [v \in S |-> 1] ELSE acc
        sum == Total(weight, S)
        rest == [v \in S |-> (amount * weight[v]) % sum]
        floor == [v \in S |-> (amount * weight[v]) \div sum]
        left == amount - Total(floor, S)
    IN  [v \in S |->
            floor[v] + IF Cardinality({w \in S : Before(w, v, rest, acc)}) < left THEN 1 ELSE 0]

-----------------------------------------------------------------------------
(* The service.                                                            *)

DailyLimit == IF limit > 0 THEN limit ELSE DefaultLimit
TodayTotal(d) == Total([v \in Viewers |-> airdropped[v][d]], Viewers)

(***************************************************************************)
(* One attempt's reads: the day it is anchored to, the viewers, the limit  *)
(* and the day's total, and the shares that follow from them.  Nobody      *)
(* watching, or too little left of the limit, ends the call.               *)
(***************************************************************************)
Attempt(r) ==
    /\ call[r].place = "start"
    /\ LET n == call[r].amount
       IN  Become(r, IF watching # {} /\ n <= DailyLimit - TodayTotal(today)
                     THEN Sharing(n, call[r].attempt, today, Shares(n, watching, session))
                     ELSE Refused)
    /\ UNCHANGED <<today, session, limit, airdropped>>

(* Mutant: the transaction is not SERIALIZABLE. *)
SnapshotOnly(r) == call[r].place = "sharing"
Serializable(r) == call[r].place = "sharing" /\ ~call[r].overtaken

(***************************************************************************)
(* The points are written, dated to the anchor, and every other attempt    *)
(* for the same day can no longer commit.  The acknowledgement may be lost *)
(* and the call then answers with an error.                                *)
(***************************************************************************)
Commit(r) ==
    /\ Serializable(r)
    /\ LET c == call[r]
       IN  /\ airdropped' = [v \in Viewers |->
                  IF v \in DOMAIN c.share THEN [airdropped[v] EXCEPT ![c.day] = @ + c.share[v]]
                  ELSE airdropped[v]]
           /\ \E place \in {"paid", "unknown"} :
                 call' = [q \in Requests |->
                     IF q = r THEN Ended(place, c.amount, c.day)
                     ELSE IF call[q].place = "sharing" /\ call[q].day = c.day
                     THEN [call[q] EXCEPT !.overtaken = TRUE]
                     ELSE call[q]]
    /\ UNCHANGED <<today, session, limit>>

(* A serialization failure: another attempt reads everything again. *)
Retry(r) ==
    /\ call[r].place = "sharing"
    /\ Become(r, IF call[r].attempt < MaxAttempts THEN Start(call[r].amount, call[r].attempt + 1)
                 ELSE Refused)
    /\ UNCHANGED <<today, session, limit, airdropped>>

(* Any other error rolls back and ends the call; the commit may be what failed. *)
Fail(r) ==
    /\ call[r].place = "sharing"
    /\ Become(r, Refused) \/ Become(r, Ended("unknown", call[r].amount, call[r].day))
    /\ UNCHANGED <<today, session, limit, airdropped>>

-----------------------------------------------------------------------------
(* What goes on beside it.                                                 *)

(* A session starts, or a stale one has a heartbeat again. *)
Arrive(v) ==
    /\ session[v] = Absent
    /\ \E n \in 0..MaxSeconds : session' = [session EXCEPT ![v] = n]
    /\ UNCHANGED <<today, limit, airdropped, call>>

Heartbeat(v) ==
    /\ session[v] \in 0..MaxSeconds - 1
    /\ session' = [session EXCEPT ![v] = @ + 1]
    /\ UNCHANGED <<today, limit, airdropped, call>>

(* The session ends, or its last heartbeat is staleThreshold ago. *)
Leave(v) ==
    /\ session[v] # Absent
    /\ session' = [session EXCEPT ![v] = Absent]
    /\ UNCHANGED <<today, limit, airdropped, call>>

Midnight ==
    /\ today < Days
    /\ today' = today + 1
    /\ UNCHANGED <<session, limit, airdropped, call>>

AirdropNext ==
    \/ \E r \in Requests : Attempt(r) \/ Commit(r) \/ Retry(r) \/ Fail(r)
    \/ \E v \in Viewers : Arrive(v) \/ Heartbeat(v) \/ Leave(v)
    \/ Midnight

AirdropSpec == AirdropInit /\ [][AirdropNext]_airdropVars

-----------------------------------------------------------------------------
(* Properties.                                                             *)

SharingCalls(S) ==
    [place : {"sharing"}, amount : Amounts, attempt : 1..MaxAttempts, day : 1..Days,
     share : [S -> Nat], overtaken : BOOLEAN]

CallOK(c) ==
    \/ c \in {Refused} \cup {Start(n, k) : n \in Amounts, k \in 1..MaxAttempts}
    \/ c \in {Ended(place, n, d) : place \in {"paid", "unknown"}, n \in Amounts, d \in 1..Days}
    \/ \E S \in SUBSET Viewers : c \in SharingCalls(S) /\ \A v \in S : c.share[v] <= c.amount

(* Every table and call holds values of its kind; no airdrop takes points away. *)
AirdropTypeOK ==
    /\ today \in 1..Days
    /\ session \in [Viewers -> {Absent} \cup 0..MaxSeconds]
    /\ limit \in Limits
    /\ airdropped \in [Viewers -> [1..Days -> Nat]]
    /\ DOMAIN call = Requests /\ \A r \in Requests : CallOK(call[r])

(***************************************************************************)
(* However the calls overlap each other and midnight, no day's airdrops    *)
(* exceed the limit.                                                       *)
(***************************************************************************)
DailyLimitHolds == \A d \in 1..Days : TodayTotal(d) <= DailyLimit

(* The amounts of the calls that ended at one of the places, for day d. *)
AmountsOf(places, d) ==
    LET answered == {r \in Requests : call[r].place \in places /\ call[r].day = d}
    IN  Total([r \in answered |-> call[r].amount], answered)

(***************************************************************************)
(* To the point, a day's transactions are the amounts the calls report:    *)
(* rounding loses and makes none, a retried call pays once, and only a     *)
(* call whose answer is an error after the commit is in doubt.             *)
(***************************************************************************)
AirdropsPaidInFull ==
    \A d \in 1..Days :
        /\ TodayTotal(d) >= AmountsOf({"paid"}, d)
        /\ TodayTotal(d) <= AmountsOf({"paid", "unknown"}, d)

(***************************************************************************)
(* An attempt gives each viewer it finds less than a point more or less    *)
(* than the exact proportion, and to nobody who watched longer less than   *)
(* to one who watched shorter.                                             *)
(***************************************************************************)
SharesAreProportional ==
    [][\A r \in Requests : (call[r].place = "start" /\ call'[r].place = "sharing") =>
          LET n == call[r].amount
              share == call'[r].share
              sum == Total(session, watching)
          IN  /\ DOMAIN share = watching
              /\ \A v, w \in watching : session[v] > session[w] => share[v] >= share[w]
              /\ sum > 0 => \A v \in watching :
                    /\ share[v] * sum - n * session[v] < sum
                    /\ n * session[v] - share[v] * sum < sum]_airdropVars
=============================================================================
