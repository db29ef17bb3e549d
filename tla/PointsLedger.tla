---------------------------- MODULE PointsLedger ----------------------------
(***************************************************************************)
(* The per-channel T-Point ledgers of PointsService: one points_ledgers    *)
(* row per viewer and channel, and the points_transactions history every   *)
(* change of spendable_balance appends to.  The claim flow (ClaimMint)     *)
(* extends this module: it deducts from, and credits back, the same rows.  *)
(*                                                                         *)
(* A ledger is a natural number: the order of the numbers is the order     *)
(* created_at ASC, id ASC in which a claim consumes the ledgers.           *)
(***************************************************************************)
EXTENDS Integers, FiniteSets, FiniteSetsExt

CONSTANTS
    Users,          \* the viewers
    Ledgers,        \* the points_ledgers rows, numbered in creation order
    OwnerOf,        \* the viewer each ledger belongs to (user_id)
    InitialPoints,  \* what a ledger may hold after the credit that created it
    Amounts,        \* the amounts a credit or a deduction may carry
    MaxEarned       \* bound: cumulative_total of one ledger

ASSUME LedgerAssumption ==
    /\ Ledgers \subseteq Nat
    /\ IsFiniteSet(Ledgers)
    /\ OwnerOf \in [Ledgers -> Users]
    /\ InitialPoints \subseteq Nat \ {0}
    /\ Amounts \subseteq Int
    /\ MaxEarned \in Nat

VARIABLES
    spendable,      \* points_ledgers.spendable_balance
    cumulative,     \* points_ledgers.cumulative_total
    history,        \* the points_transactions rows of each ledger
    lastId          \* the newest row id a ledger has used (ids are UUID v7)

ledgerVars == <<spendable, cumulative, history, lastId>>

(* A points_transactions row; ids grow with time.  The balance snapshot    *)
(* balance_after, which only the history's display reads, is left out.     *)
Entry(id, source, delta) == [id |-> id, source |-> source, delta |-> delta]

Entries ==
    [id : Nat, source : {"earn", "spend", "claim"}, delta : Int]

LedgersOf(u) == {l \in Ledgers : OwnerOf[l] = u}

(* Sum of the values f[x] for x in S. *)
Total(f, S) == SumFunctionOnSet(f, S)

(***************************************************************************)
(* Changes the spendable balance of each ledger by change[l] and appends   *)
(* the row that says so; a ledger whose change is 0 is not touched.        *)
(***************************************************************************)
Post(change, source) ==
    /\ spendable' = [l \in Ledgers |-> spendable[l] + change[l]]
    /\ lastId' = [l \in Ledgers |-> IF change[l] = 0 THEN lastId[l] ELSE lastId[l] + 1]
    /\ history' = [l \in Ledgers |->
          IF change[l] = 0 THEN history[l]
          ELSE history[l] \cup {Entry(lastId[l] + 1, source, change[l])}]

Only(l, n) == [k \in Ledgers |-> IF k = l THEN n ELSE 0]

-----------------------------------------------------------------------------

LedgerInit ==
    /\ spendable \in [Ledgers -> InitialPoints]
    /\ cumulative = spendable
    /\ lastId = [l \in Ledgers |-> 1]
    /\ history = [l \in Ledgers |-> {Entry(1, "earn", spendable[l])}]

(***************************************************************************)
(* addPointsWithMetaAt: the upsert adds to both balances.                  *)
(***************************************************************************)
AddPoints(l, n) ==
    /\ n > 0
    /\ cumulative[l] + n <= MaxEarned
    /\ cumulative' = [cumulative EXCEPT ![l] = @ + n]
    /\ Post(Only(l, n), "earn")

(* DeductPoints: only spendable_balance falls, and never below zero. *)
DeductPoints(l, n) ==
    /\ n > 0
    /\ spendable[l] >= n
    /\ Post(Only(l, -n), "spend")
    /\ UNCHANGED cumulative

LedgerNext ==
    \E l \in Ledgers, n \in Amounts : AddPoints(l, n) \/ DeductPoints(l, n)

-----------------------------------------------------------------------------

LedgerTypeOK ==
    /\ spendable \in [Ledgers -> Nat]
    /\ cumulative \in [Ledgers -> Nat]
    /\ lastId \in [Ledgers -> Nat]
    /\ history \in [Ledgers -> SUBSET Entries]

(* The deltas of a ledger's history, summed. *)
HistoryTotal(l) == Total([e \in history[l] |-> e.delta], history[l])

(***************************************************************************)
(* The history explains the balance: whatever claims, rollbacks,           *)
(* compensations, credits and deductions have interleaved, the deltas of   *)
(* a ledger's remaining points_transactions add up to spendable_balance.   *)
(***************************************************************************)
HistoryExplainsBalance == \A l \in Ledgers : HistoryTotal(l) = spendable[l]
=============================================================================
