------------------------------ MODULE ClaimMint ------------------------------
(***************************************************************************)
(* ClaimService.Claim: exchanging T-Points for $TACHI minted on chain.     *)
(*                                                                         *)
(* One request runs a row of separate database transactions around two     *)
(* chain calls: reserve the points, broadcast the mint, record the         *)
(* broadcast, wait for the receipt, then finalize, compensate or leave the *)
(* claim for reconciliation.  Requests of all viewers interleave between   *)
(* any two of these steps, with credits and deductions of the same         *)
(* ledgers, and the server may crash between any two.                      *)
(*                                                                         *)
(* A database transaction is one step: its row locks serialise it with     *)
(* every other writer of the same rows.  It commits, aborts, or commits    *)
(* although the caller sees an error (the COMMIT acknowledgement is lost). *)
(***************************************************************************)
EXTENDS PointsLedger

CONSTANTS
    Claims,         \* the claim requests; a request's claims row has its name
    Nobody,         \* the zero value of a reservation's user
    Linked,         \* the viewers with a web3 wallet in auth_providers
    ClaimAmounts,   \* the amounts a request may ask for; 0 asks for everything
    MaxClaim        \* bound: the points of one claim

ASSUME ClaimAssumption ==
    /\ IsFiniteSet(Claims)
    /\ Linked \subseteq Users
    /\ ClaimAmounts \subseteq Int
    /\ MaxClaim \in Nat
    /\ Nobody \notin Users

VARIABLES
    status,         \* claims.status; "absent" when there is no row
    hashed,         \* claims.tx_hash is not NULL
    resv,           \* the request's claimReservation, in process memory
    pc,             \* where the request's goroutine is
    tachi,          \* tachi_balances.balance (0 also when there is no row)
    mint,           \* what the chain knows of the request's mint transaction
    wallet          \* the token contract's balance of the viewer's wallet

claimVars == <<status, hashed, resv, pc, tachi, mint, wallet>>
chainVars == <<mint, wallet>>
vars == <<ledgerVars, claimVars>>

(***************************************************************************)
(* items: the points taken from each ledger; rows: the ids of the          *)
(* points_transactions that took them.                                     *)
(***************************************************************************)
NoReservation ==
    [user |-> Nobody, amount |-> 0,
     items |-> [l \in Ledgers |-> 0], rows |-> [l \in Ledgers |-> 0]]

Reservations ==
    [user : Users \cup {Nobody}, amount : Nat,
     items : [Ledgers -> Nat], rows : [Ledgers -> Nat]]

Ended == {"ok", "refused", "error", "crashed"}
Serving ==
    {"mint", "rollback", "record", "wait", "unknown", "compensate", "finalize", "mark"}

ClaimInit ==
    /\ LedgerInit
    /\ status = [c \in Claims |-> "absent"]
    /\ hashed = [c \in Claims |-> FALSE]
    /\ resv = [c \in Claims |-> NoReservation]
    /\ pc = [c \in Claims |-> "idle"]
    /\ tachi = [u \in Users |-> 0]
    /\ mint = [c \in Claims |-> "none"]
    /\ wallet = [u \in Users |-> 0]

Goto(c, places) == \E p \in places : pc' = [pc EXCEPT ![c] = p]

-----------------------------------------------------------------------------
(* The transaction bodies: what each leaves in the tables.                 *)

(* claimAmount: an amount of 0 asks for all the spendable points. *)
AmountFor(u, asked) == IF asked = 0 THEN Total(spendable, LedgersOf(u)) ELSE asked

Admissible(u, amount) ==
    /\ amount > 0
    /\ Total(spendable, LedgersOf(u)) >= amount
    /\ u \in Linked

(***************************************************************************)
(* The deduction loop: ledgers are consumed in creation order, each as far *)
(* as the remaining amount asks, so points leave a ledger only when every  *)
(* older ledger of the viewer is emptied.                                  *)
(***************************************************************************)
Splits(u, amount) ==
    {items \in [Ledgers -> 0..MaxEarned] :
        /\ \A l \in Ledgers : items[l] <= (IF OwnerOf[l] = u THEN spendable[l] ELSE 0)
        /\ Total(items, Ledgers) = amount
        /\ \A k, l \in LedgersOf(u) : k < l /\ items[l] > 0 => items[k] = spendable[k]}

ReserveTx(c, u, amount, items) ==
    /\ resv' = [resv EXCEPT ![c] =
                  [user |-> u, amount |-> amount, items |-> items,
                   rows |-> [l \in Ledgers |-> IF items[l] = 0 THEN 0 ELSE lastId[l] + 1]]]
    /\ status' = [status EXCEPT ![c] = "pending"]
    /\ Post([l \in Ledgers |-> -items[l]], "claim")
    /\ UNCHANGED <<cumulative, hashed, tachi, chainVars>>

(* Mutant: the reserved points are not given back. *)
NotRefunded(c) == spendable
Refunded(c) == [l \in Ledgers |-> spendable[l] + resv[c].items[l]]

(* Mutant: the points_transactions of the claim stay. *)
AllRows(c) == history
RowsOfOthers(c) == [l \in Ledgers |-> {e \in history[l] : e.id # resv[c].rows[l]}]

(* Deletes the claim and its points_transactions, and adds the items back. *)
RollbackTx(c) ==
    /\ status' = [status EXCEPT ![c] = "absent"]
    /\ spendable' = Refunded(c)
    /\ history' = RowsOfOthers(c)
    /\ UNCHANGED <<cumulative, lastId, hashed, resv, tachi, chainVars>>

BroadcastTx(c) ==
    /\ status' = [status EXCEPT ![c] = "broadcast"]
    /\ hashed' = [hashed EXCEPT ![c] = TRUE]
    /\ UNCHANGED <<ledgerVars, resv, tachi, chainVars>>

(* Also sets error_message, which nothing reads back. *)
UnknownTx(c) == BroadcastTx(c)

CompensateTx(c) ==
    /\ status' = [status EXCEPT ![c] = "failed"]
    /\ hashed' = [hashed EXCEPT ![c] = TRUE]
    /\ Post(resv[c].items, "claim")
    /\ UNCHANGED <<cumulative, resv, tachi, chainVars>>

(* Mutant: the status is not part of the update's condition. *)
AnyStatus(c) == TRUE
Finalizable(c) == status[c] \in {"broadcast", "finalize_failed"}

FinalizeTx(c) ==
    /\ Finalizable(c)
    /\ status' = [status EXCEPT ![c] = "confirmed"]
    /\ hashed' = [hashed EXCEPT ![c] = TRUE]
    /\ tachi' = [tachi EXCEPT ![resv[c].user] = @ + resv[c].amount]
    /\ UNCHANGED <<ledgerVars, resv, chainVars>>

MarkTx(c) ==
    /\ Finalizable(c)
    /\ status' = [status EXCEPT ![c] = "finalize_failed"]
    /\ hashed' = [hashed EXCEPT ![c] = TRUE]
    /\ UNCHANGED <<ledgerVars, resv, tachi, chainVars>>

Aborted == UNCHANGED <<ledgerVars, status, hashed, resv, tachi, chainVars>>

-----------------------------------------------------------------------------
(* The steps of a request.                                                 *)

(* The amount, the balance or the wallet does not allow the claim. *)
Refuse(c) ==
    /\ pc[c] = "idle"
    /\ \E u \in Users, asked \in ClaimAmounts : ~Admissible(u, AmountFor(u, asked))
    /\ Goto(c, {"refused"})
    /\ Aborted

Reserve(c) ==
    /\ pc[c] = "idle"
    /\ \E u \in Users, asked \in ClaimAmounts, amount \in 1..MaxClaim :
          /\ amount = AmountFor(u, asked)
          /\ Admissible(u, amount)
          /\ \/ \E items \in Splits(u, amount) :
                    ReserveTx(c, u, amount, items) /\ Goto(c, {"mint", "refused"})
             \/ Aborted /\ Goto(c, {"refused"})

(***************************************************************************)
(* MintBroadcast signs and sends under the token's mutex.  Any call before *)
(* the send may fail and nothing has left; the send itself may fail after  *)
(* the node took the transaction (deadline, canceled request, connection   *)
(* lost), and the caller gets the same error and no hash.                  *)
(***************************************************************************)
BroadcastMint(c) ==
    /\ pc[c] = "mint"
    /\ \/ mint' = [mint EXCEPT ![c] = "mempool"] /\ Goto(c, {"record", "rollback"})
       \/ UNCHANGED mint /\ Goto(c, {"rollback"})
    /\ UNCHANGED <<ledgerVars, status, hashed, resv, tachi, wallet>>

RollBack(c) ==
    /\ pc[c] = "rollback"
    /\ RollbackTx(c) \/ Aborted
    /\ Goto(c, {"error"})

RecordBroadcast(c) ==
    /\ pc[c] = "record"
    /\ \/ BroadcastTx(c) /\ Goto(c, {"wait", "error"})
       \/ Aborted /\ Goto(c, {"error"})

(* Mutants: every wait error counts as a failed mint; a wait has no deadline. *)
AwaitOrCompensate(c) ==
    /\ pc[c] = "wait"
    /\ \/ mint[c] = "mined" /\ Goto(c, {"finalize"})
       \/ Goto(c, {"compensate"})
    /\ Aborted

AwaitForever(c) ==
    /\ pc[c] = "wait"
    /\ \/ mint[c] = "mined" /\ Goto(c, {"finalize"})
       \/ mint[c] = "reverted" /\ Goto(c, {"compensate"})
    /\ Aborted

(* A wait may always end in the deadline or in an RPC error. *)
AwaitReceipt(c) ==
    /\ pc[c] = "wait"
    /\ \/ mint[c] = "mined" /\ Goto(c, {"finalize"})
       \/ mint[c] = "reverted" /\ Goto(c, {"compensate"})
       \/ Goto(c, {"unknown"})
    /\ Aborted

RecordUnknown(c) ==
    /\ pc[c] = "unknown"
    /\ UnknownTx(c) \/ Aborted
    /\ Goto(c, {"error"})

Compensate(c) ==
    /\ pc[c] = "compensate"
    /\ CompensateTx(c) \/ Aborted
    /\ Goto(c, {"error"})

(***************************************************************************)
(* Finalizing a confirmed claim answers with the balance and writes        *)
(* nothing; no request gets there, for each calls finalizeClaim once.      *)
(***************************************************************************)
Finalize(c) ==
    /\ pc[c] = "finalize"
    /\ \/ FinalizeTx(c) /\ Goto(c, {"ok", "mark"})
       \/ Aborted /\ Goto(c, {"mark"})

(* Leaves a claim alone that was confirmed although Finalize saw an error. *)
MarkFinalizeFailed(c) ==
    /\ pc[c] = "mark"
    /\ MarkTx(c) \/ Aborted
    /\ Goto(c, {"error"})

Continue(c) ==
    \/ BroadcastMint(c) \/ RollBack(c) \/ RecordBroadcast(c) \/ AwaitReceipt(c)
    \/ RecordUnknown(c) \/ Compensate(c) \/ Finalize(c) \/ MarkFinalizeFailed(c)

-----------------------------------------------------------------------------
(* The world around the requests.                                          *)

(* The process dies: every request in flight loses its memory. *)
CrashedPc == [c \in Claims |-> IF pc[c] \in Serving THEN "crashed" ELSE pc[c]]

Crash ==
    /\ \E c \in Claims : pc[c] \in Serving
    /\ pc' = CrashedPc
    /\ Aborted

(***************************************************************************)
(* The chain executes a mint it knows, rejects it (the supply cap), or     *)
(* never executes it (its nonce was taken by a burn of the same signer).   *)
(***************************************************************************)
ChainMint(c) ==
    /\ mint[c] = "mempool"
    /\ \/ /\ mint' = [mint EXCEPT ![c] = "mined"]
          /\ wallet' = [wallet EXCEPT ![resv[c].user] = @ + resv[c].amount]
       \/ /\ \E outcome \in {"reverted", "dropped"} : mint' = [mint EXCEPT ![c] = outcome]
          /\ UNCHANGED wallet
    /\ UNCHANGED <<ledgerVars, status, hashed, resv, pc, tachi>>

(* Credits and deductions of the ledgers by the other services. *)
Points == LedgerNext /\ UNCHANGED claimVars

Progress ==
    \/ \E c \in Claims : Refuse(c) \/ Reserve(c) \/ Continue(c) \/ ChainMint(c)
    \/ Points

ClaimNext == Progress \/ Crash

ClaimSpec == ClaimInit /\ [][ClaimNext]_vars

(***************************************************************************)
(* A started request runs on: its goroutine is scheduled, every wait of it *)
(* has a deadline.  Nothing is assumed of requests not yet made, of the    *)
(* chain or of crashes.                                                    *)
(***************************************************************************)
FairClaimSpec == ClaimSpec /\ \A c \in Claims : WF_vars(Continue(c))

-----------------------------------------------------------------------------
(* Properties.                                                             *)

Statuses == {"absent", "pending", "broadcast", "confirmed", "failed", "finalize_failed"}

(* Tables, process memory and chain hold values of the declared kinds. *)
ClaimTypeOK ==
    /\ LedgerTypeOK
    /\ status \in [Claims -> Statuses]
    /\ hashed \in [Claims -> BOOLEAN]
    /\ resv \in [Claims -> Reservations]
    /\ pc \in [Claims -> {"idle"} \cup Serving \cup Ended]
    /\ tachi \in [Users -> Nat]
    /\ mint \in [Claims -> {"none", "mempool", "mined", "reverted", "dropped"}]
    /\ wallet \in [Users -> Nat]

ClaimsIn(u, statuses) == {c \in Claims : resv[c].user = u /\ status[c] \in statuses}
ClaimSizes == [c \in Claims |-> resv[c].amount]
ClaimedBy(u, statuses) == Total(ClaimSizes, ClaimsIn(u, statuses))

Deducted(l) ==
    Total([e \in history[l] |-> IF e.source = "spend" THEN -e.delta ELSE 0], history[l])
DeductedFrom(u) == Total([l \in Ledgers |-> Deducted(l)], LedgersOf(u))

(***************************************************************************)
(* No point is lost or made: what a viewer ever earned is what is still    *)
(* spendable, what was deducted, and what the claims hold that were        *)
(* neither rolled back nor compensated, whichever step of whichever        *)
(* request failed, crashed or lost its acknowledgement; and the history    *)
(* that is left explains every balance.                                    *)
(***************************************************************************)
PointsConserved ==
    /\ HistoryExplainsBalance
    /\ \A u \in Users :
          Total(cumulative, LedgersOf(u)) =
              Total(spendable, LedgersOf(u)) + DeductedFrom(u)
              + ClaimedBy(u, Statuses \ {"absent", "failed"})

(***************************************************************************)
(* The local verdict is the chain's: a claim is confirmed only for a mined *)
(* mint and failed (points returned) only for a reverted one, so no viewer *)
(* of a recorded claim gets both the points and the tokens.                *)
(***************************************************************************)
VerdictMatchesChain ==
    \A c \in Claims :
        /\ status[c] \in {"confirmed", "finalize_failed"} => mint[c] = "mined"
        /\ status[c] = "failed" => mint[c] = "reverted"

(***************************************************************************)
(* Where a request is tells what its row and the chain say: what it read   *)
(* before a step still holds when the step's transaction runs.             *)
(***************************************************************************)
RequestInv ==
    \A c \in Claims :
        /\ pc[c] = "idle" => status[c] = "absent" /\ mint[c] = "none"
        /\ pc[c] = "mint" => status[c] = "pending" /\ mint[c] = "none"
        /\ pc[c] = "rollback" => status[c] = "pending"
        /\ pc[c] = "record" => status[c] = "pending" /\ mint[c] # "none"
        /\ pc[c] \in {"wait", "unknown"} => status[c] = "broadcast"
        /\ pc[c] = "compensate" => status[c] = "broadcast" /\ mint[c] = "reverted"
        /\ pc[c] = "finalize" => status[c] = "broadcast" /\ mint[c] = "mined"
        /\ pc[c] = "mark" => status[c] \in {"broadcast", "confirmed"} /\ mint[c] = "mined"
        /\ status[c] # "absent" => resv[c].user \in Users
        /\ mint[c] # "none" => resv[c].user \in Users
        /\ hashed[c] <=> status[c] \notin {"absent", "pending"}

(***************************************************************************)
(* A status only moves along the claim life cycle, and a confirmed, failed *)
(* or deleted claim never changes again: a late marker does not overwrite  *)
(* a verdict.                                                              *)
(***************************************************************************)
Successors ==
    [absent |-> {"pending"}, pending |-> {"broadcast", "absent"},
     broadcast |-> {"confirmed", "failed", "finalize_failed"},
     finalize_failed |-> {}, confirmed |-> {}, failed |-> {}]

StatusStep ==
    \A c \in Claims :
        status'[c] # status[c] =>
            /\ status'[c] \in Successors[status[c]]
            /\ pc[c] \notin Ended

StatusLifeCycle == [][StatusStep]_vars

(* Every request that reserved points comes to an end. *)
RequestsEnd == \A c \in Claims : pc[c] \in Serving ~> pc[c] \in Ended

(***************************************************************************)
(* The claim flow implements PointExchange: all a viewer's ledgers are one *)
(* balance, a request is a stake, and every database transaction is one    *)
(* abstract step or none.                                                  *)
(***************************************************************************)
PhaseOf(c) ==
    CASE resv[c].user = Nobody -> "open"
      [] resv[c].user # Nobody /\ status[c] \in {"absent", "failed"} -> "returned"
      [] status[c] = "confirmed" -> "paid"
      [] OTHER -> "held"

Exchange == INSTANCE PointExchange WITH
    Stakes <- Claims,
    Credits <- Amounts,
    MaxStake <- MaxClaim,
    points <- [u \in Users |-> Total(spendable, LedgersOf(u))],
    tokens <- tachi,
    owner <- [c \in Claims |-> resv[c].user],
    size <- [c \in Claims |-> resv[c].amount],
    phase <- [c \in Claims |-> PhaseOf(c)]

ImplementsExchange == Exchange!Spec

(***************************************************************************)
(* docs/backend-request-context.md:42 requires that a canceled request     *)
(* after the broadcast does not keep claim status or reconciliation        *)
(* markers from being persisted: a mint the chain has, has a claims row.   *)
(***************************************************************************)
MintHasClaimRow ==
    \A c \in Claims : mint[c] \in {"mempool", "mined"} => status[c] # "absent"
=============================================================================
