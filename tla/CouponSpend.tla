----------------------------- MODULE CouponSpend -----------------------------
(***************************************************************************)
(* SpendService.Redeem: paying for a coupon with $TACHI.                   *)
(*                                                                         *)
(* A redemption debits tachi_balances in one transaction, burns the tokens *)
(* on chain under the token client's mutex, records a coupon_redemptions   *)
(* row and asks Tachiya, an external service, for the voucher.  Each step  *)
(* may fail alone: the debit stays or is given back according to what the  *)
(* burn call told the service, which is not always what the chain did.     *)
(*                                                                         *)
(* The nil-client branch of Redeem is left out: the server always wires a  *)
(* Tachiya HTTP client (cmd/server/wiring.go).                             *)
(***************************************************************************)
EXTENDS Integers, FiniteSets, FiniteSetsExt

CONSTANTS
    Users,          \* the viewers
    Redemptions,    \* the redeem requests; a request's row has its name
    Nobody,         \* the user of a request not made yet
    Linked,         \* the viewers with a web3 wallet in auth_providers
    SpendAmounts,   \* the amounts a request may ask for
    StartTokens     \* what a viewer may own when the model starts

ASSUME SpendAssumption ==
    /\ IsFiniteSet(Redemptions)
    /\ Linked \subseteq Users
    /\ Nobody \notin Users
    /\ SpendAmounts \subseteq Int
    /\ StartTokens \subseteq Nat

VARIABLES
    tachi,          \* tachi_balances.balance
    wallet,         \* the token contract's balance of the viewer's wallet
    payer,          \* user of the request
    price,          \* amount of the request, positive once it is reserved
    pc,             \* where the request's goroutine is
    burn,           \* what the chain knows of the request's burn transaction
    record,         \* coupon_redemptions.status; "absent" when there is no row
    issued,         \* Tachiya issued a voucher for the request
    voucher         \* coupon_redemptions.voucher_code is set

requestVars == <<payer, price, pc>>
vars == <<tachi, wallet, requestVars, burn, record, issued, voucher>>

Ended == {"ok", "refused", "restored", "error", "crashed"}
Serving ==
    {"burn", "receipt", "rollback", "unknown", "record", "tachiya", "mark", "persist"}

SpendInit ==
    /\ tachi \in [Users -> StartTokens]
    /\ wallet = tachi
    /\ payer = [r \in Redemptions |-> Nobody]
    /\ price = [r \in Redemptions |-> 0]
    /\ pc = [r \in Redemptions |-> "idle"]
    /\ burn = [r \in Redemptions |-> "none"]
    /\ record = [r \in Redemptions |-> "absent"]
    /\ issued = [r \in Redemptions |-> FALSE]
    /\ voucher = [r \in Redemptions |-> FALSE]

Goto(r, places) == \E p \in places : pc' = [pc EXCEPT ![r] = p]

-----------------------------------------------------------------------------
(* A non-positive amount, a short balance or no wallet. *)
Affordable(u, n) == n > 0 /\ tachi[u] >= n /\ u \in Linked

Refuse(r) ==
    /\ pc[r] = "idle"
    /\ \E u \in Users, n \in SpendAmounts : ~Affordable(u, n)
    /\ Goto(r, {"refused"})
    /\ UNCHANGED <<tachi, wallet, payer, price, burn, record, issued, voucher>>

(***************************************************************************)
(* reserveSpend locks the balance row, checks it and debits it.  It may    *)
(* commit although the request sees an error.                              *)
(***************************************************************************)
Reserve(r) ==
    /\ pc[r] = "idle"
    /\ \E u \in Users, n \in SpendAmounts :
          /\ Affordable(u, n)
          /\ \/ /\ tachi' = [tachi EXCEPT ![u] = @ - n]
                /\ payer' = [payer EXCEPT ![r] = u]
                /\ price' = [price EXCEPT ![r] = n]
                /\ Goto(r, {"burn", "error"})
             \/ Goto(r, {"refused"}) /\ UNCHANGED <<tachi, payer, price>>
    /\ UNCHANGED <<wallet, burn, record, issued, voucher>>

(***************************************************************************)
(* Burn keeps the token client's mutex from signing to the receipt, so one *)
(* burn of the process is in flight at a time.  Gas estimation refuses a   *)
(* burn the wallet cannot pay.  The send call may fail although the node   *)
(* took the transaction: the caller gets no hash either way.               *)
(***************************************************************************)
MutexFree == \A q \in Redemptions : pc[q] # "receipt"

BroadcastBurn(r) ==
    /\ pc[r] = "burn"
    /\ MutexFree
    /\ \/ /\ wallet[payer[r]] >= price[r]
          /\ burn' = [burn EXCEPT ![r] = "mempool"]
          /\ Goto(r, {"receipt", "rollback"})
       \/ UNCHANGED burn /\ Goto(r, {"rollback"})
    /\ UNCHANGED <<tachi, wallet, payer, price, record, issued, voucher>>

(* Mutants: a missing receipt counts as success; a wait has no deadline. *)
AwaitOptimistic(r) ==
    /\ pc[r] = "receipt"
    /\ \/ burn[r] = "reverted" /\ Goto(r, {"rollback"})
       \/ Goto(r, {"record"})
    /\ UNCHANGED <<tachi, wallet, payer, price, burn, record, issued, voucher>>

AwaitForever(r) ==
    /\ pc[r] = "receipt"
    /\ \/ burn[r] = "mined" /\ Goto(r, {"record"})
       \/ burn[r] = "reverted" /\ Goto(r, {"rollback"})
    /\ UNCHANGED <<tachi, wallet, payer, price, burn, record, issued, voucher>>

(***************************************************************************)
(* A reverted burn returns no hash, as if it had never been sent; a wait   *)
(* that ends in the deadline returns the hash with the error.              *)
(***************************************************************************)
AwaitReceipt(r) ==
    /\ pc[r] = "receipt"
    /\ \/ burn[r] = "mined" /\ Goto(r, {"record"})
       \/ burn[r] = "reverted" /\ Goto(r, {"rollback"})
       \/ Goto(r, {"unknown"})
    /\ UNCHANGED <<tachi, wallet, payer, price, burn, record, issued, voucher>>

(* rollbackSpendReservation gives the amount back. *)
RollBack(r) ==
    /\ pc[r] = "rollback"
    /\ \/ tachi' = [tachi EXCEPT ![payer[r]] = @ + price[r]] /\ Goto(r, {"restored"})
       \/ UNCHANGED tachi /\ Goto(r, {"error"})
    /\ UNCHANGED <<wallet, payer, price, burn, record, issued, voucher>>

(***************************************************************************)
(* createPendingCouponRedemption, after a burn whose receipt is unknown    *)
(* and, with the voucher call still to come, after a burn that succeeded.  *)
(***************************************************************************)
CreatePending(r, next) ==
    /\ \/ record' = [record EXCEPT ![r] = "pending"] /\ Goto(r, {next, "error"})
       \/ UNCHANGED record /\ Goto(r, {"error"})
    /\ UNCHANGED <<tachi, wallet, payer, price, burn, issued, voucher>>

RecordUnknownBurn(r) == pc[r] = "unknown" /\ CreatePending(r, "error")
RecordBurn(r) == pc[r] = "record" /\ CreatePending(r, "tachiya")

(* Mutant: an error of the call is taken for a voucher. *)
CallTachiyaUnchecked(r) ==
    /\ pc[r] = "tachiya"
    /\ issued' = [issued EXCEPT ![r] = TRUE] \/ UNCHANGED issued
    /\ Goto(r, {"persist"})
    /\ UNCHANGED <<tachi, wallet, payer, price, burn, record, voucher>>

(* Tachiya may issue the voucher and its answer be lost. *)
CallTachiya(r) ==
    /\ pc[r] = "tachiya"
    /\ \/ issued' = [issued EXCEPT ![r] = TRUE] /\ Goto(r, {"persist", "mark"})
       \/ UNCHANGED issued /\ Goto(r, {"mark"})
    /\ UNCHANGED <<tachi, wallet, payer, price, burn, record, voucher>>

MarkCompensation(r) ==
    /\ pc[r] = "mark"
    /\ \/ record' = [record EXCEPT ![r] = "compensation-needed"]
       \/ UNCHANGED record
    /\ Goto(r, {"error"})
    /\ UNCHANGED <<tachi, wallet, payer, price, burn, issued, voucher>>

PersistVoucher(r) ==
    /\ pc[r] = "persist"
    /\ \/ /\ record' = [record EXCEPT ![r] = "redeemed"]
          /\ voucher' = [voucher EXCEPT ![r] = TRUE]
          /\ Goto(r, {"ok", "error"})
       \/ UNCHANGED <<record, voucher>> /\ Goto(r, {"error"})
    /\ UNCHANGED <<tachi, wallet, payer, price, burn, issued>>

Continue(r) ==
    \/ AwaitReceipt(r) \/ RollBack(r) \/ RecordUnknownBurn(r) \/ RecordBurn(r)
    \/ CallTachiya(r) \/ MarkCompensation(r) \/ PersistVoucher(r)

SpendStep(r) == Refuse(r) \/ Reserve(r) \/ BroadcastBurn(r) \/ Continue(r)

-----------------------------------------------------------------------------
(* The process dies and with it every request in flight. *)
CrashedPc == [r \in Redemptions |-> IF pc[r] \in Serving THEN "crashed" ELSE pc[r]]

Crash ==
    /\ \E r \in Redemptions : pc[r] \in Serving
    /\ pc' = CrashedPc
    /\ UNCHANGED <<tachi, wallet, payer, price, burn, record, issued, voucher>>

(***************************************************************************)
(* The chain executes a burn it knows: TachiToken.burn reverts when the    *)
(* wallet is short by then.  Or it never executes it.                      *)
(***************************************************************************)
ChainBurn(r) ==
    /\ burn[r] = "mempool"
    /\ LET u == payer[r] IN
         \/ /\ wallet[u] >= price[r]
            /\ wallet' = [wallet EXCEPT ![u] = @ - price[r]]
            /\ burn' = [burn EXCEPT ![r] = "mined"]
         \/ /\ wallet[u] < price[r]
            /\ burn' = [burn EXCEPT ![r] = "reverted"]
            /\ UNCHANGED wallet
         \/ /\ burn' = [burn EXCEPT ![r] = "dropped"]
            /\ UNCHANGED wallet
    /\ UNCHANGED <<tachi, requestVars, record, issued, voucher>>

SpendNext ==
    \/ \E r \in Redemptions : SpendStep(r) \/ ChainBurn(r)
    \/ Crash

SpendSpec == SpendInit /\ [][SpendNext]_vars

(***************************************************************************)
(* A started request runs on: every wait has a deadline.  Go's mutex hands *)
(* over to a waiter that has waited too long, hence the strong fairness of *)
(* the step that needs it.                                                 *)
(***************************************************************************)
FairSpendSpec ==
    /\ SpendSpec
    /\ \A r \in Redemptions : WF_vars(Continue(r)) /\ SF_vars(BroadcastBurn(r))

-----------------------------------------------------------------------------
(* Properties.                                                             *)

(* Balances never fall below zero; rows and requests have known values. *)
SpendTypeOK ==
    /\ tachi \in [Users -> Nat]
    /\ wallet \in [Users -> Nat]
    /\ payer \in [Redemptions -> Users \cup {Nobody}]
    /\ price \in [Redemptions -> Nat]
    /\ pc \in [Redemptions -> {"idle"} \cup Serving \cup Ended]
    /\ burn \in [Redemptions -> {"none", "mempool", "mined", "reverted", "dropped"}]
    /\ record \in
         [Redemptions -> {"absent", "pending", "redeemed", "compensation-needed"}]
    /\ issued \in [Redemptions -> BOOLEAN]
    /\ voucher \in [Redemptions -> BOOLEAN]

PriceOf(u, S) == SumFunctionOnSet(price, {r \in S : payer[r] = u})

(* Debited redemptions the chain has not burnt, and the opposite. *)
PaidNotBurnt == {r \in Redemptions : pc[r] # "restored" /\ burn[r] # "mined"}
BurntNotPaid == {r \in Redemptions : pc[r] = "restored" /\ burn[r] = "mined"}

(***************************************************************************)
(* No voucher for free: Tachiya is asked only after the burn is mined, and *)
(* the debit of a redemption whose voucher exists is never given back.     *)
(***************************************************************************)
VoucherIsPaid ==
    \A r \in Redemptions : issued[r] => burn[r] = "mined" /\ pc[r] # "restored"

(***************************************************************************)
(* What a coupon_redemptions row lets a reconciler conclude.  Any row: the *)
(* burn was sent and the debit is kept.  redeemed: the burn is mined and   *)
(* the voucher of Tachiya is stored, and only then a viewer is told ok.    *)
(* compensation-needed: the burn is mined, but a voucher may exist, since  *)
(* the call fails also when its answer is lost.  pending: nothing more;    *)
(* the burn of an unknown receipt may be mined, reverted or dropped.  And  *)
(* no voucher exists without a row to find it by.                          *)
(***************************************************************************)
RowsAccountForBurns ==
    \A r \in Redemptions :
        /\ record[r] # "absent" => burn[r] # "none" /\ pc[r] # "restored"
        /\ record[r] = "redeemed" <=> voucher[r]
        /\ voucher[r] => issued[r]
        /\ record[r] \in {"redeemed", "compensation-needed"} => burn[r] = "mined"
        /\ issued[r] => record[r] # "absent"
        /\ pc[r] = "ok" => record[r] = "redeemed"

(***************************************************************************)
(* models/coupon_redemption.go:13 says that a pending row means a burn     *)
(* that succeeded, and line 18 that compensation-needed means that         *)
(* Tachiya's redeem failed.  That at least one of the two is so of all     *)
(* rows is less than the file says, and still not true: RecordUnknownBurn  *)
(* writes pending too, and an answer of Tachiya that is lost counts as a   *)
(* failed redeem.                                                          *)
(***************************************************************************)
PendingMeansBurnt ==
    \A r \in Redemptions : record[r] = "pending" => burn[r] = "mined"
CompensationMeansNoVoucher ==
    \A r \in Redemptions : record[r] = "compensation-needed" => ~issued[r]
DocumentedStatus == PendingMeansBurnt \/ CompensationMeansNoVoucher

(* Every redemption that debited a balance comes to an end. *)
RedemptionsEnd == \A r \in Redemptions : pc[r] \in Serving ~> pc[r] \in Ended
=============================================================================
