----------------------------- MODULE BitsPurchase ----------------------------
(***************************************************************************)
(* ExtensionService: a viewer of the Twitch extension pays Bits and sends  *)
(* the receipt, perhaps several times and by both routes, to be credited   *)
(* points.  The requests pass RateLimit.  The receipt and the extension's  *)
(* token are valid and belong together; a receipt that is not is refused   *)
(* before anything is read.                                                *)
(***************************************************************************)
EXTENDS RateLimit, FiniteSetsExt

CONSTANTS
    Purchases,      \* the transaction ids of the receipts
    Amount,         \* the Bits paid with each
    Users, Nobody,  \* accounts, and the lack of one
    Requests

ASSUME PurchaseAssumption ==
    /\ Amount \in [Purchases -> Nat \ {0}]
    /\ Nobody \notin Users

VARIABLES
    holder,         \* the account the viewer's Twitch identity is linked to
    paidTo,         \* points_transactions: the account each transaction id was credited to
    balance,        \* the points of each account
    call,           \* the requests in progress
    told            \* history: what the client was answered for a purchase

purchaseVars == <<holder, paidTo, balance, call, told>>

Idle == [op |-> "idle"]
Become(r, c) == call' = [call EXCEPT ![r] = c]

PurchaseInit ==
    /\ LimitInit
    /\ holder \in Users \cup {Nobody}
    /\ paidTo = [p \in Purchases |-> Nobody]
    /\ balance = [u \in Users |-> 0]
    /\ call = [r \in Requests |-> Idle]
    /\ told = [p \in Purchases |-> {}]

Tell(p, answer) == told' = [told EXCEPT ![p] = @ \cup {answer}]

(* The viewer links the identity, or unlinks it, or links it elsewhere. *)
Relink ==
    /\ \E u \in Users \cup {Nobody} : holder' = u
    /\ UNCHANGED <<limitVars, paidTo, balance, call, told>>

Limited(p, route) ==
    Refuse(route) /\ Tell(p, "limited") /\ UNCHANGED <<holder, paidTo, balance, call>>

(* The account is looked up, never created, before anything is written. *)
TPointComplete(r, p, route) ==
    /\ call[r] = Idle
    /\ Allow(route)
    /\ IF holder = Nobody
       THEN Tell(p, "error") /\ UNCHANGED call
       ELSE Become(r, [op |-> "credit", purchase |-> p, user |-> holder]) /\ UNCHANGED told
    /\ UNCHANGED <<holder, paidTo, balance>>

(* Mutant: the transaction id has no unique index. *)
NeverTaken(p) == FALSE
Taken(p) == paidTo[p] # Nobody

(* The upsert of the ledger and the row with the id, or neither. *)
AddPointsWithMeta(r) ==
    /\ call[r].op = "credit"
    /\ LET p == call[r].purchase
           u == call[r].user
       IN  /\ ~Taken(p)
           /\ paidTo' = [paidTo EXCEPT ![p] = u]
           /\ balance' = [balance EXCEPT ![u] = @ + Amount[p]]
           /\ Become(r, [op |-> "issue", purchase |-> p])
    /\ UNCHANGED <<limitVars, holder, told>>

(* A duplicate key: the points were credited by an earlier call. *)
DuplicateTransaction(r) ==
    /\ call[r].op = "credit" /\ Taken(call[r].purchase)
    /\ Tell(call[r].purchase, "duplicate")
    /\ Become(r, Idle)
    /\ UNCHANGED <<limitVars, holder, paidTo, balance>>

IssueTokens(r) ==
    /\ call[r].op = "issue"
    /\ Tell(call[r].purchase, "success")
    /\ Become(r, Idle)
    /\ UNCHANGED <<limitVars, holder, paidTo, balance>>

(* The database fails before or after the points are committed. *)
Fail(r) ==
    /\ call[r] # Idle
    /\ Tell(call[r].purchase, "error")
    /\ Become(r, Idle)
    /\ UNCHANGED <<limitVars, holder, paidTo, balance>>

Crash ==
    /\ Restart
    /\ call' = [r \in Requests |-> Idle]
    /\ UNCHANGED <<holder, paidTo, balance, told>>

PurchaseNext ==
    \/ Relink \/ Crash
    \/ Tick /\ UNCHANGED purchaseVars
    \/ \E p \in Purchases, route \in Keys :
          Limited(p, route) \/ \E r \in Requests : TPointComplete(r, p, route)
    \/ \E r \in Requests :
          AddPointsWithMeta(r) \/ DuplicateTransaction(r) \/ IssueTokens(r) \/ Fail(r)

PurchaseSpec == PurchaseInit /\ [][PurchaseNext]_<<limitVars, purchaseVars>>

-----------------------------------------------------------------------------

PurchaseTypeOK ==
    /\ LimitTypeOK
    /\ holder \in Users \cup {Nobody}
    /\ paidTo \in [Purchases -> Users \cup {Nobody}]
    /\ balance \in [Users -> Nat]
    /\ \A r \in Requests :
          \/ call[r] = Idle
          \/ /\ call[r].op \in {"credit", "issue"} /\ call[r].purchase \in Purchases
             /\ call[r].op = "credit" => call[r].user \in Users
             /\ call[r].op = "issue" => Taken(call[r].purchase)
    /\ told \in [Purchases -> SUBSET {"success", "duplicate", "limited", "error"}]

CreditedTo(u) == {p \in Purchases : paidTo[p] = u}
PaidTo(u) == SumFunctionOnSet(Amount, CreditedTo(u))

(* Whoever is told of a credit has it. *)
ToldCredited ==
    \A p \in Purchases : told[p] \cap {"success", "duplicate"} # {} => paidTo[p] # Nobody

(***************************************************************************)
(* However often and by whichever route a receipt is sent, it is credited  *)
(* once, to one account; and a client that is told of success, or that the *)
(* transaction was already processed, has the points, also when the call   *)
(* that credited them failed before it could answer.                       *)
(***************************************************************************)
PurchaseAnswersTrue ==
    /\ \A u \in Users : balance[u] = PaidTo(u)
    /\ ToldCredited
=============================================================================
