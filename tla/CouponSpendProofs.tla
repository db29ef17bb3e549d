-------------------------- MODULE CouponSpendProofs --------------------------
(* Proofs about redemptions, for any viewers, requests and amounts.         *)
EXTENDS CouponSpend, TLAPS

(* Where a redemption is agrees with its row, the chain and Tachiya. *)
InStep(r) ==
    /\ pc[r] \in Serving \/ burn[r] = "mempool" => payer[r] \in Users
    /\ pc[r] \in {"receipt", "unknown"} => burn[r] # "none"
    /\ pc[r] \in {"record", "tachiya", "mark", "persist"} => burn[r] = "mined"
    /\ pc[r] \in {"tachiya", "mark", "persist"} => record[r] # "absent"
    /\ record[r] # "absent" =>
          burn[r] # "none" /\ pc[r] \in {"tachiya", "mark", "persist", "ok", "error", "crashed"}
    /\ pc[r] = "persist" => issued[r]
    /\ issued[r] => record[r] # "absent" /\ burn[r] = "mined" /\ pc[r] \in {"mark", "persist", "ok", "error", "crashed"}
    /\ record[r] = "redeemed" <=> voucher[r]
    /\ voucher[r] => issued[r] /\ pc[r] \in {"ok", "error", "crashed"}
    /\ pc[r] = "ok" => voucher[r]
    /\ record[r] = "compensation-needed" => burn[r] = "mined" /\ pc[r] \in {"error", "crashed"}

SpendInv == SpendTypeOK /\ \A r \in Redemptions : InStep(r)

-----------------------------------------------------------------------------

(* Going to a known place moves one request. *)
LEMMA GotoMoves ==
    ASSUME SpendTypeOK, NEW r \in Redemptions, NEW places, Goto(r, places),
           places \subseteq {"idle"} \cup Serving \cup Ended
    PROVE  /\ pc' \in [Redemptions -> {"idle"} \cup Serving \cup Ended]
           /\ pc'[r] \in places
           /\ \A q \in Redemptions \ {r} : pc'[q] = pc[q]
<1> QED
  BY DEF Goto, SpendTypeOK

(* One request's variables change, in step, and nobody else's. *)
LEMMA OneMoves ==
    ASSUME SpendInv, SpendTypeOK', NEW r \in Redemptions, InStep(r)',
           \A q \in Redemptions \ {r} :
               /\ pc'[q] = pc[q] /\ burn'[q] = burn[q] /\ payer'[q] = payer[q]
               /\ record'[q] = record[q] /\ issued'[q] = issued[q] /\ voucher'[q] = voucher[q]
    PROVE  SpendInv'
<1>1. ASSUME NEW q \in Redemptions, q # r
      PROVE  InStep(q)'
  BY <1>1 DEF SpendInv, InStep
<1> QED
  BY <1>1 DEF SpendInv

(* No redemption at first. *)
LEMMA SpendInitInv == SpendInit => SpendInv
<1> SUFFICES ASSUME SpendInit
             PROVE  SpendInv
  OBVIOUS
<1>1. SpendTypeOK
  BY SpendAssumption DEF SpendInit, SpendTypeOK
<1>2. \A r \in Redemptions : InStep(r)
  BY DEF SpendInit, InStep, Serving
<1> QED
  BY <1>1, <1>2 DEF SpendInv

(* A request is refused, or its price is taken from its viewer. *)
LEMMA ReserveStep ==
    ASSUME SpendInv, NEW r \in Redemptions, Refuse(r) \/ Reserve(r)
    PROVE  SpendInv'
<1> USE SpendAssumption
<1>1. CASE Refuse(r) \/ (Goto(r, {"refused"}) /\ pc[r] = "idle"
                          /\ UNCHANGED <<tachi, wallet, payer, price, burn, record, issued, voucher>>)
  <2>1. /\ pc' \in [Redemptions -> {"idle"} \cup Serving \cup Ended]
        /\ pc[r] = "idle" /\ pc'[r] = "refused"
        /\ \A q \in Redemptions \ {r} : pc'[q] = pc[q]
        /\ UNCHANGED <<tachi, wallet, payer, price, burn, record, issued, voucher>>
    BY <1>1, GotoMoves DEF Refuse, SpendInv, Ended
  <2>2. SpendTypeOK'
    BY <2>1 DEF SpendInv, SpendTypeOK
  <2>3. InStep(r)'
    BY <2>1 DEF SpendInv, InStep, Serving
  <2> QED
    BY <2>1, <2>2, <2>3, OneMoves
<1>2. ASSUME NEW u \in Users, NEW n \in SpendAmounts, Reserve(r), Affordable(u, n),
             tachi' = [tachi EXCEPT ![u] = @ - n],
             payer' = [payer EXCEPT ![r] = u],
             price' = [price EXCEPT ![r] = n],
             Goto(r, {"burn", "error"})
      PROVE  SpendInv'
  <2>1. /\ pc' \in [Redemptions -> {"idle"} \cup Serving \cup Ended]
        /\ pc[r] = "idle" /\ pc'[r] \in {"burn", "error"}
        /\ \A q \in Redemptions \ {r} : pc'[q] = pc[q]
        /\ UNCHANGED <<wallet, burn, record, issued, voucher>>
    BY <1>2, GotoMoves DEF Reserve, SpendInv, Ended, Serving
  <2>2. n \in Nat /\ tachi[u] >= n
    BY <1>2 DEF Affordable
  <2>3. tachi' \in [Users -> Nat]
    <3>1. tachi[u] \in Nat /\ tachi[u] - n \in Nat
      BY <2>2 DEF SpendInv, SpendTypeOK
    <3> QED
      BY <1>2, <3>1 DEF SpendInv, SpendTypeOK
  <2>4. SpendTypeOK'
    BY <1>2, <2>1, <2>2, <2>3 DEF SpendInv, SpendTypeOK
  <2>5. payer'[r] = u /\ \A q \in Redemptions \ {r} : payer'[q] = payer[q]
    BY <1>2 DEF SpendInv, SpendTypeOK
  <2>6. InStep(r)'
    BY <2>1, <2>5 DEF SpendInv, InStep, Serving
  <2> QED
    BY <2>1, <2>4, <2>5, <2>6, OneMoves
<1> QED
  BY <1>1, <1>2 DEF Reserve

(* The burn is sent, or refused. *)
LEMMA BroadcastStep ==
    ASSUME SpendInv, NEW r \in Redemptions, BroadcastBurn(r)
    PROVE  SpendInv'
<1>1. /\ pc' \in [Redemptions -> {"idle"} \cup Serving \cup Ended]
      /\ pc[r] = "burn" /\ pc'[r] \in {"receipt", "rollback"}
      /\ \A q \in Redemptions \ {r} : pc'[q] = pc[q]
      /\ UNCHANGED <<tachi, wallet, payer, price, record, issued, voucher>>
  BY GotoMoves DEF BroadcastBurn, SpendInv, Serving
<1>2. burn' = [burn EXCEPT ![r] = "mempool"] \/ UNCHANGED burn
  BY DEF BroadcastBurn
<1>3. SpendTypeOK'
  BY <1>1, <1>2 DEF SpendInv, SpendTypeOK
<1>4. InStep(r)'
  <2>1. /\ burn'[r] \in {burn[r], "mempool"}
        /\ pc'[r] = "receipt" => burn'[r] = "mempool"
    BY <1>1, GotoMoves DEF BroadcastBurn, SpendInv, SpendTypeOK, Serving
  <2> QED
    BY <1>1, <2>1 DEF SpendInv, InStep, Serving
<1>5. \A q \in Redemptions \ {r} : burn'[q] = burn[q]
  BY <1>2 DEF SpendInv, SpendTypeOK
<1> QED
  BY <1>1, <1>3, <1>4, <1>5, OneMoves

(* The receipt arrives, or it does not. *)
LEMMA AwaitStep ==
    ASSUME SpendInv, NEW r \in Redemptions, AwaitReceipt(r)
    PROVE  SpendInv'
<1>1. /\ pc' \in [Redemptions -> {"idle"} \cup Serving \cup Ended]
      /\ pc[r] = "receipt" /\ pc'[r] \in {"record", "rollback", "unknown"}
      /\ pc'[r] = "record" => burn[r] = "mined"
      /\ \A q \in Redemptions \ {r} : pc'[q] = pc[q]
      /\ UNCHANGED <<tachi, wallet, payer, price, burn, record, issued, voucher>>
  BY GotoMoves DEF AwaitReceipt, SpendInv, Serving
<1>2. SpendTypeOK'
  BY <1>1 DEF SpendInv, SpendTypeOK
<1>3. InStep(r)'
  BY <1>1 DEF SpendInv, InStep, Serving
<1> QED
  BY <1>1, <1>2, <1>3, OneMoves

(* The debit is given back, or that fails too. *)
LEMMA RollBackStep ==
    ASSUME SpendInv, NEW r \in Redemptions, RollBack(r)
    PROVE  SpendInv'
<1>1. /\ pc' \in [Redemptions -> {"idle"} \cup Serving \cup Ended]
      /\ pc[r] = "rollback" /\ pc'[r] \in {"restored", "error"}
      /\ \A q \in Redemptions \ {r} : pc'[q] = pc[q]
      /\ UNCHANGED <<wallet, payer, price, burn, record, issued, voucher>>
  BY GotoMoves DEF RollBack, SpendInv, Ended
<1>2. tachi' \in [Users -> Nat]
  <2>1. payer[r] \in Users /\ price[r] \in Nat
    BY <1>1 DEF SpendInv, InStep, Serving, SpendTypeOK
  <2>2. tachi[payer[r]] + price[r] \in Nat
    BY <2>1 DEF SpendInv, SpendTypeOK
  <2> QED
    BY <2>1, <2>2 DEF RollBack, SpendInv, SpendTypeOK
<1>3. SpendTypeOK'
  BY <1>1, <1>2 DEF SpendInv, SpendTypeOK
<1>4. InStep(r)'
  BY <1>1 DEF SpendInv, InStep, Serving
<1> QED
  BY <1>1, <1>3, <1>4, OneMoves

(* The burn is recorded, as mined or as unknown. *)
LEMMA PendingStep ==
    ASSUME SpendInv, NEW r \in Redemptions, RecordUnknownBurn(r) \/ RecordBurn(r)
    PROVE  SpendInv'
<1>1. /\ pc' \in [Redemptions -> {"idle"} \cup Serving \cup Ended]
      /\ pc[r] \in {"unknown", "record"} /\ pc'[r] \in {"tachiya", "error"}
      /\ pc'[r] = "tachiya" => pc[r] = "record" /\ record' = [record EXCEPT ![r] = "pending"]
      /\ \A q \in Redemptions \ {r} : pc'[q] = pc[q]
      /\ UNCHANGED <<tachi, wallet, payer, price, burn, issued, voucher>>
  BY GotoMoves DEF RecordUnknownBurn, RecordBurn, CreatePending, SpendInv, Ended, Serving
<1>2. record' = [record EXCEPT ![r] = "pending"] \/ UNCHANGED record
  BY DEF RecordUnknownBurn, RecordBurn, CreatePending
<1>3. /\ record'[r] \in {record[r], "pending"}
      /\ pc'[r] = "tachiya" => record'[r] = "pending"
      /\ \A q \in Redemptions \ {r} : record'[q] = record[q]
  BY <1>1, <1>2 DEF SpendInv, SpendTypeOK
<1>4. SpendTypeOK'
  BY <1>1, <1>2 DEF SpendInv, SpendTypeOK
<1>5. InStep(r)'
  BY <1>1, <1>3 DEF SpendInv, InStep, Serving
<1> QED
  BY <1>1, <1>3, <1>4, <1>5, OneMoves

(* The shop issues a voucher or refuses, and its answer may be lost. *)
LEMMA TachiyaStep ==
    ASSUME SpendInv, NEW r \in Redemptions, CallTachiya(r)
    PROVE  SpendInv'
<1>1. /\ pc' \in [Redemptions -> {"idle"} \cup Serving \cup Ended]
      /\ pc[r] = "tachiya" /\ pc'[r] \in {"persist", "mark"}
      /\ \A q \in Redemptions \ {r} : pc'[q] = pc[q]
      /\ UNCHANGED <<tachi, wallet, payer, price, burn, record, voucher>>
  BY GotoMoves DEF CallTachiya, SpendInv, Serving
<1>2. \/ issued' = [issued EXCEPT ![r] = TRUE]
      \/ UNCHANGED issued /\ pc'[r] = "mark"
  BY GotoMoves DEF CallTachiya, SpendInv, Serving
<1>3. SpendTypeOK'
  BY <1>1, <1>2 DEF SpendInv, SpendTypeOK
<1>4. /\ pc'[r] = "persist" => issued'[r]
      /\ \A q \in Redemptions \ {r} : issued'[q] = issued[q]
  BY <1>1, <1>2 DEF SpendInv, SpendTypeOK
<1>5. InStep(r)'
  BY <1>1, <1>4 DEF SpendInv, InStep, Serving
<1> QED
  BY <1>1, <1>3, <1>4, <1>5, OneMoves

(* The row is marked for compensation, or that write fails. *)
LEMMA MarkStep ==
    ASSUME SpendInv, NEW r \in Redemptions, MarkCompensation(r)
    PROVE  SpendInv'
<1>1. /\ pc' \in [Redemptions -> {"idle"} \cup Serving \cup Ended]
      /\ pc[r] = "mark" /\ pc'[r] = "error"
      /\ \A q \in Redemptions \ {r} : pc'[q] = pc[q]
      /\ UNCHANGED <<tachi, wallet, payer, price, burn, issued, voucher>>
  BY GotoMoves DEF MarkCompensation, SpendInv, Ended
<1>2. record' = [record EXCEPT ![r] = "compensation-needed"] \/ UNCHANGED record
  BY DEF MarkCompensation
<1>3. /\ record'[r] \in {record[r], "compensation-needed"}
      /\ \A q \in Redemptions \ {r} : record'[q] = record[q]
  BY <1>2 DEF SpendInv, SpendTypeOK
<1>4. SpendTypeOK'
  BY <1>1, <1>2 DEF SpendInv, SpendTypeOK
<1>5. InStep(r)'
  BY <1>1, <1>3 DEF SpendInv, InStep, Serving
<1> QED
  BY <1>1, <1>3, <1>4, <1>5, OneMoves

(* The voucher is stored. *)
LEMMA PersistStep ==
    ASSUME SpendInv, NEW r \in Redemptions, PersistVoucher(r)
    PROVE  SpendInv'
<1>1. /\ pc' \in [Redemptions -> {"idle"} \cup Serving \cup Ended]
      /\ pc[r] = "persist" /\ pc'[r] \in {"ok", "error"}
      /\ \A q \in Redemptions \ {r} : pc'[q] = pc[q]
      /\ UNCHANGED <<tachi, wallet, payer, price, burn, issued>>
  BY GotoMoves DEF PersistVoucher, SpendInv, Ended
<1>2. \/ /\ record' = [record EXCEPT ![r] = "redeemed"]
         /\ voucher' = [voucher EXCEPT ![r] = TRUE]
      \/ UNCHANGED <<record, voucher>> /\ pc'[r] = "error"
  BY GotoMoves DEF PersistVoucher, SpendInv, Ended
<1>3. SpendTypeOK'
  BY <1>1, <1>2 DEF SpendInv, SpendTypeOK
<1>4. /\ \/ record'[r] = "redeemed" /\ voucher'[r]
         \/ record'[r] = record[r] /\ voucher'[r] = voucher[r] /\ pc'[r] = "error"
      /\ \A q \in Redemptions \ {r} : record'[q] = record[q] /\ voucher'[q] = voucher[q]
  BY <1>2 DEF SpendInv, SpendTypeOK
<1>5. InStep(r)'
  BY <1>1, <1>4 DEF SpendInv, InStep, Serving
<1> QED
  BY <1>1, <1>3, <1>4, <1>5, OneMoves

(* The chain's verdict takes no more than the wallet has. *)
LEMMA ChainStep ==
    ASSUME SpendInv, NEW r \in Redemptions, ChainBurn(r)
    PROVE  SpendInv'
<1>1. /\ burn[r] = "mempool" /\ payer[r] \in Users
      /\ UNCHANGED <<tachi, payer, price, pc, record, issued, voucher>>
  BY DEF ChainBurn, SpendInv, InStep, requestVars
<1>2. wallet' \in [Users -> Nat]
  <2>1. CASE wallet[payer[r]] >= price[r] /\ wallet' = [wallet EXCEPT ![payer[r]] = @ - price[r]]
    <3>1. wallet[payer[r]] - price[r] \in Nat
      BY <1>1, <2>1 DEF SpendInv, SpendTypeOK
    <3> QED
      BY <1>1, <2>1, <3>1 DEF SpendInv, SpendTypeOK
  <2>2. CASE UNCHANGED wallet
    BY <2>2 DEF SpendInv, SpendTypeOK
  <2> QED
    BY <2>1, <2>2 DEF ChainBurn
<1>3. \E verdict \in {"mined", "reverted", "dropped"} : burn' = [burn EXCEPT ![r] = verdict]
  BY DEF ChainBurn
<1>4. SpendTypeOK'
  BY <1>1, <1>2, <1>3 DEF SpendInv, SpendTypeOK
<1>5. /\ burn'[r] \in {"mined", "reverted", "dropped"}
      /\ \A q \in Redemptions \ {r} : burn'[q] = burn[q]
  BY <1>3 DEF SpendInv, SpendTypeOK
<1>6. InStep(r)'
  BY <1>1, <1>5 DEF SpendInv, InStep, Serving
<1> QED
  BY <1>1, <1>4, <1>5, <1>6, OneMoves

(* The server stops: every redemption under way ends. *)
LEMMA CrashStep ==
    ASSUME SpendInv, Crash
    PROVE  SpendInv'
<1>1. /\ pc' = [r \in Redemptions |-> IF pc[r] \in Serving THEN "crashed" ELSE pc[r]]
      /\ UNCHANGED <<tachi, wallet, payer, price, burn, record, issued, voucher>>
  BY DEF Crash, CrashedPc
<1>2. SpendTypeOK'
  BY <1>1 DEF SpendInv, SpendTypeOK, Ended
<1>3. ASSUME NEW r \in Redemptions
      PROVE  InStep(r)'
  <2>1. CASE pc[r] \in Serving
    BY <1>1, <2>1 DEF SpendInv, InStep, Serving
  <2>2. CASE pc[r] \notin Serving
    BY <1>1, <2>2 DEF SpendInv, InStep
  <2> QED
    BY <2>1, <2>2
<1> QED
  BY <1>2, <1>3 DEF SpendInv

(* Every step of the redemptions keeps their invariant. *)
LEMMA SpendNextInv == SpendInv /\ [SpendNext]_vars => SpendInv'
<1> SUFFICES ASSUME SpendInv, [SpendNext]_vars
             PROVE  SpendInv'
  OBVIOUS
<1>1. CASE UNCHANGED vars
  BY <1>1 DEF vars, requestVars, SpendInv, SpendTypeOK, InStep
<1>2. ASSUME NEW r \in Redemptions, SpendStep(r) \/ ChainBurn(r)
      PROVE  SpendInv'
  BY <1>2, ReserveStep, BroadcastStep, AwaitStep, RollBackStep, PendingStep, TachiyaStep,
     MarkStep, PersistStep, ChainStep DEF SpendStep, Continue
<1> QED
  BY <1>1, <1>2, CrashStep DEF SpendNext

-----------------------------------------------------------------------------

(* Their invariant holds in every state. *)
LEMMA SpendInvariant == SpendSpec => []SpendInv
<1> QED
  BY SpendInitInv, SpendNextInv, PTL DEF SpendSpec

(***************************************************************************)
(* No interleaving of redemptions, chain steps and crashes takes a balance *)
(* or a wallet below zero or a row out of its kinds.                       *)
(***************************************************************************)
THEOREM SpendTypeCorrect == SpendSpec => []SpendTypeOK
<1>1. SpendInv => SpendTypeOK
  BY DEF SpendInv
<1> QED
  BY <1>1, SpendInvariant, PTL

(***************************************************************************)
(* Tachiya issues a voucher only for a burn that is mined, and its price   *)
(* is never given back (SpendService.Redeem).                              *)
(***************************************************************************)
THEOREM PaidVouchers == SpendSpec => []VoucherIsPaid
<1>1. SpendInv => VoucherIsPaid
  BY DEF SpendInv, InStep, VoucherIsPaid
<1> QED
  BY <1>1, SpendInvariant, PTL

(***************************************************************************)
(* However redemptions, the chain, Tachiya and crashes interleave, a row   *)
(* stands for a burn that was sent and a debit that is kept; its status    *)
(* says what RowsAccountForBurns says and no more; and a voucher is never  *)
(* without a row (SpendService.Redeem).                                    *)
(***************************************************************************)
THEOREM RowsReconcile == SpendSpec => []RowsAccountForBurns
<1>1. SpendInv => RowsAccountForBurns
  BY DEF SpendInv, InStep, RowsAccountForBurns
<1> QED
  BY <1>1, SpendInvariant, PTL
=============================================================================
