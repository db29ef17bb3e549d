---------------------------- MODULE TokenEconomy ----------------------------
(***************************************************************************)
(* The claim flow and the spend flow of one API server together: both      *)
(* write tachi_balances, both send transactions from the same signer to    *)
(* the same token contract, and a crash of the process ends both.          *)
(***************************************************************************)
EXTENDS ClaimMint

CONSTANTS Redemptions, SpendAmounts

ASSUME EconomyAssumption ==
    /\ IsFiniteSet(Redemptions)
    /\ SpendAmounts \subseteq Int

VARIABLES payer, price, spendPc, burn, record, issued, voucher

Spend == INSTANCE CouponSpend WITH pc <- spendPc, StartTokens <- {0}

spendVars == <<payer, price, spendPc, burn, record, issued, voucher>>
economyVars == <<vars, spendVars>>

EconomyInit == ClaimInit /\ Spend!SpendInit

(* What a redemption step leaves alone of the claim flow. *)
ClaimsStay == UNCHANGED <<ledgerVars, status, hashed, resv, pc, mint>>

ServerCrash ==
    /\ \/ \E c \in Claims : pc[c] \in Serving
       \/ \E r \in Redemptions : spendPc[r] \in Spend!Serving
    /\ pc' = CrashedPc
    /\ spendPc' = Spend!CrashedPc
    /\ UNCHANGED <<ledgerVars, status, hashed, resv, tachi, mint, wallet,
                   payer, price, burn, record, issued, voucher>>

EconomyNext ==
    \/ Progress /\ UNCHANGED spendVars
    \/ \E r \in Redemptions : Spend!SpendStep(r) /\ ClaimsStay
    \/ \E r \in Redemptions : Spend!ChainBurn(r) /\ ClaimsStay
    \/ ServerCrash

EconomySpec == EconomyInit /\ [][EconomyNext]_economyVars

-----------------------------------------------------------------------------

(* Mints that reached the wallet and were not credited to tachi_balances. *)
MintedNotCredited(u) ==
    Total(ClaimSizes,
        {c \in Claims : resv[c].user = u /\ mint[c] = "mined" /\ status[c] # "confirmed"})

(***************************************************************************)
(* The wallet on chain and the mirrored balance, over both flows: the      *)
(* drift is exactly the mints not credited, the debits not burnt and the   *)
(* burns given back; nothing a crash, an abort or an interleaving of a     *)
(* claim with a redemption does adds another term.  And every $TACHI a     *)
(* viewer holds or has debited comes from a confirmed claim.               *)
(***************************************************************************)
MirrorDrift ==
    \A u \in Users :
        /\ wallet[u] + Spend!PriceOf(u, Spend!BurntNotPaid) =
               tachi[u] + MintedNotCredited(u) + Spend!PriceOf(u, Spend!PaidNotBurnt)
        /\ tachi[u] + Spend!PriceOf(u, {r \in Redemptions : spendPc[r] # "restored"})
               = ClaimedBy(u, {"confirmed"})
=============================================================================
