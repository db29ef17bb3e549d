-------------------------- MODULE BitsPurchaseProofs -------------------------
(* Proofs about the limiter and the purchases behind it, for any constants. *)
EXTENDS BitsPurchase, Sums, SequenceTheorems, TLAPS

(* The position of the request that opened the current window. *)
Opened(k) == Len(passed[k]) - entry[k].count + 1

(***************************************************************************)
(* A request from which on Limit more ones take longer than a window: one  *)
(* that opened a window, be it over or the current one.                    *)
(***************************************************************************)
Opens(k, p) ==
    /\ \A q \in DOMAIN passed[k] : q >= p + Limit => passed[k][q] - passed[k][p] >= Window
    /\ \/ now - passed[k][p] >= Window
       \/ entry[k].count > 0 /\ p = Opened(k)

(* Requests are let through in the order of time. *)
InOrder(k) ==
    \A p, q \in DOMAIN passed[k] : p <= q => passed[k][p] <= passed[k][q]

(* The current window is the one its entry says. *)
Current(k) ==
    entry[k].count > 0 => entry[k].count <= Len(passed[k]) /\ passed[k][Opened(k)] = entry[k].start

(* Of as many requests in a row as the limit, one opened a window. *)
WindowsBegin(k) ==
    \A i \in DOMAIN passed[k] : i + Limit - 1 \in DOMAIN passed[k] =>
        \E p \in i..i + Limit - 1 : Opens(k, p)

KeyInv(k) == InOrder(k) /\ Current(k) /\ WindowsBegin(k)
LimitInv == LimitTypeOK /\ \A k \in Keys : KeyInv(k)

-----------------------------------------------------------------------------

(* The counter and the window of an entry. *)
LEMMA Values ==
    ASSUME LimitTypeOK, NEW k \in Keys
    PROVE  /\ now \in Nat
           /\ entry[k] \in [start : 0..now, count : 0..Limit]
           /\ entry[k].start \in 0..now /\ entry[k].count \in 0..Limit
           /\ passed[k] \in Seq(0..now) /\ Len(passed[k]) \in Nat
           /\ DOMAIN passed[k] = 1..Len(passed[k])
           /\ \A q \in DOMAIN passed[k] : passed[k][q] \in 0..now
<1>1. /\ now \in Nat
      /\ entry[k] \in [start : 0..now, count : 0..Limit]
      /\ passed[k] \in Seq(0..now)
  BY DEF LimitTypeOK
<1> QED
  BY <1>1

(* No requests at first. *)
LEMMA LimitInitInv == LimitInit => LimitInv
<1> SUFFICES ASSUME LimitInit
             PROVE  LimitInv
  OBVIOUS
<1> USE LimitAssumption
<1>1. LimitTypeOK
  BY DEF LimitInit, LimitTypeOK, NoEntry
<1>2. ASSUME NEW k \in Keys
      PROVE  KeyInv(k)
  <2>1. entry[k].count = 0 /\ DOMAIN passed[k] = {}
    BY DEF LimitInit, NoEntry
  <2> QED
    BY <2>1 DEF KeyInv, InOrder, Current, WindowsBegin
<1> QED
  BY <1>1, <1>2 DEF LimitInv

(* Time passes, and a window that is over is forgotten. *)
LEMMA IdleKey ==
    ASSUME LimitInv, LimitTypeOK', NEW k \in Keys, passed'[k] = passed[k], now' >= now,
           entry'[k] = entry[k] \/ (entry'[k] = NoEntry /\ Fresh(entry[k]))
    PROVE  KeyInv(k)'
<1> USE LimitAssumption
<1>1. /\ now \in Nat /\ now' \in Nat
      /\ entry[k].start \in Nat /\ entry[k].count \in Nat
      /\ Len(passed[k]) \in Nat /\ DOMAIN passed[k] = 1..Len(passed[k])
      /\ \A q \in DOMAIN passed[k] : passed[k][q] \in Nat
  BY Values DEF LimitInv, LimitTypeOK
<1>2. InOrder(k)' /\ KeyInv(k)
  BY DEF LimitInv, KeyInv, InOrder
<1>3. Current(k)'
  BY <1>2 DEF KeyInv, Current, Opened, NoEntry
<1>4. ASSUME NEW p \in DOMAIN passed[k], Opens(k, p)
      PROVE  Opens(k, p)'
  <2>1. CASE now - passed[k][p] >= Window
    BY <1>1, <1>4, <2>1 DEF Opens
  <2>2. CASE entry[k].count > 0 /\ p = Opened(k)
    <3>1. CASE entry'[k] = entry[k]
      BY <1>4, <2>2, <3>1 DEF Opens, Opened
    <3>2. CASE Fresh(entry[k])
      <4>1. passed[k][p] = entry[k].start
        BY <1>2, <2>2 DEF KeyInv, Current
      <4>2. now - passed[k][p] >= Window
        BY <1>1, <2>2, <3>2, <4>1 DEF Fresh
      <4> QED
        BY <1>1, <1>4, <4>2 DEF Opens
    <3> QED
      BY <3>1, <3>2
  <2> QED
    BY <1>4, <2>1, <2>2 DEF Opens
<1>5. WindowsBegin(k)'
  <2> SUFFICES ASSUME NEW i \in DOMAIN passed[k], i + Limit - 1 \in DOMAIN passed[k]
               PROVE  \E p \in i..i + Limit - 1 : Opens(k, p)'
    BY DEF WindowsBegin
  <2>1. PICK p \in i..i + Limit - 1 : Opens(k, p)
    BY <1>2 DEF KeyInv, WindowsBegin
  <2>2. p \in DOMAIN passed[k]
    BY <1>1
  <2> QED
    BY <1>4, <2>1, <2>2
<1> QED
  BY <1>2, <1>3, <1>5 DEF KeyInv

(* A request is let through. *)
LEMMA AllowedKey ==
    ASSUME LimitInv, LimitTypeOK', NEW k \in Keys, now' = now,
           passed'[k] = Append(passed[k], now),
           \/ Fresh(entry[k]) /\ entry'[k] = [start |-> now, count |-> 1]
           \/ /\ ~Fresh(entry[k]) /\ entry[k].count < Limit
              /\ entry'[k] = [start |-> entry[k].start, count |-> entry[k].count + 1]
    PROVE  KeyInv(k)'
<1> USE LimitAssumption
<1> DEFINE n == Len(passed[k])
           c == entry[k].count
<1>1. /\ now \in Nat /\ entry[k].start \in Nat /\ c \in 0..Limit
      /\ entry[k] \in [start : 0..now, count : 0..Limit]
      /\ n \in Nat /\ DOMAIN passed[k] = 1..n
      /\ \A q \in DOMAIN passed[k] : passed[k][q] \in 0..now
  BY Values DEF LimitInv
<1>2. /\ Len(passed'[k]) = n + 1 /\ DOMAIN passed'[k] = 1..n + 1
      /\ passed'[k][n + 1] = now
      /\ \A q \in 1..n : passed'[k][q] = passed[k][q]
  <2>1. passed[k] \in Seq(0..now)
    BY Values DEF LimitInv
  <2> QED
    BY <1>1, <2>1
<1>3. KeyInv(k)
  BY DEF LimitInv
<1>4. /\ Opened(k)' = n + 2 - entry'[k].count
      /\ \/ Fresh(entry[k]) /\ entry'[k].count = 1 /\ entry'[k].start = now /\ Opened(k)' = n + 1
         \/ /\ ~Fresh(entry[k]) /\ c < Limit /\ c > 0 /\ entry'[k].count = c + 1
            /\ entry'[k].start = entry[k].start /\ Opened(k)' = Opened(k)
  <2>1. Opened(k)' = n + 2 - entry'[k].count
    <3>1. Opened(k)' = Len(passed'[k]) - entry'[k].count + 1
      BY DEF Opened
    <3>2. entry'[k].count \in Int /\ n \in Int
      BY <1>1
    <3>3. \A m, e \in Int : (m + 1) - e + 1 = m + 2 - e
      OBVIOUS
    <3> HIDE DEF n
    <3> QED
      BY <1>2, <3>1, <3>2, <3>3
  <2>2. CASE Fresh(entry[k])
    <3>1. entry'[k].count = 1 /\ entry'[k].start = now
      BY <2>2
    <3> QED
      BY <1>1, <2>1, <2>2, <3>1
  <2>3. CASE ~Fresh(entry[k])
    <3>1. c < Limit /\ entry'[k].count = c + 1 /\ entry'[k].start = entry[k].start
      BY <2>3
    <3>2. c > 0
      BY <1>1, <2>3 DEF Fresh
    <3>3. Opened(k)' = Opened(k)
      <4>1. Opened(k) = n - c + 1
        BY DEF Opened
      <4>2. n \in Int /\ c \in Int
        BY <1>1
      <4> HIDE DEF n, c
      <4> QED
        BY <2>1, <3>1, <4>1, <4>2
    <3> QED
      BY <2>1, <2>3, <3>1, <3>2, <3>3
  <2> QED
    BY <2>1, <2>2, <2>3
<1>5. Opened(k) = n - c + 1
  BY DEF Opened
<1> HIDE DEF n, c
<1>6. InOrder(k)'
  <2> SUFFICES ASSUME NEW p \in 1..n + 1, NEW q \in 1..n + 1, p <= q
               PROVE  passed'[k][p] <= passed'[k][q]
    BY <1>2 DEF InOrder
  <2>1. CASE q \in 1..n
    <3>1. p \in 1..n
      BY <1>1, <2>1
    <3>2. passed[k][p] <= passed[k][q]
      BY <1>1, <1>3, <2>1, <3>1 DEF KeyInv, InOrder
    <3> QED
      BY <1>2, <2>1, <3>1, <3>2
  <2>2. CASE q = n + 1
    <3>1. CASE p = n + 1
      BY <1>1, <1>2, <2>2, <3>1
    <3>2. CASE p \in 1..n
      BY <1>1, <1>2, <2>2, <3>2
    <3> QED
      BY <1>1, <3>1, <3>2
  <2> QED
    BY <1>1, <2>1, <2>2
<1>7. Current(k)'
  <2>1. CASE Fresh(entry[k])
    BY <1>1, <1>2, <1>4, <2>1 DEF Current
  <2>2. CASE ~Fresh(entry[k])
    <3>1. c > 0 /\ c <= n /\ passed[k][Opened(k)] = entry[k].start
      BY <1>3, <1>4, <2>2 DEF KeyInv, Current, n, c
    <3>2. Opened(k) \in 1..n
      BY <1>1, <1>5, <3>1
    <3> QED
      BY <1>1, <1>2, <1>4, <2>2, <3>1, <3>2 DEF Current
  <2> QED
    BY <2>1, <2>2
<1>8. ASSUME NEW o \in Int, o = Opened(k)'
      PROVE  Opens(k, o)'
  <2>1. entry'[k].count \in 1..Limit /\ Opened(k)' = n + 2 - entry'[k].count
    BY <1>1, <1>4
  <2>2. \A q \in 1..n + 1 : ~(q >= o + Limit)
    BY <1>1, <1>8, <2>1
  <2> QED
    BY <1>2, <1>8, <2>1, <2>2 DEF Opens
<1>9. ASSUME NEW p \in 1..n, Opens(k, p)
      PROVE  Opens(k, p)'
  <2>1. CASE now - passed[k][p] >= Window
    BY <1>1, <1>2, <1>9, <2>1 DEF Opens
  <2>2. CASE c > 0 /\ p = Opened(k)
    <3>1. CASE Fresh(entry[k])
      <4>1. passed[k][p] = entry[k].start
        BY <1>3, <2>2 DEF KeyInv, Current, c
      <4>2. now - passed[k][p] >= Window
        BY <1>1, <2>2, <3>1, <4>1 DEF Fresh, c
      <4> QED
        BY <2>1, <4>2
    <3>2. CASE ~Fresh(entry[k])
      BY <1>4, <1>8, <2>2, <3>2
    <3> QED
      BY <3>1, <3>2
  <2> QED
    BY <1>9, <2>1, <2>2 DEF Opens, c
<1>10. WindowsBegin(k)'
  <2> SUFFICES ASSUME NEW i \in 1..n + 1, i + Limit - 1 \in 1..n + 1
               PROVE  \E p \in i..i + Limit - 1 : Opens(k, p)'
    BY <1>2 DEF WindowsBegin
  <2>1. CASE i + Limit - 1 <= n
    <3>1. i \in DOMAIN passed[k] /\ i + Limit - 1 \in DOMAIN passed[k]
      BY <1>1, <2>1
    <3>2. PICK p \in i..i + Limit - 1 : Opens(k, p)
      BY <1>3, <3>1 DEF KeyInv, WindowsBegin
    <3>3. p \in 1..n
      BY <1>1, <3>1
    <3> QED
      BY <1>9, <3>2, <3>3
  <2>2. CASE i + Limit - 1 = n + 1
    <3>1. Opened(k)' \in i..i + Limit - 1
      BY <1>1, <1>4, <1>5, <2>2
    <3> QED
      BY <1>8, <3>1
  <2> QED
    BY <1>1, <2>1, <2>2
<1> QED
  BY <1>6, <1>7, <1>10 DEF KeyInv

-----------------------------------------------------------------------------

(* Every step of the limiter keeps its invariant. *)
LEMMA LimitNextInv ==
    ASSUME LimitInv, [LimitNext]_limitVars
    PROVE  LimitInv'
<1> USE LimitAssumption
<1>0. LimitTypeOK /\ now \in Nat
  BY DEF LimitInv, LimitTypeOK
<1>1. CASE Tick \/ UNCHANGED limitVars
  <2>1. now' \in Nat /\ now' >= now /\ UNCHANGED <<entry, passed>>
    BY <1>0, <1>1 DEF Tick, limitVars
  <2>2. 0..now \subseteq 0..now'
    BY <1>0, <2>1
  <2>3. LimitTypeOK'
    <3>1. entry' \in [Keys -> [start : 0..now', count : 0..Limit]]
      BY <1>0, <2>1, <2>2 DEF LimitTypeOK
    <3>2. ASSUME NEW k \in Keys
          PROVE  passed[k] \in Seq(0..now')
      <4>1. passed[k] \in Seq(0..now)
        BY <1>0 DEF LimitTypeOK
      <4> QED
        BY <2>2, <4>1, SeqMonotonic
    <3>3. passed' \in [Keys -> Seq(0..now')]
      BY <1>0, <2>1, <3>2 DEF LimitTypeOK
    <3> QED
      BY <2>1, <3>1, <3>3 DEF LimitTypeOK
  <2> QED
    BY <2>1, <2>3, IdleKey DEF LimitInv
<1>2. CASE Restart
  <2>1. /\ now' = now /\ entry' = [k \in Keys |-> NoEntry] /\ passed' = [k \in Keys |-> <<>>]
    BY <1>2 DEF Restart
  <2>2. LimitTypeOK'
    BY <1>0, <2>1 DEF LimitTypeOK, NoEntry
  <2>3. ASSUME NEW k \in Keys
        PROVE  KeyInv(k)'
    <3>1. entry'[k].count = 0 /\ DOMAIN passed'[k] = {}
      BY <2>1 DEF NoEntry
    <3> QED
      BY <3>1 DEF KeyInv, InOrder, Current, WindowsBegin
  <2> QED
    BY <2>2, <2>3 DEF LimitInv
<1>3. ASSUME NEW key \in Keys, Refuse(key)
      PROVE  LimitInv'
  BY <1>1, <1>3 DEF Refuse
<1>4. ASSUME NEW key \in Keys, Allow(key)
      PROVE  LimitInv'
  <2>1. now' = now /\ passed' = [passed EXCEPT ![key] = Append(@, now)]
    BY <1>4 DEF Allow
  <2>2. entry[key] \in [start : 0..now, count : 0..Limit]
    BY <1>0 DEF LimitTypeOK
  <2> DEFINE opened == [entry EXCEPT ![key] = [start |-> now, count |-> 1]]
             counted == [entry EXCEPT ![key] = [start |-> entry[key].start, count |-> entry[key].count + 1]]
  <2>3. \/ Fresh(entry[key]) /\ entry' = Cleaned(opened, key)
        \/ ~Fresh(entry[key]) /\ entry[key].count < Limit /\ entry' = counted
    <3>0. [entry[key] EXCEPT !.count = @ + 1] = [start |-> entry[key].start, count |-> entry[key].count + 1]
      BY <2>2
    <3>1. [entry EXCEPT ![key].count = @ + 1] = counted
      BY <3>0, Zenon
    <3> QED
      BY <1>4, <3>1 DEF Allow
  <2>4. opened \in [Keys -> [start : 0..now, count : 0..Limit]]
    BY <1>0 DEF LimitTypeOK
  <2>5. ASSUME entry[key].count < Limit
        PROVE  counted \in [Keys -> [start : 0..now, count : 0..Limit]]
    <3>1. entry[key].count + 1 \in 0..Limit
      BY <2>2, <2>5
    <3> QED
      BY <1>0, <2>2, <3>1 DEF LimitTypeOK
  <2>6. /\ Cleaned(opened, key)[key] = [start |-> now, count |-> 1]
        /\ Cleaned(opened, key) \in [Keys -> [start : 0..now, count : 0..Limit]]
        /\ \A k \in Keys \ {key} :
              \/ Cleaned(opened, key)[k] = entry[k]
              \/ Cleaned(opened, key)[k] = NoEntry /\ Fresh(entry[k])
    <3>1. \A k \in Keys \ {key} : opened[k] = entry[k]
      BY <1>0 DEF LimitTypeOK
    <3>2. opened[key] = [start |-> now, count |-> 1]
      BY <1>0 DEF LimitTypeOK
    <3>3. NoEntry \in [start : 0..now, count : 0..Limit]
      BY <1>0 DEF NoEntry
    <3> HIDE DEF opened
    <3>4. CASE Cleaned(opened, key) = opened
      BY <2>4, <3>1, <3>2, <3>4
    <3>5. CASE Cleaned(opened, key)
                 = [k \in Keys |-> IF Fresh(opened[k]) /\ k # key THEN NoEntry ELSE opened[k]]
      BY <2>4, <3>1, <3>2, <3>3, <3>5
    <3> QED
      BY <3>4, <3>5 DEF Cleaned
  <2>7. /\ entry' \in [Keys -> [start : 0..now, count : 0..Limit]]
        /\ \/ Fresh(entry[key]) /\ entry'[key] = [start |-> now, count |-> 1]
           \/ /\ ~Fresh(entry[key]) /\ entry[key].count < Limit
              /\ entry'[key] = [start |-> entry[key].start, count |-> entry[key].count + 1]
        /\ \A k \in Keys \ {key} : entry'[k] = entry[k] \/ (entry'[k] = NoEntry /\ Fresh(entry[k]))
    <3>1. CASE Fresh(entry[key]) /\ entry' = Cleaned(opened, key)
      BY <2>6, <3>1
    <3>2. CASE ~Fresh(entry[key]) /\ entry[key].count < Limit /\ entry' = counted
      <4>1. /\ counted[key] = [start |-> entry[key].start, count |-> entry[key].count + 1]
            /\ \A k \in Keys \ {key} : counted[k] = entry[k]
        BY <1>0, <2>2 DEF LimitTypeOK
      <4> HIDE DEF counted
      <4> QED
        BY <2>5, <3>2, <4>1
    <3> QED
      BY <2>3, <3>1, <3>2
  <2>8. ASSUME NEW k \in Keys
        PROVE  passed'[k] = IF k = key THEN Append(passed[k], now) ELSE passed[k]
    BY <1>0, <2>1 DEF LimitTypeOK
  <2>9. LimitTypeOK'
    <3>1. Append(passed[key], now) \in Seq(0..now)
      BY <1>0, Values DEF LimitTypeOK
    <3>2. passed' \in [Keys -> Seq(0..now)]
      BY <1>0, <2>1, <3>1 DEF LimitTypeOK
    <3> QED
      BY <1>0, <2>1, <2>7, <3>2 DEF LimitTypeOK
  <2>10. KeyInv(key)'
    BY <2>1, <2>7, <2>8, <2>9, AllowedKey
  <2>11. ASSUME NEW k \in Keys \ {key}
         PROVE  KeyInv(k)'
    BY <1>0, <2>1, <2>7, <2>8, <2>9, IdleKey
  <2> QED
    BY <2>9, <2>10, <2>11 DEF LimitInv
<1> QED
  BY <1>1, <1>2, <1>3, <1>4 DEF LimitNext

(* Limit requests in a row open a window that lasts to the end of the next. *)
LEMMA InvBound == LimitInv => BurstBound
<1> SUFFICES ASSUME LimitInv, NEW k \in Keys, NEW i \in DOMAIN passed[k],
                    i + 2 * Limit - 1 \in DOMAIN passed[k]
             PROVE  passed[k][i + 2 * Limit - 1] - passed[k][i] >= Window
  BY DEF BurstBound
<1> USE LimitAssumption
<1>1. /\ Len(passed[k]) \in Nat /\ DOMAIN passed[k] = 1..Len(passed[k])
      /\ \A q \in DOMAIN passed[k] : passed[k][q] \in Nat
  BY Values DEF LimitInv, LimitTypeOK
<1>2. i + Limit - 1 \in DOMAIN passed[k]
  BY <1>1
<1>3. PICK p \in i..i + Limit - 1 : Opens(k, p)
  BY <1>2 DEF LimitInv, KeyInv, WindowsBegin
<1>4. p \in DOMAIN passed[k] /\ i <= p /\ i + 2 * Limit - 1 >= p + Limit
  BY <1>1, <1>2
<1>5. passed[k][i] <= passed[k][p]
  BY <1>4 DEF LimitInv, KeyInv, InOrder
<1>6. passed[k][i + 2 * Limit - 1] - passed[k][p] >= Window
  BY <1>3, <1>4 DEF Opens
<1>7. passed[k][i] \in Nat /\ passed[k][p] \in Nat /\ passed[k][i + 2 * Limit - 1] \in Nat
  BY <1>1, <1>4
<1> QED
  BY <1>5, <1>6, <1>7

(***************************************************************************)
(* However requests, cleanings and restarts follow each other, no stretch  *)
(* as long as a window sees twice the limit.                               *)
(***************************************************************************)
THEOREM Bounded == LimitSpec => []BurstBound
<1>1. LimitInv /\ [LimitNext]_limitVars => LimitInv'
  BY LimitNextInv
<1> QED
  BY <1>1, LimitInitInv, InvBound, PTL DEF LimitSpec

-----------------------------------------------------------------------------

(* The routes of the purchases use the limiter as it is meant to be used. *)
LEMMA PurchaseLimits ==
    ASSUME [PurchaseNext]_<<limitVars, purchaseVars>>
    PROVE  [LimitNext]_limitVars
<1>1. CASE Relink
  BY <1>1 DEF Relink
<1>2. CASE Crash
  BY <1>2 DEF Crash, LimitNext
<1>3. CASE Tick
  BY <1>3 DEF LimitNext
<1>4. ASSUME NEW p \in Purchases, NEW route \in Keys, NEW r \in Requests,
             Limited(p, route) \/ TPointComplete(r, p, route)
      PROVE  [LimitNext]_limitVars
  BY <1>4 DEF Limited, TPointComplete, LimitNext
<1>5. ASSUME NEW p \in Purchases, NEW route \in Keys, Limited(p, route)
      PROVE  [LimitNext]_limitVars
  BY <1>5 DEF Limited, LimitNext
<1>6. ASSUME NEW r \in Requests,
             AddPointsWithMeta(r) \/ DuplicateTransaction(r) \/ IssueTokens(r) \/ Fail(r)
      PROVE  [LimitNext]_limitVars
  BY <1>6 DEF AddPointsWithMeta, DuplicateTransaction, IssueTokens, Fail
<1>7. CASE UNCHANGED <<limitVars, purchaseVars>>
  BY <1>7
<1> QED
  BY <1>1, <1>2, <1>3, <1>4, <1>5, <1>6, <1>7 DEF PurchaseNext

(* The routes of the purchases keep the limiter's bound, whatever the calls behind it do. *)
THEOREM PurchasesBounded == PurchaseSpec => []BurstBound
<1>1. PurchaseInit => LimitInit
  BY DEF PurchaseInit
<1>2. LimitInv /\ [PurchaseNext]_<<limitVars, purchaseVars>> => LimitInv'
  BY PurchaseLimits, LimitNextInv
<1> QED
  BY <1>1, <1>2, LimitInitInv, InvBound, PTL DEF PurchaseSpec

-----------------------------------------------------------------------------

(* Calls, credits and answers are of their kinds. *)
ReceiptsOK ==
    /\ holder \in Users \cup {Nobody}
    /\ paidTo \in [Purchases -> Users \cup {Nobody}]
    /\ DOMAIN call = Requests
    /\ \A r \in Requests :
          /\ call[r] = Idle \/ call[r].op \in {"credit", "issue"}
          /\ call[r].op # "idle" => call[r].purchase \in Purchases
          /\ call[r].op = "credit" => call[r].user \in Users
    /\ told \in [Purchases -> SUBSET {"success", "duplicate", "limited", "error"}]

(* A call about to tell of a credit has made it. *)
IssuesCredited == \A r \in Requests : call[r].op = "issue" => paidTo[call[r].purchase] # Nobody

ReceiptInv == ReceiptsOK /\ IssuesCredited /\ ToldCredited

(* No receipts and no credits at first. *)
LEMMA ReceiptInitInv == PurchaseInit => ReceiptInv
BY DEF PurchaseInit, ReceiptInv, ReceiptsOK, IssuesCredited, ToldCredited, Idle

(* A call goes on or ends with an answer that is true. *)
LEMMA AnswerStep ==
    ASSUME ReceiptInv, NEW r \in Requests, NEW c, Become(r, c),
           c = Idle \/ c.op \in {"credit", "issue"},
           c.op # "idle" => c.purchase \in Purchases,
           c.op = "credit" => c.user \in Users,
           c.op = "issue" => paidTo'[c.purchase] # Nobody,
           UNCHANGED holder,
           paidTo' \in [Purchases -> Users \cup {Nobody}],
           \A p \in Purchases : paidTo[p] # Nobody => paidTo'[p] # Nobody,
           told' \in [Purchases -> SUBSET {"success", "duplicate", "limited", "error"}],
           \A p \in Purchases :
              told'[p] \cap {"success", "duplicate"} # {} =>
                  paidTo'[p] # Nobody \/ told[p] \cap {"success", "duplicate"} # {}
    PROVE  ReceiptInv'
<1>1. DOMAIN call' = Requests /\ call'[r] = c /\ \A s \in Requests \ {r} : call'[s] = call[s]
  BY DEF ReceiptInv, ReceiptsOK, Become
<1>2. ReceiptsOK'
  <2>1. ASSUME NEW s \in Requests
        PROVE  /\ call'[s] = Idle \/ call'[s].op \in {"credit", "issue"}
               /\ call'[s].op # "idle" => call'[s].purchase \in Purchases
               /\ call'[s].op = "credit" => call'[s].user \in Users
    BY <1>1 DEF ReceiptInv, ReceiptsOK
  <2> QED
    BY <1>1, <2>1 DEF ReceiptInv, ReceiptsOK
<1>3. ASSUME NEW s \in Requests, call'[s].op = "issue"
      PROVE  paidTo'[call'[s].purchase] # Nobody
  <2>1. CASE s = r
    BY <1>1, <1>3, <2>1
  <2>2. CASE s # r
    <3>1. call'[s] = call[s] /\ call[s].purchase \in Purchases /\ paidTo[call[s].purchase] # Nobody
      BY <1>1, <1>3, <2>2 DEF ReceiptInv, ReceiptsOK, IssuesCredited, ToldCredited
    <3> QED
      BY <3>1
  <2> QED
    BY <2>1, <2>2
<1>4. \A p \in Purchases : told'[p] \cap {"success", "duplicate"} # {} => paidTo'[p] # Nobody
  BY DEF ReceiptInv, IssuesCredited, ToldCredited
<1> QED
  BY <1>2, <1>3, <1>4 DEF ReceiptInv, IssuesCredited, ToldCredited

(* Every step of the purchases keeps the invariant of the receipts. *)
LEMMA ReceiptNextInv ==
    ASSUME ReceiptInv, [PurchaseNext]_<<limitVars, purchaseVars>>
    PROVE  ReceiptInv'
<1> USE PurchaseAssumption
<1>0. Idle.op = "idle"
  BY DEF Idle
<1>1. CASE Relink \/ UNCHANGED purchaseVars
  <2>1. holder' \in Users \cup {Nobody} /\ UNCHANGED <<paidTo, call, told>>
    BY <1>1 DEF Relink, ReceiptInv, ReceiptsOK, purchaseVars
  <2> QED
    BY <2>1 DEF ReceiptInv, ReceiptsOK, IssuesCredited, ToldCredited
<1>2. CASE Crash
  BY <1>0, <1>2 DEF Crash, ReceiptInv, ReceiptsOK, IssuesCredited, ToldCredited
<1>3. ASSUME NEW p \in Purchases, NEW answer \in {"success", "duplicate", "limited", "error"}, Tell(p, answer)
      PROVE  /\ told' \in [Purchases -> SUBSET {"success", "duplicate", "limited", "error"}]
             /\ \A q \in Purchases \ {p} : told'[q] = told[q]
             /\ told'[p] = told[p] \cup {answer}
  BY <1>3 DEF Tell, ReceiptInv, ReceiptsOK
<1>4. ASSUME NEW p \in Purchases, NEW answer \in {"limited", "error"}, Tell(p, answer),
             UNCHANGED <<holder, paidTo, call>>
      PROVE  ReceiptInv'
  BY <1>3, <1>4 DEF ReceiptInv, ReceiptsOK, IssuesCredited, ToldCredited
<1>5. ASSUME NEW p \in Purchases, NEW route \in Keys, Limited(p, route)
      PROVE  ReceiptInv'
  BY <1>4, <1>5 DEF Limited
<1>6. ASSUME NEW r \in Requests, NEW p \in Purchases, NEW route \in Keys, TPointComplete(r, p, route)
      PROVE  ReceiptInv'
  <2>1. CASE holder = Nobody
    BY <1>4, <1>6, <2>1 DEF TPointComplete
  <2>2. CASE holder # Nobody
    <3> DEFINE c == [op |-> "credit", purchase |-> p, user |-> holder]
    <3>1. c.op = "credit" /\ c.purchase \in Purchases /\ c.user \in Users
      BY <2>2 DEF ReceiptInv, ReceiptsOK
    <3>2. Become(r, c) /\ UNCHANGED <<holder, paidTo, told>>
      BY <1>6, <2>2 DEF TPointComplete
    <3> HIDE DEF c
    <3>3. /\ paidTo' \in [Purchases -> Users \cup {Nobody}]
          /\ told' \in [Purchases -> SUBSET {"success", "duplicate", "limited", "error"}]
          /\ \A q \in Purchases : paidTo[q] # Nobody => paidTo'[q] # Nobody
      BY <3>2 DEF ReceiptInv, ReceiptsOK
    <3> QED
      BY <3>1, <3>2, <3>3, AnswerStep
  <2> QED
    BY <2>1, <2>2
<1>7. ASSUME NEW r \in Requests, AddPointsWithMeta(r)
      PROVE  ReceiptInv'
  <2> DEFINE p == call[r].purchase
             u == call[r].user
             c == [op |-> "issue", purchase |-> p]
  <2>1. p \in Purchases /\ u \in Users
    BY <1>7 DEF AddPointsWithMeta, ReceiptInv, ReceiptsOK
  <2>2. /\ paidTo' = [paidTo EXCEPT ![p] = u] /\ Become(r, c) /\ UNCHANGED <<holder, told>>
    BY <1>7 DEF AddPointsWithMeta
  <2>3. c.op = "issue" /\ c.purchase = p
    OBVIOUS
  <2> HIDE DEF p, u, c
  <2>4. /\ paidTo' \in [Purchases -> Users \cup {Nobody}]
        /\ told' \in [Purchases -> SUBSET {"success", "duplicate", "limited", "error"}]
        /\ paidTo'[p] # Nobody
        /\ \A q \in Purchases : paidTo[q] # Nobody => paidTo'[q] # Nobody
    BY <2>1, <2>2 DEF ReceiptInv, ReceiptsOK
  <2> QED
    BY <2>1, <2>2, <2>3, <2>4, AnswerStep
<1>8. ASSUME NEW r \in Requests, DuplicateTransaction(r) \/ IssueTokens(r) \/ Fail(r)
      PROVE  ReceiptInv'
  <2> DEFINE p == call[r].purchase
  <2>1. PICK answer \in {"success", "duplicate", "error"} :
            /\ Tell(p, answer) /\ Become(r, Idle) /\ UNCHANGED <<holder, paidTo>>
            /\ answer # "error" => paidTo[p] # Nobody
    BY <1>8 DEF DuplicateTransaction, IssueTokens, Fail, ReceiptInv, IssuesCredited, ToldCredited, Taken
  <2>2. p \in Purchases
    BY <1>0, <1>8 DEF DuplicateTransaction, IssueTokens, Fail, ReceiptInv, ReceiptsOK
  <2> HIDE DEF p
  <2>3. /\ told' \in [Purchases -> SUBSET {"success", "duplicate", "limited", "error"}]
        /\ \A q \in Purchases \ {p} : told'[q] = told[q]
        /\ told'[p] = told[p] \cup {answer}
    BY <1>3, <2>1, <2>2
  <2>4. /\ paidTo' \in [Purchases -> Users \cup {Nobody}]
        /\ \A q \in Purchases : paidTo[q] # Nobody => paidTo'[q] # Nobody
        /\ paidTo[p] # Nobody => paidTo'[p] # Nobody
    BY <2>1 DEF ReceiptInv, ReceiptsOK
  <2>5. \A q \in Purchases :
            told'[q] \cap {"success", "duplicate"} # {} =>
                paidTo'[q] # Nobody \/ told[q] \cap {"success", "duplicate"} # {}
    BY <2>1, <2>3, <2>4
  <2> QED
    BY <1>0, <2>1, <2>3, <2>4, <2>5, AnswerStep
<1> QED
  BY <1>1, <1>2, <1>5, <1>6, <1>7, <1>8 DEF PurchaseNext

(***************************************************************************)
(* A client that is told of success or of a duplicate has the points, in   *)
(* whatever way its calls failed, raced or were cut off.                   *)
(***************************************************************************)
THEOREM AnswersTrue == PurchaseSpec => []ToldCredited
<1>1. ReceiptInv /\ [PurchaseNext]_<<limitVars, purchaseVars>> => ReceiptInv'
  BY ReceiptNextInv
<1>2. ReceiptInv => ToldCredited
  BY DEF ReceiptInv
<1> QED
  BY <1>1, <1>2, ReceiptInitInv, PTL DEF PurchaseSpec

-----------------------------------------------------------------------------

(* Each account has the points of the purchases credited to it. *)
BalanceInv ==
    /\ balance \in [Users -> Nat]
    /\ \A u \in Users : IsFiniteSet(CreditedTo(u)) /\ balance[u] = PaidTo(u)

(* No purchase is credited yet. *)
LEMMA BalanceInitInv == PurchaseInit => BalanceInv
<1> SUFFICES ASSUME PurchaseInit PROVE BalanceInv
  OBVIOUS
<1> SUFFICES ASSUME NEW u \in Users
             PROVE  IsFiniteSet(CreditedTo(u)) /\ balance[u] = PaidTo(u)
  BY DEF BalanceInv, PurchaseInit
<1>1. CreditedTo(u) = {}
  BY PurchaseAssumption DEF PurchaseInit, CreditedTo
<1>2. IsFiniteSet(CreditedTo(u))
  BY <1>1, FS_EmptySet
<1>3. PaidTo(u) = 0
  BY <1>1, SumEmpty DEF PaidTo
<1> QED
  BY <1>2, <1>3 DEF PurchaseInit

(* The points and the row of the receipt are written together, or not. *)
LEMMA CreditStep ==
    ASSUME ReceiptInv, BalanceInv, NEW r \in Requests, AddPointsWithMeta(r)
    PROVE  BalanceInv'
<1>0. /\ call[r].purchase \in Purchases
      /\ call[r].user \in Users
  BY PurchaseAssumption DEF AddPointsWithMeta, ReceiptInv, ReceiptsOK, Idle
<1>p. PICK p \in Purchases, u \in Users : p = call[r].purchase /\ u = call[r].user
  BY <1>0
<1>1. u # Nobody
  BY PurchaseAssumption
<1>2. /\ paidTo[p] = Nobody
      /\ paidTo' = [paidTo EXCEPT ![p] = u]
      /\ balance' = [balance EXCEPT ![u] = @ + Amount[p]]
  BY <1>p DEF AddPointsWithMeta, Taken
<1>3. \A q \in Purchases : Amount[q] \in Nat
  BY PurchaseAssumption
<1>4. \A q \in Purchases : paidTo'[q] = IF q = p THEN u ELSE paidTo[q]
  BY <1>1, <1>2 DEF ReceiptInv, ReceiptsOK
<1>5. /\ balance' \in [Users -> Nat]
      /\ \A v \in Users : balance'[v] = IF v = u THEN balance[u] + Amount[p] ELSE balance[v]
  BY <1>1, <1>2, <1>3 DEF BalanceInv
<1>6. /\ p \notin CreditedTo(u)
      /\ CreditedTo(u)' = CreditedTo(u) \cup {p}
      /\ \A v \in Users \ {u} : CreditedTo(v)' = CreditedTo(v)
  <2>1. \A v \in Users : p \notin CreditedTo(v)
    BY <1>2, PurchaseAssumption DEF CreditedTo
  <2> QED
    BY <1>1, <1>4, <2>1 DEF CreditedTo
<1>7. ASSUME NEW v \in Users
      PROVE  IsFiniteSet(CreditedTo(v)) /\ balance[v] = SumFunctionOnSet(Amount, CreditedTo(v))
             /\ balance[v] \in Nat /\ CreditedTo(v) \subseteq Purchases
  BY DEF BalanceInv, PaidTo, CreditedTo
<1>8. IsFiniteSet(CreditedTo(u) \cup {p})
  BY <1>1, <1>7, FS_AddElement
<1>9. SumFunctionOnSet(Amount, CreditedTo(u) \cup {p}) = SumFunctionOnSet(Amount, CreditedTo(u)) + Amount[p]
  <2>1. \A x \in CreditedTo(u) : Amount[x] \in Int
    BY <1>1, <1>3, <1>7
  <2>2. Amount[p] \in Int
    BY <1>1, <1>3
  <2> QED
    BY <1>1, <1>6, <1>7, <2>1, <2>2, SumGrows
<1>10. ASSUME NEW v \in Users
       PROVE  IsFiniteSet(CreditedTo(v)') /\ balance'[v] = SumFunctionOnSet(Amount, CreditedTo(v)')
  <2>1. CASE v = u
    BY <1>1, <1>5, <1>6, <1>7, <1>8, <1>9, <2>1
  <2>2. CASE v # u
    BY <1>5, <1>6, <1>7, <2>2
  <2> QED
    BY <2>1, <2>2
<1> QED
  BY <1>5, <1>10 DEF BalanceInv, PaidTo

(* Nothing else changes a balance or credits a receipt. *)
LEMMA BalanceStep ==
    ASSUME ReceiptInv, BalanceInv, [PurchaseNext]_<<limitVars, purchaseVars>>
    PROVE  BalanceInv'
<1>1. ASSUME UNCHANGED <<paidTo, balance>>
      PROVE  BalanceInv'
  BY <1>1 DEF BalanceInv, PaidTo, CreditedTo
<1>2. CASE Relink \/ Crash \/ UNCHANGED purchaseVars
  BY <1>1, <1>2 DEF Relink, Crash, purchaseVars
<1>3. ASSUME NEW p \in Purchases, NEW route \in Keys, Limited(p, route)
      PROVE  BalanceInv'
  BY <1>1, <1>3 DEF Limited
<1>4. ASSUME NEW r \in Requests, NEW p \in Purchases, NEW route \in Keys, TPointComplete(r, p, route)
      PROVE  BalanceInv'
  BY <1>1, <1>4 DEF TPointComplete
<1>5. ASSUME NEW r \in Requests, DuplicateTransaction(r) \/ IssueTokens(r) \/ Fail(r)
      PROVE  BalanceInv'
  BY <1>1, <1>5 DEF DuplicateTransaction, IssueTokens, Fail
<1> QED
  BY <1>2, <1>3, <1>4, <1>5, CreditStep DEF PurchaseNext

(***************************************************************************)
(* However often, by whichever route and however close together a receipt  *)
(* is sent, it is credited once, and whoever is told so has the points     *)
(* (CompleteBitsTransaction, AddPointsWithMeta).                           *)
(***************************************************************************)
THEOREM CreditedOnce == PurchaseSpec => []PurchaseAnswersTrue
<1>1. PurchaseInit => ReceiptInv /\ BalanceInv
  BY ReceiptInitInv, BalanceInitInv
<1>2. ReceiptInv /\ BalanceInv /\ [PurchaseNext]_<<limitVars, purchaseVars>>
          => (ReceiptInv /\ BalanceInv)'
  BY ReceiptNextInv, BalanceStep
<1>3. ReceiptInv /\ BalanceInv => PurchaseAnswersTrue
  BY DEF ReceiptInv, BalanceInv, PurchaseAnswersTrue
<1> QED
  BY <1>1, <1>2, <1>3, PTL DEF PurchaseSpec
=============================================================================
