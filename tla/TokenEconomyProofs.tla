-------------------------- MODULE TokenEconomyProofs --------------------------
(***************************************************************************)
(* Proofs about the claim flow, alone and together with the spend flow,    *)
(* for any viewers, ledgers, claims, redemptions and bounds: type and      *)
(* control of the requests, conservation of the points, the refinement of  *)
(* PointExchange, and the drift between chain and database.                *)
(***************************************************************************)
EXTENDS TokenEconomy, Sums, TLAPS

-----------------------------------------------------------------------------
(* Type correctness.                                                         *)

(* Posting a change that leaves no ledger below zero keeps the ledger tables well typed. *)
LEMMA PostType ==
    ASSUME LedgerTypeOK,
           NEW change \in [Ledgers -> Int],
           NEW source \in {"earn", "spend", "claim"},
           \A l \in Ledgers : spendable[l] + change[l] >= 0,
           Post(change, source)
    PROVE  /\ spendable' \in [Ledgers -> Nat]
           /\ lastId' \in [Ledgers -> Nat]
           /\ history' \in [Ledgers -> SUBSET Entries]
<1>1. spendable' \in [Ledgers -> Nat]
  BY DEF Post, LedgerTypeOK
<1>2. lastId' \in [Ledgers -> Nat]
  BY DEF Post, LedgerTypeOK
<1>3. ASSUME NEW l \in Ledgers
      PROVE  Entry(lastId[l] + 1, source, change[l]) \in Entries
  BY DEF LedgerTypeOK, Entry, Entries
<1>4. history' \in [Ledgers -> SUBSET Entries]
  BY <1>3 DEF Post, LedgerTypeOK
<1> QED
  BY <1>1, <1>2, <1>4

(* Credits and deductions keep the ledger tables well typed. *)
LEMMA PointsType == LedgerTypeOK /\ LedgerNext => LedgerTypeOK'
<1> SUFFICES ASSUME LedgerTypeOK,
                    NEW l \in Ledgers, NEW n \in Amounts,
                    AddPoints(l, n) \/ DeductPoints(l, n)
             PROVE  LedgerTypeOK'
  BY DEF LedgerNext
<1> n \in Int
  BY LedgerAssumption
<1>1. CASE AddPoints(l, n)
  <2>1. Only(l, n) \in [Ledgers -> Int]
    BY DEF Only
  <2>2. \A k \in Ledgers : spendable[k] + Only(l, n)[k] >= 0
    BY <1>1 DEF AddPoints, Only, LedgerTypeOK
  <2>3. cumulative' \in [Ledgers -> Nat]
    BY <1>1 DEF AddPoints, LedgerTypeOK
  <2> QED
    BY <1>1, <2>1, <2>2, <2>3, PostType DEF AddPoints, LedgerTypeOK
<1>2. CASE DeductPoints(l, n)
  <2>1. Only(l, -n) \in [Ledgers -> Int]
    BY DEF Only
  <2>2. \A k \in Ledgers : spendable[k] + Only(l, -n)[k] >= 0
    BY <1>2 DEF DeductPoints, Only, LedgerTypeOK
  <2> QED
    BY <1>2, <2>1, <2>2, PostType DEF DeductPoints, LedgerTypeOK
<1> QED
  BY <1>1, <1>2

(* A goroutine moves to one of the places Goto allows. *)
LEMMA GotoType ==
    ASSUME ClaimTypeOK, NEW c \in Claims,
           NEW places \in SUBSET ({"idle"} \cup Serving \cup Ended),
           Goto(c, places)
    PROVE  pc' \in [Claims -> {"idle"} \cup Serving \cup Ended]
BY DEF ClaimTypeOK, Goto

(* The initial tables are well typed. *)
LEMMA InitType == ClaimInit => ClaimTypeOK
<1> SUFFICES ASSUME ClaimInit PROVE ClaimTypeOK
  OBVIOUS
<1>1. LedgerTypeOK
  <2>1. spendable \in [Ledgers -> Nat]
    BY LedgerAssumption DEF ClaimInit, LedgerInit
  <2> QED
    BY <2>1 DEF ClaimInit, LedgerInit, LedgerTypeOK, Entry, Entries
<1>2. resv \in [Claims -> Reservations]
  BY DEF ClaimInit, NoReservation, Reservations
<1> QED
  BY <1>1, <1>2 DEF ClaimInit, ClaimTypeOK, Statuses

(* What the tables become when a reservation commits. *)
LEMMA ReserveType ==
    ASSUME ClaimTypeOK, NEW c \in Claims, NEW u \in Users,
           NEW amount \in 1..MaxClaim, NEW items \in Splits(u, amount),
           ReserveTx(c, u, amount, items)
    PROVE  /\ LedgerTypeOK'
           /\ status' \in [Claims -> Statuses]
           /\ resv' \in [Claims -> Reservations]
<1> DEFINE taken == [l \in Ledgers |-> -items[l]]
<1>1. items \in [Ledgers -> Nat] /\ \A l \in Ledgers : items[l] <= spendable[l]
  <2>1. items \in [Ledgers -> 0..MaxEarned]
    BY DEF Splits
  <2>2. \A l \in Ledgers : items[l] <= (IF OwnerOf[l] = u THEN spendable[l] ELSE 0)
    BY DEF Splits
  <2> QED
    BY <2>1, <2>2, LedgerAssumption DEF ClaimTypeOK, LedgerTypeOK
<1>2. taken \in [Ledgers -> Int] /\ \A l \in Ledgers : spendable[l] + taken[l] >= 0
  BY <1>1 DEF ClaimTypeOK, LedgerTypeOK
<1>3. Post(taken, "claim") /\ cumulative' = cumulative
  BY DEF ReserveTx
<1>4. LedgerTypeOK'
  <2> HIDE DEF taken
  <2> QED
    BY <1>2, <1>3, PostType DEF ClaimTypeOK, LedgerTypeOK
<1>5. resv' \in [Claims -> Reservations]
  <2> DEFINE ids == [l \in Ledgers |-> IF items[l] = 0 THEN 0 ELSE lastId[l] + 1]
  <2>1. ids \in [Ledgers -> Nat]
    BY DEF ClaimTypeOK, LedgerTypeOK
  <2>2. amount \in Nat
    BY ClaimAssumption
  <2>3. [user |-> u, amount |-> amount, items |-> items, rows |-> ids] \in Reservations
    BY <1>1, <2>1, <2>2 DEF Reservations
  <2>4. resv' = [resv EXCEPT ![c] =
                   [user |-> u, amount |-> amount, items |-> items, rows |-> ids]]
    BY DEF ReserveTx
  <2> HIDE DEF ids
  <2> QED
    BY <2>3, <2>4 DEF ClaimTypeOK
<1> QED
  BY <1>4, <1>5 DEF ReserveTx, ClaimTypeOK, Statuses

(* What the tables become when a rollback commits. *)
LEMMA RollbackType ==
    ASSUME ClaimTypeOK, NEW c \in Claims, RollbackTx(c)
    PROVE  LedgerTypeOK' /\ status' \in [Claims -> Statuses]
<1>1. resv[c].items \in [Ledgers -> Nat]
  BY DEF ClaimTypeOK, Reservations
<1>2. spendable' \in [Ledgers -> Nat]
  BY <1>1 DEF RollbackTx, Refunded, ClaimTypeOK, LedgerTypeOK
<1> QED
  BY <1>2 DEF RollbackTx, RowsOfOthers, ClaimTypeOK, LedgerTypeOK, Statuses

(* What the tables become when a compensation commits. *)
LEMMA CompensateType ==
    ASSUME ClaimTypeOK, NEW c \in Claims, CompensateTx(c)
    PROVE  LedgerTypeOK' /\ status' \in [Claims -> Statuses]
<1>1. resv[c].items \in [Ledgers -> Nat]
  BY DEF ClaimTypeOK, Reservations
<1>2. resv[c].items \in [Ledgers -> Int]
      /\ \A l \in Ledgers : spendable[l] + resv[c].items[l] >= 0
  BY <1>1 DEF ClaimTypeOK, LedgerTypeOK
<1>3. Post(resv[c].items, "claim") /\ cumulative' = cumulative
  BY DEF CompensateTx
<1>4. LedgerTypeOK'
  BY <1>2, <1>3, PostType DEF ClaimTypeOK, LedgerTypeOK
<1> QED
  BY <1>4 DEF CompensateTx, ClaimTypeOK, Statuses

(* Every step keeps the tables, the requests and the chain well typed. *)
LEMMA StepType == ClaimTypeOK /\ [ClaimNext]_vars => ClaimTypeOK'
<1> SUFFICES ASSUME ClaimTypeOK, [ClaimNext]_vars PROVE ClaimTypeOK'
  OBVIOUS
<1> USE DEF Serving, Ended
<1>1. ASSUME NEW c \in Claims, Refuse(c) PROVE ClaimTypeOK'
  BY <1>1, GotoType DEF Refuse, Aborted, ledgerVars, chainVars, ClaimTypeOK, LedgerTypeOK
<1>2. ASSUME NEW c \in Claims, Reserve(c) PROVE ClaimTypeOK'
  <2>1. pc' \in [Claims -> {"idle"} \cup Serving \cup Ended]
    BY <1>2, GotoType DEF Reserve
  <2>2. CASE Aborted
    BY <2>1, <2>2 DEF Aborted, ledgerVars, chainVars, ClaimTypeOK, LedgerTypeOK
  <2>3. ASSUME NEW u \in Users, NEW amount \in 1..MaxClaim, NEW items \in Splits(u, amount),
               ReserveTx(c, u, amount, items)
        PROVE  ClaimTypeOK'
    BY <2>1, <2>3, ReserveType DEF ReserveTx, chainVars, ClaimTypeOK
  <2> QED
    BY <1>2, <2>2, <2>3 DEF Reserve
<1>3. ASSUME NEW c \in Claims, BroadcastMint(c) PROVE ClaimTypeOK'
  <2>1. pc' \in [Claims -> {"idle"} \cup Serving \cup Ended]
    BY <1>3, GotoType DEF BroadcastMint
  <2>2. mint' \in [Claims -> {"none", "mempool", "mined", "reverted", "dropped"}]
    BY <1>3 DEF BroadcastMint, ClaimTypeOK
  <2> QED
    BY <1>3, <2>1, <2>2 DEF BroadcastMint, ledgerVars, ClaimTypeOK, LedgerTypeOK
<1>4. ASSUME NEW c \in Claims, RollBack(c) PROVE ClaimTypeOK'
  <2>1. pc' \in [Claims -> {"idle"} \cup Serving \cup Ended]
    BY <1>4, GotoType DEF RollBack
  <2>2. CASE RollbackTx(c)
    BY <2>1, <2>2, RollbackType DEF RollbackTx, chainVars, ClaimTypeOK
  <2>3. CASE Aborted
    BY <2>1, <2>3 DEF Aborted, ledgerVars, chainVars, ClaimTypeOK, LedgerTypeOK
  <2> QED
    BY <1>4, <2>2, <2>3 DEF RollBack
<1>5. ASSUME NEW c \in Claims, RecordBroadcast(c) \/ RecordUnknown(c) PROVE ClaimTypeOK'
  <2>1. pc' \in [Claims -> {"idle"} \cup Serving \cup Ended]
    BY <1>5, GotoType DEF RecordBroadcast, RecordUnknown
  <2>2. CASE BroadcastTx(c)
    BY <2>1, <2>2
       DEF BroadcastTx, ledgerVars, chainVars, ClaimTypeOK, LedgerTypeOK, Statuses
  <2>3. CASE Aborted
    BY <2>1, <2>3 DEF Aborted, ledgerVars, chainVars, ClaimTypeOK, LedgerTypeOK
  <2> QED
    BY <1>5, <2>2, <2>3 DEF RecordBroadcast, RecordUnknown, UnknownTx
<1>6. ASSUME NEW c \in Claims, AwaitReceipt(c) PROVE ClaimTypeOK'
  <2>1. pc' \in [Claims -> {"idle"} \cup Serving \cup Ended]
    BY <1>6, GotoType DEF AwaitReceipt
  <2> QED
    BY <1>6, <2>1 DEF AwaitReceipt, Aborted, ledgerVars, chainVars, ClaimTypeOK, LedgerTypeOK
<1>7. ASSUME NEW c \in Claims, Compensate(c) PROVE ClaimTypeOK'
  <2>1. pc' \in [Claims -> {"idle"} \cup Serving \cup Ended]
    BY <1>7, GotoType DEF Compensate
  <2>2. CASE CompensateTx(c)
    BY <2>1, <2>2, CompensateType DEF CompensateTx, chainVars, ClaimTypeOK
  <2>3. CASE Aborted
    BY <2>1, <2>3 DEF Aborted, ledgerVars, chainVars, ClaimTypeOK, LedgerTypeOK
  <2> QED
    BY <1>7, <2>2, <2>3 DEF Compensate
<1>8. ASSUME NEW c \in Claims, Finalize(c) PROVE ClaimTypeOK'
  <2>1. pc' \in [Claims -> {"idle"} \cup Serving \cup Ended]
    BY <1>8, GotoType DEF Finalize
  <2>2. CASE FinalizeTx(c)
    <3>1. resv[c].amount \in Nat
      BY DEF ClaimTypeOK, Reservations
    <3>2. tachi \in [Users -> Nat]
          /\ tachi' = [tachi EXCEPT ![resv[c].user] = @ + resv[c].amount]
      BY <2>2 DEF FinalizeTx, ClaimTypeOK
    <3>3. ASSUME NEW u \in Users PROVE tachi'[u] \in Nat
      BY <3>1, <3>2
    <3>4. tachi' \in [Users -> Nat]
      BY <3>2, <3>3
    <3> QED
      BY <2>1, <2>2, <3>4
         DEF FinalizeTx, ledgerVars, chainVars, ClaimTypeOK, LedgerTypeOK, Statuses
  <2>3. CASE Aborted
    BY <2>1, <2>3 DEF Aborted, ledgerVars, chainVars, ClaimTypeOK, LedgerTypeOK
  <2> QED
    BY <1>8, <2>2, <2>3 DEF Finalize
<1>9. ASSUME NEW c \in Claims, MarkFinalizeFailed(c) PROVE ClaimTypeOK'
  <2>1. pc' \in [Claims -> {"idle"} \cup Serving \cup Ended]
    BY <1>9, GotoType DEF MarkFinalizeFailed
  <2>2. CASE MarkTx(c)
    BY <2>1, <2>2 DEF MarkTx, ledgerVars, chainVars, ClaimTypeOK, LedgerTypeOK, Statuses
  <2>3. CASE Aborted
    BY <2>1, <2>3 DEF Aborted, ledgerVars, chainVars, ClaimTypeOK, LedgerTypeOK
  <2> QED
    BY <1>9, <2>2, <2>3 DEF MarkFinalizeFailed
<1>10. ASSUME NEW c \in Claims, ChainMint(c) PROVE ClaimTypeOK'
  <2>1. resv[c].amount \in Nat
    BY DEF ClaimTypeOK, Reservations
  <2>2. wallet' \in [Users -> Nat]
    BY <1>10, <2>1 DEF ChainMint, ClaimTypeOK
  <2>3. mint' \in [Claims -> {"none", "mempool", "mined", "reverted", "dropped"}]
    BY <1>10 DEF ChainMint, ClaimTypeOK
  <2> QED
    BY <1>10, <2>2, <2>3 DEF ChainMint, ledgerVars, ClaimTypeOK, LedgerTypeOK
<1>11. CASE Points
  BY <1>11, PointsType DEF Points, claimVars, ClaimTypeOK
<1>12. CASE Crash
  BY <1>12 DEF Crash, CrashedPc, Aborted, ledgerVars, chainVars, ClaimTypeOK, LedgerTypeOK
<1>13. CASE UNCHANGED vars
  BY <1>13 DEF vars, ledgerVars, claimVars, ClaimTypeOK, LedgerTypeOK
<1> QED
  BY <1>1, <1>2, <1>3, <1>4, <1>5, <1>6, <1>7, <1>8, <1>9, <1>10, <1>11, <1>12, <1>13
     DEF ClaimNext, Progress, Continue

(***************************************************************************)
(* Tables, process memory and chain always hold values of the declared     *)
(* kinds; in particular no ledger and no balance ever falls below zero.    *)
(***************************************************************************)
THEOREM TypeCorrect == ClaimSpec => []ClaimTypeOK
BY InitType, StepType, PTL DEF ClaimSpec

-----------------------------------------------------------------------------
(* The control invariant.                                                    *)

(* The facts about one claim, and that only one request moves in a step. *)
Fact(c) ==
    /\ pc[c] = "idle" => status[c] = "absent" /\ mint[c] = "none"
    /\ pc[c] = "mint" => status[c] = "pending" /\ mint[c] = "none"
    /\ pc[c] = "rollback" => status[c] = "pending"
    /\ pc[c] = "record" => status[c] = "pending" /\ mint[c] # "none"
    /\ pc[c] \in {"wait", "unknown"} => status[c] = "broadcast"
    /\ pc[c] = "compensate" => status[c] = "broadcast" /\ mint[c] = "reverted"
    /\ pc[c] = "finalize" => status[c] = "broadcast" /\ mint[c] = "mined"
    /\ pc[c] = "mark" => status[c] \in {"broadcast", "confirmed"} /\ mint[c] = "mined"
    /\ status[c] # "absent" => resv[c].user \in Users
    /\ mint[c] # "none" => resv[c].user \in Users
    /\ hashed[c] <=> status[c] \notin {"absent", "pending"}
    /\ status[c] \in {"confirmed", "finalize_failed"} => mint[c] = "mined"
    /\ status[c] = "failed" => mint[c] = "reverted"

Same(c) ==
    /\ status'[c] = status[c]
    /\ hashed'[c] = hashed[c]
    /\ resv'[c] = resv[c]
    /\ pc'[c] = pc[c]
    /\ mint'[c] = mint[c]

(* The facts of all claims are the two invariants the runs check. *)
LEMMA FactIsInv ==
    (\A c \in Claims : Fact(c)) <=> RequestInv /\ VerdictMatchesChain
BY Zenon DEF Fact, RequestInv, VerdictMatchesChain

(* A claim that a step leaves alone keeps its facts. *)
LEMMA SameKeepsFact == ASSUME NEW c \in Claims, Fact(c), Same(c) PROVE Fact(c)'
BY DEF Fact, Same

(* A request's step touches its own claim only. *)
LEMMA StepIsLocal ==
    ASSUME ClaimTypeOK, NEW c \in Claims, NEW d \in Claims, d # c,
           Refuse(c) \/ Reserve(c) \/ Continue(c) \/ ChainMint(c)
    PROVE  Same(d)
<1> USE DEF ClaimTypeOK, Same, Goto, Aborted, chainVars
<1>1. CASE Refuse(c)
  BY <1>1 DEF Refuse
<1>2. CASE Reserve(c)
  BY <1>2 DEF Reserve, ReserveTx
<1>3. CASE BroadcastMint(c)
  BY <1>3 DEF BroadcastMint
<1>4. CASE RollBack(c)
  BY <1>4 DEF RollBack, RollbackTx
<1>5. CASE RecordBroadcast(c)
  BY <1>5 DEF RecordBroadcast, BroadcastTx
<1>6. CASE AwaitReceipt(c)
  BY <1>6 DEF AwaitReceipt
<1>7. CASE RecordUnknown(c)
  BY <1>7 DEF RecordUnknown, UnknownTx, BroadcastTx
<1>8. CASE Compensate(c)
  BY <1>8 DEF Compensate, CompensateTx
<1>9. CASE Finalize(c)
  BY <1>9 DEF Finalize, FinalizeTx
<1>10. CASE MarkFinalizeFailed(c)
  BY <1>10 DEF MarkFinalizeFailed, MarkTx
<1>11. CASE ChainMint(c)
  BY <1>11 DEF ChainMint
<1> QED
  BY <1>1, <1>2, <1>3, <1>4, <1>5, <1>6, <1>7, <1>8, <1>9, <1>10, <1>11 DEF Continue

(***************************************************************************)
(* The claim's own facts after each of its steps, and the status change    *)
(* the step may make.                                                      *)
(***************************************************************************)
Moves(c) ==
    /\ Fact(c)'
    /\ status'[c] # status[c] =>
           status'[c] \in Successors[status[c]] /\ pc[c] \notin Ended

(* A request's step keeps its claim's facts and moves its status legally. *)
LEMMA StepMoves ==
    ASSUME ClaimTypeOK, NEW c \in Claims, Fact(c),
           Refuse(c) \/ Reserve(c) \/ Continue(c) \/ ChainMint(c)
    PROVE  Moves(c)
<1> USE DEF ClaimTypeOK, Moves, Fact, Goto, Aborted, chainVars, Ended, Successors
<1>1. CASE Refuse(c)
  BY <1>1 DEF Refuse
<1>2. CASE Reserve(c)
  <2>1. CASE Aborted /\ Goto(c, {"refused"})
    BY <1>2, <2>1 DEF Reserve
  <2>2. ASSUME NEW u \in Users, NEW amount, NEW items,
               ReserveTx(c, u, amount, items), Goto(c, {"mint", "refused"})
        PROVE  Moves(c)
    <3>1. resv'[c].user = u
      BY <2>2 DEF ReserveTx
    <3> QED
      BY <1>2, <2>2, <3>1 DEF Reserve, ReserveTx
  <2> QED
    BY <1>2, <2>1, <2>2 DEF Reserve
<1>3. CASE BroadcastMint(c)
  BY <1>3 DEF BroadcastMint
<1>4. CASE RollBack(c)
  BY <1>4 DEF RollBack, RollbackTx
<1>5. CASE RecordBroadcast(c)
  BY <1>5 DEF RecordBroadcast, BroadcastTx
<1>6. CASE AwaitReceipt(c)
  BY <1>6 DEF AwaitReceipt
<1>7. CASE RecordUnknown(c)
  BY <1>7 DEF RecordUnknown, UnknownTx, BroadcastTx
<1>8. CASE Compensate(c)
  BY <1>8 DEF Compensate, CompensateTx
<1>9. CASE Finalize(c)
  BY <1>9 DEF Finalize, FinalizeTx
<1>10. CASE MarkFinalizeFailed(c)
  BY <1>10 DEF MarkFinalizeFailed, MarkTx, Finalizable
<1>11. CASE ChainMint(c)
  BY <1>11 DEF ChainMint
<1> QED
  BY <1>1, <1>2, <1>3, <1>4, <1>5, <1>6, <1>7, <1>8, <1>9, <1>10, <1>11 DEF Continue

(* Every step keeps every claim's facts and moves statuses legally. *)
LEMMA NextMoves ==
    ASSUME ClaimTypeOK, \A c \in Claims : Fact(c), [ClaimNext]_vars
    PROVE  \A c \in Claims : Moves(c)
<1> SUFFICES ASSUME NEW d \in Claims PROVE Moves(d)
  OBVIOUS
<1>1. Same(d) => Moves(d)
  BY SameKeepsFact DEF Moves, Same
<1>2. ASSUME NEW c \in Claims, Refuse(c) \/ Reserve(c) \/ Continue(c) \/ ChainMint(c)
      PROVE  Moves(d)
  <2>1. CASE c = d
    BY <1>2, <2>1, StepMoves
  <2>2. CASE c # d
    BY <1>1, <1>2, <2>2, StepIsLocal
  <2> QED
    BY <2>1, <2>2
<1>3. CASE Points
  BY <1>1, <1>3 DEF Points, claimVars, Same
<1>4. CASE Crash
  <2>1. pc'[d] = pc[d] \/ pc'[d] = "crashed"
    BY <1>4 DEF Crash, CrashedPc
  <2> QED
    BY <1>4, <2>1 DEF Crash, Aborted, chainVars, Moves, Fact
<1>5. CASE UNCHANGED vars
  BY <1>1, <1>5 DEF vars, claimVars, Same
<1> QED
  BY <1>2, <1>3, <1>4, <1>5 DEF ClaimNext, Progress

(* Every claim's facts hold before any request. *)
LEMMA InitFacts == ClaimInit => \A c \in Claims : Fact(c)
BY DEF ClaimInit, Fact

(* The inductive invariant. *)
LEMMA ControlInvariant == ClaimSpec => [](\A c \in Claims : Fact(c))
<1>1. ClaimTypeOK /\ (\A c \in Claims : Fact(c)) /\ [ClaimNext]_vars
        => (\A c \in Claims : Fact(c))'
  BY NextMoves DEF Moves
<1> QED
  BY <1>1, InitFacts, TypeCorrect, PTL DEF ClaimSpec

(***************************************************************************)
(* What a request read before a step still holds when its next transaction *)
(* runs, whatever other requests, credits, chain steps and crashes came    *)
(* between.                                                                *)
(***************************************************************************)
THEOREM RequestsInStep == ClaimSpec => []RequestInv
BY ControlInvariant, FactIsInv, PTL

(***************************************************************************)
(* A claim is confirmed only for a mined mint and failed, its points given *)
(* back, only for a reverted one.                                          *)
(***************************************************************************)
THEOREM VerdictSound == ClaimSpec => []VerdictMatchesChain
BY ControlInvariant, FactIsInv, PTL

(***************************************************************************)
(* No step moves a status off the life cycle: confirmed, failed and        *)
(* deleted claims are final.                                               *)
(***************************************************************************)
THEOREM StatusesFollowLifeCycle == ClaimSpec => StatusLifeCycle
<1>1. ClaimTypeOK /\ (\A c \in Claims : Fact(c)) /\ [ClaimNext]_vars => [StatusStep]_vars
  BY NextMoves DEF Moves, StatusStep
<1> QED
  BY <1>1, ControlInvariant, TypeCorrect, PTL DEF ClaimSpec, StatusLifeCycle

-----------------------------------------------------------------------------
(* Conservation of the points.                                               *)

(* The rows of every ledger are told apart by their ids and add up to the balance. *)
RowsOf(l) ==
    /\ IsFiniteSet(history[l])
    /\ \A e \in history[l] : 0 < e.id /\ e.id <= lastId[l]
    /\ \A e, d \in history[l] : e.id = d.id => e = d
    /\ HistoryTotal(l) = spendable[l]

(* A reservation takes its amount from ledgers of its viewer; while its claim *)
(* is pending, the rows that took it are in the history.                      *)
Took(c) ==
    status[c] # "absent" =>
        /\ Total(resv[c].items, Ledgers) = resv[c].amount
        /\ \A l \in Ledgers : resv[c].items[l] # 0 => OwnerOf[l] = resv[c].user

RowOf(c, l) == Entry(resv[c].rows[l], "claim", -resv[c].items[l])

TakenRows(c) ==
    status[c] = "pending" =>
        \A l \in Ledgers :
            IF resv[c].items[l] = 0 THEN resv[c].rows[l] = 0
            ELSE RowOf(c, l) \in history[l]

OwnRows(c, d) ==
    status[c] = "pending" /\ status[d] = "pending" =>
        \A l \in Ledgers : resv[c].rows[l] # 0 => resv[d].rows[l] # resv[c].rows[l]

Held == Statuses \ {"absent", "failed"}

Conserved(u) ==
    Total(cumulative, LedgersOf(u)) =
        Total(spendable, LedgersOf(u)) + DeductedFrom(u) + ClaimedBy(u, Held)

PointsInv ==
    /\ \A l \in Ledgers : RowsOf(l)
    /\ \A c \in Claims : Took(c) /\ TakenRows(c)
    /\ \A c \in Claims : \A d \in Claims \ {c} : OwnRows(c, d)
    /\ \A u \in Users : Conserved(u)

-----------------------------------------------------------------------------

(* A viewer's ledgers are finitely many. *)
LEMMA LedgersFinite == \A u : IsFiniteSet(LedgersOf(u)) /\ LedgersOf(u) \in SUBSET Ledgers
BY LedgerAssumption, FS_Subset DEF LedgersOf

(* What one more row adds to a ledger's sums. *)
LEMMA RowAdded ==
    ASSUME LedgerTypeOK, NEW l \in Ledgers, RowsOf(l), NEW n \in Int,
           NEW source \in {"earn", "spend", "claim"},
           history'[l] = history[l] \cup {Entry(lastId[l] + 1, source, n)},
           lastId'[l] = lastId[l] + 1, spendable'[l] = spendable[l] + n
    PROVE  /\ RowsOf(l)'
           /\ Deducted(l)' = Deducted(l) + (IF source = "spend" THEN -n ELSE 0)
<1> DEFINE row == Entry(lastId[l] + 1, source, n)
           H == history[l]
           d == [e \in H |-> e.delta]
           dd == [e \in H \cup {row} |-> e.delta]
           s == [e \in H |-> IF e.source = "spend" THEN -e.delta ELSE 0]
           ss == [e \in H \cup {row} |-> IF e.source = "spend" THEN -e.delta ELSE 0]
<1>1. /\ lastId[l] \in Nat
      /\ \A e \in H : e.id \in Nat /\ e.delta \in Int
  BY DEF LedgerTypeOK, Entries
<1>2. row.id = lastId[l] + 1 /\ row.delta = n /\ row.source = source
  BY DEF Entry
<1>3. row \notin H /\ IsFiniteSet(H)
  BY <1>1, <1>2 DEF RowsOf
<1> HIDE DEF row
<1>4. SumFunctionOnSet(dd, H \cup {row}) = SumFunctionOnSet(d, H) + n
  <2>1. (\A e \in H : d[e] \in Int /\ dd[e] = d[e]) /\ dd[row] = n
    BY <1>1, <1>2
  <2> HIDE DEF d, dd, s, ss, H
  <2> QED
    BY <1>3, <2>1, SumGrows
<1>5. SumFunctionOnSet(ss, H \cup {row})
          = SumFunctionOnSet(s, H) + (IF source = "spend" THEN -n ELSE 0)
  <2>1. /\ \A e \in H : s[e] \in Int /\ ss[e] = s[e]
        /\ ss[row] = (IF source = "spend" THEN -n ELSE 0)
    BY <1>1, <1>2
  <2> HIDE DEF d, dd, s, ss, H
  <2> QED
    BY <1>3, <2>1, SumGrows
<1>6. history'[l] = H \cup {row}
  BY DEF row
<1>7. HistoryTotal(l)' = spendable'[l]
  BY <1>4, <1>6 DEF HistoryTotal, Total, RowsOf
<1>8. IsFiniteSet(history'[l])
  BY <1>3, <1>6, FS_AddElement
<1>9. \A e \in history'[l] : 0 < e.id /\ e.id <= lastId'[l]
  BY <1>1, <1>2, <1>6 DEF RowsOf
<1>10. \A e, f \in history'[l] : e.id = f.id => e = f
  BY <1>1, <1>2, <1>6 DEF RowsOf
<1>11. RowsOf(l)'
  BY <1>7, <1>8, <1>9, <1>10 DEF RowsOf
<1>12. Deducted(l)' = Deducted(l) + (IF source = "spend" THEN -n ELSE 0)
  BY <1>5, <1>6 DEF Deducted, Total
<1> QED
  BY <1>11, <1>12

(* The deductions of a ledger add up to a number. *)
LEMMA DeductedType ==
    ASSUME LedgerTypeOK, NEW l \in Ledgers, RowsOf(l)
    PROVE  Deducted(l) \in Int
<1> DEFINE s == [e \in history[l] |-> IF e.source = "spend" THEN -e.delta ELSE 0]
<1>1. \A e \in history[l] : s[e] \in Int
  BY DEF LedgerTypeOK, Entries
<1>2. Deducted(l) = SumFunctionOnSet(s, history[l])
  BY DEF Deducted, Total
<1> HIDE DEF s
<1> QED
  BY <1>1, <1>2, SumInteger DEF RowsOf

(* Every post keeps the rows in order and moves no row. *)
LEMMA PostRows ==
    ASSUME LedgerTypeOK, \A l \in Ledgers : RowsOf(l),
           NEW change \in [Ledgers -> Int], NEW source \in {"earn", "spend", "claim"},
           Post(change, source)
    PROVE  \A l \in Ledgers :
               /\ RowsOf(l)'
               /\ Deducted(l)' = Deducted(l) + (IF source = "spend" THEN -change[l] ELSE 0)
               /\ history[l] \subseteq history'[l]
<1> SUFFICES ASSUME NEW l \in Ledgers
             PROVE  /\ RowsOf(l)'
                    /\ Deducted(l)' = Deducted(l) + (IF source = "spend" THEN -change[l] ELSE 0)
                    /\ history[l] \subseteq history'[l]
  OBVIOUS
<1>1. Deducted(l) \in Int
  BY DeductedType
<1>2. CASE change[l] = 0
  <2>1. history'[l] = history[l] /\ lastId'[l] = lastId[l] /\ spendable'[l] = spendable[l]
    BY <1>2 DEF Post, LedgerTypeOK
  <2>2. RowsOf(l)'
    BY <2>1 DEF RowsOf, HistoryTotal
  <2>3. Deducted(l)' = Deducted(l)
    BY <2>1 DEF Deducted
  <2> QED
    BY <1>1, <1>2, <2>1, <2>2, <2>3
<1>3. CASE change[l] # 0
  <2>1. /\ history'[l] = history[l] \cup {Entry(lastId[l] + 1, source, change[l])}
        /\ lastId'[l] = lastId[l] + 1
        /\ spendable'[l] = spendable[l] + change[l]
    BY <1>3 DEF Post
  <2> QED
    BY <2>1, RowAdded
<1> QED
  BY <1>2, <1>3

(* A row taken out of a ledger's history whose points are given back. *)
LEMMA RowRemoved ==
    ASSUME LedgerTypeOK, NEW l \in Ledgers, RowsOf(l), NEW row \in history[l],
           row.source # "spend",
           history'[l] = history[l] \ {row},
           lastId'[l] = lastId[l], spendable'[l] = spendable[l] - row.delta
    PROVE  RowsOf(l)' /\ Deducted(l)' = Deducted(l)
<1> DEFINE H == history[l]
           d == [e \in H |-> e.delta]
           dd == [e \in H \ {row} |-> e.delta]
           s == [e \in H |-> IF e.source = "spend" THEN -e.delta ELSE 0]
           ss == [e \in H \ {row} |-> IF e.source = "spend" THEN -e.delta ELSE 0]
<1>1. row \in H /\ IsFiniteSet(H) /\ \A e \in H : e.delta \in Int
  BY DEF RowsOf, LedgerTypeOK, Entries
<1>2. IsFiniteSet(H \ {row})
  BY <1>1, FS_RemoveElement
<1>3. SumFunctionOnSet(dd, H \ {row}) = SumFunctionOnSet(d, H) - row.delta
  <2>1. (\A e \in H : d[e] \in Int) /\ (\A e \in H \ {row} : dd[e] = d[e])
    BY <1>1
  <2>3. d[row] = row.delta
    BY <1>1
  <2> HIDE DEF d, dd, s, ss, H
  <2>2. SumFunctionOnSet(dd, H \ {row}) = SumFunctionOnSet(d, H) - d[row]
    BY <1>1, <2>1, SumDrops, Z3
  <2> QED
    BY <2>2, <2>3
<1>4. SumFunctionOnSet(ss, H \ {row}) = SumFunctionOnSet(s, H)
  <2>1. (\A e \in H : s[e] \in Int) /\ (\A e \in H \ {row} : ss[e] = s[e]) /\ s[row] = 0
    BY <1>1
  <2> HIDE DEF d, dd, s, ss, H
  <2>2. SumFunctionOnSet(ss, H \ {row}) = SumFunctionOnSet(s, H) - s[row]
    BY <1>1, <2>1, SumDrops
  <2>3. SumFunctionOnSet(s, H) \in Int
    BY <1>1, <2>1, SumInteger
  <2> QED
    BY <2>1, <2>2, <2>3
<1>5. HistoryTotal(l)' = spendable'[l]
  BY <1>3 DEF HistoryTotal, Total, RowsOf
<1>6. Deducted(l)' = Deducted(l)
  BY <1>4 DEF Deducted, Total
<1>7. RowsOf(l)'
  BY <1>2, <1>5 DEF RowsOf
<1> QED
  BY <1>6, <1>7

(* A viewer's sums follow the ledgers' values. *)
LEMMA ViewerSum ==
    ASSUME NEW u, NEW f, NEW e, NEW g,
           \A l \in Ledgers : f[l] \in Int /\ e[l] \in Int /\ g[l] = f[l] + e[l]
    PROVE  /\ Total(g, LedgersOf(u)) = Total(f, LedgersOf(u)) + Total(e, LedgersOf(u))
           /\ Total(f, LedgersOf(u)) \in Int
           /\ Total(e, LedgersOf(u)) \in Int
<1>1. IsFiniteSet(LedgersOf(u)) /\ LedgersOf(u) \in SUBSET Ledgers
  BY LedgersFinite
<1>2. \A l \in LedgersOf(u) : f[l] \in Int /\ e[l] \in Int /\ g[l] = f[l] + e[l]
  BY <1>1
<1> QED
  BY <1>1, <1>2, SumPlus, SumInteger DEF Total

(* Items taken from one viewer's ledgers. *)
LEMMA ItemsOfOne ==
    ASSUME NEW items \in [Ledgers -> Nat], NEW u, NEW v, NEW amount \in Nat,
           Total(items, Ledgers) = amount,
           \A l \in Ledgers : items[l] # 0 => OwnerOf[l] = u
    PROVE  Total(items, LedgersOf(v)) = IF v = u THEN amount ELSE 0
<1>1. IsFiniteSet(LedgersOf(v)) /\ LedgersOf(v) \in SUBSET Ledgers /\ IsFiniteSet(Ledgers)
  BY LedgersFinite, LedgerAssumption
<1>2. CASE v = u
  <2> DEFINE part == [l \in Ledgers |-> IF l \in LedgersOf(v) THEN items[l] ELSE 0]
  <2>1. SumFunctionOnSet(items, LedgersOf(v)) = SumFunctionOnSet(part, Ledgers)
    <3>1. \A l \in Ledgers : items[l] \in Int
      OBVIOUS
    <3> QED
      BY <1>1, <3>1, SumPart
  <2>2. \A l \in Ledgers : part[l] = items[l]
    BY <1>2 DEF LedgersOf
  <2> HIDE DEF part
  <2>3. SumFunctionOnSet(part, Ledgers) = SumFunctionOnSet(items, Ledgers)
    BY <1>1, <2>2, SumSame
  <2> QED
    BY <1>2, <2>1, <2>3 DEF Total
<1>3. CASE v # u
  <2>1. \A l \in LedgersOf(v) : items[l] = 0
    BY <1>3 DEF LedgersOf
  <2> QED
    BY <1>1, <1>3, <2>1, SumZero DEF Total
<1> QED
  BY <1>2, <1>3

(* What a step on one claim does to the sums over the claims of a viewer. *)
LEMMA ClaimedMoves ==
    ASSUME ClaimTypeOK, ClaimTypeOK', NEW c \in Claims, NEW u, NEW kinds,
           \A d \in Claims \ {c} : resv'[d] = resv[d] /\ status'[d] = status[d]
    PROVE  /\ ClaimedBy(u, kinds) \in Int
           /\ ClaimedBy(u, kinds)' = ClaimedBy(u, kinds)
                 - (IF resv[c].user = u /\ status[c] \in kinds THEN resv[c].amount ELSE 0)
                 + (IF resv'[c].user = u /\ status'[c] \in kinds THEN resv'[c].amount ELSE 0)
<1> DEFINE f == ClaimSizes
           e == ClaimSizes'
           P == ClaimsIn(u, kinds)
           Q == ClaimsIn(u, kinds)'
<1>1. \A d \in Claims : f[d] \in Int /\ e[d] \in Int
  BY DEF ClaimSizes, ClaimTypeOK, Reservations
<1>2. /\ P \in SUBSET Claims /\ Q \in SUBSET Claims
      /\ c \in P <=> resv[c].user = u /\ status[c] \in kinds
      /\ c \in Q <=> resv'[c].user = u /\ status'[c] \in kinds
      /\ f[c] = resv[c].amount /\ e[c] = resv'[c].amount
  BY DEF ClaimsIn, ClaimSizes
<1>3. \A d \in Claims \ {c} : e[d] = f[d] /\ (d \in Q <=> d \in P)
  BY DEF ClaimsIn, ClaimSizes
<1>4. ClaimedBy(u, kinds) = SumFunctionOnSet(f, P) /\ ClaimedBy(u, kinds)' = SumFunctionOnSet(e, Q)
  BY DEF ClaimedBy, Total
<1> HIDE DEF f, e, P, Q
<1>5. IsFiniteSet(Claims) /\ IsFiniteSet(P)
  BY <1>2, ClaimAssumption, FS_Subset
<1>6. SumFunctionOnSet(e, Q) = SumFunctionOnSet(f, P)
               - (IF c \in P THEN f[c] ELSE 0) + (IF c \in Q THEN e[c] ELSE 0)
  BY <1>1, <1>2, <1>3, <1>5, SumMember
<1>7. SumFunctionOnSet(f, P) \in Int
  BY <1>1, <1>2, <1>5, SumInteger
<1> QED
  BY <1>2, <1>4, <1>6, <1>7

-----------------------------------------------------------------------------
(* The points of each ledger that were earned, not deducted and are not there. *)
Out == [l \in Ledgers |-> cumulative[l] - spendable[l] - Deducted(l)]

(* The sums in Conserved, as one. *)
LEMMA OutSum ==
    ASSUME LedgerTypeOK, \A l \in Ledgers : RowsOf(l), NEW u
    PROVE  /\ Total(cumulative, LedgersOf(u)) =
                  Total(spendable, LedgersOf(u)) + DeductedFrom(u) + Total(Out, LedgersOf(u))
           /\ Total(Out, LedgersOf(u)) \in Int
           /\ Total(spendable, LedgersOf(u)) \in Int
           /\ DeductedFrom(u) \in Int
<1> DEFINE ded == [l \in Ledgers |-> Deducted(l)]
           gone == [l \in Ledgers |-> ded[l] + Out[l]]
<1>1. \A l \in Ledgers : Deducted(l) \in Int /\ spendable[l] \in Int /\ cumulative[l] \in Int
  BY DeductedType DEF LedgerTypeOK
<1>2. \A l \in Ledgers :
          /\ ded[l] \in Int /\ Out[l] \in Int /\ gone[l] \in Int
          /\ gone[l] = ded[l] + Out[l]
          /\ cumulative[l] = spendable[l] + gone[l]
  BY <1>1 DEF Out
<1>3. DeductedFrom(u) = Total(ded, LedgersOf(u))
  BY DEF DeductedFrom
<1> HIDE DEF ded, gone
<1>4. /\ Total(gone, LedgersOf(u)) = Total(ded, LedgersOf(u)) + Total(Out, LedgersOf(u))
      /\ Total(ded, LedgersOf(u)) \in Int
      /\ Total(Out, LedgersOf(u)) \in Int
  BY <1>2, ViewerSum
<1>5. /\ Total(cumulative, LedgersOf(u)) = Total(spendable, LedgersOf(u)) + Total(gone, LedgersOf(u))
      /\ Total(spendable, LedgersOf(u)) \in Int
  BY <1>1, <1>2, ViewerSum
<1> QED
  BY <1>3, <1>4, <1>5

(* A viewer's points are conserved when what leaves the ledgers is claimed. *)
LEMMA ConservedIs ==
    ClaimTypeOK /\ (\A l \in Ledgers : RowsOf(l))
        => \A u \in Users : Conserved(u) <=> Total(Out, LedgersOf(u)) = ClaimedBy(u, Held)
<1> SUFFICES ASSUME ClaimTypeOK, \A l \in Ledgers : RowsOf(l), NEW u \in Users
             PROVE  Conserved(u) <=> Total(Out, LedgersOf(u)) = ClaimedBy(u, Held)
  OBVIOUS
<1>1. ClaimedBy(u, Held) \in Int
  <2>1. \A c \in Claims : ClaimSizes[c] \in Int
    BY DEF ClaimSizes, ClaimTypeOK, Reservations
  <2>2. ClaimsIn(u, Held) \in SUBSET Claims
    BY DEF ClaimsIn
  <2>3. IsFiniteSet(ClaimsIn(u, Held))
    BY <2>2, ClaimAssumption, FS_Subset
  <2> QED
    BY <2>1, <2>2, <2>3, SumInteger DEF ClaimedBy, Total
<1> QED
  BY <1>1, OutSum DEF Conserved, ClaimTypeOK

(* The same after a step. *)
LEMMA ConservedNext ==
    (ClaimTypeOK /\ (\A l \in Ledgers : RowsOf(l))
        => \A u \in Users : Conserved(u) <=> Total(Out, LedgersOf(u)) = ClaimedBy(u, Held))'
BY ConservedIs, PTL

(* The tables stay and claims stay held or not held. *)
LEMMA TablesStay ==
    ASSUME PointsInv, UNCHANGED <<ledgerVars, resv>>,
           \A d \in Claims :
               /\ status'[d] \in Held <=> status[d] \in Held
               /\ status'[d] = "pending" => status[d] = "pending"
               /\ status'[d] # "absent" => status[d] # "absent"
    PROVE  PointsInv'
<1> USE DEF ledgerVars
<1>1. \A l \in Ledgers : RowsOf(l)'
  BY DEF PointsInv, RowsOf, HistoryTotal
<1>2. \A c \in Claims : Took(c)' /\ TakenRows(c)'
  BY DEF PointsInv, Took, TakenRows, RowOf
<1>3. \A c \in Claims : \A d \in Claims \ {c} : OwnRows(c, d)'
  BY DEF PointsInv, OwnRows
<1>4. ASSUME NEW u \in Users
      PROVE  Conserved(u)'
  <2>1. ClaimsIn(u, Held)' = ClaimsIn(u, Held)
    BY DEF ClaimsIn, Held
  <2>2. ClaimSizes' = ClaimSizes
    BY DEF ClaimSizes
  <2>3. DeductedFrom(u)' = DeductedFrom(u)
    BY DEF DeductedFrom, Deducted
  <2> QED
    BY <2>1, <2>2, <2>3 DEF PointsInv, Conserved, ClaimedBy, Total, LedgersOf
<1> QED
  BY <1>1, <1>2, <1>3, <1>4 DEF PointsInv

(* What leaves a viewer's ledgers in a step that moves took[l] out of them. *)
LEMMA OutMoves ==
    ASSUME LedgerTypeOK, LedgerTypeOK',
           \A l \in Ledgers : RowsOf(l), \A l \in Ledgers : RowsOf(l)',
           NEW took \in [Ledgers -> Int],
           \A l \in Ledgers : Out'[l] = Out[l] + took[l], NEW u
    PROVE  /\ Total(Out, LedgersOf(u))' = Total(Out, LedgersOf(u)) + Total(took, LedgersOf(u))
           /\ Total(took, LedgersOf(u)) \in Int
<1>1. \A l \in Ledgers : Out[l] \in Int /\ took[l] \in Int /\ Out'[l] = Out[l] + took[l]
  BY DeductedType DEF LedgerTypeOK, Out
<1>2. /\ Total(Out', LedgersOf(u)) = Total(Out, LedgersOf(u)) + Total(took, LedgersOf(u))
      /\ Total(took, LedgersOf(u)) \in Int
  BY <1>1, ViewerSum
<1>3. Total(Out, LedgersOf(u))' = Total(Out', LedgersOf(u))
  BY DEF Total, LedgersOf
<1> QED
  BY <1>2, <1>3

(* Rows that are not lost keep the claims' rows in the history. *)
LEMMA RowsKept ==
    ASSUME PointsInv, NEW d \in Claims,
           resv'[d] = resv[d], status'[d] = status[d],
           status[d] = "pending" => \A l \in Ledgers :
               RowOf(d, l) \in history[l] => RowOf(d, l) \in history'[l]
    PROVE  Took(d)' /\ TakenRows(d)'
<1>1. Took(d)'
  BY DEF PointsInv, Took
<1>2. TakenRows(d)'
  BY DEF PointsInv, TakenRows, RowOf
<1> QED
  BY <1>1, <1>2

(* What leaves a viewer's ledgers is claimed. *)
LEMMA Balance ==
    ASSUME ClaimTypeOK, ClaimTypeOK', PointsInv, \A l \in Ledgers : RowsOf(l)',
           NEW took \in [Ledgers -> Int],
           \A l \in Ledgers : Out'[l] = Out[l] + took[l],
           NEW u \in Users,
           ClaimedBy(u, Held)' = ClaimedBy(u, Held) + Total(took, LedgersOf(u))
    PROVE  Conserved(u)'
<1>1. Total(Out, LedgersOf(u))' = Total(Out, LedgersOf(u)) + Total(took, LedgersOf(u))
  BY OutMoves DEF PointsInv, ClaimTypeOK
<1>2. Total(Out, LedgersOf(u)) = ClaimedBy(u, Held)
  BY ConservedIs DEF PointsInv
<1>3. Total(Out, LedgersOf(u))' = ClaimedBy(u, Held)'
  BY <1>1, <1>2
<1> QED
  BY <1>3, ConservedNext

(* A credit or a deduction conserves every viewer's points. *)
LEMMA PointsStep ==
    ASSUME ClaimTypeOK, ClaimTypeOK', PointsInv, Points
    PROVE  PointsInv'
<1>1. UNCHANGED <<status, resv>>
  BY DEF Points, claimVars
<1>2. PICK l \in Ledgers, n \in Amounts : AddPoints(l, n) \/ DeductPoints(l, n)
  BY DEF Points, LedgerNext
<1>3. PICK change \in [Ledgers -> Int], source \in {"earn", "spend"} :
          /\ Post(change, source)
          /\ \A k \in Ledgers : cumulative'[k] =
                cumulative[k] + change[k] + (IF source = "spend" THEN -change[k] ELSE 0)
  <2>1. n \in Int
    BY LedgerAssumption
  <2>2. CASE AddPoints(l, n)
    <3>1. Only(l, n) \in [Ledgers -> Int]
      BY <2>1 DEF Only
    <3>2. \A k \in Ledgers : cumulative'[k] = cumulative[k] + Only(l, n)[k] + 0
      BY <2>1, <2>2 DEF AddPoints, Only, ClaimTypeOK, LedgerTypeOK
    <3>3. Post(Only(l, n), "earn")
      BY <2>2 DEF AddPoints
    <3> QED
      BY <3>1, <3>2, <3>3
  <2>3. CASE DeductPoints(l, n)
    <3> DEFINE change == Only(l, -n)
    <3>1. change \in [Ledgers -> Int]
      BY <2>1 DEF Only
    <3>2. Post(change, "spend")
      BY <2>3 DEF DeductPoints
    <3> HIDE DEF change
    <3>3. \A k \in Ledgers : cumulative'[k] = cumulative[k] + change[k] + (-change[k])
      BY <2>3, <3>1 DEF DeductPoints, ClaimTypeOK, LedgerTypeOK
    <3> QED
      BY <3>1, <3>2, <3>3
  <2> QED
    BY <1>2, <2>2, <2>3
<1>4. \A k \in Ledgers :
          /\ RowsOf(k)'
          /\ Deducted(k)' = Deducted(k) + (IF source = "spend" THEN -change[k] ELSE 0)
          /\ history[k] \subseteq history'[k]
  BY <1>3, PostRows DEF ClaimTypeOK, PointsInv
<1>5. ASSUME NEW u \in Users
      PROVE  Conserved(u)'
  <2> DEFINE took == [k \in Ledgers |-> 0]
  <2>1. \A k \in Ledgers : Out'[k] = Out[k] + took[k]
    <3> SUFFICES ASSUME NEW k \in Ledgers
                 PROVE  Out'[k] = Out[k]
      BY DeductedType DEF Out, PointsInv, ClaimTypeOK, LedgerTypeOK
    <3>1. spendable'[k] = spendable[k] + change[k]
      BY <1>3 DEF Post
    <3>2. /\ Deducted(k) \in Int /\ change[k] \in Int
          /\ spendable[k] \in Int /\ cumulative[k] \in Int
      BY DeductedType DEF PointsInv, ClaimTypeOK, LedgerTypeOK
    <3> QED
      BY <1>3, <1>4, <3>1, <3>2 DEF Out
  <2>2. took \in [Ledgers -> Int] /\ Total(took, LedgersOf(u)) = 0
    BY LedgersFinite, SumZero DEF Total
  <2> HIDE DEF took
  <2>3. ClaimedBy(u, Held)' = ClaimedBy(u, Held)
    BY <1>1 DEF ClaimedBy, ClaimsIn, ClaimSizes, Total
  <2>4. ClaimedBy(u, Held) \in Int
    BY OutSum, ConservedIs DEF PointsInv, ClaimTypeOK
  <2>5. ClaimedBy(u, Held)' = ClaimedBy(u, Held) + Total(took, LedgersOf(u))
    BY <2>2, <2>3, <2>4
  <2> QED
    BY <1>4, <2>1, <2>2, <2>5, Balance
<1>6. \A d \in Claims : Took(d)' /\ TakenRows(d)'
  BY <1>1, <1>4, RowsKept
<1>7. \A c \in Claims : \A d \in Claims \ {c} : OwnRows(c, d)'
  BY <1>1 DEF PointsInv, OwnRows
<1> QED
  BY <1>4, <1>5, <1>6, <1>7 DEF PointsInv

(* The points a claim reserves leave the ledgers of its viewer. *)
LEMMA ReserveStep ==
    ASSUME ClaimTypeOK, ClaimTypeOK', PointsInv, NEW c \in Claims, status[c] = "absent",
           NEW u \in Users, NEW amount \in 1..MaxClaim, NEW items \in Splits(u, amount),
           ReserveTx(c, u, amount, items)
    PROVE  PointsInv'
<1> DEFINE change == [l \in Ledgers |-> -items[l]]
           ids == [l \in Ledgers |-> IF items[l] = 0 THEN 0 ELSE lastId[l] + 1]
<1>1. /\ items \in [Ledgers -> Nat]
      /\ \A l \in Ledgers : items[l] # 0 => OwnerOf[l] = u
      /\ Total(items, Ledgers) = amount
      /\ amount \in Nat
  <2>1. items \in [Ledgers -> 0..MaxEarned] /\ Total(items, Ledgers) = amount
    BY DEF Splits
  <2>2. \A l \in Ledgers : items[l] <= (IF OwnerOf[l] = u THEN spendable[l] ELSE 0)
    BY DEF Splits
  <2> QED
    BY <2>1, <2>2, LedgerAssumption, ClaimAssumption
<1>2. /\ Post(change, "claim")
      /\ UNCHANGED cumulative
      /\ resv' = [resv EXCEPT ![c] = [user |-> u, amount |-> amount, items |-> items, rows |-> ids]]
      /\ status' = [status EXCEPT ![c] = "pending"]
  BY DEF ReserveTx
<1>3. change \in [Ledgers -> Int] /\ \A l \in Ledgers : change[l] = -items[l]
  BY <1>1
<1>4. \A l \in Ledgers : ids[l] = IF items[l] = 0 THEN 0 ELSE lastId[l] + 1
  OBVIOUS
<1> HIDE DEF change, ids
<1>5. /\ resv'[c].user = u /\ resv'[c].amount = amount
      /\ resv'[c].items = items /\ resv'[c].rows = ids
      /\ status'[c] = "pending"
      /\ \A d \in Claims \ {c} : resv'[d] = resv[d] /\ status'[d] = status[d]
  BY <1>2 DEF ClaimTypeOK
<1>6. \A l \in Ledgers :
          /\ RowsOf(l)'
          /\ Deducted(l)' = Deducted(l)
          /\ history[l] \subseteq history'[l]
  <2>1. \A l \in Ledgers :
            /\ RowsOf(l)'
            /\ Deducted(l)' = Deducted(l) + 0
            /\ history[l] \subseteq history'[l]
    BY <1>2, <1>3, PostRows DEF ClaimTypeOK, PointsInv
  <2> QED
    BY <2>1, DeductedType DEF ClaimTypeOK, PointsInv
<1>7. ASSUME NEW v \in Users
      PROVE  Conserved(v)'
  <2>1. \A l \in Ledgers : Out'[l] = Out[l] + items[l]
    <3> SUFFICES ASSUME NEW l \in Ledgers
                 PROVE  Out'[l] = Out[l] + items[l]
      OBVIOUS
    <3>1. spendable'[l] = spendable[l] - items[l]
      BY <1>1, <1>2, <1>3 DEF Post, ClaimTypeOK, LedgerTypeOK
    <3>2. /\ Deducted(l) \in Int /\ items[l] \in Int
          /\ spendable[l] \in Int /\ cumulative[l] \in Int
      BY <1>1, DeductedType DEF PointsInv, ClaimTypeOK, LedgerTypeOK
    <3> QED
      BY <1>2, <1>6, <3>1, <3>2 DEF Out
  <2>2. Total(items, LedgersOf(v)) = IF v = u THEN amount ELSE 0
    BY <1>1, ItemsOfOne
  <2>3. /\ ClaimedBy(v, Held) \in Int
        /\ ClaimedBy(v, Held)' = ClaimedBy(v, Held) - 0 + (IF v = u THEN amount ELSE 0)
    BY <1>5, ClaimedMoves DEF Held, Statuses
  <2>4. ClaimedBy(v, Held)' = ClaimedBy(v, Held) + Total(items, LedgersOf(v))
    BY <1>1, <2>2, <2>3
  <2>5. items \in [Ledgers -> Int]
    BY <1>1
  <2> QED
    BY <1>6, <2>1, <2>4, <2>5, Balance
<1>8. ASSUME NEW d \in Claims
      PROVE  Took(d)' /\ TakenRows(d)'
  <2>1. CASE d = c
    <3>1. Took(c)'
      BY <1>1, <1>5 DEF Took, Total
    <3>2. ASSUME NEW l \in Ledgers, items[l] # 0
          PROVE  RowOf(c, l)' \in history'[l]
      <4>1. change[l] # 0 /\ lastId[l] + 1 = ids[l] /\ change[l] = -items[l]
        BY <1>1, <1>3, <1>4, <3>2
      <4>2. Entry(lastId[l] + 1, "claim", change[l]) \in history'[l]
        BY <1>2, <4>1 DEF Post
      <4>3. RowOf(c, l)' = Entry(ids[l], "claim", -items[l])
        BY <1>5 DEF RowOf, Entry
      <4> QED
        BY <4>1, <4>2, <4>3
    <3>3. TakenRows(c)'
      BY <1>4, <1>5, <3>2 DEF TakenRows
    <3> QED
      BY <2>1, <3>1, <3>3
  <2>2. CASE d # c
    BY <1>5, <1>6, <2>2, RowsKept
  <2> QED
    BY <2>1, <2>2
<1>9. ASSUME NEW d \in Claims, d # c, status[d] = "pending", NEW l \in Ledgers
      PROVE  resv[d].rows[l] <= lastId[l] /\ resv[d].rows[l] \in Nat
  <2>1. resv[d].rows[l] \in Nat /\ lastId[l] \in Nat
    BY DEF ClaimTypeOK, Reservations, LedgerTypeOK
  <2>2. CASE resv[d].items[l] = 0
    BY <1>9, <2>1, <2>2 DEF PointsInv, TakenRows
  <2>3. CASE resv[d].items[l] # 0
    <3>1. RowOf(d, l) \in history[l]
      BY <1>9, <2>3 DEF PointsInv, TakenRows
    <3>2. RowOf(d, l).id = resv[d].rows[l]
      BY DEF RowOf, Entry
    <3> QED
      BY <2>1, <3>1, <3>2 DEF PointsInv, RowsOf
  <2> QED
    BY <2>2, <2>3
<1>10. ASSUME NEW d \in Claims, NEW e \in Claims \ {d}
       PROVE  OwnRows(d, e)'
  <2>1. \A l \in Ledgers : ids[l] = 0 \/ (ids[l] = lastId[l] + 1 /\ lastId[l] \in Nat)
    BY <1>4 DEF ClaimTypeOK, LedgerTypeOK
  <2>2. CASE d = c
    BY <1>5, <1>9, <2>1, <2>2 DEF OwnRows
  <2>3. CASE e = c
    BY <1>5, <1>9, <2>1, <2>3 DEF OwnRows
  <2>4. CASE d # c /\ e # c
    BY <1>5, <2>4 DEF OwnRows, PointsInv
  <2> QED
    BY <2>2, <2>3, <2>4
<1> QED
  BY <1>6, <1>7, <1>8, <1>10 DEF PointsInv

(* What a held claim gives back to the ledgers it took it from. *)
LEMMA GivenBack ==
    ASSUME ClaimTypeOK, ClaimTypeOK', PointsInv, \A l \in Ledgers : RowsOf(l)',
           NEW c \in Claims, status[c] \in Held, status'[c] \notin Held,
           \A d \in Claims \ {c} : status'[d] = status[d],
           UNCHANGED <<resv, cumulative>>,
           \A l \in Ledgers : /\ spendable'[l] = spendable[l] + resv[c].items[l]
                              /\ Deducted(l)' = Deducted(l),
           NEW u \in Users
    PROVE  Conserved(u)'
<1> DEFINE items == resv[c].items
           took == [l \in Ledgers |-> -items[l]]
           nil == [l \in Ledgers |-> 0]
<1>1. /\ items \in [Ledgers -> Nat] /\ resv[c].amount \in Nat
      /\ Total(items, Ledgers) = resv[c].amount
      /\ \A l \in Ledgers : items[l] # 0 => OwnerOf[l] = resv[c].user
  BY DEF ClaimTypeOK, Reservations, PointsInv, Took, Held
<1>2. \A l \in Ledgers : took[l] \in Int /\ items[l] \in Int /\ nil[l] = 0 /\ nil[l] = items[l] + took[l]
  BY <1>1
<1>3. \A l \in Ledgers : Out'[l] = Out[l] + took[l]
  <2> SUFFICES ASSUME NEW l \in Ledgers
               PROVE  Out'[l] = Out[l] + took[l]
    OBVIOUS
  <2>1. /\ Deducted(l) \in Int /\ spendable[l] \in Int /\ cumulative[l] \in Int
        /\ items[l] \in Int
    BY <1>2, DeductedType DEF PointsInv, ClaimTypeOK, LedgerTypeOK
  <2> QED
    BY <2>1 DEF Out
<1>4. took \in [Ledgers -> Int]
  BY <1>2
<1> HIDE DEF items, took, nil
<1>5. Total(took, LedgersOf(u)) = -Total(items, LedgersOf(u)) /\ Total(items, LedgersOf(u)) \in Int
  <2>1. /\ Total(nil, LedgersOf(u)) = Total(items, LedgersOf(u)) + Total(took, LedgersOf(u))
        /\ Total(items, LedgersOf(u)) \in Int
        /\ Total(took, LedgersOf(u)) \in Int
    BY <1>2, ViewerSum
  <2>2. Total(nil, LedgersOf(u)) = 0
    BY <1>2, LedgersFinite, SumZero DEF Total
  <2> QED
    BY <2>1, <2>2
<1>6. Total(items, LedgersOf(u)) = IF u = resv[c].user THEN resv[c].amount ELSE 0
  <2> DEFINE who == resv[c].user
             n == resv[c].amount
  <2>1. /\ n \in Nat /\ Total(items, Ledgers) = n
        /\ \A l \in Ledgers : items[l] # 0 => OwnerOf[l] = who
    BY <1>1
  <2> HIDE DEF who, n
  <2>2. Total(items, LedgersOf(u)) = IF u = who THEN n ELSE 0
    BY <1>1, <2>1, ItemsOfOne
  <2> QED
    BY <2>2 DEF who, n
<1>7. /\ ClaimedBy(u, Held) \in Int
      /\ ClaimedBy(u, Held)' = ClaimedBy(u, Held)
            - (IF resv[c].user = u THEN resv[c].amount ELSE 0) + 0
  BY ClaimedMoves
<1>8. ClaimedBy(u, Held)' = ClaimedBy(u, Held) + Total(took, LedgersOf(u))
  BY <1>1, <1>5, <1>6, <1>7
<1> QED
  BY <1>3, <1>4, <1>8, Balance

(* A rollback deletes exactly the rows the reservation wrote. *)
LEMMA RollbackStep ==
    ASSUME ClaimTypeOK, ClaimTypeOK', PointsInv, NEW c \in Claims, status[c] = "pending",
           RollbackTx(c)
    PROVE  PointsInv'
<1>1. /\ UNCHANGED <<resv, cumulative, lastId>>
      /\ status'[c] = "absent"
      /\ \A d \in Claims \ {c} : status'[d] = status[d]
      /\ \A l \in Ledgers :
            /\ spendable'[l] = spendable[l] + resv[c].items[l]
            /\ history'[l] = {e \in history[l] : e.id # resv[c].rows[l]}
  BY DEF RollbackTx, Refunded, RowsOfOthers, ClaimTypeOK
<1>2. ASSUME NEW l \in Ledgers
      PROVE  RowsOf(l)' /\ Deducted(l)' = Deducted(l)
  <2>1. resv[c].items[l] \in Nat /\ spendable[l] \in Nat
    BY DEF ClaimTypeOK, Reservations, LedgerTypeOK
  <2>2. CASE resv[c].items[l] = 0
    <3>1. resv[c].rows[l] = 0
      BY <2>2 DEF PointsInv, TakenRows
    <3>2. history'[l] = history[l] /\ spendable'[l] = spendable[l]
      <4>1. \A e \in history[l] : e.id # resv[c].rows[l]
        BY <3>1 DEF PointsInv, RowsOf
      <4>2. history'[l] = history[l]
        BY <1>1, <4>1
      <4> QED
        BY <1>1, <2>1, <2>2, <4>2
    <3>3. RowsOf(l)'
      BY <1>1, <3>2 DEF PointsInv, RowsOf, HistoryTotal
    <3>4. Deducted(l)' = Deducted(l)
      BY <3>2 DEF Deducted
    <3> QED
      BY <3>3, <3>4
  <2>3. CASE resv[c].items[l] # 0
    <3> DEFINE row == RowOf(c, l)
    <3>1. row \in history[l]
      BY <2>3 DEF PointsInv, TakenRows
    <3>2. row.id = resv[c].rows[l] /\ row.source = "claim" /\ row.delta = -resv[c].items[l]
      BY DEF RowOf, Entry
    <3>3. history'[l] = history[l] \ {row}
      BY <1>1, <3>1, <3>2 DEF PointsInv, RowsOf
    <3>4. spendable'[l] = spendable[l] - row.delta
      BY <1>1, <2>1, <3>2
    <3> HIDE DEF row
    <3>5. row.source # "spend"
      BY <3>2
    <3> QED
      BY <1>1, <3>1, <3>3, <3>4, <3>5, RowRemoved DEF PointsInv, ClaimTypeOK
  <2> QED
    BY <2>2, <2>3
<1>3. \A u \in Users : Conserved(u)'
  BY <1>1, <1>2, GivenBack DEF Held, Statuses
<1>4. ASSUME NEW d \in Claims
      PROVE  Took(d)' /\ TakenRows(d)'
  <2>1. CASE d = c
    BY <1>1, <2>1 DEF Took, TakenRows
  <2>2. CASE d # c
    <3>1. ASSUME status[d] = "pending", NEW l \in Ledgers, RowOf(d, l) \in history[l]
          PROVE  RowOf(d, l) \in history'[l]
      <4>1. RowOf(d, l).id = resv[d].rows[l]
        BY DEF RowOf, Entry
      <4>2. resv[d].rows[l] # 0
        BY <3>1, <4>1 DEF PointsInv, RowsOf
      <4>3. resv[c].rows[l] # resv[d].rows[l]
        BY <2>2, <3>1, <4>2 DEF PointsInv, OwnRows
      <4> QED
        BY <1>1, <3>1, <4>1, <4>3
    <3> QED
      BY <1>1, <2>2, <3>1, RowsKept
  <2> QED
    BY <2>1, <2>2
<1>5. \A d \in Claims : \A e \in Claims \ {d} : OwnRows(d, e)'
  BY <1>1 DEF OwnRows, PointsInv
<1> QED
  BY <1>2, <1>3, <1>4, <1>5 DEF PointsInv

(* A compensation gives back what the reservation took, as new rows. *)
LEMMA CompensateStep ==
    ASSUME ClaimTypeOK, ClaimTypeOK', PointsInv, NEW c \in Claims, status[c] = "broadcast",
           CompensateTx(c)
    PROVE  PointsInv'
<1>1. /\ UNCHANGED <<resv, cumulative>>
      /\ status'[c] = "failed"
      /\ \A d \in Claims \ {c} : status'[d] = status[d]
      /\ Post(resv[c].items, "claim")
  BY DEF CompensateTx, ClaimTypeOK
<1>2. resv[c].items \in [Ledgers -> Int]
  BY DEF ClaimTypeOK, Reservations
<1>3. \A l \in Ledgers :
          /\ RowsOf(l)'
          /\ Deducted(l)' = Deducted(l)
          /\ history[l] \subseteq history'[l]
  <2>1. \A l \in Ledgers :
            /\ RowsOf(l)'
            /\ Deducted(l)' = Deducted(l) + 0
            /\ history[l] \subseteq history'[l]
    BY <1>1, <1>2, PostRows DEF ClaimTypeOK, PointsInv
  <2> QED
    BY <2>1, DeductedType DEF ClaimTypeOK, PointsInv
<1>4. \A l \in Ledgers : spendable'[l] = spendable[l] + resv[c].items[l]
  BY <1>1 DEF Post
<1>5. \A u \in Users : Conserved(u)'
  BY <1>1, <1>3, <1>4, GivenBack DEF Held, Statuses
<1>6. ASSUME NEW d \in Claims
      PROVE  Took(d)' /\ TakenRows(d)'
  <2>1. CASE d = c
    BY <1>1, <2>1 DEF Took, TakenRows, PointsInv
  <2>2. CASE d # c
    BY <1>1, <1>3, <2>2, RowsKept
  <2> QED
    BY <2>1, <2>2
<1>7. \A d \in Claims : \A e \in Claims \ {d} : OwnRows(d, e)'
  BY <1>1 DEF OwnRows, PointsInv
<1> QED
  BY <1>3, <1>5, <1>6, <1>7 DEF PointsInv

(* Every step of every request conserves the points. *)
LEMMA PointsNext ==
    ASSUME ClaimTypeOK, ClaimTypeOK', \A c \in Claims : Fact(c), PointsInv, [ClaimNext]_vars
    PROVE  PointsInv'
<1>1. CASE UNCHANGED <<ledgerVars, status, resv>>
  BY <1>1, TablesStay
<1>2. ASSUME NEW c \in Claims, BroadcastTx(c) \/ FinalizeTx(c) \/ MarkTx(c), status[c] # "absent", status[c] # "failed"
      PROVE  PointsInv'
  <2>1. /\ UNCHANGED <<ledgerVars, resv>>
        /\ status'[c] \in {"broadcast", "confirmed", "finalize_failed"}
        /\ \A d \in Claims \ {c} : status'[d] = status[d]
    BY <1>2 DEF BroadcastTx, FinalizeTx, MarkTx, ClaimTypeOK
  <2>2. status[c] \in Held /\ status'[c] \in Held
    BY <1>2, <2>1 DEF Held, Statuses, ClaimTypeOK
  <2> QED
    BY <1>2, <2>1, <2>2, TablesStay
<1> USE DEF Aborted, chainVars
<1>3. ASSUME NEW c \in Claims, Refuse(c) \/ BroadcastMint(c) \/ AwaitReceipt(c) \/ ChainMint(c)
      PROVE  PointsInv'
  BY <1>1, <1>3 DEF Refuse, BroadcastMint, AwaitReceipt, ChainMint
<1>4. ASSUME NEW c \in Claims, Reserve(c)
      PROVE  PointsInv'
  BY <1>1, <1>4, ReserveStep DEF Reserve, Fact
<1>5. ASSUME NEW c \in Claims, RollBack(c)
      PROVE  PointsInv'
  BY <1>1, <1>5, RollbackStep DEF RollBack, Fact
<1>6. ASSUME NEW c \in Claims, RecordBroadcast(c) \/ RecordUnknown(c)
      PROVE  PointsInv'
  BY <1>1, <1>2, <1>6 DEF RecordBroadcast, RecordUnknown, UnknownTx, Fact
<1>7. ASSUME NEW c \in Claims, Compensate(c)
      PROVE  PointsInv'
  BY <1>1, <1>7, CompensateStep DEF Compensate, Fact
<1>8. ASSUME NEW c \in Claims, Finalize(c) \/ MarkFinalizeFailed(c)
      PROVE  PointsInv'
  BY <1>1, <1>2, <1>8 DEF Finalize, MarkFinalizeFailed, Fact
<1>9. CASE Points
  BY <1>9, PointsStep
<1>10. CASE Crash \/ UNCHANGED vars
  BY <1>1, <1>10 DEF Crash, vars, claimVars
<1> QED
  BY <1>3, <1>4, <1>5, <1>6, <1>7, <1>8, <1>9, <1>10 DEF ClaimNext, Progress, Continue

(* The first row of each ledger explains it. *)
LEMMA InitPoints == ClaimInit => PointsInv
<1> SUFFICES ASSUME ClaimInit
             PROVE  PointsInv
  OBVIOUS
<1>1. ClaimTypeOK
  BY InitType
<1>2. ASSUME NEW l \in Ledgers
      PROVE  RowsOf(l) /\ Deducted(l) = 0
  <2> DEFINE row == Entry(1, "earn", spendable[l])
             d == [e \in {row} |-> e.delta]
             s == [e \in {row} |-> IF e.source = "spend" THEN -e.delta ELSE 0]
  <2>1. history[l] = {row} /\ lastId[l] = 1 /\ spendable[l] \in Int
    BY <1>1 DEF ClaimInit, LedgerInit, ClaimTypeOK, LedgerTypeOK
  <2>2. row.id = 1 /\ row.source = "earn" /\ row.delta = spendable[l]
    BY DEF Entry
  <2> HIDE DEF row
  <2>3. IsFiniteSet({row})
    BY FS_Singleton
  <2>4. d[row] = spendable[l] /\ s[row] = 0
    BY <2>2
  <2>5. HistoryTotal(l) = SumFunctionOnSet(d, {row}) /\ Deducted(l) = SumFunctionOnSet(s, {row})
    BY <2>1 DEF HistoryTotal, Deducted, Total
  <2> HIDE DEF d, s
  <2>6. SumFunctionOnSet(s, {row}) = 0
    BY <2>3, <2>4, SumZero
  <2>7. SumFunctionOnSet(d, {row}) = spendable[l]
    <3>1. SumFunctionOnSet(d, {row}) = d[row] + SumFunctionOnSet(d, {row} \ {row})
      BY <2>1, <2>3, <2>4, SumTake
    <3>2. {row} \ {row} = {}
      OBVIOUS
    <3>3. SumFunctionOnSet(d, {row} \ {row}) = 0
      BY <3>2, SumEmpty
    <3> QED
      BY <2>1, <2>4, <3>1, <3>3
  <2> QED
    BY <2>1, <2>2, <2>3, <2>5, <2>6, <2>7 DEF RowsOf
<1>3. ASSUME NEW u \in Users
      PROVE  Conserved(u)
  <2>1. \A l \in Ledgers : Out[l] = 0
    BY <1>1, <1>2 DEF Out, ClaimInit, LedgerInit, ClaimTypeOK, LedgerTypeOK
  <2>2. Total(Out, LedgersOf(u)) = 0
    BY <2>1, LedgersFinite, SumZero DEF Total
  <2>3. ClaimsIn(u, Held) = {}
    BY DEF ClaimsIn, ClaimInit, Held
  <2> QED
    BY <1>1, <1>2, <2>2, <2>3, ConservedIs, SumEmpty DEF ClaimedBy, Total
<1>4. \A c \in Claims : Took(c) /\ TakenRows(c)
  BY DEF ClaimInit, Took, TakenRows
<1>5. \A c \in Claims : \A d \in Claims \ {c} : OwnRows(c, d)
  BY DEF ClaimInit, OwnRows
<1> QED
  BY <1>2, <1>3, <1>4, <1>5 DEF PointsInv

(* The inductive invariant of the ledgers. *)
LEMMA PointsInvariant == ClaimSpec => []PointsInv
<1>1. ClaimTypeOK /\ ClaimTypeOK' /\ (\A c \in Claims : Fact(c)) /\ PointsInv /\ [ClaimNext]_vars
        => PointsInv'
  BY PointsNext
<1> QED
  BY <1>1, InitPoints, TypeCorrect, ControlInvariant, PTL DEF ClaimSpec

(***************************************************************************)
(* No point is lost or made, for any number of viewers, ledgers and        *)
(* claims, whichever transactions abort, whichever commits are taken for   *)
(* aborts, and whenever the server crashes; and the rows that are left in  *)
(* a ledger's history add up to its balance.                               *)
(***************************************************************************)
THEOREM NoPointLost == ClaimSpec => []PointsConserved
<1>1. PointsInv => PointsConserved
  BY DEF PointsInv, PointsConserved, HistoryExplainsBalance, RowsOf, Conserved, Held
<1> QED
  BY <1>1, PointsInvariant, PTL

-----------------------------------------------------------------------------
(* The refinement of PointExchange.                                          *)

(* What PointExchange's variables stand for. *)
PointsOf(u) == Total(spendable, LedgersOf(u))
PointsHeld == [u \in Users |-> PointsOf(u)]
Phases == [c \in Claims |-> PhaseOf(c)]
Owners == [c \in Claims |-> resv[c].user]

(* A request that has not reserved has no reservation. *)
Unplaced == \A c \in Claims : pc[c] = "idle" => resv[c].user = Nobody

(* Every viewer's points are a natural number. *)
LEMMA PointsAreNatural ==
    ASSUME LedgerTypeOK, NEW u
    PROVE  PointsOf(u) \in Nat
<1>1. \A l \in LedgersOf(u) : spendable[l] \in Nat
  BY DEF LedgersOf, LedgerTypeOK
<1> QED
  BY <1>1, LedgersFinite, SumNatural DEF PointsOf, Total

(* Items given to, or taken from, one viewer's ledgers change that viewer's points only. *)
LEMMA PointsGiven ==
    ASSUME LedgerTypeOK, LedgerTypeOK',
           NEW items \in [Ledgers -> Nat], NEW u \in Users, NEW n \in Nat,
           Total(items, Ledgers) = n,
           \A l \in Ledgers : items[l] # 0 => OwnerOf[l] = u
    PROVE  /\ (\A l \in Ledgers : spendable'[l] = spendable[l] + items[l])
                  => PointsHeld' = [PointsHeld EXCEPT ![u] = @ + n]
           /\ (\A l \in Ledgers : spendable'[l] = spendable[l] - items[l])
                  => PointsHeld' = [PointsHeld EXCEPT ![u] = @ - n]
<1>1. \A v \in Users : Total(items, LedgersOf(v)) = IF v = u THEN n ELSE 0
  BY ItemsOfOne
<1>2. \A l \in Ledgers : spendable[l] \in Int /\ spendable'[l] \in Int /\ items[l] \in Int
  BY DEF LedgerTypeOK
<1>3. \A v \in Users : Total(spendable, LedgersOf(v)) \in Int /\ Total(spendable', LedgersOf(v)) \in Int
  BY <1>2, LedgersFinite, SumInteger DEF Total
<1>4. PointsHeld' = [v \in Users |-> Total(spendable', LedgersOf(v))]
  BY DEF PointsHeld, PointsOf, Total, LedgersOf
<1>5. ASSUME \A l \in Ledgers : spendable'[l] = spendable[l] + items[l]
      PROVE  PointsHeld' = [PointsHeld EXCEPT ![u] = @ + n]
  <2>1. \A v \in Users : Total(spendable', LedgersOf(v))
                            = Total(spendable, LedgersOf(v)) + Total(items, LedgersOf(v))
    BY <1>2, <1>5, ViewerSum
  <2>2. \A v \in Users : Total(spendable', LedgersOf(v))
                            = IF v = u THEN Total(spendable, LedgersOf(v)) + n
                              ELSE Total(spendable, LedgersOf(v))
    BY <1>1, <1>3, <2>1
  <2> QED
    BY <1>4, <2>2 DEF PointsHeld, PointsOf
<1>6. ASSUME \A l \in Ledgers : spendable'[l] = spendable[l] - items[l]
      PROVE  PointsHeld' = [PointsHeld EXCEPT ![u] = @ - n]
  <2>1. \A l \in Ledgers : spendable[l] = spendable'[l] + items[l]
    BY <1>2, <1>6
  <2>2. \A v \in Users : Total(spendable, LedgersOf(v))
                            = Total(spendable', LedgersOf(v)) + Total(items, LedgersOf(v))
    BY <1>2, <2>1, ViewerSum
  <2>3. \A v \in Users : Total(spendable', LedgersOf(v))
                            = IF v = u THEN Total(spendable, LedgersOf(v)) - n
                              ELSE Total(spendable, LedgersOf(v))
    BY <1>1, <1>3, <2>2
  <2> QED
    BY <1>4, <2>3 DEF PointsHeld, PointsOf
<1> QED
  BY <1>5, <1>6

(* A change of one ledger. *)
LEMMA OnlyOne ==
    ASSUME NEW l \in Ledgers, NEW n \in Nat
    PROVE  Only(l, n) \in [Ledgers -> Nat] /\ Total(Only(l, n), Ledgers) = n
<1> DEFINE nil == [k \in Ledgers |-> 0]
           one == Only(l, n)
<1>1. /\ \A k \in Ledgers : nil[k] \in Int /\ one[k] \in Int /\ nil[k] = 0
      /\ \A k \in Ledgers \ {l} : one[k] = nil[k]
      /\ one[l] = n /\ one \in [Ledgers -> Nat]
  BY DEF Only
<1> HIDE DEF nil, one
<1>2. IsFiniteSet(Ledgers)
  BY LedgerAssumption
<1>3. SumFunctionOnSet(one, Ledgers) = SumFunctionOnSet(nil, Ledgers) - nil[l] + one[l]
  BY <1>1, <1>2, SumChange
<1>4. SumFunctionOnSet(nil, Ledgers) = 0
  BY <1>1, <1>2, SumZero
<1>5. SumFunctionOnSet(one, Ledgers) = n
  BY <1>1, <1>3, <1>4
<1> QED
  BY <1>1, <1>5 DEF one, Total

(* The abstract variables, and a step that leaves them alone. *)
LEMMA Stutters ==
    ASSUME UNCHANGED <<spendable, tachi, resv>>, \A c \in Claims : PhaseOf(c)' = PhaseOf(c)
    PROVE  UNCHANGED Exchange!vars
<1>1. PointsHeld' = PointsHeld
  BY DEF PointsHeld, PointsOf, Total, LedgersOf
<1>2. Phases' = Phases
  BY DEF Phases
<1> QED
  BY <1>1, <1>2 DEF Exchange!vars, PointsHeld, PointsOf, Phases

(* The phase of a claim that a step leaves alone. *)
LEMMA SamePhase ==
    ASSUME NEW c \in Claims, resv'[c].user = resv[c].user, status'[c] = status[c]
    PROVE  PhaseOf(c)' = PhaseOf(c)
BY DEF PhaseOf

(* One claim's phase changes. *)
LEMMA PhaseMoves ==
    ASSUME NEW c \in Claims, NEW p, PhaseOf(c)' = p,
           \A d \in Claims \ {c} : resv'[d].user = resv[d].user /\ status'[d] = status[d]
    PROVE  Phases' = [Phases EXCEPT ![c] = p]
<1>1. \A d \in Claims \ {c} : PhaseOf(d)' = PhaseOf(d)
  BY SamePhase
<1> QED
  BY <1>1 DEF Phases

(* Credits are earned, deductions are spent. *)
LEMMA PointsImplement ==
    ASSUME ClaimTypeOK, ClaimTypeOK', Points
    PROVE  Exchange!Next
<1>1. UNCHANGED <<status, resv, tachi>>
  BY DEF Points, claimVars
<1>2. Phases' = Phases
  BY <1>1 DEF Phases, PhaseOf
<1>3. PICK l \in Ledgers, n \in Amounts : AddPoints(l, n) \/ DeductPoints(l, n)
  BY DEF Points, LedgerNext
<1>4. n > 0 /\ n \in Nat /\ OwnerOf[l] \in Users
  BY <1>3, LedgerAssumption DEF AddPoints, DeductPoints
<1> DEFINE items == Only(l, n)
           u == OwnerOf[l]
<1>5. /\ items \in [Ledgers -> Nat] /\ Total(items, Ledgers) = n
      /\ \A k \in Ledgers : items[k] # 0 => OwnerOf[k] = u
      /\ \A k \in Ledgers : Only(l, -n)[k] = -items[k]
  BY <1>4, OnlyOne DEF Only
<1>6. CASE AddPoints(l, n)
  <2>1. \A k \in Ledgers : spendable'[k] = spendable[k] + items[k]
    BY <1>6 DEF AddPoints, Post
  <2> HIDE DEF items, u
  <2>2. PointsHeld' = [PointsHeld EXCEPT ![u] = @ + n]
    BY <1>4, <1>5, <2>1, PointsGiven DEF u, ClaimTypeOK
  <2>3. Exchange!Earn(u, n)
    BY <1>1, <1>2, <1>4, <2>2 DEF Exchange!Earn, PointsHeld, PointsOf, Phases
  <2> QED
    BY <1>4, <2>3 DEF Exchange!Next, u
<1>7. CASE DeductPoints(l, n)
  <2>1. \A k \in Ledgers : spendable'[k] = spendable[k] - items[k]
    <3>1. \A k \in Ledgers : spendable'[k] = spendable[k] + Only(l, -n)[k]
      BY <1>7 DEF DeductPoints, Post
    <3>2. \A k \in Ledgers : spendable[k] \in Int /\ items[k] \in Int
      BY <1>5 DEF ClaimTypeOK, LedgerTypeOK
    <3> QED
      BY <1>5, <3>1, <3>2
  <2>2. n <= PointsOf(u)
    <3>1. n <= spendable[l] /\ l \in LedgersOf(u)
      BY <1>7 DEF DeductPoints, LedgersOf
    <3>2. spendable[l] <= PointsOf(u)
      <4>1. \A k \in LedgersOf(u) : spendable[k] \in Nat
        BY DEF LedgersOf, ClaimTypeOK, LedgerTypeOK
      <4>2. IsFiniteSet(LedgersOf(u)) /\ IsFiniteSet(LedgersOf(u) \ {l})
        BY LedgersFinite, FS_Subset
      <4>3. SumFunctionOnSet(spendable, LedgersOf(u))
                = spendable[l] + SumFunctionOnSet(spendable, LedgersOf(u) \ {l})
        BY <3>1, <4>1, <4>2, SumTake
      <4>4. SumFunctionOnSet(spendable, LedgersOf(u) \ {l}) \in Nat
        BY <4>1, <4>2, SumNatural
      <4> QED
        BY <3>1, <4>1, <4>3, <4>4 DEF PointsOf, Total
    <3> QED
      BY <1>4, <3>1, <3>2, PointsAreNatural DEF ClaimTypeOK, LedgerTypeOK
  <2> HIDE DEF items, u
  <2>3. PointsHeld' = [PointsHeld EXCEPT ![u] = @ - n]
    BY <1>4, <1>5, <2>1, PointsGiven DEF u, ClaimTypeOK
  <2>4. n <= PointsHeld[u]
    BY <1>4, <2>2 DEF PointsHeld, u
  <2>5. Exchange!Spend(u, n)
    BY <1>1, <1>2, <1>4, <2>3, <2>4 DEF Exchange!Spend, PointsHeld, PointsOf, Phases
  <2> QED
    BY <1>4, <2>5 DEF Exchange!Next, u
<1> QED
  BY <1>3, <1>6, <1>7

(* A reservation that commits places a stake. *)
LEMMA ReserveImplements ==
    ASSUME ClaimTypeOK, ClaimTypeOK', NEW c \in Claims, resv[c].user = Nobody,
           status[c] = "absent", NEW u \in Users, NEW amount \in 1..MaxClaim, NEW items \in Splits(u, amount),
           Admissible(u, amount), ReserveTx(c, u, amount, items)
    PROVE  Exchange!Next
<1>1. /\ items \in [Ledgers -> Nat]
      /\ \A l \in Ledgers : items[l] # 0 => OwnerOf[l] = u
      /\ Total(items, Ledgers) = amount
      /\ amount \in Nat
  <2>1. items \in [Ledgers -> 0..MaxEarned] /\ Total(items, Ledgers) = amount
    BY DEF Splits
  <2>2. \A l \in Ledgers : items[l] <= (IF OwnerOf[l] = u THEN spendable[l] ELSE 0)
    BY DEF Splits
  <2> QED
    BY <2>1, <2>2, LedgerAssumption, ClaimAssumption
<1>2. \A l \in Ledgers : spendable'[l] = spendable[l] - items[l]
  <2>1. \A l \in Ledgers : spendable'[l] = spendable[l] + (-items[l])
    BY DEF ReserveTx, Post
  <2>2. \A l \in Ledgers : spendable[l] \in Int /\ items[l] \in Int
    BY <1>1 DEF ClaimTypeOK, LedgerTypeOK
  <2> QED
    BY <2>1, <2>2
<1>3. PointsHeld' = [PointsHeld EXCEPT ![u] = @ - amount]
  BY <1>1, <1>2, PointsGiven DEF ClaimTypeOK
<1>4. /\ resv'[c].user = u /\ resv'[c].amount = amount /\ status'[c] = "pending"
      /\ \A d \in Claims \ {c} : resv'[d] = resv[d] /\ status'[d] = status[d]
      /\ UNCHANGED tachi
  BY DEF ReserveTx, ClaimTypeOK
<1>5. PhaseOf(c)' = "held"
  BY <1>4, ClaimAssumption DEF PhaseOf
<1>6. Phases' = [Phases EXCEPT ![c] = "held"]
  BY <1>4, <1>5, PhaseMoves
<1>7. /\ Owners' = [Owners EXCEPT ![c] = u]
      /\ ClaimSizes' = [ClaimSizes EXCEPT ![c] = amount]
  BY <1>4 DEF Owners, ClaimSizes
<1>8. Phases[c] = "open"
  BY DEF Phases, PhaseOf
<1>9. amount <= PointsHeld[u]
  <2>1. Total(spendable, LedgersOf(u)) >= amount
    BY DEF Admissible
  <2>2. PointsOf(u) \in Nat /\ PointsHeld[u] = PointsOf(u)
    BY PointsAreNatural DEF ClaimTypeOK, PointsHeld
  <2> QED
    BY <1>1, <2>1, <2>2 DEF PointsOf
<1>10. Exchange!Place(c, u, amount)
  BY <1>3, <1>4, <1>6, <1>7, <1>8, <1>9
     DEF Exchange!Place, PointsHeld, PointsOf, Phases, Owners, ClaimSizes
<1> QED
  BY <1>10 DEF Exchange!Next

(* A rollback and a compensation give a stake back. *)
LEMMA ReturnImplements ==
    ASSUME ClaimTypeOK, ClaimTypeOK', PointsInv, NEW c \in Claims, resv[c].user \in Users,
           \/ status[c] = "pending" /\ RollbackTx(c)
           \/ status[c] = "broadcast" /\ CompensateTx(c)
    PROVE  Exchange!Next
<1>1. /\ UNCHANGED <<resv, tachi>>
      /\ status'[c] \in {"absent", "failed"}
      /\ \A d \in Claims \ {c} : status'[d] = status[d]
      /\ \A l \in Ledgers : spendable'[l] = spendable[l] + resv[c].items[l]
  BY DEF RollbackTx, Refunded, CompensateTx, Post, ClaimTypeOK
<1> DEFINE items == resv[c].items
           n == resv[c].amount
           u == resv[c].user
<1>2. /\ items \in [Ledgers -> Nat] /\ n \in Nat /\ u \in Users
      /\ Total(items, Ledgers) = n
      /\ \A l \in Ledgers : items[l] # 0 => OwnerOf[l] = u
      /\ \A l \in Ledgers : spendable'[l] = spendable[l] + items[l]
  BY <1>1 DEF ClaimTypeOK, Reservations, PointsInv, Took
<1>3. PhaseOf(c) = "held" /\ PhaseOf(c)' = "returned"
  BY <1>1, ClaimAssumption DEF PhaseOf
<1>4. Owners[c] = u /\ ClaimSizes[c] = n /\ Phases[c] = "held"
  BY <1>3 DEF Owners, ClaimSizes, Phases
<1>5. Owners' = Owners /\ ClaimSizes' = ClaimSizes
  BY <1>1 DEF Owners, ClaimSizes
<1>6. Phases' = [Phases EXCEPT ![c] = "returned"]
  BY <1>1, <1>3, PhaseMoves
<1> HIDE DEF items, n, u
<1>7. PointsHeld' = [PointsHeld EXCEPT ![u] = @ + n]
  BY <1>2, PointsGiven DEF ClaimTypeOK
<1>8. Exchange!Return(c)
  BY <1>1, <1>4, <1>5, <1>6, <1>7
     DEF Exchange!Return, PointsHeld, PointsOf, Phases, Owners, ClaimSizes
<1> QED
  BY <1>8 DEF Exchange!Next

(* A claim that is finalized is paid. *)
LEMMA FinalizeImplements ==
    ASSUME ClaimTypeOK, NEW c \in Claims, resv[c].user \in Users, FinalizeTx(c)
    PROVE  Exchange!Next
<1>1. /\ UNCHANGED <<resv, spendable>>
      /\ status[c] \in {"broadcast", "finalize_failed"} /\ status'[c] = "confirmed"
      /\ \A d \in Claims \ {c} : status'[d] = status[d]
      /\ tachi' = [tachi EXCEPT ![resv[c].user] = @ + resv[c].amount]
  BY DEF FinalizeTx, Finalizable, ledgerVars, ClaimTypeOK
<1>2. PhaseOf(c) = "held" /\ PhaseOf(c)' = "paid"
  BY <1>1, ClaimAssumption DEF PhaseOf
<1>3. Owners[c] = resv[c].user /\ ClaimSizes[c] = resv[c].amount /\ Phases[c] = "held"
  BY <1>2 DEF Owners, ClaimSizes, Phases
<1>4. Owners' = Owners /\ ClaimSizes' = ClaimSizes
  BY <1>1 DEF Owners, ClaimSizes
<1>5. Phases' = [Phases EXCEPT ![c] = "paid"]
  BY <1>1, <1>2, PhaseMoves
<1>6. PointsHeld' = PointsHeld
  BY <1>1 DEF PointsHeld, PointsOf, Total, LedgersOf
<1>7. Exchange!Pay(c)
  BY <1>1, <1>3, <1>4, <1>5, <1>6
     DEF Exchange!Pay, PointsHeld, PointsOf, Phases, Owners, ClaimSizes
<1> QED
  BY <1>7 DEF Exchange!Next

(* Every step of the claim flow is a step of the exchange or none. *)
LEMMA NextImplements ==
    ASSUME ClaimTypeOK, ClaimTypeOK', \A c \in Claims : Fact(c), PointsInv, Unplaced, [ClaimNext]_vars
    PROVE  [Exchange!Next]_(Exchange!vars)
<1>1. CASE UNCHANGED <<ledgerVars, status, resv, tachi>>
  <2>1. \A c \in Claims : PhaseOf(c)' = PhaseOf(c)
    BY <1>1, SamePhase
  <2> QED
    BY <1>1, <2>1, Stutters DEF ledgerVars
<1>2. ASSUME NEW c \in Claims, BroadcastTx(c) \/ MarkTx(c),
             status[c] \in {"pending", "broadcast", "finalize_failed"} \/ MarkTx(c)
      PROVE  [Exchange!Next]_(Exchange!vars)
  <2>1. /\ UNCHANGED <<spendable, tachi, resv>>
        /\ status[c] \in {"pending", "broadcast", "finalize_failed"}
        /\ status'[c] \in {"broadcast", "finalize_failed"}
        /\ \A d \in Claims \ {c} : status'[d] = status[d]
    BY <1>2 DEF BroadcastTx, MarkTx, Finalizable, ledgerVars, ClaimTypeOK
  <2>2. PhaseOf(c)' = PhaseOf(c)
    BY <2>1 DEF PhaseOf
  <2>3. \A d \in Claims : PhaseOf(d)' = PhaseOf(d)
    BY <2>1, <2>2, SamePhase
  <2> QED
    BY <2>1, <2>3, Stutters
<1> USE DEF Aborted, chainVars
<1>3. ASSUME NEW c \in Claims, Refuse(c) \/ BroadcastMint(c) \/ AwaitReceipt(c) \/ ChainMint(c)
      PROVE  [Exchange!Next]_(Exchange!vars)
  BY <1>1, <1>3 DEF Refuse, BroadcastMint, AwaitReceipt, ChainMint
<1>4. ASSUME NEW c \in Claims, Reserve(c)
      PROVE  [Exchange!Next]_(Exchange!vars)
  <2>1. CASE Aborted
    BY <1>1, <2>1
  <2>2. ASSUME NEW u \in Users, NEW amount \in 1..MaxClaim, NEW items \in Splits(u, amount),
               Admissible(u, amount), ReserveTx(c, u, amount, items)
        PROVE  Exchange!Next
    <3>1. status[c] = "absent" /\ resv[c].user = Nobody
      BY <1>4 DEF Reserve, Fact, Unplaced
    <3> QED
      BY <2>2, <3>1, ReserveImplements
  <2> QED
    BY <1>4, <2>1, <2>2 DEF Reserve
<1>5. ASSUME NEW c \in Claims, RollBack(c) \/ Compensate(c)
      PROVE  [Exchange!Next]_(Exchange!vars)
  BY <1>1, <1>5, ReturnImplements DEF RollBack, Compensate, Fact
<1>6. ASSUME NEW c \in Claims, RecordBroadcast(c) \/ RecordUnknown(c) \/ MarkFinalizeFailed(c)
      PROVE  [Exchange!Next]_(Exchange!vars)
  BY <1>1, <1>2, <1>6 DEF RecordBroadcast, RecordUnknown, MarkFinalizeFailed, UnknownTx, Fact
<1>7. ASSUME NEW c \in Claims, Finalize(c)
      PROVE  [Exchange!Next]_(Exchange!vars)
  BY <1>1, <1>7, FinalizeImplements DEF Finalize, Fact
<1>8. CASE Points
  BY <1>8, PointsImplement
<1>9. CASE Crash \/ UNCHANGED vars
  BY <1>1, <1>9 DEF Crash, vars, claimVars
<1> QED
  BY <1>3, <1>4, <1>5, <1>6, <1>7, <1>8, <1>9 DEF ClaimNext, Progress, Continue

(* No reservation is made before a request's own. *)
LEMMA UnplacedNext == ClaimTypeOK /\ Unplaced /\ [ClaimNext]_vars => Unplaced'
<1> SUFFICES ASSUME ClaimTypeOK, Unplaced, [ClaimNext]_vars, NEW d \in Claims, pc'[d] = "idle"
             PROVE  resv'[d].user = Nobody
  BY DEF Unplaced
<1>1. ASSUME NEW c \in Claims, Refuse(c) \/ Reserve(c) \/ Continue(c) \/ ChainMint(c), c # d
      PROVE  Same(d)
  BY <1>1, StepIsLocal
<1>2. CASE Same(d)
  BY <1>2 DEF Same, Unplaced
<1> USE DEF ClaimTypeOK, Goto
<1>3. ~ (Refuse(d) \/ Reserve(d) \/ Continue(d))
  BY DEF Refuse, Reserve, Continue, BroadcastMint, RollBack, RecordBroadcast, AwaitReceipt,
         RecordUnknown, Compensate, Finalize, MarkFinalizeFailed
<1>4. CASE ChainMint(d)
  BY <1>4 DEF ChainMint, Unplaced
<1>5. CASE Points \/ UNCHANGED vars
  BY <1>5 DEF Points, claimVars, vars, Unplaced
<1>6. CASE Crash
  BY <1>6 DEF Crash, CrashedPc, Aborted, Unplaced
<1> QED
  BY <1>1, <1>2, <1>3, <1>4, <1>5, <1>6 DEF ClaimNext, Progress

(* Before any request every viewer has some points and no stake. *)
LEMMA InitImplements == ClaimInit => Exchange!Init
<1> SUFFICES ASSUME ClaimInit
             PROVE  Exchange!Init
  OBVIOUS
<1>1. LedgerTypeOK
  BY InitType DEF ClaimTypeOK
<1>2. PointsHeld \in [Users -> Nat]
  BY <1>1, PointsAreNatural DEF PointsHeld
<1>3. \A c \in Claims : resv[c].user = Nobody /\ resv[c].amount = 0 /\ status[c] = "absent"
  BY DEF ClaimInit, NoReservation
<1>4. \A c \in Claims : PhaseOf(c) = "open"
  BY <1>3 DEF PhaseOf
<1> QED
  BY <1>2, <1>3, <1>4 DEF Exchange!Init, ClaimInit, PointsHeld, PointsOf

(***************************************************************************)
(* The claim flow, with its transactions, chain calls, lost                *)
(* acknowledgements and crashes, implements PointExchange: points are      *)
(* taken from a viewer once, and then held, paid out in $TACHI once, or    *)
(* given back once.                                                        *)
(***************************************************************************)
THEOREM ClaimsAreExchanges == ClaimSpec => ImplementsExchange
<1>1. ClaimInit => Unplaced
  BY DEF ClaimInit, Unplaced, NoReservation
<1>2. ClaimSpec => []Unplaced
  BY <1>1, UnplacedNext, TypeCorrect, PTL DEF ClaimSpec
<1>3. ClaimTypeOK /\ ClaimTypeOK' /\ (\A c \in Claims : Fact(c)) /\ PointsInv /\ Unplaced
          /\ [ClaimNext]_vars => [Exchange!Next]_(Exchange!vars)
  BY NextImplements
<1> QED
  BY <1>2, <1>3, InitImplements, TypeCorrect, ControlInvariant, PointsInvariant, PTL
     DEF ClaimSpec, ImplementsExchange, Exchange!Spec

-----------------------------------------------------------------------------
(* The drift between the wallets and the balances.                           *)

(* Where a redemption is, so far as the balances depend on it. *)
SpendFits ==
    /\ tachi \in [Users -> Nat]
    /\ wallet \in [Users -> Nat]
    /\ payer \in [Redemptions -> Users \cup {Nobody}]
    /\ price \in [Redemptions -> Nat]
    /\ spendPc \in [Redemptions -> {"idle"} \cup Spend!Serving \cup Spend!Ended]
    /\ burn \in [Redemptions -> {"none", "mempool", "mined", "reverted", "dropped"}]
    /\ \A r \in Redemptions :
          /\ spendPc[r] = "idle" => payer[r] = Nobody
          /\ spendPc[r] \in {"idle", "burn"} => burn[r] = "none"
          /\ spendPc[r] \in Spend!Serving \/ burn[r] # "none" => payer[r] \in Users

(* What a step does to the redemption it is a step of. *)
OthersStay(r) ==
    \A q \in Redemptions \ {r} :
        /\ payer'[q] = payer[q] /\ price'[q] = price[q]
        /\ spendPc'[q] = spendPc[q] /\ burn'[q] = burn[q]

Restored(r) == spendPc[r] = "restored"
Burnt(r) == burn[r] = "mined"

Plain(r) ==
    /\ UNCHANGED <<tachi, wallet, payer, price>>
    /\ Restored(r)' <=> Restored(r)
    /\ Burnt(r)' <=> Burnt(r)

Debits(r) ==
    \E u \in Users, n \in Nat :
        /\ n <= tachi[u]
        /\ tachi' = [tachi EXCEPT ![u] = @ - n]
        /\ payer'[r] = u /\ price'[r] = n
        /\ payer[r] = Nobody /\ ~Restored(r) /\ ~Restored(r)' /\ ~Burnt(r) /\ ~Burnt(r)'
        /\ UNCHANGED wallet

GivesBack(r) ==
    /\ payer[r] \in Users
    /\ tachi' = [tachi EXCEPT ![payer[r]] = @ + price[r]]
    /\ ~Restored(r) /\ Restored(r)' /\ (Burnt(r)' <=> Burnt(r))
    /\ UNCHANGED <<wallet, payer, price>>

Burns(r) ==
    /\ payer[r] \in Users
    /\ price[r] <= wallet[payer[r]]
    /\ wallet' = [wallet EXCEPT ![payer[r]] = @ - price[r]]
    /\ (Restored(r)' <=> Restored(r)) /\ ~Burnt(r) /\ Burnt(r)'
    /\ UNCHANGED <<tachi, payer, price>>

(* Going to a place moves one request. *)
LEMMA SpendGoto ==
    ASSUME SpendFits, NEW r \in Redemptions, NEW places, Spend!Goto(r, places),
           places \subseteq {"idle"} \cup Spend!Serving \cup Spend!Ended
    PROVE  /\ spendPc' \in [Redemptions -> {"idle"} \cup Spend!Serving \cup Spend!Ended]
           /\ spendPc'[r] \in places
           /\ \A q \in Redemptions \ {r} : spendPc'[q] = spendPc[q]
BY DEF SpendFits, Spend!Goto

(* Every step of a redemption is of one of the four kinds. *)
LEMMA SpendKinds ==
    ASSUME SpendFits, NEW r \in Redemptions, Spend!SpendStep(r) \/ Spend!ChainBurn(r)
    PROVE  /\ OthersStay(r)
           /\ Plain(r) \/ Debits(r) \/ GivesBack(r) \/ Burns(r)
           /\ SpendFits'
<1> USE DEF Spend!Serving, Spend!Ended, Restored, Burnt
<1> DEFINE Kind == /\ OthersStay(r)
                   /\ Plain(r) \/ Debits(r) \/ GivesBack(r) \/ Burns(r)
                   /\ SpendFits'
<1>1. ASSUME NEW places \in SUBSET ({"idle"} \cup Spend!Serving \cup Spend!Ended),
             Spend!Goto(r, places), spendPc[r] \notin {"restored", "rollback"},
             "restored" \notin places, "idle" \notin places,
             spendPc[r] # "burn" => "burn" \notin places,
             places \cap Spend!Serving # {} => spendPc[r] \in Spend!Serving,
             UNCHANGED <<tachi, wallet, payer, price>>,
             \/ UNCHANGED burn /\ "burn" \notin places
             \/ /\ burn' = [burn EXCEPT ![r] = "mempool"] /\ spendPc[r] = "burn"
                /\ "burn" \notin places
      PROVE  Kind
  <2>1. /\ spendPc' \in [Redemptions -> {"idle"} \cup Spend!Serving \cup Spend!Ended]
        /\ spendPc'[r] \in places
        /\ \A q \in Redemptions \ {r} : spendPc'[q] = spendPc[q]
    BY <1>1, SpendGoto
  <2>2. burn' \in [Redemptions -> {"none", "mempool", "mined", "reverted", "dropped"}]
        /\ (\A q \in Redemptions \ {r} : burn'[q] = burn[q])
        /\ (burn'[r] = burn[r] \/ (burn'[r] = "mempool" /\ burn[r] = "none" /\ spendPc[r] = "burn"))
    BY <1>1 DEF SpendFits
  <2>3. OthersStay(r)
    BY <1>1, <2>1, <2>2 DEF OthersStay
  <2>4. Plain(r)
    BY <1>1, <2>1, <2>2 DEF Plain
  <2>5. SpendFits'
    BY <1>1, <2>1, <2>2 DEF SpendFits
  <2> QED
    BY <2>3, <2>4, <2>5
<1>2. CASE Spend!Refuse(r)
  BY <1>1, <1>2 DEF Spend!Refuse
<1>3. CASE Spend!BroadcastBurn(r)
  BY <1>1, <1>3 DEF Spend!BroadcastBurn
<1>4. CASE Spend!AwaitReceipt(r)
  BY <1>1, <1>4 DEF Spend!AwaitReceipt
<1>5. CASE Spend!RecordUnknownBurn(r) \/ Spend!RecordBurn(r)
  BY <1>1, <1>5 DEF Spend!RecordUnknownBurn, Spend!RecordBurn, Spend!CreatePending
<1>6. CASE Spend!CallTachiya(r) \/ Spend!MarkCompensation(r) \/ Spend!PersistVoucher(r)
  BY <1>1, <1>6 DEF Spend!CallTachiya, Spend!MarkCompensation, Spend!PersistVoucher
<1>7. CASE Spend!Reserve(r)
  <2>1. CASE Spend!Goto(r, {"refused"}) /\ UNCHANGED <<tachi, payer, price>>
    BY <1>1, <1>7, <2>1 DEF Spend!Reserve
  <2>2. ASSUME NEW u \in Users, NEW n \in SpendAmounts, Spend!Affordable(u, n),
               tachi' = [tachi EXCEPT ![u] = @ - n],
               payer' = [payer EXCEPT ![r] = u],
               price' = [price EXCEPT ![r] = n],
               Spend!Goto(r, {"burn", "error"})
        PROVE  Kind
    <3>1. /\ spendPc' \in [Redemptions -> {"idle"} \cup Spend!Serving \cup Spend!Ended]
          /\ spendPc'[r] \in {"burn", "error"}
          /\ \A q \in Redemptions \ {r} : spendPc'[q] = spendPc[q]
      BY <2>2, SpendGoto
    <3>2. n \in Nat /\ n <= tachi[u] /\ tachi[u] \in Nat
      BY <2>2, EconomyAssumption DEF Spend!Affordable, SpendFits
    <3>3. spendPc[r] = "idle" /\ UNCHANGED <<wallet, burn>>
      BY <1>7 DEF Spend!Reserve
    <3>4. OthersStay(r)
      BY <2>2, <3>1, <3>3 DEF OthersStay, SpendFits
    <3>5. Debits(r)
      BY <2>2, <3>1, <3>2, <3>3 DEF Debits, SpendFits
    <3>6. tachi' \in [Users -> Nat]
      BY <2>2, <3>2 DEF SpendFits
    <3>7. SpendFits'
      BY <2>2, <3>1, <3>2, <3>3, <3>6 DEF SpendFits
    <3> QED
      BY <3>4, <3>5, <3>7
  <2> QED
    BY <1>7, <2>1, <2>2 DEF Spend!Reserve
<1>8. CASE Spend!RollBack(r)
  <2>0. spendPc[r] = "rollback" /\ UNCHANGED <<wallet, payer, price, burn>>
    BY <1>8 DEF Spend!RollBack
  <2>1. payer[r] \in Users /\ price[r] \in Nat
    BY <2>0 DEF SpendFits
  <2>2. CASE tachi' = [tachi EXCEPT ![payer[r]] = @ + price[r]] /\ Spend!Goto(r, {"restored"})
    <3>1. /\ spendPc' \in [Redemptions -> {"idle"} \cup Spend!Serving \cup Spend!Ended]
          /\ spendPc'[r] \in {"restored"}
          /\ \A q \in Redemptions \ {r} : spendPc'[q] = spendPc[q]
      BY <2>2, SpendGoto
    <3>2. tachi' \in [Users -> Nat]
      BY <2>1, <2>2 DEF SpendFits
    <3>3. OthersStay(r) /\ GivesBack(r)
      BY <2>0, <2>1, <2>2, <3>1 DEF OthersStay, GivesBack
    <3>4. SpendFits'
      BY <2>0, <3>1, <3>2 DEF SpendFits
    <3> QED
      BY <3>3, <3>4
  <2>3. CASE UNCHANGED tachi /\ Spend!Goto(r, {"error"})
    <3>1. /\ spendPc' \in [Redemptions -> {"idle"} \cup Spend!Serving \cup Spend!Ended]
          /\ spendPc'[r] \in {"error"}
          /\ \A q \in Redemptions \ {r} : spendPc'[q] = spendPc[q]
      BY <2>3, SpendGoto
    <3>2. OthersStay(r) /\ Plain(r)
      BY <2>0, <2>3, <3>1 DEF OthersStay, Plain
    <3>3. SpendFits'
      BY <2>0, <2>3, <3>1 DEF SpendFits
    <3> QED
      BY <3>2, <3>3
  <2> QED
    BY <1>8, <2>2, <2>3 DEF Spend!RollBack
<1>9. CASE Spend!ChainBurn(r)
  <2>1. /\ burn[r] = "mempool" /\ UNCHANGED <<tachi, payer, price, spendPc>>
        /\ payer[r] \in Users /\ price[r] \in Nat /\ wallet[payer[r]] \in Nat
    BY <1>9 DEF Spend!ChainBurn, Spend!requestVars, SpendFits
  <2>2. CASE /\ wallet[payer[r]] >= price[r]
             /\ wallet' = [wallet EXCEPT ![payer[r]] = @ - price[r]]
             /\ burn' = [burn EXCEPT ![r] = "mined"]
    <3>1. wallet' \in [Users -> Nat]
      BY <2>1, <2>2 DEF SpendFits
    <3>2. burn' \in [Redemptions -> {"none", "mempool", "mined", "reverted", "dropped"}]
          /\ burn'[r] = "mined" /\ \A q \in Redemptions \ {r} : burn'[q] = burn[q]
      BY <2>2 DEF SpendFits
    <3>3. OthersStay(r) /\ Burns(r)
      BY <2>1, <2>2, <3>2 DEF OthersStay, Burns, SpendFits
    <3>4. SpendFits'
      BY <2>1, <3>1, <3>2 DEF SpendFits
    <3> QED
      BY <3>3, <3>4
  <2>3. ASSUME NEW outcome \in {"reverted", "dropped"}, burn' = [burn EXCEPT ![r] = outcome],
               UNCHANGED wallet
        PROVE  Kind
    <3>1. burn' \in [Redemptions -> {"none", "mempool", "mined", "reverted", "dropped"}]
          /\ burn'[r] = outcome /\ \A q \in Redemptions \ {r} : burn'[q] = burn[q]
      BY <2>3 DEF SpendFits
    <3>2. OthersStay(r) /\ Plain(r)
      BY <2>1, <2>3, <3>1 DEF OthersStay, Plain
    <3>3. SpendFits'
      BY <2>1, <2>3, <3>1 DEF SpendFits
    <3> QED
      BY <3>2, <3>3
  <2> QED
    BY <1>9, <2>2, <2>3 DEF Spend!ChainBurn
<1> QED
  BY <1>2, <1>3, <1>4, <1>5, <1>6, <1>7, <1>8, <1>9 DEF Spend!SpendStep, Spend!Continue

-----------------------------------------------------------------------------
(* The sums in MirrorDrift. *)

NotRestored == {r \in Redemptions : spendPc[r] # "restored"}
Uncredited(u) == {c \in Claims : resv[c].user = u /\ mint[c] = "mined" /\ status[c] # "confirmed"}

(* The sum of the instance is the sum. *)
LEMMA SpendSum ==
    ASSUME NEW f, NEW S
    PROVE  Spend!SumFunctionOnSet(f, S) = SumFunctionOnSet(f, S)
BY DEF Spend!SumFunctionOnSet, Spend!FoldFunctionOnSet, Spend!MapThenFoldSet,
       SumFunctionOnSet, FoldFunctionOnSet, MapThenFoldSet

(* A step of one redemption moves the sums of prices by its own price only. *)
LEMMA PriceMoves ==
    ASSUME SpendFits, SpendFits', NEW r \in Redemptions, OthersStay(r),
           NEW P \in SUBSET Redemptions, NEW Q \in SUBSET Redemptions,
           \A q \in Redemptions \ {r} : q \in Q <=> q \in P
    PROVE  /\ SumFunctionOnSet(price', Q) = SumFunctionOnSet(price, P)
                 - (IF r \in P THEN price[r] ELSE 0) + (IF r \in Q THEN price'[r] ELSE 0)
           /\ SumFunctionOnSet(price, P) \in Int
<1>1. \A q \in Redemptions : price[q] \in Int /\ price'[q] \in Int
  BY DEF SpendFits
<1>2. IsFiniteSet(Redemptions) /\ IsFiniteSet(P)
  BY EconomyAssumption, FS_Subset
<1>3. \A q \in Redemptions \ {r} : price'[q] = price[q] /\ (q \in Q <=> q \in P)
  BY DEF OthersStay
<1>4. SumFunctionOnSet(price', Q) = SumFunctionOnSet(price, P)
          - (IF r \in P THEN price[r] ELSE 0) + (IF r \in Q THEN price'[r] ELSE 0)
  BY <1>1, <1>2, <1>3, SumMember
<1>5. SumFunctionOnSet(price, P) \in Int
  BY <1>1, <1>2, SumInteger
<1> QED
  BY <1>4, <1>5

(* The three sums of prices after a step of one redemption. *)
LEMMA PricesMove ==
    ASSUME SpendFits, SpendFits', NEW r \in Redemptions, OthersStay(r), NEW u
    PROVE  /\ Spend!PriceOf(u, Spend!BurntNotPaid)' = Spend!PriceOf(u, Spend!BurntNotPaid)
                 - (IF Restored(r) /\ Burnt(r) /\ payer[r] = u THEN price[r] ELSE 0)
                 + (IF Restored(r)' /\ Burnt(r)' /\ payer'[r] = u THEN price'[r] ELSE 0)
           /\ Spend!PriceOf(u, Spend!PaidNotBurnt)' = Spend!PriceOf(u, Spend!PaidNotBurnt)
                 - (IF ~Restored(r) /\ ~Burnt(r) /\ payer[r] = u THEN price[r] ELSE 0)
                 + (IF ~Restored(r)' /\ ~Burnt(r)' /\ payer'[r] = u THEN price'[r] ELSE 0)
           /\ Spend!PriceOf(u, NotRestored)' = Spend!PriceOf(u, NotRestored)
                 - (IF ~Restored(r) /\ payer[r] = u THEN price[r] ELSE 0)
                 + (IF ~Restored(r)' /\ payer'[r] = u THEN price'[r] ELSE 0)
           /\ Spend!PriceOf(u, Spend!BurntNotPaid) \in Int
           /\ Spend!PriceOf(u, Spend!PaidNotBurnt) \in Int
           /\ Spend!PriceOf(u, NotRestored) \in Int
<1>1. /\ Spend!PriceOf(u, Spend!BurntNotPaid)' = Spend!PriceOf(u, Spend!BurntNotPaid)
            - (IF Restored(r) /\ Burnt(r) /\ payer[r] = u THEN price[r] ELSE 0)
            + (IF Restored(r)' /\ Burnt(r)' /\ payer'[r] = u THEN price'[r] ELSE 0)
      /\ Spend!PriceOf(u, Spend!BurntNotPaid) \in Int
  <2> DEFINE P == {q \in Spend!BurntNotPaid : payer[q] = u}
             Q == {q \in Spend!BurntNotPaid' : payer'[q] = u}
  <2>1. /\ P \in SUBSET Redemptions /\ Q \in SUBSET Redemptions
        /\ r \in P <=> Restored(r) /\ Burnt(r) /\ payer[r] = u
        /\ r \in Q <=> Restored(r)' /\ Burnt(r)' /\ payer'[r] = u
        /\ \A q \in Redemptions \ {r} : q \in Q <=> q \in P
    BY DEF Spend!BurntNotPaid, OthersStay, Restored, Burnt
  <2>2. /\ Spend!PriceOf(u, Spend!BurntNotPaid) = SumFunctionOnSet(price, P)
        /\ Spend!PriceOf(u, Spend!BurntNotPaid)' = SumFunctionOnSet(price', Q)
    BY SpendSum DEF Spend!PriceOf
  <2> HIDE DEF P, Q
  <2>3. /\ SumFunctionOnSet(price', Q) = SumFunctionOnSet(price, P)
              - (IF r \in P THEN price[r] ELSE 0) + (IF r \in Q THEN price'[r] ELSE 0)
        /\ SumFunctionOnSet(price, P) \in Int
    BY <2>1, PriceMoves
  <2> QED
    BY <2>1, <2>2, <2>3
<1>2. /\ Spend!PriceOf(u, Spend!PaidNotBurnt)' = Spend!PriceOf(u, Spend!PaidNotBurnt)
            - (IF ~Restored(r) /\ ~Burnt(r) /\ payer[r] = u THEN price[r] ELSE 0)
            + (IF ~Restored(r)' /\ ~Burnt(r)' /\ payer'[r] = u THEN price'[r] ELSE 0)
      /\ Spend!PriceOf(u, Spend!PaidNotBurnt) \in Int
  <2> DEFINE P == {q \in Spend!PaidNotBurnt : payer[q] = u}
             Q == {q \in Spend!PaidNotBurnt' : payer'[q] = u}
  <2>1. /\ P \in SUBSET Redemptions /\ Q \in SUBSET Redemptions
        /\ r \in P <=> ~Restored(r) /\ ~Burnt(r) /\ payer[r] = u
        /\ r \in Q <=> ~Restored(r)' /\ ~Burnt(r)' /\ payer'[r] = u
        /\ \A q \in Redemptions \ {r} : q \in Q <=> q \in P
    BY DEF Spend!PaidNotBurnt, OthersStay, Restored, Burnt
  <2>2. /\ Spend!PriceOf(u, Spend!PaidNotBurnt) = SumFunctionOnSet(price, P)
        /\ Spend!PriceOf(u, Spend!PaidNotBurnt)' = SumFunctionOnSet(price', Q)
    BY SpendSum DEF Spend!PriceOf
  <2> HIDE DEF P, Q
  <2>3. /\ SumFunctionOnSet(price', Q) = SumFunctionOnSet(price, P)
              - (IF r \in P THEN price[r] ELSE 0) + (IF r \in Q THEN price'[r] ELSE 0)
        /\ SumFunctionOnSet(price, P) \in Int
    BY <2>1, PriceMoves
  <2> QED
    BY <2>1, <2>2, <2>3
<1>3. /\ Spend!PriceOf(u, NotRestored)' = Spend!PriceOf(u, NotRestored)
            - (IF ~Restored(r) /\ payer[r] = u THEN price[r] ELSE 0)
            + (IF ~Restored(r)' /\ payer'[r] = u THEN price'[r] ELSE 0)
      /\ Spend!PriceOf(u, NotRestored) \in Int
  <2> DEFINE P == {q \in NotRestored : payer[q] = u}
             Q == {q \in NotRestored' : payer'[q] = u}
  <2>1. /\ P \in SUBSET Redemptions /\ Q \in SUBSET Redemptions
        /\ r \in P <=> ~Restored(r) /\ payer[r] = u
        /\ r \in Q <=> ~Restored(r)' /\ payer'[r] = u
        /\ \A q \in Redemptions \ {r} : q \in Q <=> q \in P
    BY DEF NotRestored, OthersStay, Restored, Burnt
  <2>2. /\ Spend!PriceOf(u, NotRestored) = SumFunctionOnSet(price, P)
        /\ Spend!PriceOf(u, NotRestored)' = SumFunctionOnSet(price', Q)
    BY SpendSum DEF Spend!PriceOf
  <2> HIDE DEF P, Q
  <2>3. /\ SumFunctionOnSet(price', Q) = SumFunctionOnSet(price, P)
              - (IF r \in P THEN price[r] ELSE 0) + (IF r \in Q THEN price'[r] ELSE 0)
        /\ SumFunctionOnSet(price, P) \in Int
    BY <2>1, PriceMoves
  <2> QED
    BY <2>1, <2>2, <2>3
<1> QED
  BY <1>1, <1>2, <1>3

(* MirrorDrift with its sets named. *)
DriftOf(u) ==
    /\ wallet[u] + Spend!PriceOf(u, Spend!BurntNotPaid) =
           tachi[u] + MintedNotCredited(u) + Spend!PriceOf(u, Spend!PaidNotBurnt)
    /\ tachi[u] + Spend!PriceOf(u, NotRestored) = ClaimedBy(u, {"confirmed"})

(* A viewer's sums over the claims are integers. *)
LEMMA ClaimSumsFit ==
    ASSUME ClaimTypeOK, NEW u
    PROVE  MintedNotCredited(u) \in Int /\ ClaimedBy(u, {"confirmed"}) \in Int
<1>1. \A c \in Claims : ClaimSizes[c] \in Int
  BY DEF ClaimSizes, ClaimTypeOK, Reservations
<1>2. /\ Uncredited(u) \in SUBSET Claims /\ ClaimsIn(u, {"confirmed"}) \in SUBSET Claims
      /\ IsFiniteSet(Uncredited(u)) /\ IsFiniteSet(ClaimsIn(u, {"confirmed"}))
  BY ClaimAssumption, FS_Subset DEF Uncredited, ClaimsIn
<1> QED
  BY <1>1, <1>2, SumInteger DEF MintedNotCredited, ClaimedBy, Total, Uncredited

(* The steps of redemptions. *)
LEMMA SpendDrift ==
    ASSUME ClaimTypeOK, SpendFits, NEW r \in Redemptions,
           Spend!SpendStep(r) \/ Spend!ChainBurn(r), ClaimsStay,
           NEW u \in Users, DriftOf(u)
    PROVE  DriftOf(u)'
<1>1. OthersStay(r) /\ SpendFits' /\ (Plain(r) \/ Debits(r) \/ GivesBack(r) \/ Burns(r))
  BY SpendKinds
<1>2. MintedNotCredited(u)' = MintedNotCredited(u) /\ ClaimedBy(u, {"confirmed"})' = ClaimedBy(u, {"confirmed"})
  BY DEF ClaimsStay, MintedNotCredited, ClaimedBy, ClaimsIn, ClaimSizes, Total
<1>3. MintedNotCredited(u) \in Int /\ ClaimedBy(u, {"confirmed"}) \in Int
  BY ClaimSumsFit
<1>4. /\ tachi[u] \in Int /\ wallet[u] \in Int /\ price[r] \in Int /\ price'[r] \in Int
      /\ tachi'[u] \in Int /\ wallet'[u] \in Int
  BY <1>1 DEF SpendFits
<1>5. /\ Spend!PriceOf(u, Spend!BurntNotPaid)' = Spend!PriceOf(u, Spend!BurntNotPaid)
            - (IF Restored(r) /\ Burnt(r) /\ payer[r] = u THEN price[r] ELSE 0)
            + (IF Restored(r)' /\ Burnt(r)' /\ payer'[r] = u THEN price'[r] ELSE 0)
      /\ Spend!PriceOf(u, Spend!PaidNotBurnt)' = Spend!PriceOf(u, Spend!PaidNotBurnt)
            - (IF ~Restored(r) /\ ~Burnt(r) /\ payer[r] = u THEN price[r] ELSE 0)
            + (IF ~Restored(r)' /\ ~Burnt(r)' /\ payer'[r] = u THEN price'[r] ELSE 0)
      /\ Spend!PriceOf(u, NotRestored)' = Spend!PriceOf(u, NotRestored)
            - (IF ~Restored(r) /\ payer[r] = u THEN price[r] ELSE 0)
            + (IF ~Restored(r)' /\ payer'[r] = u THEN price'[r] ELSE 0)
      /\ Spend!PriceOf(u, Spend!BurntNotPaid) \in Int
      /\ Spend!PriceOf(u, Spend!PaidNotBurnt) \in Int
      /\ Spend!PriceOf(u, NotRestored) \in Int
  BY <1>1, PricesMove
<1>6. CASE Plain(r)
  BY <1>2, <1>3, <1>4, <1>5, <1>6 DEF Plain, DriftOf
<1>7. CASE Debits(r)
  <2>1. PICK v \in Users, n \in Nat :
            /\ tachi' = [tachi EXCEPT ![v] = @ - n]
            /\ payer'[r] = v /\ price'[r] = n
            /\ payer[r] = Nobody /\ ~Restored(r) /\ ~Restored(r)' /\ ~Burnt(r) /\ ~Burnt(r)'
            /\ UNCHANGED wallet
    BY <1>7 DEF Debits
  <2>2. tachi'[u] = IF u = v THEN tachi[u] - n ELSE tachi[u]
    BY <2>1 DEF SpendFits
  <2>3. payer[r] # u
    BY <2>1, ClaimAssumption
  <2> QED
    BY <1>2, <1>3, <1>4, <1>5, <2>1, <2>2, <2>3 DEF DriftOf
<1>8. CASE GivesBack(r)
  <2>1. tachi'[u] = IF u = payer[r] THEN tachi[u] + price[r] ELSE tachi[u]
    BY <1>8 DEF GivesBack, SpendFits
  <2> QED
    BY <1>2, <1>3, <1>4, <1>5, <1>8, <2>1 DEF DriftOf, GivesBack
<1>9. CASE Burns(r)
  <2>1. wallet'[u] = IF u = payer[r] THEN wallet[u] - price[r] ELSE wallet[u]
    BY <1>9 DEF Burns, SpendFits
  <2> QED
    BY <1>2, <1>3, <1>4, <1>5, <1>9, <2>1 DEF DriftOf, Burns
<1> QED
  BY <1>1, <1>6, <1>7, <1>8, <1>9

-----------------------------------------------------------------------------
(* The steps of claims. *)

Minted(c) == mint[c] = "mined" /\ status[c] # "confirmed"
Credited(c) == status[c] = "confirmed"

Neutral(c) ==
    /\ UNCHANGED <<tachi, wallet>>
    /\ \/ resv'[c] = resv[c] /\ (Minted(c)' <=> Minted(c)) /\ (Credited(c)' <=> Credited(c))
       \/ ~Minted(c) /\ ~Credited(c) /\ ~Minted(c)' /\ ~Credited(c)'

Credits(c) ==
    /\ tachi' = [tachi EXCEPT ![resv[c].user] = @ + resv[c].amount]
    /\ UNCHANGED <<wallet, resv>>
    /\ Minted(c) /\ ~Credited(c) /\ ~Minted(c)' /\ Credited(c)'

Mints(c) ==
    /\ wallet' = [wallet EXCEPT ![resv[c].user] = @ + resv[c].amount]
    /\ UNCHANGED <<tachi, resv>>
    /\ ~Minted(c) /\ ~Credited(c) /\ Minted(c)' /\ ~Credited(c)'

(* Every step of a claim is of one of the three kinds. *)
LEMMA ClaimKinds ==
    ASSUME ClaimTypeOK, NEW c \in Claims, Fact(c),
           Refuse(c) \/ Reserve(c) \/ Continue(c) \/ ChainMint(c)
    PROVE  Neutral(c) \/ Credits(c) \/ Mints(c)
<1> USE DEF ClaimTypeOK, Fact, Aborted, chainVars, Minted, Credited, Neutral
<1>1. CASE Refuse(c)
  BY <1>1 DEF Refuse
<1>2. CASE Reserve(c)
  <2>1. CASE Aborted
    BY <2>1
  <2>2. ASSUME NEW u \in Users, NEW amount, NEW items, ReserveTx(c, u, amount, items)
        PROVE  Neutral(c)
    BY <1>2, <2>2 DEF Reserve, ReserveTx
  <2> QED
    BY <1>2, <2>1, <2>2 DEF Reserve
<1>3. CASE BroadcastMint(c)
  BY <1>3 DEF BroadcastMint
<1>4. CASE RollBack(c)
  BY <1>4 DEF RollBack, RollbackTx
<1>5. CASE RecordBroadcast(c)
  BY <1>5 DEF RecordBroadcast, BroadcastTx
<1>6. CASE AwaitReceipt(c)
  BY <1>6 DEF AwaitReceipt
<1>7. CASE RecordUnknown(c)
  BY <1>7 DEF RecordUnknown, UnknownTx, BroadcastTx
<1>8. CASE Compensate(c)
  BY <1>8 DEF Compensate, CompensateTx
<1>9. CASE Finalize(c)
  BY <1>9 DEF Finalize, FinalizeTx, Finalizable, Credits
<1>10. CASE MarkFinalizeFailed(c)
  BY <1>10 DEF MarkFinalizeFailed, MarkTx, Finalizable
<1>11. CASE ChainMint(c)
  BY <1>11 DEF ChainMint, Mints
<1> QED
  BY <1>1, <1>2, <1>3, <1>4, <1>5, <1>6, <1>7, <1>8, <1>9, <1>10, <1>11 DEF Continue

(* The two sums over claims after a step of one claim. *)
LEMMA ClaimSumsMove ==
    ASSUME ClaimTypeOK, ClaimTypeOK', NEW c \in Claims, \A d \in Claims \ {c} : Same(d), NEW u
    PROVE  /\ MintedNotCredited(u)' = MintedNotCredited(u)
                 - (IF Minted(c) /\ resv[c].user = u THEN resv[c].amount ELSE 0)
                 + (IF Minted(c)' /\ resv'[c].user = u THEN resv'[c].amount ELSE 0)
           /\ ClaimedBy(u, {"confirmed"})' = ClaimedBy(u, {"confirmed"})
                 - (IF Credited(c) /\ resv[c].user = u THEN resv[c].amount ELSE 0)
                 + (IF Credited(c)' /\ resv'[c].user = u THEN resv'[c].amount ELSE 0)
<1>1. ClaimedBy(u, {"confirmed"})' = ClaimedBy(u, {"confirmed"})
          - (IF resv[c].user = u /\ status[c] \in {"confirmed"} THEN resv[c].amount ELSE 0)
          + (IF resv'[c].user = u /\ status'[c] \in {"confirmed"} THEN resv'[c].amount ELSE 0)
  BY ClaimedMoves DEF Same
<1> DEFINE f == ClaimSizes
           e == ClaimSizes'
           P == Uncredited(u)
           Q == Uncredited(u)'
<1>2. \A d \in Claims : f[d] \in Int /\ e[d] \in Int
  BY DEF ClaimSizes, ClaimTypeOK, Reservations
<1>3. /\ P \in SUBSET Claims /\ Q \in SUBSET Claims
      /\ c \in P <=> Minted(c) /\ resv[c].user = u
      /\ c \in Q <=> Minted(c)' /\ resv'[c].user = u
      /\ f[c] = resv[c].amount /\ e[c] = resv'[c].amount
  BY DEF Uncredited, ClaimSizes, Minted
<1>4. \A d \in Claims \ {c} : e[d] = f[d] /\ (d \in Q <=> d \in P)
  BY DEF Uncredited, ClaimSizes, Same
<1>5. /\ MintedNotCredited(u) = SumFunctionOnSet(f, P)
      /\ MintedNotCredited(u)' = SumFunctionOnSet(e, Q)
  BY DEF MintedNotCredited, Total, Uncredited
<1> HIDE DEF f, e, P, Q
<1>6. SumFunctionOnSet(e, Q) = SumFunctionOnSet(f, P)
          - (IF c \in P THEN f[c] ELSE 0) + (IF c \in Q THEN e[c] ELSE 0)
  BY <1>2, <1>3, <1>4, ClaimAssumption, SumMember
<1>7. MintedNotCredited(u)' = MintedNotCredited(u)
          - (IF Minted(c) /\ resv[c].user = u THEN resv[c].amount ELSE 0)
          + (IF Minted(c)' /\ resv'[c].user = u THEN resv'[c].amount ELSE 0)
  BY <1>3, <1>5, <1>6
<1> QED
  BY <1>1, <1>7 DEF Credited

(* The sums of prices do not move with the claims. *)
LEMMA PricesStay ==
    ASSUME UNCHANGED spendVars, NEW u
    PROVE  /\ Spend!PriceOf(u, Spend!BurntNotPaid)' = Spend!PriceOf(u, Spend!BurntNotPaid)
           /\ Spend!PriceOf(u, Spend!PaidNotBurnt)' = Spend!PriceOf(u, Spend!PaidNotBurnt)
           /\ Spend!PriceOf(u, NotRestored)' = Spend!PriceOf(u, NotRestored)
<1>1. /\ Spend!BurntNotPaid' = Spend!BurntNotPaid
      /\ Spend!PaidNotBurnt' = Spend!PaidNotBurnt
      /\ NotRestored' = NotRestored
      /\ payer' = payer /\ price' = price
  BY DEF spendVars, Spend!BurntNotPaid, Spend!PaidNotBurnt, NotRestored
<1>2. ASSUME NEW S
      PROVE  {r \in S : payer'[r] = u} = {r \in S : payer[r] = u}
  BY <1>1
<1> QED
  BY <1>1, <1>2, SpendSum DEF Spend!PriceOf

(* The sums of prices are integers. *)
LEMMA PricesFit ==
    ASSUME SpendFits, NEW u
    PROVE  /\ Spend!PriceOf(u, Spend!BurntNotPaid) \in Int
           /\ Spend!PriceOf(u, Spend!PaidNotBurnt) \in Int
           /\ Spend!PriceOf(u, NotRestored) \in Int
<1>1. \A r \in Redemptions : price[r] \in Int
  BY DEF SpendFits
<1>2. /\ Spend!BurntNotPaid \subseteq Redemptions
      /\ Spend!PaidNotBurnt \subseteq Redemptions
      /\ NotRestored \subseteq Redemptions
  BY DEF Spend!BurntNotPaid, Spend!PaidNotBurnt, NotRestored
<1>3. ASSUME NEW S, S \subseteq Redemptions
      PROVE  SumFunctionOnSet(price, {r \in S : payer[r] = u}) \in Int
  <2> DEFINE P == {r \in S : payer[r] = u}
  <2>1. P \in SUBSET Redemptions /\ \A r \in P : price[r] \in Int
    BY <1>1, <1>3
  <2> HIDE DEF P
  <2>2. IsFiniteSet(P)
    BY <2>1, EconomyAssumption, FS_Subset
  <2>3. SumFunctionOnSet(price, P) \in Int
    BY <2>1, <2>2, SumInteger
  <2> QED
    BY <2>3 DEF P
<1> QED
  BY <1>2, <1>3, SpendSum DEF Spend!PriceOf

(* The steps of claims keep the drift explained. *)
LEMMA ClaimDrift ==
    ASSUME ClaimTypeOK, ClaimTypeOK', NEW c \in Claims, Fact(c), SpendFits,
           Refuse(c) \/ Reserve(c) \/ Continue(c) \/ ChainMint(c), UNCHANGED spendVars,
           NEW u \in Users, DriftOf(u)
    PROVE  DriftOf(u)'
<1>1. Neutral(c) \/ Credits(c) \/ Mints(c)
  BY ClaimKinds
<1>2. \A d \in Claims \ {c} : Same(d)
  BY StepIsLocal
<1>3. /\ MintedNotCredited(u)' = MintedNotCredited(u)
            - (IF Minted(c) /\ resv[c].user = u THEN resv[c].amount ELSE 0)
            + (IF Minted(c)' /\ resv'[c].user = u THEN resv'[c].amount ELSE 0)
      /\ ClaimedBy(u, {"confirmed"})' = ClaimedBy(u, {"confirmed"})
            - (IF Credited(c) /\ resv[c].user = u THEN resv[c].amount ELSE 0)
            + (IF Credited(c)' /\ resv'[c].user = u THEN resv'[c].amount ELSE 0)
  BY <1>2, ClaimSumsMove
<1>4. /\ Spend!PriceOf(u, Spend!BurntNotPaid)' = Spend!PriceOf(u, Spend!BurntNotPaid)
      /\ Spend!PriceOf(u, Spend!PaidNotBurnt)' = Spend!PriceOf(u, Spend!PaidNotBurnt)
      /\ Spend!PriceOf(u, NotRestored)' = Spend!PriceOf(u, NotRestored)
  BY PricesStay
<1>5. /\ Spend!PriceOf(u, Spend!BurntNotPaid) \in Int
      /\ Spend!PriceOf(u, Spend!PaidNotBurnt) \in Int
      /\ Spend!PriceOf(u, NotRestored) \in Int
  BY PricesFit
<1>6. MintedNotCredited(u) \in Int /\ ClaimedBy(u, {"confirmed"}) \in Int
  BY ClaimSumsFit
<1>7. /\ tachi[u] \in Int /\ wallet[u] \in Int
      /\ resv[c].amount \in Int /\ resv'[c].amount \in Int
  BY DEF ClaimTypeOK, Reservations
<1>8. CASE Neutral(c)
  BY <1>3, <1>4, <1>5, <1>6, <1>7, <1>8 DEF Neutral, DriftOf
<1>9. CASE Credits(c)
  <2>1. tachi'[u] = IF u = resv[c].user THEN tachi[u] + resv[c].amount ELSE tachi[u]
    BY <1>9 DEF Credits, ClaimTypeOK
  <2> QED
    BY <1>3, <1>4, <1>5, <1>6, <1>7, <1>9, <2>1 DEF Credits, DriftOf
<1>10. CASE Mints(c)
  <2>1. wallet'[u] = IF u = resv[c].user THEN wallet[u] + resv[c].amount ELSE wallet[u]
    BY <1>10 DEF Mints, ClaimTypeOK
  <2> QED
    BY <1>3, <1>4, <1>5, <1>6, <1>7, <1>10, <2>1 DEF Mints, DriftOf
<1> QED
  BY <1>1, <1>8, <1>9, <1>10

-----------------------------------------------------------------------------
(* The economy. *)

EconomyInv ==
    /\ ClaimTypeOK
    /\ \A c \in Claims : Fact(c)
    /\ SpendFits
    /\ \A u \in Users : DriftOf(u)

(* Nobody owns or has spent anything at first. *)
LEMMA EconomyInitInv == EconomyInit => EconomyInv
<1> SUFFICES ASSUME ClaimInit, Spend!SpendInit
             PROVE  EconomyInv
  BY DEF EconomyInit
<1>1. ClaimTypeOK /\ \A c \in Claims : Fact(c)
  BY InitType, InitFacts
<1>2. SpendFits
  BY <1>1 DEF SpendFits, Spend!SpendInit, ClaimTypeOK, Spend!Serving
<1>3. ASSUME NEW u \in Users
      PROVE  DriftOf(u)
  <2>1. \A r \in Redemptions : payer[r] # u
    BY ClaimAssumption DEF Spend!SpendInit
  <2>2. ASSUME NEW S, S \subseteq Redemptions
        PROVE  {r \in S : payer[r] = u} = {}
    BY <2>1, <2>2
  <2>3. /\ Spend!BurntNotPaid \subseteq Redemptions
        /\ Spend!PaidNotBurnt \subseteq Redemptions
        /\ NotRestored \subseteq Redemptions
    BY DEF Spend!BurntNotPaid, Spend!PaidNotBurnt, NotRestored
  <2>4. /\ Spend!PriceOf(u, Spend!BurntNotPaid) = 0
        /\ Spend!PriceOf(u, Spend!PaidNotBurnt) = 0
        /\ Spend!PriceOf(u, NotRestored) = 0
    BY <2>2, <2>3, SpendSum, SumEmpty DEF Spend!PriceOf
  <2>5. ClaimsIn(u, {"confirmed"}) = {} /\ Uncredited(u) = {}
    BY DEF ClaimInit, ClaimsIn, Uncredited
  <2>6. MintedNotCredited(u) = 0 /\ ClaimedBy(u, {"confirmed"}) = 0
    BY <2>5, SumEmpty DEF MintedNotCredited, ClaimedBy, Total, Uncredited
  <2>7. tachi[u] = 0 /\ wallet[u] = 0
    BY DEF ClaimInit
  <2> QED
    BY <2>4, <2>6, <2>7 DEF DriftOf
<1> QED
  BY <1>1, <1>2, <1>3 DEF EconomyInv

(* A server crash moves requests only. *)
LEMMA CrashDrift ==
    ASSUME EconomyInv, ServerCrash
    PROVE  EconomyInv'
<1> USE DEF EconomyInv
<1>1. /\ UNCHANGED <<ledgerVars, status, hashed, resv, tachi, mint, wallet, payer, price, burn>>
      /\ pc' = CrashedPc /\ spendPc' = Spend!CrashedPc
  BY DEF ServerCrash, ledgerVars
<1>2. ClaimTypeOK' /\ \A c \in Claims : Fact(c)'
  <2>1. CASE \E c \in Claims : pc[c] \in Serving
    <3>1. [ClaimNext]_vars
      BY <1>1, <2>1 DEF ClaimNext, Crash, Aborted, chainVars
    <3> QED
      BY <3>1, StepType, NextMoves DEF Moves
  <2>2. CASE ~ \E c \in Claims : pc[c] \in Serving
    <3>1. pc' = pc
      BY <1>1, <2>2 DEF CrashedPc, ClaimTypeOK
    <3> QED
      BY <1>1, <3>1 DEF ClaimTypeOK, LedgerTypeOK, ledgerVars, Fact
  <2> QED
    BY <2>1, <2>2
<1>3. ASSUME NEW r \in Redemptions
      PROVE  spendPc'[r] = spendPc[r] \/ (spendPc[r] \in Spend!Serving /\ spendPc'[r] = "crashed")
  BY <1>1 DEF Spend!CrashedPc
<1>4. spendPc' \in [Redemptions -> {"idle"} \cup Spend!Serving \cup Spend!Ended]
  BY <1>1 DEF Spend!CrashedPc, SpendFits, Spend!Ended
<1>5. SpendFits'
  BY <1>1, <1>3, <1>4 DEF SpendFits, Spend!Serving
<1>6. /\ Spend!BurntNotPaid' = Spend!BurntNotPaid
      /\ Spend!PaidNotBurnt' = Spend!PaidNotBurnt
      /\ NotRestored' = NotRestored
  BY <1>1, <1>3 DEF Spend!BurntNotPaid, Spend!PaidNotBurnt, NotRestored, Spend!Serving
<1>7. ASSUME NEW u \in Users
      PROVE  DriftOf(u)'
  <2>1. ASSUME NEW S
        PROVE  {r \in S : payer'[r] = u} = {r \in S : payer[r] = u}
    BY <1>1
  <2>2. /\ Spend!PriceOf(u, Spend!BurntNotPaid)' = Spend!PriceOf(u, Spend!BurntNotPaid)
        /\ Spend!PriceOf(u, Spend!PaidNotBurnt)' = Spend!PriceOf(u, Spend!PaidNotBurnt)
        /\ Spend!PriceOf(u, NotRestored)' = Spend!PriceOf(u, NotRestored)
    BY <1>1, <1>6, <2>1, SpendSum DEF Spend!PriceOf
  <2>3. MintedNotCredited(u)' = MintedNotCredited(u) /\ ClaimedBy(u, {"confirmed"})' = ClaimedBy(u, {"confirmed"})
    BY <1>1 DEF MintedNotCredited, ClaimedBy, ClaimsIn, ClaimSizes, Total
  <2> QED
    BY <1>1, <2>2, <2>3 DEF DriftOf
<1> QED
  BY <1>2, <1>5, <1>7

(* Every step of the economy keeps the drift explained. *)
LEMMA EconomyStep == EconomyInv /\ [EconomyNext]_economyVars => EconomyInv'
<1> SUFFICES ASSUME EconomyInv, [EconomyNext]_economyVars
             PROVE  EconomyInv'
  OBVIOUS
<1>1. CASE Progress /\ UNCHANGED spendVars
  <2>1. [ClaimNext]_vars
    BY <1>1 DEF ClaimNext
  <2>2. ClaimTypeOK' /\ \A c \in Claims : Fact(c)'
    BY <2>1, StepType, NextMoves DEF Moves, EconomyInv
  <2>3. SpendFits'
    BY <1>1, <2>2 DEF EconomyInv, SpendFits, spendVars, ClaimTypeOK
  <2>4. ASSUME NEW u \in Users
        PROVE  DriftOf(u)'
    <3>1. ASSUME NEW c \in Claims, Refuse(c) \/ Reserve(c) \/ Continue(c) \/ ChainMint(c)
          PROVE  DriftOf(u)'
      BY <1>1, <2>2, <3>1, ClaimDrift DEF EconomyInv
    <3>2. CASE Points
      <4>1. MintedNotCredited(u)' = MintedNotCredited(u)
            /\ ClaimedBy(u, {"confirmed"})' = ClaimedBy(u, {"confirmed"})
            /\ tachi' = tachi /\ wallet' = wallet
        BY <3>2 DEF Points, claimVars, MintedNotCredited, ClaimedBy, ClaimsIn, ClaimSizes, Total
      <4> QED
        BY <1>1, <4>1, PricesStay DEF DriftOf, EconomyInv
    <3> QED
      BY <1>1, <3>1, <3>2 DEF Progress
  <2> QED
    BY <2>2, <2>3, <2>4 DEF EconomyInv
<1>2. ASSUME NEW r \in Redemptions, Spend!SpendStep(r) \/ Spend!ChainBurn(r), ClaimsStay
      PROVE  EconomyInv'
  <2>1. SpendFits'
    BY <1>2, SpendKinds DEF EconomyInv
  <2>2. ClaimTypeOK'
    BY <1>2, <2>1 DEF EconomyInv, ClaimsStay, ClaimTypeOK, LedgerTypeOK, ledgerVars, SpendFits
  <2>3. \A c \in Claims : Fact(c)'
    BY <1>2 DEF EconomyInv, ClaimsStay, Fact
  <2>4. \A u \in Users : DriftOf(u)'
    BY <1>2, SpendDrift DEF EconomyInv
  <2> QED
    BY <2>1, <2>2, <2>3, <2>4 DEF EconomyInv
<1>3. CASE ServerCrash
  BY <1>3, CrashDrift
<1>4. CASE UNCHANGED economyVars
  <2>1. UNCHANGED vars /\ UNCHANGED spendVars
    BY <1>4 DEF economyVars
  <2>2. [ClaimNext]_vars
    BY <2>1
  <2>3. ClaimTypeOK' /\ \A c \in Claims : Fact(c)'
    BY <2>2, StepType, NextMoves DEF Moves, EconomyInv
  <2>4. SpendFits'
    BY <2>1, <2>3 DEF EconomyInv, SpendFits, spendVars, ClaimTypeOK
  <2>5. ASSUME NEW u \in Users
        PROVE  DriftOf(u)'
    <3>1. MintedNotCredited(u)' = MintedNotCredited(u)
          /\ ClaimedBy(u, {"confirmed"})' = ClaimedBy(u, {"confirmed"})
          /\ tachi' = tachi /\ wallet' = wallet
      BY <2>1 DEF vars, claimVars, MintedNotCredited, ClaimedBy, ClaimsIn, ClaimSizes, Total
    <3> QED
      BY <2>1, <3>1, PricesStay DEF DriftOf, EconomyInv
  <2> QED
    BY <2>3, <2>4, <2>5 DEF EconomyInv
<1> QED
  BY <1>1, <1>2, <1>3, <1>4 DEF EconomyNext

(***************************************************************************)
(* The wallet on chain and the mirrored balance differ, for every viewer   *)
(* and at any time, by exactly the mints not credited, the debits not      *)
(* burnt and the burns given back, whatever claims and redemptions         *)
(* interleave, abort, lose an acknowledgement or end in a crash; and       *)
(* every $TACHI a viewer holds or has debited was claimed.                 *)
(***************************************************************************)
THEOREM DriftExplained == EconomySpec => []MirrorDrift
<1>1. EconomyInv => MirrorDrift
  BY DEF EconomyInv, DriftOf, MirrorDrift, NotRestored
<1> QED
  BY <1>1, EconomyInitInv, EconomyStep, PTL DEF EconomySpec
==============================================================================
