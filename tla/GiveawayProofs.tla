---------------------------- MODULE GiveawayProofs ---------------------------
(***************************************************************************)
(* Proofs about what a streamer gives away: a raffle, for any logins,      *)
(* tiers, quotas and requests, and the airdrops of a channel, for any      *)
(* viewers, amounts, limits and requests.                                  *)
(***************************************************************************)
EXTENDS Raffle, Airdrop, Sums

-----------------------------------------------------------------------------
(* The raffle. *)

(* A join under way is of a raffle whose mode is settled; a pick is entered. *)
CallsFit ==
    \A r \in Requests :
        /\ call[r].op = "join" => status # "draft" /\ call[r].mode = mode
        /\ call[r].op = "draw" /\ call[r].pick # NoLogin => call[r].pick \in entries

(* Nobody joins a draft. *)
DraftIsClosed == status = "draft" => ~entryOpen /\ joined = {}

(* A tier that was never created has no row and no count. *)
TierRows == \A t \in Tiers : quota[t] = 0 => t \notin tiers /\ drawnCount[t] = 0

RaffleInv ==
    RaffleTypeOK /\ CallsFit /\ DraftIsClosed /\ TierRows /\ SubscribersOnly /\ CountIsDraws

-----------------------------------------------------------------------------

(* A record says what kind of call it is of. *)
LEMMA CallFields ==
    ASSUME RaffleTypeOK, NEW r \in Requests
    PROVE  /\ Idle \in RaffleCalls /\ Idle.op = "idle"
           /\ call[r].op = "import" => call[r].rows \subseteq Logins
           /\ call[r].op = "join" => call[r].login \in Logins /\ call[r].mode \in Modes
           /\ call[r].op = "draw" =>
                /\ call[r] \in [op : {"draw"}, tier : Tiers \cup {NoTier}, pick : Logins \cup {NoLogin}, tries : 0..MaxTries - 1]
                /\ call[r].tier \in Tiers \cup {NoTier} /\ call[r].pick \in Logins \cup {NoLogin}
                /\ call[r].tries \in 0..MaxTries - 1
           /\ call[r].op = "save" =>
                call[r].tier \in EditedTiers /\ call[r].quota \in Quotas /\ call[r].drawn \in Nat
<1>1. call[r] \in RaffleCalls /\ Idle \in RaffleCalls /\ Idle.op = "idle"
  BY DEF RaffleTypeOK, RaffleCalls, Idle
<1> QED
  BY <1>1 DEF RaffleCalls

(* A call that changes fits, and the others fit still. *)
LEMMA BecomeFits ==
    ASSUME RaffleTypeOK, CallsFit, NEW r \in Requests, NEW c \in RaffleCalls, Become(r, c),
           UNCHANGED <<status, mode>>, entries \subseteq entries',
           c.op = "join" => status # "draft" /\ c.mode = mode,
           c.op = "draw" /\ c.pick # NoLogin => c.pick \in entries'
    PROVE  call' \in [Requests -> RaffleCalls] /\ CallsFit'
<1>1. /\ call' \in [Requests -> RaffleCalls]
      /\ call'[r] = c
      /\ \A q \in Requests \ {r} : call'[q] = call[q]
  BY DEF Become, RaffleTypeOK
<1>2. ASSUME NEW q \in Requests
      PROVE  /\ call'[q].op = "join" => status' # "draft" /\ call'[q].mode = mode'
             /\ call'[q].op = "draw" /\ call'[q].pick # NoLogin => call'[q].pick \in entries'
  <2>1. CASE q = r
    BY <1>1, <2>1
  <2>2. CASE q # r
    BY <1>1, <2>2 DEF CallsFit
  <2> QED
    BY <2>1, <2>2
<1> QED
  BY <1>1, <1>2 DEF CallsFit

(* A step that changes only a call. *)
LEMMA CallStep ==
    ASSUME RaffleInv, NEW r \in Requests, NEW c \in RaffleCalls, Become(r, c),
           UNCHANGED <<raffle, imported, joined, draw, prizes>>,
           c.op = "join" => status # "draft" /\ c.mode = mode,
           c.op = "draw" /\ c.pick # NoLogin => c.pick \in entries
    PROVE  RaffleInv'
<1>1. UNCHANGED <<status, mode, entryOpen, imported, joined, draw, tiers, quota, drawnCount, entries>>
  BY DEF raffle, prizes, entries
<1>2. call' \in [Requests -> RaffleCalls] /\ CallsFit'
  BY <1>1, BecomeFits DEF RaffleInv
<1>3. UNCHANGED drawn /\ \A t : UNCHANGED DrawsOf(t)
  BY <1>1 DEF drawn, DrawsOf
<1>4. RaffleTypeOK'
  BY <1>1, <1>2, <1>3 DEF RaffleInv, RaffleTypeOK
<1> QED
  BY <1>1, <1>2, <1>3, <1>4
  DEF RaffleInv, DraftIsClosed, TierRows, SubscribersOnly, CountIsDraws

(* A call that ends leaves nothing to fit. *)
LEMMA IdleFits ==
    ASSUME RaffleTypeOK, CallsFit, NEW r \in Requests, Become(r, Idle),
           UNCHANGED <<status, mode>>, entries \subseteq entries'
    PROVE  call' \in [Requests -> RaffleCalls] /\ CallsFit'
<1> QED
  BY CallFields, BecomeFits

(* A raffle begins with no entries and no draws. *)
LEMMA RaffleInitInv == RaffleInit => RaffleInv
<1> SUFFICES ASSUME RaffleInit
             PROVE  RaffleInv
  OBVIOUS
<1> USE RaffleAssumption
<1>1. \A r \in Requests : call[r].op = "idle"
  BY DEF RaffleInit, CallsInit, Idle
<1>2. drawn = {} /\ \A t \in Tiers : DrawsOf(t) = {}
  BY DEF RaffleInit, drawn, DrawsOf
<1>3. RaffleTypeOK
  BY <1>2 DEF RaffleInit, CallsInit, RaffleTypeOK, Modes, RaffleCalls
<1>4. CallsFit
  BY <1>1 DEF CallsFit
<1>5. DraftIsClosed /\ TierRows /\ SubscribersOnly /\ CountIsDraws
  BY <1>2 DEF RaffleInit, DraftIsClosed, TierRows, SubscribersOnly, CountIsDraws
<1> QED
  BY <1>3, <1>4, <1>5 DEF RaffleInv

-----------------------------------------------------------------------------

(* The mode changes in a draft, which nobody has joined or is joining. *)
LEMMA LifeCycleStep ==
    ASSUME RaffleInv, Activate \/ Complete \/ SetMode \/ SetEntryOpen
    PROVE  RaffleInv'
<1>1. /\ status' # status => status' # "draft"
      /\ mode' # mode => status = "draft"
      /\ entryOpen' # entryOpen => status = "active"
      /\ status' \in {"draft", "active", "completed"} /\ mode' \in Modes /\ entryOpen' \in BOOLEAN
      /\ status' # status => UNCHANGED <<mode, entryOpen>>
      /\ mode' # mode => UNCHANGED <<status, entryOpen>>
      /\ entryOpen' # entryOpen => UNCHANGED <<status, mode>>
      /\ UNCHANGED <<imported, joined, draw, tiers, quota, drawnCount, call>>
  BY DEF Activate, Complete, SetMode, SetEntryOpen, RaffleInv, RaffleTypeOK, prizes
<1>2. UNCHANGED <<entries, drawn>> /\ \A t : UNCHANGED DrawsOf(t)
  BY <1>1 DEF entries, drawn, DrawsOf
<1>3. RaffleTypeOK'
  BY <1>1, <1>2 DEF RaffleInv, RaffleTypeOK
<1>4. CallsFit'
  BY <1>1, <1>2 DEF RaffleInv, CallsFit
<1>5. DraftIsClosed' /\ SubscribersOnly'
  BY <1>1 DEF RaffleInv, RaffleTypeOK, DraftIsClosed, SubscribersOnly
<1>6. TierRows' /\ CountIsDraws'
  BY <1>1, <1>2 DEF RaffleInv, TierRows, CountIsDraws
<1> QED
  BY <1>3, <1>4, <1>5, <1>6 DEF RaffleInv

(* A call begins, ends, or makes another attempt. *)
LEMMA CallingStep ==
    ASSUME RaffleInv, NEW r \in Requests,
           \/ ImportStart(r) \/ JoinStart(r) \/ DrawNext(r) \/ DrawFromTier(r)
           \/ Pick(r) \/ LoseDraw(r) \/ UpdatePrizeTier(r) \/ Abort(r)
    PROVE  RaffleInv'
<1> USE RaffleAssumption
<1>0. Idle \in RaffleCalls /\ Idle.op = "idle"
  BY CallFields DEF RaffleInv
<1>1. CASE ImportStart(r)
  <2>1. PICK rows \in (SUBSET Logins) \ {{}} : Become(r, Importing(rows))
    BY <1>1 DEF ImportStart
  <2>2. Importing(rows) \in RaffleCalls /\ Importing(rows).op = "import"
    BY DEF Importing, RaffleCalls
  <2> QED
    BY <1>1, <2>1, <2>2, CallStep DEF ImportStart
<1>2. CASE JoinStart(r)
  <2>1. PICK l \in Logins : Become(r, Joining(l, mode))
    BY <1>2 DEF JoinStart
  <2>2. /\ Joining(l, mode) \in RaffleCalls /\ Joining(l, mode).op = "join"
        /\ Joining(l, mode).mode = mode
    BY DEF Joining, RaffleCalls, RaffleInv, RaffleTypeOK
  <2>3. status # "draft"
    BY <1>2 DEF JoinStart, RaffleInv, DraftIsClosed
  <2> QED
    BY <1>2, <2>1, <2>2, <2>3, CallStep DEF JoinStart
<1>3. ASSUME NEW t \in Tiers \cup {NoTier}, NEW n \in 0..MaxTries - 1, Become(r, Drawing(t, NoLogin, n)),
             UNCHANGED <<raffle, imported, joined, draw, prizes>>
      PROVE  RaffleInv'
  <2>1. /\ Drawing(t, NoLogin, n) \in RaffleCalls /\ Drawing(t, NoLogin, n).op = "draw"
        /\ Drawing(t, NoLogin, n).pick = NoLogin
    BY DEF Drawing, RaffleCalls
  <2> QED
    BY <1>3, <2>1, CallStep
<1>4. CASE DrawNext(r)
  BY <1>3, <1>4 DEF DrawNext
<1>5. CASE DrawFromTier(r)
  <2>1. PICK t \in tiers : Become(r, Drawing(t, NoLogin, 0))
    BY <1>5 DEF DrawFromTier
  <2>2. t \in Tiers
    BY DEF RaffleInv, RaffleTypeOK
  <2> QED
    BY <1>3, <1>5, <2>1, <2>2 DEF DrawFromTier
<1>6. CASE Pick(r)
  <2>1. CASE Become(r, Idle)
    BY <1>0, <1>6, <2>1, CallStep DEF Pick
  <2>2. ASSUME NEW l \in entries \ drawn, Become(r, [call[r] EXCEPT !.pick = l])
        PROVE  RaffleInv'
    <3> DEFINE c == [call[r] EXCEPT !.pick = l]
    <3>1. call[r] \in [op : {"draw"}, tier : Tiers \cup {NoTier}, pick : Logins \cup {NoLogin}, tries : 0..MaxTries - 1]
      BY <1>6, CallFields DEF Pick, RaffleInv
    <3>2. l \in Logins
      BY DEF entries, RaffleInv, RaffleTypeOK
    <3>3. c \in RaffleCalls /\ c.op = "draw" /\ c.pick = l
      BY <3>1, <3>2 DEF RaffleCalls
    <3>4. Become(r, c)
      BY <2>2
    <3> HIDE DEF c
    <3> QED
      BY <1>6, <3>3, <3>4, CallStep DEF Pick
  <2> QED
    BY <1>6, <2>1, <2>2 DEF Pick, Finish
<1>7. CASE LoseDraw(r)
  <2>1. call[r].tier \in Tiers \cup {NoTier} /\ call[r].tries \in 0..MaxTries - 1
    BY <1>7, CallFields DEF LoseDraw, Picked, RaffleInv
  <2>2. CASE call[r].tries + 1 < MaxTries
    <3>1. call[r].tries + 1 \in 0..MaxTries - 1
      BY <2>1, <2>2
    <3> QED
      BY <1>3, <1>7, <2>1, <2>2, <3>1 DEF LoseDraw
  <2>3. CASE ~(call[r].tries + 1 < MaxTries)
    <3>1. Become(r, Idle)
      BY <1>7, <2>3 DEF LoseDraw
    <3> QED
      BY <1>0, <1>7, <3>1, CallStep DEF LoseDraw
  <2> QED
    BY <2>2, <2>3
<1>8. CASE UpdatePrizeTier(r)
  <2>1. PICK t \in tiers \cap EditedTiers, q \in Nat :
            q \in Quotas \cup {quota[t]} /\ Become(r, Saving(t, q, drawnCount[t]))
    BY <1>8 DEF UpdatePrizeTier, RaffleInv, RaffleTypeOK
  <2>2. q \in Quotas /\ drawnCount[t] \in Nat
    BY <2>1 DEF RaffleInv, RaffleTypeOK, TierRows
  <2>3. Saving(t, q, drawnCount[t]) \in RaffleCalls /\ Saving(t, q, drawnCount[t]).op = "save"
    BY <2>2 DEF Saving, RaffleCalls
  <2> QED
    BY <1>8, <2>1, <2>3, CallStep DEF UpdatePrizeTier
<1>9. CASE Abort(r)
  BY <1>0, <1>9, CallStep DEF Abort, Finish
<1> QED
  BY <1>1, <1>2, <1>4, <1>5, <1>6, <1>7, <1>8, <1>9

(* The draws know nothing of entries but that they only get more. *)
LEMMA EntriesStep ==
    ASSUME RaffleInv, UNCHANGED <<raffle, draw, prizes>>,
           imported' \subseteq Logins, joined' \subseteq Logins \ imported',
           entries \subseteq entries', call' \in [Requests -> RaffleCalls], CallsFit',
           SubscribersOnly', DraftIsClosed'
    PROVE  RaffleInv'
<1>1. UNCHANGED <<status, mode, entryOpen, draw, tiers, quota, drawnCount>>
  BY DEF raffle, prizes
<1>2. UNCHANGED drawn /\ \A t : UNCHANGED DrawsOf(t)
  BY <1>1 DEF drawn, DrawsOf
<1>3. RaffleTypeOK'
  BY <1>1, <1>2 DEF RaffleInv, RaffleTypeOK
<1>4. TierRows' /\ CountIsDraws'
  BY <1>1, <1>2 DEF RaffleInv, TierRows, CountIsDraws
<1> QED
  BY <1>3, <1>4 DEF RaffleInv

(* An import enters the next row. *)
LEMMA ImportRowStep ==
    ASSUME RaffleInv, NEW r \in Requests, ImportRow(r)
    PROVE  RaffleInv'
<1>1. PICK l \in call[r].rows :
          /\ imported' = imported \cup ({l} \ joined)
          /\ Become(r, IF call[r].rows = {l} THEN Idle ELSE Importing(call[r].rows \ {l}))
  BY DEF ImportRow
<1>2. call[r].rows \subseteq Logins
  BY CallFields DEF ImportRow, RaffleInv
<1> DEFINE c == IF call[r].rows = {l} THEN Idle ELSE Importing(call[r].rows \ {l})
<1>3. c \in RaffleCalls /\ c.op \in {"idle", "import"}
  <2>1. CASE call[r].rows = {l}
    BY <2>1, CallFields DEF RaffleInv
  <2>2. CASE call[r].rows # {l}
    <3>0. PICK m \in call[r].rows : m # l
      BY <1>1, <2>2
    <3>1. call[r].rows \ {l} \in (SUBSET Logins) \ {{}}
      <4>1. call[r].rows \ {l} \subseteq Logins /\ m \in call[r].rows \ {l}
        BY <1>2, <3>0
      <4> QED
        BY <4>1
    <3>2. c = Importing(call[r].rows \ {l})
      BY <2>2
    <3> QED
      BY <3>1, <3>2 DEF Importing, RaffleCalls
  <2> QED
    BY <2>1, <2>2
<1>4. Become(r, c)
  BY <1>1
<1> HIDE DEF c
<1>5. /\ imported' \subseteq Logins /\ joined' \subseteq Logins \ imported'
      /\ entries \subseteq entries'
      /\ UNCHANGED <<raffle, joined, draw, prizes>>
  BY <1>1, <1>2 DEF ImportRow, RaffleInv, RaffleTypeOK, entries
<1>6. call' \in [Requests -> RaffleCalls] /\ CallsFit'
  BY <1>3, <1>4, <1>5, BecomeFits DEF RaffleInv, raffle
<1>7. SubscribersOnly' /\ DraftIsClosed'
  BY <1>5 DEF RaffleInv, SubscribersOnly, DraftIsClosed, raffle
<1> QED
  BY <1>5, <1>6, <1>7, EntriesStep

(* Who joins a raffle for subscribers was judged by that very mode. *)
LEMMA JoinInsertStep ==
    ASSUME RaffleInv, NEW r \in Requests, JoinInsert(r)
    PROVE  RaffleInv'
<1> DEFINE l == call[r].login
<1>1. l \in Logins /\ status # "draft" /\ call[r].mode = mode
  BY CallFields DEF JoinInsert, RaffleInv, CallsFit
<1>2. /\ joined' = joined \cup IF mode = "public" \/ l \in Subscribers THEN {l} \ imported ELSE {}
      /\ UNCHANGED <<raffle, imported, draw, prizes>>
  BY <1>1 DEF JoinInsert
<1> HIDE DEF l
<1>3. /\ imported' \subseteq Logins /\ joined' \subseteq Logins \ imported'
      /\ entries \subseteq entries'
  BY <1>1, <1>2 DEF RaffleInv, RaffleTypeOK, entries
<1>4. call' \in [Requests -> RaffleCalls] /\ CallsFit'
  BY <1>2, <1>3, IdleFits DEF JoinInsert, Finish, RaffleInv, raffle
<1>5. SubscribersOnly' /\ DraftIsClosed'
  BY <1>1, <1>2 DEF RaffleInv, SubscribersOnly, DraftIsClosed, raffle
<1> QED
  BY <1>2, <1>3, <1>4, <1>5, EntriesStep

(* The draws of a tier grow by one with its count. *)
LEMMA DrawsFinite ==
    ASSUME NEW t
    PROVE  IsFiniteSet(DrawsOf(t)) /\ Cardinality(DrawsOf(t)) \in Nat
<1>1. DrawsOf(t) \subseteq Logins
  BY DEF DrawsOf
<1> QED
  BY <1>1, FS_Subset, FS_CardinalityType, RaffleAssumption

(* A draw is inserted, with the count that was read before. *)
LEMMA InsertDrawStep ==
    ASSUME RaffleInv, NEW r \in Requests, InsertDraw(r)
    PROVE  RaffleInv'
<1> USE RaffleAssumption
<1> DEFINE t == call[r].tier
           l == call[r].pick
           won == t = NoTier \/ TierOpen(t)
<1>1. t \in Tiers \cup {NoTier} /\ l \in Logins /\ l \in entries /\ l \notin drawn
  BY CallFields DEF InsertDraw, Picked, RaffleInv, CallsFit
<1>2. /\ draw' = IF won THEN [draw EXCEPT ![l] = t] ELSE draw
      /\ drawnCount' = [u \in Tiers |-> drawnCount[u] + IF won /\ u = t THEN 1 ELSE 0]
      /\ Become(r, Idle)
      /\ UNCHANGED <<status, mode, entryOpen, imported, joined, tiers, quota>>
  BY DEF InsertDraw, Finish, raffle
<1>3. t \in Tiers /\ won => t \in tiers /\ drawnCount[t] < quota[t]
  BY DEF TierOpen
<1> HIDE DEF t, l, won
<1>4. UNCHANGED entries
  BY <1>2 DEF entries
<1>5. call' \in [Requests -> RaffleCalls] /\ CallsFit'
  BY <1>2, <1>4, IdleFits DEF RaffleInv
<1>6. draw[l] = "none" /\ draw' \in [Logins -> {"none", NoTier} \cup Tiers]
  BY <1>1, <1>2 DEF drawn, RaffleInv, RaffleTypeOK
<1>7. drawn' \subseteq drawn \cup {l}
  BY <1>1, <1>2 DEF drawn, RaffleInv, RaffleTypeOK
<1>8. drawnCount' \in [Tiers -> Nat]
  BY <1>2 DEF RaffleInv, RaffleTypeOK
<1>9. RaffleTypeOK'
  BY <1>1, <1>2, <1>4, <1>5, <1>6, <1>7, <1>8 DEF RaffleInv, RaffleTypeOK
<1>10. DraftIsClosed' /\ SubscribersOnly'
  BY <1>2 DEF RaffleInv, DraftIsClosed, SubscribersOnly
<1>11. TierRows'
  <2> SUFFICES ASSUME NEW u \in Tiers, quota[u] = 0
               PROVE  u \notin tiers /\ drawnCount'[u] = 0
    BY <1>2 DEF TierRows
  <2>1. u \notin tiers /\ drawnCount[u] = 0
    BY DEF RaffleInv, TierRows
  <2> QED
    BY <1>2, <1>3, <2>1
<1>12. CountIsDraws'
  <2>1. ASSUME NEW u \in Tiers
        PROVE  DrawsOf(u)' = DrawsOf(u) \cup (IF won /\ u = t THEN {l} ELSE {})
    BY <1>1, <1>2, <1>6 DEF DrawsOf, RaffleInv, RaffleTypeOK
  <2>2. ASSUME NEW u \in tiers \ EditedTiers
        PROVE  drawnCount'[u] = Cardinality(DrawsOf(u)') /\ drawnCount'[u] <= quota[u]
    <3>0. u \in Tiers /\ quota[u] \in Nat /\ drawnCount[u] \in Nat
      <4>1. /\ tiers \subseteq Tiers /\ quota \in [Tiers -> Quotas \cup {0}]
            /\ drawnCount \in [Tiers -> Nat]
        BY DEF RaffleInv, RaffleTypeOK
      <4>2. Quotas \subseteq Nat
        OBVIOUS
      <4>3. u \in Tiers
        BY <4>1
      <4>4. quota[u] \in Quotas \cup {0} /\ drawnCount[u] \in Nat
        BY <4>1, <4>3
      <4>5. Quotas \cup {0} \subseteq Nat
        BY <4>2
      <4>6. quota[u] \in Nat
        <5> HIDE RaffleAssumption
        <5> QED
          BY <4>4, <4>5
      <4> QED
        BY <4>3, <4>4, <4>6
    <3>1. /\ u \in Tiers /\ quota[u] \in Nat /\ drawnCount[u] \in Nat
          /\ drawnCount[u] = Cardinality(DrawsOf(u)) /\ drawnCount[u] <= quota[u]
      BY <2>2, <3>0 DEF RaffleInv, CountIsDraws
    <3>2. CASE won /\ u = t
      <4>1. l \notin DrawsOf(u)
        BY <1>6, <3>1 DEF DrawsOf
      <4>2. Cardinality(DrawsOf(u) \cup {l}) = Cardinality(DrawsOf(u)) + 1
        BY <4>1, DrawsFinite, FS_AddElement
      <4>3. DrawsOf(u)' = DrawsOf(u) \cup {l} /\ drawnCount'[u] = drawnCount[u] + 1
        BY <1>2, <2>1, <3>1, <3>2
      <4>4. Cardinality(DrawsOf(u)') = drawnCount[u] + 1
        BY <3>1, <4>2, <4>3
      <4>5. drawnCount[u] < quota[u]
        BY <1>3, <3>1, <3>2
      <4> QED
        BY <3>1, <4>3, <4>4, <4>5, <1>2
    <3>3. CASE ~(won /\ u = t)
      <4>1. DrawsOf(u)' = DrawsOf(u)
        BY <2>1, <3>1, <3>3
      <4>2. drawnCount'[u] = drawnCount[u]
        BY <1>2, <3>1, <3>3
      <4>3. Cardinality(DrawsOf(u)') = Cardinality(DrawsOf(u))
        BY <4>1
      <4> QED
        BY <3>1, <4>2, <4>3
    <3> QED
      BY <3>2, <3>3
  <2>3. ASSUME NEW u \in Tiers \ (tiers \cup EditedTiers)
        PROVE  DrawsOf(u)' = {}
    BY <1>3, <2>1 DEF RaffleInv, CountIsDraws
  <2> QED
    BY <1>2, <2>2, <2>3 DEF CountIsDraws
<1> QED
  BY <1>5, <1>9, <1>10, <1>11, <1>12 DEF RaffleInv

-----------------------------------------------------------------------------

(* A row id is new: it has no draws and no count. *)
LEMMA CreatePrizeTierStep ==
    ASSUME RaffleInv, CreatePrizeTier
    PROVE  RaffleInv'
<1> USE RaffleAssumption
<1>1. PICK t \in Tiers, q \in Quotas :
          quota[t] = 0 /\ tiers' = tiers \cup {t} /\ quota' = [quota EXCEPT ![t] = q]
  BY DEF CreatePrizeTier
<1>2. UNCHANGED <<status, mode, entryOpen, imported, joined, draw, drawnCount, call>>
  BY DEF CreatePrizeTier, raffle
<1>3. UNCHANGED <<entries, drawn>> /\ \A u : UNCHANGED DrawsOf(u)
  BY <1>2 DEF entries, drawn, DrawsOf
<1>4. RaffleTypeOK'
  BY <1>1, <1>2, <1>3 DEF RaffleInv, RaffleTypeOK
<1>5. CallsFit' /\ DraftIsClosed' /\ SubscribersOnly'
  BY <1>2, <1>3 DEF RaffleInv, CallsFit, DraftIsClosed, SubscribersOnly
<1>6. \A u \in Tiers : quota'[u] = IF u = t THEN q ELSE quota[u]
  BY <1>1 DEF RaffleInv, RaffleTypeOK
<1>7. TierRows'
  BY <1>1, <1>2, <1>6 DEF RaffleInv, TierRows
<1>8. CountIsDraws'
  <2>1. t \notin tiers /\ drawnCount[t] = 0 /\ (t \notin EditedTiers => DrawsOf(t) = {})
    BY <1>1 DEF RaffleInv, TierRows, CountIsDraws
  <2>2. t \notin EditedTiers => drawnCount[t] = Cardinality(DrawsOf(t))
    BY <2>1, FS_EmptySet
  <2>3. q \in Nat
    OBVIOUS
  <2> QED
    BY <1>1, <1>2, <1>3, <1>6, <2>1, <2>2, <2>3 DEF RaffleInv, RaffleTypeOK, CountIsDraws
<1> QED
  BY <1>4, <1>5, <1>7, <1>8 DEF RaffleInv

(* Only the tiers that are edited are saved. *)
LEMMA SaveTierStep ==
    ASSUME RaffleInv, NEW r \in Requests, SaveTier(r)
    PROVE  RaffleInv'
<1> USE RaffleAssumption
<1> DEFINE t == call[r].tier
<1>1. t \in EditedTiers /\ t \in Tiers /\ call[r].quota \in Quotas /\ call[r].drawn \in Nat
  BY CallFields DEF SaveTier, RaffleInv
<1>2. /\ tiers' = tiers \cup {t}
      /\ quota' = [quota EXCEPT ![t] = call[r].quota]
      /\ drawnCount' = [drawnCount EXCEPT ![t] = call[r].drawn]
      /\ Become(r, Idle)
      /\ UNCHANGED <<status, mode, entryOpen, imported, joined, draw>>
  BY DEF SaveTier, Finish, raffle
<1> HIDE DEF t
<1>3. UNCHANGED <<entries, drawn>> /\ \A u : UNCHANGED DrawsOf(u)
  BY <1>2 DEF entries, drawn, DrawsOf
<1>4. call' \in [Requests -> RaffleCalls] /\ CallsFit'
  BY <1>2, <1>3, IdleFits DEF RaffleInv
<1>5. RaffleTypeOK'
  BY <1>1, <1>2, <1>3, <1>4 DEF RaffleInv, RaffleTypeOK
<1>6. DraftIsClosed' /\ SubscribersOnly'
  BY <1>2 DEF RaffleInv, DraftIsClosed, SubscribersOnly
<1>7. /\ \A u \in Tiers \ {t} : quota'[u] = quota[u] /\ drawnCount'[u] = drawnCount[u]
      /\ quota'[t] # 0
  BY <1>1, <1>2 DEF RaffleInv, RaffleTypeOK
<1>8. TierRows' /\ CountIsDraws'
  BY <1>1, <1>2, <1>3, <1>7 DEF RaffleInv, RaffleTypeOK, TierRows, CountIsDraws
<1> QED
  BY <1>4, <1>5, <1>6, <1>8 DEF RaffleInv

(* What a deletion takes the tier from are draws its count did not know. *)
LEMMA DeletePrizeTierStep ==
    ASSUME RaffleInv, DeletePrizeTier
    PROVE  RaffleInv'
<1> USE RaffleAssumption
<1>1. PICK t \in tiers :
          /\ drawnCount[t] = 0
          /\ tiers' = tiers \ {t}
          /\ draw' = [l \in Logins |-> IF draw[l] = t THEN NoTier ELSE draw[l]]
  BY DEF DeletePrizeTier
<1>2. UNCHANGED <<status, mode, entryOpen, imported, joined, quota, drawnCount, call>>
  BY DEF DeletePrizeTier, raffle
<1>3. t \in Tiers
  BY DEF RaffleInv, RaffleTypeOK
<1>4. UNCHANGED entries /\ drawn' = drawn
  BY <1>1, <1>2, <1>3 DEF entries, drawn, RaffleInv, RaffleTypeOK
<1>5. RaffleTypeOK'
  BY <1>1, <1>2, <1>4 DEF RaffleInv, RaffleTypeOK
<1>6. CallsFit' /\ DraftIsClosed' /\ SubscribersOnly' /\ TierRows'
  BY <1>1, <1>2, <1>4 DEF RaffleInv, CallsFit, DraftIsClosed, SubscribersOnly, TierRows
<1>7. \A u \in Tiers : DrawsOf(u)' = IF u = t THEN {} ELSE DrawsOf(u)
  BY <1>1, <1>3 DEF DrawsOf
<1>8. CountIsDraws'
  BY <1>1, <1>2, <1>3, <1>7 DEF RaffleInv, RaffleTypeOK, CountIsDraws
<1> QED
  BY <1>5, <1>6, <1>8 DEF RaffleInv

(* Every step of a raffle keeps its invariant. *)
LEMMA RaffleStep == RaffleInv /\ [RaffleNext]_vars => RaffleInv'
<1> SUFFICES ASSUME RaffleInv, [RaffleNext]_vars
             PROVE  RaffleInv'
  OBVIOUS
<1>1. CASE UNCHANGED vars
  <2>1. UNCHANGED <<status, mode, entryOpen, imported, joined, draw, tiers, quota, drawnCount, call>>
    BY <1>1 DEF vars, raffle, prizes
  <2>2. UNCHANGED <<entries, drawn>> /\ \A t : UNCHANGED DrawsOf(t)
    BY <2>1 DEF entries, drawn, DrawsOf
  <2> QED
    BY <2>1, <2>2
    DEF RaffleInv, RaffleTypeOK, CallsFit, DraftIsClosed, TierRows, SubscribersOnly, CountIsDraws
<1>2. ASSUME NEW r \in Requests,
             \/ ImportStart(r) \/ JoinStart(r) \/ DrawNext(r) \/ DrawFromTier(r)
             \/ UpdatePrizeTier(r) \/ Proceed(r) \/ Abort(r)
      PROVE  RaffleInv'
  BY <1>2, CallingStep, ImportRowStep, JoinInsertStep, InsertDrawStep, SaveTierStep DEF Proceed
<1> QED
  BY <1>1, <1>2, LifeCycleStep, CreatePrizeTierStep, DeletePrizeTierStep DEF RaffleNext

-----------------------------------------------------------------------------

(* Its invariant holds in every state. *)
LEMMA RaffleInvariant == RaffleSpec => []RaffleInv
<1> QED
  BY RaffleInitInv, RaffleStep, PTL DEF RaffleSpec

(***************************************************************************)
(* The participant list, the draws, the tiers and the calls keep their     *)
(* types: an entry is imported or joined, and only entries are drawn.      *)
(***************************************************************************)
THEOREM RaffleTypeCorrect == RaffleSpec => []RaffleTypeOK
<1>1. RaffleInv => RaffleTypeOK
  BY DEF RaffleInv
<1> QED
  BY <1>1, RaffleInvariant, PTL

(***************************************************************************)
(* However mode changes, activation, opening and joins overlap, nobody but *)
(* subscribers joins a raffle for subscribers (RaffleService.JoinRaffle).  *)
(***************************************************************************)
THEOREM OnlySubscribersJoin == RaffleSpec => []SubscribersOnly
<1>1. RaffleInv => SubscribersOnly
  BY DEF RaffleInv
<1> QED
  BY <1>1, RaffleInvariant, PTL

(***************************************************************************)
(* However many draws compete for a tier that is not edited, its count is  *)
(* the number of its draws and within its quota (DrawFromTierContext).     *)
(***************************************************************************)
THEOREM CountsAreDraws == RaffleSpec => []CountIsDraws
<1>1. RaffleInv => CountIsDraws
  BY DEF RaffleInv
<1> QED
  BY <1>1, RaffleInvariant, PTL

-----------------------------------------------------------------------------
(* The shares of an airdrop. *)

(* Division with a remainder. *)
LEMMA Division ==
    ASSUME NEW a \in Nat, NEW b \in Nat \ {0}
    PROVE  a \div b \in Nat /\ a % b \in 0..b - 1 /\ a = b * (a \div b) + (a % b)
OBVIOUS

(* A positive factor keeps the order. *)
LEMMA Scaling ==
    ASSUME NEW c \in Nat \ {0}, NEW x \in Int, NEW y \in Int
    PROVE  (c * x <= c * y <=> x <= y) /\ (c * x < c * y <=> x < y)
<1>1. ASSUME NEW u \in Int, NEW w \in Int, u < w
      PROVE  c * u + c <= c * w
  <2>1. PICK k \in Nat \ {0} : w = u + k
    <3>1. w - u \in Nat \ {0} /\ w = u + (w - u)
      BY <1>1
    <3> QED
      BY <3>1
  <2>2. c * w = c * u + c * k
    BY <2>1, Distributes
  <2>3. c * k >= c
    BY <2>1
  <2> QED
    BY <2>2, <2>3
<1>2. c * x \in Int /\ c * y \in Int
  OBVIOUS
<1> QED
  BY <1>1, <1>2

(* Weights of the viewers of S, their sum, and what n points divide into. *)
Divided(S, weight, sum, n, floor, rest) ==
    /\ IsFiniteSet(S) /\ S \subseteq Nat
    /\ n \in Nat \ {0} /\ sum \in Nat \ {0} /\ sum = Total(weight, S)
    /\ floor = [v \in S |-> (n * weight[v]) \div sum]
    /\ rest = [v \in S |-> (n * weight[v]) % sum]
    /\ \A v \in S : weight[v] \in Nat

(* The quotient and the remainder of a viewer. *)
LEMMA Quotients ==
    ASSUME NEW S, NEW weight, NEW sum, NEW n, NEW floor, NEW rest,
           Divided(S, weight, sum, n, floor, rest), NEW v \in S
    PROVE  /\ floor[v] \in Nat /\ rest[v] \in 0..sum - 1 /\ rest[v] \in Int
           /\ n * weight[v] = sum * floor[v] + rest[v] /\ n * weight[v] \in Nat
<1>1. n \in Nat \ {0} /\ sum \in Nat \ {0} /\ weight[v] \in Nat
      /\ floor[v] = (n * weight[v]) \div sum /\ rest[v] = (n * weight[v]) % sum
  BY DEF Divided
<1>2. n * weight[v] \in Nat
  BY <1>1
<1>3. PICK a \in Nat : a = n * weight[v]
  BY <1>2
<1>4. floor[v] = a \div sum /\ rest[v] = a % sum
  BY <1>1, <1>3
<1>5. floor[v] \in Nat /\ rest[v] \in 0..sum - 1 /\ a = sum * floor[v] + rest[v]
  BY <1>1, <1>4, Division
<1> QED
  BY <1>1, <1>3, <1>5

(* What rounding leaves is at most a point for each viewer with a remainder. *)
LEMMA LeftOver ==
    ASSUME NEW S, NEW weight, NEW sum, NEW n, NEW floor, NEW rest,
           Divided(S, weight, sum, n, floor, rest)
    PROVE  /\ Total(floor, S) \in Nat
           /\ n - Total(floor, S) \in 0..Cardinality({v \in S : rest[v] # 0})
<1> DEFINE pos == {v \in S : rest[v] # 0}
           product == [v \in S |-> n * weight[v]]
           scaled == [v \in S |-> sum * floor[v]]
           one == [v \in S |-> IF v \in pos THEN 1 ELSE 0]
           most == [v \in S |-> sum * one[v]]
<1>0. IsFiniteSet(S) /\ n \in Nat \ {0} /\ sum \in Nat \ {0} /\ sum = Total(weight, S)
      /\ \A v \in S : weight[v] \in Int
  BY DEF Divided
<1>1. IsFiniteSet(pos) /\ pos \in SUBSET S /\ Cardinality(pos) \in Nat
  BY <1>0, FS_Subset, FS_CardinalityType
<1>2. \A v \in S : /\ floor[v] \in Nat /\ floor[v] \in Int /\ rest[v] \in Nat /\ rest[v] \in Int /\ rest[v] <= sum
                   /\ product[v] = scaled[v] + rest[v] /\ scaled[v] \in Int /\ product[v] \in Int
  <2> SUFFICES ASSUME NEW v \in S
               PROVE  /\ floor[v] \in Nat /\ floor[v] \in Int /\ rest[v] \in Nat /\ rest[v] \in Int /\ rest[v] <= sum
                      /\ product[v] = scaled[v] + rest[v] /\ scaled[v] \in Int /\ product[v] \in Int
    OBVIOUS
  <2>1. floor[v] \in Nat /\ rest[v] \in 0..sum - 1 /\ n * weight[v] = sum * floor[v] + rest[v] /\ n * weight[v] \in Nat
    BY Quotients
  <2>2. sum * floor[v] \in Int
    BY <1>0, <2>1
  <2> QED
    BY <1>0, <2>1, <2>2
<1>3. \A v \in S : product[v] = n * weight[v] /\ scaled[v] = sum * floor[v] /\ most[v] = sum * one[v]
                   /\ one[v] = IF v \in pos THEN 1 ELSE 0
  OBVIOUS
<1>4. \A v \in S : one[v] \in Int /\ most[v] \in Int /\ rest[v] <= most[v]
  <2> SUFFICES ASSUME NEW v \in S
               PROVE  one[v] \in Int /\ most[v] \in Int /\ rest[v] <= most[v]
    OBVIOUS
  <2>1. CASE rest[v] = 0
    <3>1. one[v] = 0 /\ most[v] = 0
      BY <1>0, <2>1
    <3> QED
      BY <2>1, <3>1
  <2>2. CASE rest[v] # 0
    <3>1. one[v] = 1 /\ most[v] = sum
      BY <1>0, <2>2
    <3> QED
      BY <1>0, <1>2, <3>1
  <2> QED
    BY <2>1, <2>2
<1> HIDE DEF pos, product, scaled, one, most
<1>5. SumFunctionOnSet(product, S) = n * SumFunctionOnSet(weight, S)
  BY <1>0, <1>3, SumScaled
<1>6. SumFunctionOnSet(scaled, S) = sum * SumFunctionOnSet(floor, S) /\ SumFunctionOnSet(floor, S) \in Nat
  BY <1>0, <1>2, <1>3, SumScaled, SumNatural
<1>7. SumFunctionOnSet(product, S) = SumFunctionOnSet(scaled, S) + SumFunctionOnSet(rest, S)
  BY <1>0, <1>2, SumPlus
<1>8. SumFunctionOnSet(rest, S) \in Nat /\ SumFunctionOnSet(rest, S) <= SumFunctionOnSet(most, S)
  BY <1>0, <1>2, <1>4, SumNatural, SumAtMost
<1>9. SumFunctionOnSet(most, S) = sum * SumFunctionOnSet(one, S) /\ SumFunctionOnSet(one, S) = Cardinality(pos)
  BY <1>0, <1>1, <1>3, <1>4, SumScaled, SumCounts
<1> DEFINE f == SumFunctionOnSet(floor, S)
           left == n - f
<1>10. f \in Nat /\ left \in Int /\ n = f + left
  BY <1>0, <1>6
<1>11. n * sum = sum * f + SumFunctionOnSet(rest, S)
  BY <1>0, <1>5, <1>6, <1>7 DEF Total
<1>12. sum * left = SumFunctionOnSet(rest, S)
  <2> HIDE DEF f, left
  <2>1. sum * n = sum * f + sum * left /\ sum * f \in Int /\ sum * left \in Int
    BY <1>0, <1>10, Distributes
  <2>2. n * sum = sum * n
    BY <1>0
  <2> QED
    BY <1>8, <1>11, <2>1, <2>2
<1>13. sum * 0 <= sum * left /\ sum * left <= sum * Cardinality(pos)
  <2> HIDE DEF left
  <2> QED
    BY <1>0, <1>8, <1>9, <1>12
<1>14. 0 <= left /\ left <= Cardinality(pos)
  <2> HIDE DEF left
  <2> QED
    BY <1>0, <1>1, <1>10, <1>13, Scaling
<1> QED
  BY <1>10, <1>14 DEF pos, Total

(* Who comes before whom, as a set of pairs. *)
Ahead(S, rest, acc) == {p \in S \X S : Before(p[1], p[2], rest, acc)}

(* The viewers before v. *)
Earlier(S, v, rest, acc) == {w \in S : Before(w, v, rest, acc)}

(* The order of the remainders is strict and total. *)
LEMMA RemaindersAreOrdered ==
    ASSUME NEW S, S \subseteq Nat, NEW rest, NEW acc,
           \A v \in S : rest[v] \in Int /\ acc[v] \in Int
    PROVE  /\ IsStrictOrder(Ahead(S, rest, acc), S)
           /\ \A v \in S : Rank(Ahead(S, rest, acc), S, v)
                                = Cardinality(Earlier(S, v, rest, acc))
<1> DEFINE B == Ahead(S, rest, acc)
<1>1. \A v, w \in S : <<v, w>> \in B <=> Before(v, w, rest, acc)
  BY DEF Ahead
<1>2. \A v \in S : ~Before(v, v, rest, acc)
  BY DEF Before
<1>3. \A u, v, w \in S : Before(u, v, rest, acc) /\ Before(v, w, rest, acc) => Before(u, w, rest, acc)
  BY DEF Before
<1>4. \A v, w \in S : v # w => Before(v, w, rest, acc) \/ Before(w, v, rest, acc)
  BY DEF Before
<1> HIDE DEF B
<1>5. IsStrictOrder(B, S)
  BY <1>1, <1>2, <1>3, <1>4 DEF IsStrictOrder
<1>6. ASSUME NEW v \in S
      PROVE  Rank(B, S, v) = Cardinality(Earlier(S, v, rest, acc))
  <2>1. {w \in S : <<w, v>> \in B} = Earlier(S, v, rest, acc)
    BY <1>1 DEF Earlier
  <2> QED
    BY <2>1 DEF Rank
<1> QED
  BY <1>5, <1>6 DEF B

(* The viewers who get one of the points that are left. *)
Lucky(S, rest, acc, left) ==
    {v \in S : Cardinality({w \in S : Before(w, v, rest, acc)}) < left}

(* They are as many as the points left, and all have a remainder; who comes   *)
(* before one of them is one of them.                                         *)
LEMMA LuckyOnes ==
    ASSUME NEW S, S \subseteq Nat, IsFiniteSet(S), NEW rest, NEW acc,
           \A v \in S : rest[v] \in Nat /\ acc[v] \in Int,
           NEW left \in 0..Cardinality({v \in S : rest[v] # 0})
    PROVE  /\ Cardinality(Lucky(S, rest, acc, left)) = left
           /\ \A v \in Lucky(S, rest, acc, left) : rest[v] # 0
           /\ \A v, w \in S : Before(v, w, rest, acc) /\ w \in Lucky(S, rest, acc, left)
                  => v \in Lucky(S, rest, acc, left)
<1> DEFINE pos == {v \in S : rest[v] # 0}
           Ahd(v) == {w \in S : Before(w, v, rest, acc)}
           lucky == Lucky(S, rest, acc, left)
<1>0. \A v \in S : rest[v] \in Int /\ acc[v] \in Int
  OBVIOUS
<1>1. \A v \in S : IsFiniteSet(Ahd(v)) /\ Cardinality(Ahd(v)) \in Nat
  BY FS_Subset, FS_CardinalityType
<1>2. IsFiniteSet(pos) /\ Cardinality(pos) \in Nat /\ Cardinality(S) \in Nat /\ Cardinality(pos) <= Cardinality(S)
  BY FS_Subset, FS_CardinalityType
<1>3. left \in 0..Cardinality(S)
  BY <1>2
<1>4. Cardinality(lucky) = left
  <2> DEFINE B == Ahead(S, rest, acc)
  <2>1. IsStrictOrder(B, S) /\ \A v \in S : Rank(B, S, v) = Cardinality(Ahd(v))
    <3>1. \A v \in S : Rank(B, S, v) = Cardinality(Earlier(S, v, rest, acc))
      BY <1>0, RemaindersAreOrdered
    <3>2. IsStrictOrder(B, S)
      BY <1>0, RemaindersAreOrdered
    <3> QED
      BY <3>1, <3>2 DEF Earlier
  <2>2. lucky = {v \in S : Rank(B, S, v) < left}
    BY <2>1 DEF Lucky
  <2> HIDE DEF B, lucky
  <2> QED
    BY <1>3, <2>1, <2>2, RanksCount
<1>5. ASSUME NEW v \in lucky
      PROVE  rest[v] # 0
  <2> SUFFICES ASSUME rest[v] = 0
               PROVE  FALSE
    OBVIOUS
  <2>1. v \in S /\ Cardinality(Ahd(v)) < left
    BY DEF Lucky
  <2>2. pos \subseteq Ahd(v)
    <3> SUFFICES ASSUME NEW w \in S, rest[w] # 0
                 PROVE  Before(w, v, rest, acc)
      OBVIOUS
    <3>1. rest[w] \in Nat /\ rest[v] = 0
      OBVIOUS
    <3> QED
      BY <3>1 DEF Before
  <2>3. Cardinality(pos) <= Cardinality(Ahd(v))
    <3> HIDE DEF pos, Ahd
    <3> QED
      BY <1>1, <2>1, <2>2, FS_Subset
  <2> QED
    BY <1>1, <1>2, <2>1, <2>3
<1>6. ASSUME NEW v \in S, NEW w \in S, Before(v, w, rest, acc), w \in lucky
      PROVE  v \in lucky
  <2>1. Ahd(v) \subseteq Ahd(w)
    <3> SUFFICES ASSUME NEW u \in S, Before(u, v, rest, acc)
                 PROVE  Before(u, w, rest, acc)
      OBVIOUS
    <3> QED
      BY <1>0, <1>6 DEF Before
  <2>2. Cardinality(Ahd(v)) <= Cardinality(Ahd(w))
    <3> HIDE DEF Ahd
    <3> QED
      BY <1>1, <2>1, FS_Subset
  <2>3. Cardinality(Ahd(w)) < left
    BY <1>6 DEF Lucky
  <2>4. Cardinality(Ahd(v)) < left
    <3> HIDE DEF Ahd
    <3> QED
      BY <1>1, <2>2, <2>3
  <2> QED
    BY <2>4 DEF Lucky
<1> QED
  BY <1>4, <1>5, <1>6

(* What Shares computes: quotients, and a point more for the lucky ones. *)
ShareOut(n, S, acc, weight, sum, floor, rest, share) ==
    /\ Divided(S, weight, sum, n, floor, rest)
    /\ Total(acc, S) # 0 => weight = acc
    /\ share = [v \in S |-> floor[v] + IF v \in Lucky(S, rest, acc, n - Total(floor, S)) THEN 1 ELSE 0]

(* With nothing watched everybody weighs one; the weights are never all zero. *)
LEMMA SharesAre ==
    ASSUME NEW S, IsFiniteSet(S), S # {}, S \subseteq Nat, NEW n \in Nat \ {0},
           NEW acc, \A v \in S : acc[v] \in Nat
    PROVE  \E weight, sum, floor, rest :
               ShareOut(n, S, acc, weight, sum, floor, rest, Shares(n, S, acc))
<1> DEFINE weight == IF Total(acc, S) = 0 THEN [v \in S |-> 1] ELSE acc
           sum == Total(weight, S)
           rest == [v \in S |-> (n * weight[v]) % sum]
           floor == [v \in S |-> (n * weight[v]) \div sum]
           left == n - Total(floor, S)
           share == [v \in S |-> floor[v] + IF Cardinality({w \in S : Before(w, v, rest, acc)}) < left THEN 1 ELSE 0]
<1>1. share = Shares(n, S, acc)
  BY DEF Shares
<1>2. \A v \in S : weight[v] \in Nat
  OBVIOUS
<1>3. sum \in Nat \ {0}
  <2>1. CASE Total(acc, S) = 0
    <3>1. \A v \in S : weight[v] = 1
      BY <2>1
    <3> HIDE DEF weight
    <3>2. Total(weight, S) = Cardinality(S)
      BY <3>1, SumOnes DEF Total
    <3>3. Cardinality(S) \in Nat /\ Cardinality(S) # 0
      BY FS_CardinalityType, FS_EmptySet
    <3> QED
      BY <3>2, <3>3
  <2>2. CASE Total(acc, S) # 0
    <3>1. Total(acc, S) \in Nat
      BY SumNatural DEF Total
    <3> QED
      BY <2>2, <3>1
  <2> QED
    BY <2>1, <2>2
<1>4. Total(acc, S) # 0 => weight = acc
  OBVIOUS
<1> HIDE DEF weight
<1>5. Divided(S, weight, sum, n, floor, rest)
  BY <1>2, <1>3 DEF Divided
<1>6. share = [v \in S |-> floor[v] + IF v \in Lucky(S, rest, acc, left) THEN 1 ELSE 0]
  <2> HIDE DEF sum, floor, rest, left
  <2> QED
    BY DEF Lucky
<1> HIDE DEF sum, rest, floor, share
<1>7. ShareOut(n, S, acc, weight, sum, floor, rest, share)
  BY <1>4, <1>5, <1>6 DEF ShareOut
<1> QED
  BY <1>1, <1>7

(* Facts about the shares, in the terms of their computation. *)
LEMMA ShareFacts ==
    ASSUME NEW n, NEW S, NEW acc, NEW weight, NEW sum, NEW floor, NEW rest, NEW share,
           ShareOut(n, S, acc, weight, sum, floor, rest, share), \A v \in S : acc[v] \in Nat
    PROVE  /\ DOMAIN share = S /\ share \in [S -> Nat]
           /\ Total(share, S) = n
           /\ \A v \in S : /\ share[v] \in {floor[v], floor[v] + 1} /\ share[v] \in Nat
                           /\ share[v] # floor[v] => rest[v] # 0
           /\ \A v, w \in S : Before(v, w, rest, acc) /\ share[w] # floor[w] => share[v] # floor[v]
<1> DEFINE left == n - Total(floor, S)
           lucky == Lucky(S, rest, acc, left)
           one == [v \in S |-> IF v \in lucky THEN 1 ELSE 0]
<1>1. Divided(S, weight, sum, n, floor, rest)
      /\ share = [v \in S |-> floor[v] + IF v \in Lucky(S, rest, acc, n - Total(floor, S)) THEN 1 ELSE 0]
  BY DEF ShareOut
<1>2. IsFiniteSet(S) /\ S \subseteq Nat /\ n \in Nat \ {0}
  BY <1>1 DEF Divided
<1>3. \A v \in S : floor[v] \in Nat /\ rest[v] \in Nat /\ floor[v] \in Int /\ acc[v] \in Int
  <2> SUFFICES ASSUME NEW v \in S
               PROVE  floor[v] \in Nat /\ rest[v] \in Nat
    OBVIOUS
  <2>1. floor[v] \in Nat /\ rest[v] \in 0..sum - 1 /\ sum \in Nat
    BY <1>1, Quotients DEF Divided
  <2> QED
    BY <2>1
<1>4. Total(floor, S) \in Nat /\ left \in 0..Cardinality({v \in S : rest[v] # 0})
  BY <1>1, LeftOver
<1>5. /\ Cardinality(lucky) = left
      /\ \A v \in lucky : rest[v] # 0
      /\ \A v, w \in S : Before(v, w, rest, acc) /\ w \in lucky => v \in lucky
  <2> HIDE DEF left
  <2> QED
    BY <1>2, <1>3, <1>4, LuckyOnes
<1>6. lucky \in SUBSET S
  BY DEF Lucky
<1>7. share = [v \in S |-> floor[v] + IF v \in lucky THEN 1 ELSE 0]
  BY <1>1
<1>8. \A v \in S : one[v] = IF v \in lucky THEN 1 ELSE 0
  OBVIOUS
<1> HIDE DEF lucky, one
<1>9. \A v \in S : share[v] = floor[v] + one[v] /\ one[v] \in {0, 1} /\ one[v] \in Int
                   /\ (one[v] = 1 <=> v \in lucky)
  BY <1>7, <1>8
<1>10. Total(share, S) = n
  <2>1. SumFunctionOnSet(one, S) = Cardinality(lucky)
    BY <1>2, <1>6, <1>8, SumCounts
  <2>2. \A v \in S : floor[v] \in Int /\ one[v] \in Int /\ share[v] = floor[v] + one[v]
    BY <1>3, <1>9
  <2>3. SumFunctionOnSet(share, S) = SumFunctionOnSet(floor, S) + SumFunctionOnSet(one, S)
    <3> HIDE DEF left
    <3>1. IsFiniteSet(S)
      BY <1>2
    <3>2. \A f, e, g : (\A x \in S : f[x] \in Int /\ e[x] \in Int /\ g[x] = f[x] + e[x])
              => SumFunctionOnSet(g, S) = SumFunctionOnSet(f, S) + SumFunctionOnSet(e, S)
      BY <3>1, SumPlus
    <3> QED
      BY <2>2, <3>2
  <2> QED
    BY <1>2, <1>4, <1>5, <2>1, <2>3 DEF Total
<1>11. \A v \in S : share[v] \in {floor[v], floor[v] + 1} /\ share[v] \in Nat
                    /\ (share[v] # floor[v] <=> v \in lucky)
  BY <1>3, <1>9
<1> QED
  BY <1>5, <1>7, <1>10, <1>11

(* Nobody who watched longer gets less. *)
LEMMA LongerGetsMore ==
    ASSUME NEW n, NEW S, NEW acc, NEW weight, NEW sum, NEW floor, NEW rest, NEW share,
           ShareOut(n, S, acc, weight, sum, floor, rest, share), \A v \in S : acc[v] \in Nat,
           weight = acc, NEW v \in S, NEW w \in S, acc[v] > acc[w]
    PROVE  share[v] >= share[w]
<1>1. Divided(S, weight, sum, n, floor, rest)
  BY DEF ShareOut
<1>2. n \in Nat \ {0} /\ sum \in Nat \ {0} /\ weight[v] \in Nat /\ weight[w] \in Nat /\ weight[w] < weight[v]
  BY <1>1 DEF Divided
<1>3. /\ floor[v] \in Nat /\ rest[v] \in 0..sum - 1 /\ n * weight[v] = sum * floor[v] + rest[v]
      /\ floor[w] \in Nat /\ rest[w] \in 0..sum - 1 /\ n * weight[w] = sum * floor[w] + rest[w]
  BY <1>1, Quotients
<1>4. n * weight[w] < n * weight[v] /\ n * weight[w] \in Nat /\ n * weight[v] \in Nat
  BY <1>2, Scaling
<1>5. /\ share[v] \in {floor[v], floor[v] + 1}
      /\ share[w] \in {floor[w], floor[w] + 1}
      /\ Before(v, w, rest, acc) /\ share[w] # floor[w] => share[v] # floor[v]
  BY ShareFacts
<1>6. sum * floor[v] \in Int /\ sum * floor[w] \in Int
  BY <1>2, <1>3
<1>7. CASE floor[v] < floor[w]
  <2>1. sum * (floor[v] + 1) <= sum * floor[w]
    <3>1. floor[v] + 1 \in Int /\ floor[w] \in Int /\ floor[v] + 1 <= floor[w]
      BY <1>3, <1>7
    <3> QED
      BY <1>2, <3>1, Scaling
  <2>2. sum * (floor[v] + 1) = sum * floor[v] + sum * 1
    BY <1>2, <1>3, Distributes
  <2> QED
    BY <1>2, <1>3, <1>4, <1>6, <2>1, <2>2
<1>8. CASE floor[v] = floor[w]
  <2>1. rest[v] > rest[w]
    BY <1>2, <1>3, <1>4, <1>6, <1>8
  <2>2. Before(v, w, rest, acc)
    BY <2>1 DEF Before
  <2> QED
    BY <1>3, <1>5, <1>8, <2>2
<1>9. CASE floor[v] > floor[w]
  BY <1>3, <1>5, <1>9
<1> QED
  BY <1>3, <1>7, <1>8, <1>9

(* Every share is less than a point away from the proportion. *)
LEMMA WithinAPoint ==
    ASSUME NEW n, NEW S, NEW acc, NEW weight, NEW sum, NEW floor, NEW rest, NEW share,
           ShareOut(n, S, acc, weight, sum, floor, rest, share), \A v \in S : acc[v] \in Nat,
           weight = acc, NEW v \in S
    PROVE  share[v] * sum - n * acc[v] < sum /\ n * acc[v] - share[v] * sum < sum
<1>1. Divided(S, weight, sum, n, floor, rest)
  BY DEF ShareOut
<1>2. n \in Nat \ {0} /\ sum \in Nat \ {0} /\ acc[v] \in Nat
  BY <1>1 DEF Divided
<1>3. floor[v] \in Nat /\ rest[v] \in 0..sum - 1 /\ n * acc[v] = sum * floor[v] + rest[v]
  BY <1>1, Quotients
<1>4. share[v] \in {floor[v], floor[v] + 1} /\ (share[v] # floor[v] => rest[v] # 0)
  BY ShareFacts
<1>5. PICK p \in Int : p = sum * floor[v]
  BY <1>2, <1>3
<1>6. n * acc[v] = p + rest[v]
  BY <1>3, <1>5
<1>7. CASE share[v] = floor[v]
  <2>1. share[v] * sum = p
    BY <1>2, <1>3, <1>5, <1>7
  <2> QED
    BY <1>2, <1>3, <1>6, <2>1
<1>8. CASE share[v] # floor[v]
  <2>1. share[v] = floor[v] + 1 /\ rest[v] # 0
    BY <1>4, <1>8
  <2>2. sum * (floor[v] + 1) = sum * floor[v] + sum * 1
    BY <1>2, <1>3, Distributes
  <2>3. share[v] * sum = p + sum
    <3>1. share[v] * sum = sum * (floor[v] + 1)
      BY <1>2, <1>3, <2>1
    <3> QED
      BY <1>2, <1>5, <2>2, <3>1
  <2> QED
    BY <1>2, <1>3, <1>6, <2>1, <2>3
<1> QED
  BY <1>7, <1>8

-----------------------------------------------------------------------------
(* The airdrop. *)

(* The shares of an attempt are its amount. *)
SharesAddUp ==
    \A r \in Requests : call[r].place = "sharing" =>
        Total(call[r].share, DOMAIN call[r].share) = call[r].amount

(* An attempt nobody has overtaken still fits below the day's limit. *)
RoomLeft ==
    \A r \in Requests : call[r].place = "sharing" /\ ~call[r].overtaken =>
        TodayTotal(call[r].day) + call[r].amount <= DailyLimit

AirdropInv == AirdropTypeOK /\ SharesAddUp /\ RoomLeft /\ DailyLimitHolds /\ AirdropsPaidInFull

(* The amounts are positive numbers. *)
LEMMA AmountsNumbers ==
    /\ \A n \in Amounts : n \in Nat \ {0} /\ n \in Int
    /\ IsFiniteSet(Viewers) /\ IsFiniteSet(Requests) /\ Viewers \subseteq Nat
    /\ Days \in Nat \ {0} /\ MaxAttempts \in Nat \ {0} /\ \A l \in Limits : l \in Nat
    /\ DefaultLimit \in Nat /\ MaxSeconds \in Nat
BY AirdropAssumption DEF AirdropAssumption

(* What a call holds, by its place. *)
LEMMA AirdropFields ==
    ASSUME NEW c, CallOK(c)
    PROVE  /\ c.place \in {"start", "sharing", "refused", "paid", "unknown"}
           /\ c.place = "start" => c.amount \in Amounts /\ c.attempt \in 1..MaxAttempts
           /\ c.place = "sharing" =>
                /\ c.amount \in Amounts /\ c.attempt \in 1..MaxAttempts /\ c.day \in 1..Days
                /\ DOMAIN c.share \subseteq Viewers /\ (\A v \in DOMAIN c.share : c.share[v] \in 0..c.amount)
           /\ c.place \in {"paid", "unknown"} => c.amount \in Amounts /\ c.day \in 1..Days
<1>1. CASE c \in {Refused} \cup {Start(n, k) : n \in Amounts, k \in 1..MaxAttempts}
  BY <1>1 DEF Refused, Start
<1>2. CASE c \in {Ended(place, n, d) : place \in {"paid", "unknown"}, n \in Amounts, d \in 1..Days}
  BY <1>2 DEF Ended
<1>3. ASSUME NEW S \in SUBSET Viewers, c \in SharingCalls(S), \A v \in S : c.share[v] <= c.amount
      PROVE  /\ c.place = "sharing" /\ c.amount \in Amounts /\ c.attempt \in 1..MaxAttempts /\ c.day \in 1..Days
             /\ DOMAIN c.share \subseteq Viewers /\ \A v \in DOMAIN c.share : c.share[v] \in 0..c.amount
  <2>1. c.place = "sharing" /\ c.amount \in Amounts /\ c.attempt \in 1..MaxAttempts /\ c.day \in 1..Days
    BY <1>3 DEF SharingCalls
  <2>2. c.share \in [S -> Nat]
    BY <1>3 DEF SharingCalls
  <2>3. c.amount \in Nat
    BY <2>1, AmountsNumbers
  <2>4. \A v \in DOMAIN c.share : c.share[v] \in 0..c.amount
    BY <1>3, <2>2, <2>3
  <2> QED
    BY <2>1, <2>2, <2>4
<1> QED
  BY <1>1, <1>2, <1>3 DEF CallOK

(* A call of each kind is one. *)
LEMMA AirdropCalls ==
    /\ CallOK(Refused) /\ Refused.place = "refused"
    /\ \A n \in Amounts, k \in 1..MaxAttempts : CallOK(Start(n, k)) /\ Start(n, k).place = "start"
    /\ \A n \in Amounts, d \in 1..Days : \A p \in {"paid", "unknown"} :
           /\ CallOK(Ended(p, n, d)) /\ Ended(p, n, d).place = p
           /\ Ended(p, n, d).amount = n /\ Ended(p, n, d).day = d
<1>1. CallOK(Refused) /\ Refused.place = "refused"
  BY DEF CallOK, Refused
<1>2. ASSUME NEW n \in Amounts, NEW k \in 1..MaxAttempts
      PROVE  CallOK(Start(n, k)) /\ Start(n, k).place = "start"
  BY DEF CallOK, Start
<1>3. ASSUME NEW n \in Amounts, NEW d \in 1..Days, NEW p \in {"paid", "unknown"}
      PROVE  /\ CallOK(Ended(p, n, d)) /\ Ended(p, n, d).place = p
             /\ Ended(p, n, d).amount = n /\ Ended(p, n, d).day = d
  <2>1. Ended(p, n, d).place = p /\ Ended(p, n, d).amount = n /\ Ended(p, n, d).day = d
    BY DEF Ended
  <2>2. Ended(p, n, d) \in {Ended(place, m, e) : place \in {"paid", "unknown"}, m \in Amounts, e \in 1..Days}
    OBVIOUS
  <2> QED
    BY <2>1, <2>2 DEF CallOK
<1> QED
  BY <1>1, <1>2, <1>3

(* A sharing call. *)
LEMMA SharingFields ==
    ASSUME NEW n, NEW k, NEW d, NEW share
    PROVE  LET c == Sharing(n, k, d, share)
           IN  c.place = "sharing" /\ c.amount = n /\ c.attempt = k /\ c.day = d /\ c.share = share
               /\ c.overtaken = FALSE
BY DEF Sharing

(* A sharing call by its fields. *)
LEMMA SharingCall ==
    ASSUME NEW n \in Amounts, NEW k \in 1..MaxAttempts, NEW d \in 1..Days,
           NEW S \in SUBSET Viewers, NEW share \in [S -> Nat], \A v \in S : share[v] <= n
    PROVE  CallOK(Sharing(n, k, d, share))
<1>1. Sharing(n, k, d, share) \in SharingCalls(S)
  BY DEF Sharing, SharingCalls
<1>2. Sharing(n, k, d, share).amount = n /\ Sharing(n, k, d, share).share = share
  BY DEF Sharing
<1>3. \A v \in S : Sharing(n, k, d, share).share[v] <= Sharing(n, k, d, share).amount
  BY <1>2
<1> QED
  BY <1>1, <1>3 DEF CallOK

(* e is what becomes of c when another call overtakes it. *)
Overtaken(c, e) == e = [c EXCEPT !.overtaken = TRUE]

(* Overtaking changes nothing else. *)
LEMMA Overtaking ==
    ASSUME NEW c, CallOK(c), c.place = "sharing", NEW e, Overtaken(c, e)
    PROVE  /\ CallOK(e) /\ e.place = "sharing" /\ e.amount = c.amount /\ e.day = c.day
           /\ e.share = c.share /\ e.overtaken = TRUE
<1>1. PICK S \in SUBSET Viewers : c \in SharingCalls(S) /\ \A v \in S : c.share[v] <= c.amount
  BY DEF CallOK, Refused, Start, Ended
<1>2. /\ e \in SharingCalls(S)
      /\ e.place = "sharing" /\ e.amount = c.amount /\ e.day = c.day
      /\ e.share = c.share /\ e.overtaken = TRUE
  BY <1>1 DEF SharingCalls, Overtaken
<1>3. CallOK(e)
  BY <1>1, <1>2 DEF CallOK
<1> QED
  BY <1>2, <1>3

(* What a call that ended at one of the places counts for day d. *)
PaidBy(r, places, d) == IF call[r].place \in places /\ call[r].day = d THEN call[r].amount ELSE 0

(* The amounts of the calls of a day, as a sum over all requests. *)
LEMMA AmountsAreSum ==
    ASSUME AirdropTypeOK, NEW d, NEW places \in SUBSET {"paid", "unknown"}
    PROVE  /\ \A r \in Requests : PaidBy(r, places, d) \in Nat /\ PaidBy(r, places, d) \in Int
           /\ AmountsOf(places, d) = SumFunctionOnSet([r \in Requests |-> PaidBy(r, places, d)], Requests)
           /\ AmountsOf(places, d) \in Nat
<1> DEFINE answered == {r \in Requests : call[r].place \in places /\ call[r].day = d}
           f == [r \in Requests |-> PaidBy(r, places, d)]
           e == [r \in answered |-> call[r].amount]
           g == [r \in Requests |-> IF r \in answered THEN f[r] ELSE 0]
<1>1. \A r \in Requests : PaidBy(r, places, d) \in Nat /\ PaidBy(r, places, d) \in Int
  <2> SUFFICES ASSUME NEW r \in Requests
               PROVE  PaidBy(r, places, d) \in Nat /\ PaidBy(r, places, d) \in Int
    OBVIOUS
  <2>1. CallOK(call[r])
    BY DEF AirdropTypeOK
  <2>2. call[r].place \in places => call[r].amount \in Nat
    BY <2>1, AirdropFields, AmountsNumbers
  <2> QED
    BY <2>2 DEF PaidBy
<1>2. answered \in SUBSET Requests /\ IsFiniteSet(answered) /\ IsFiniteSet(Requests)
  BY AmountsNumbers, FS_Subset
<1>3. \A r \in answered : e[r] = f[r]
  BY DEF PaidBy
<1>4. \A r \in Requests : g[r] = f[r] /\ f[r] \in Int /\ f[r] \in Nat
  BY <1>1 DEF PaidBy
<1>5. AmountsOf(places, d) = SumFunctionOnSet(e, answered)
  BY DEF AmountsOf, Total
<1>6. SumFunctionOnSet(f, answered) = SumFunctionOnSet(g, Requests)
  <2>1. \A r \in Requests : f[r] \in Int
    BY <1>4
  <2> HIDE DEF f, answered
  <2> QED
    BY <1>2, <2>1, SumPart
<1> HIDE DEF e, f, g, answered
<1>7. SumFunctionOnSet(e, answered) = SumFunctionOnSet(f, answered)
  BY <1>2, <1>3, SumSame
<1>8. SumFunctionOnSet(g, Requests) = SumFunctionOnSet(f, Requests)
  BY <1>2, <1>4, SumSame
<1>9. SumFunctionOnSet(f, Requests) \in Nat
  BY <1>2, <1>4, SumNatural
<1> QED
  BY <1>1, <1>5, <1>6, <1>7, <1>8, <1>9 DEF f

(* The same for every day and kind of answer. *)
SumsOfAmounts ==
    \A d, places : places \in SUBSET {"paid", "unknown"} =>
        /\ \A r \in Requests : PaidBy(r, places, d) \in Nat /\ PaidBy(r, places, d) \in Int
        /\ AmountsOf(places, d) = SumFunctionOnSet([r \in Requests |-> PaidBy(r, places, d)], Requests)
        /\ AmountsOf(places, d) \in Nat

(* In every state. *)
LEMMA AmountsAreSums == AirdropTypeOK => SumsOfAmounts
BY AmountsAreSum DEF SumsOfAmounts

(* When one call changes what it counts, the amounts change by that. *)
LEMMA AmountsChange ==
    ASSUME AirdropTypeOK, AirdropTypeOK', NEW d, NEW places \in SUBSET {"paid", "unknown"},
           NEW r \in Requests,
           \A q \in Requests \ {r} : PaidBy(q, places, d)' = PaidBy(q, places, d)
    PROVE  /\ AmountsOf(places, d)' = AmountsOf(places, d) - PaidBy(r, places, d) + PaidBy(r, places, d)'
           /\ AmountsOf(places, d) \in Nat /\ AmountsOf(places, d)' \in Nat
           /\ PaidBy(r, places, d) \in Nat /\ PaidBy(r, places, d)' \in Nat
<1> DEFINE f == [q \in Requests |-> PaidBy(q, places, d)]
           e == [q \in Requests |-> PaidBy(q, places, d)']
<1>1. /\ \A q \in Requests : PaidBy(q, places, d) \in Nat /\ PaidBy(q, places, d) \in Int
      /\ AmountsOf(places, d) = SumFunctionOnSet(f, Requests)
      /\ AmountsOf(places, d) \in Nat
  BY AmountsAreSum
<1>2. /\ \A q \in Requests : PaidBy(q, places, d)' \in Nat /\ PaidBy(q, places, d)' \in Int
      /\ AmountsOf(places, d)' = SumFunctionOnSet(e, Requests)
      /\ AmountsOf(places, d)' \in Nat
  <2>1. (AirdropTypeOK => SumsOfAmounts)'
    BY AmountsAreSums, PTL
  <2> QED
    BY <2>1 DEF SumsOfAmounts
<1>3. /\ \A q \in Requests : f[q] \in Int /\ e[q] \in Int
      /\ \A q \in Requests \ {r} : e[q] = f[q]
      /\ f[r] = PaidBy(r, places, d) /\ e[r] = PaidBy(r, places, d)'
  BY <1>1, <1>2
<1> HIDE DEF e, f
<1>4. SumFunctionOnSet(e, Requests) = SumFunctionOnSet(f, Requests) - f[r] + e[r]
  BY <1>3, AmountsNumbers, SumChange
<1> QED
  BY <1>1, <1>2, <1>3, <1>4

(* A day's total is a number. *)
LEMMA TotalsAreNumbers ==
    ASSUME AirdropTypeOK, NEW d \in 1..Days
    PROVE  TodayTotal(d) \in Nat
<1> DEFINE f == [v \in Viewers |-> airdropped[v][d]]
<1>1. \A v \in Viewers : f[v] \in Nat
  BY DEF AirdropTypeOK
<1>2. TodayTotal(d) = SumFunctionOnSet(f, Viewers)
  BY DEF TodayTotal, Total
<1> HIDE DEF f
<1> QED
  BY <1>1, <1>2, AmountsNumbers, SumNatural

(* A step of one call, which pays nothing; it may leave a payment in doubt. *)
LEMMA CallMoves ==
    ASSUME AirdropInv, NEW r \in Requests, NEW c, CallOK(c), Become(r, c),
           UNCHANGED <<today, session, limit, airdropped>>,
           call[r].place \in {"start", "sharing"}, c.place # "paid",
           c.place = "sharing" =>
               /\ Total(c.share, DOMAIN c.share) = c.amount
               /\ TodayTotal(c.day) + c.amount <= DailyLimit
    PROVE  AirdropInv'
<1>1. /\ DOMAIN call' = Requests /\ call'[r] = c
      /\ \A q \in Requests \ {r} : call'[q] = call[q]
  BY DEF AirdropInv, AirdropTypeOK, Become
<1>2. AirdropTypeOK /\ AirdropTypeOK'
  BY <1>1 DEF AirdropInv, AirdropTypeOK
<1>3. DailyLimit' = DailyLimit /\ \A d : TodayTotal(d)' = TodayTotal(d)
  BY DEF DailyLimit, TodayTotal
<1>4. SharesAddUp'
  <2> SUFFICES ASSUME NEW q \in Requests, call'[q].place = "sharing"
               PROVE  Total(call'[q].share, DOMAIN call'[q].share) = call'[q].amount
    BY DEF SharesAddUp
  <2>1. CASE q = r
    BY <1>1, <2>1
  <2>2. CASE q # r
    BY <1>1, <2>2 DEF AirdropInv, SharesAddUp
  <2> QED
    BY <2>1, <2>2
<1>5. RoomLeft'
  <2> SUFFICES ASSUME NEW q \in Requests, call'[q].place = "sharing", ~call'[q].overtaken
               PROVE  TodayTotal(call'[q].day) + call'[q].amount <= DailyLimit
    BY <1>3 DEF RoomLeft, TodayTotal
  <2>1. CASE q = r
    BY <1>1, <2>1
  <2>2. CASE q # r
    BY <1>1, <2>2 DEF AirdropInv, RoomLeft
  <2> QED
    BY <2>1, <2>2
<1>6. DailyLimitHolds'
  BY <1>3 DEF AirdropInv, DailyLimitHolds
<1>7. AirdropsPaidInFull'
  <2> SUFFICES ASSUME NEW d \in 1..Days
               PROVE  /\ TodayTotal(d) >= AmountsOf({"paid"}, d)'
                      /\ TodayTotal(d) <= AmountsOf({"paid", "unknown"}, d)'
    BY <1>3 DEF AirdropsPaidInFull
  <2>1. TodayTotal(d) \in Nat /\ TodayTotal(d) >= AmountsOf({"paid"}, d)
        /\ TodayTotal(d) <= AmountsOf({"paid", "unknown"}, d)
    BY <1>2, TotalsAreNumbers DEF AirdropInv, AirdropsPaidInFull
  <2>2. ASSUME NEW places \in SUBSET {"paid", "unknown"}
        PROVE  /\ AmountsOf(places, d)' = AmountsOf(places, d) + PaidBy(r, places, d)'
               /\ AmountsOf(places, d) \in Nat /\ PaidBy(r, places, d)' \in Nat
    <3>1. \A q \in Requests \ {r} : PaidBy(q, places, d)' = PaidBy(q, places, d)
      BY <1>1 DEF PaidBy
    <3>2. PaidBy(r, places, d) = 0
      BY DEF PaidBy
    <3>3. /\ AmountsOf(places, d)' = AmountsOf(places, d) - PaidBy(r, places, d) + PaidBy(r, places, d)'
          /\ AmountsOf(places, d) \in Nat /\ PaidBy(r, places, d)' \in Nat
      BY <1>2, <3>1, AmountsChange
    <3> QED
      BY <3>2, <3>3
  <2>3. PaidBy(r, {"paid"}, d)' = 0
    BY <1>1 DEF PaidBy
  <2>4. /\ AmountsOf({"paid"}, d)' = AmountsOf({"paid"}, d) + PaidBy(r, {"paid"}, d)'
        /\ AmountsOf({"paid"}, d) \in Nat
    BY <2>2
  <2>5. /\ AmountsOf({"paid", "unknown"}, d)'
              = AmountsOf({"paid", "unknown"}, d) + PaidBy(r, {"paid", "unknown"}, d)'
        /\ AmountsOf({"paid", "unknown"}, d) \in Nat
        /\ PaidBy(r, {"paid", "unknown"}, d)' \in Nat
    BY <2>2
  <2> QED
    BY <2>1, <2>3, <2>4, <2>5
<1> QED
  BY <1>2, <1>4, <1>5, <1>6, <1>7 DEF AirdropInv

(* What an attempt computes. *)
LEMMA AttemptShares ==
    ASSUME AirdropTypeOK, watching # {}, NEW n \in Amounts
    PROVE  LET share == Shares(n, watching, session)
           IN  /\ share \in [watching -> Nat] /\ DOMAIN share = watching /\ watching \in SUBSET Viewers
               /\ Total(share, watching) = n
               /\ \A v \in watching : share[v] <= n
<1> DEFINE share == Shares(n, watching, session)
<1>1. watching \subseteq Viewers /\ watching \subseteq Nat /\ IsFiniteSet(watching) /\ n \in Nat \ {0}
  BY AmountsNumbers, FS_Subset DEF watching
<1>2. \A v \in watching : session[v] \in Nat
  BY AmountsNumbers DEF watching, AirdropTypeOK, Absent
<1>3. PICK weight, sum, floor, rest : ShareOut(n, watching, session, weight, sum, floor, rest, share)
  BY <1>1, <1>2, SharesAre
<1> HIDE DEF share
<1>4. /\ DOMAIN share = watching /\ share \in [watching -> Nat] /\ Total(share, watching) = n
      /\ \A v \in watching : share[v] \in Nat
  BY <1>2, <1>3, ShareFacts
<1>5. ASSUME NEW v \in watching
      PROVE  share[v] <= n
  <2>1. \A w \in watching : share[w] \in Int
    BY <1>4
  <2>2. SumFunctionOnSet(share, watching) = share[v] + SumFunctionOnSet(share, watching \ {v})
    BY <1>1, <2>1, SumTake
  <2>3. SumFunctionOnSet(share, watching \ {v}) \in Nat
    <3>1. IsFiniteSet(watching \ {v}) /\ \A w \in watching \ {v} : share[w] \in Nat
      BY <1>1, <1>4, FS_RemoveElement
    <3> QED
      BY <3>1, SumNatural
  <2> QED
    BY <1>1, <1>4, <2>2, <2>3 DEF Total
<1> QED
  BY <1>1, <1>4, <1>5 DEF share

(* An attempt keeps the invariant: it is refused or finds room. *)
LEMMA AttemptStep ==
    ASSUME AirdropInv, NEW r \in Requests, Attempt(r)
    PROVE  AirdropInv'
<1> DEFINE n == call[r].amount
           c == Sharing(n, call[r].attempt, today, Shares(n, watching, session))
<1>1. call[r].place = "start" /\ UNCHANGED <<today, session, limit, airdropped>>
  BY DEF Attempt
<1>2. n \in Amounts /\ call[r].attempt \in 1..MaxAttempts /\ today \in 1..Days
  BY <1>1, AirdropFields DEF AirdropInv, AirdropTypeOK
<1>3. CASE watching # {} /\ n <= DailyLimit - TodayTotal(today) /\ Become(r, c)
  <2>1. LET share == Shares(n, watching, session)
        IN  /\ share \in [watching -> Nat] /\ DOMAIN share = watching /\ watching \in SUBSET Viewers
            /\ Total(share, watching) = n
            /\ \A v \in watching : share[v] <= n
    BY <1>2, <1>3, AttemptShares DEF AirdropInv
  <2>2. /\ c.place = "sharing" /\ c.amount = n /\ c.attempt = call[r].attempt /\ c.day = today
        /\ c.share = Shares(n, watching, session) /\ c.overtaken = FALSE
    BY DEF Sharing
  <2> HIDE DEF c, n
  <2>3. CallOK(c)
    BY <1>2, <2>1, SharingCall DEF c
  <2>4. TodayTotal(today) \in Nat /\ n \in Nat /\ DailyLimit \in Nat
    BY <1>2, TotalsAreNumbers, AmountsNumbers DEF AirdropInv, AirdropTypeOK, DailyLimit
  <2>5. TodayTotal(c.day) + c.amount <= DailyLimit
    BY <1>3, <2>2, <2>4
  <2> QED
    BY <1>1, <1>3, <2>1, <2>2, <2>3, <2>5, CallMoves
<1>4. CASE Become(r, Refused)
  BY <1>1, <1>4, AirdropCalls, CallMoves
<1> QED
  BY <1>3, <1>4 DEF Attempt

(* A commit adds the amount to the day it is anchored to, and only there. *)
LEMMA CommitTotals ==
    ASSUME AirdropInv, NEW r \in Requests, Commit(r), NEW d \in 1..Days
    PROVE  TodayTotal(d)' = TodayTotal(d) + (IF d = call[r].day THEN call[r].amount ELSE 0)
<1> DEFINE share == call[r].share
           got == DOMAIN share
           old == [v \in Viewers |-> airdropped[v][d]]
           new == [v \in Viewers |-> airdropped'[v][d]]
           gift == [v \in Viewers |-> IF v \in got THEN share[v] ELSE 0]
<1>1. call[r].place = "sharing" /\ CallOK(call[r]) /\ AirdropTypeOK
  BY DEF Commit, Serializable, AirdropInv, AirdropTypeOK
<1>2. /\ call[r].amount \in Amounts /\ call[r].day \in 1..Days /\ got \subseteq Viewers
      /\ \A v \in got : share[v] \in 0..call[r].amount
  BY <1>1, AirdropFields
<1>3. airdropped' = [v \in Viewers |->
                        IF v \in got THEN [airdropped[v] EXCEPT ![call[r].day] = @ + share[v]]
                        ELSE airdropped[v]]
  BY DEF Commit
<1>4. \A v \in Viewers : airdropped[v] \in [1..Days -> Nat]
  BY <1>1 DEF AirdropTypeOK
<1>5. TodayTotal(d) = SumFunctionOnSet(old, Viewers) /\ TodayTotal(d)' = SumFunctionOnSet(new, Viewers)
  BY DEF TodayTotal, Total
<1>6. Total(share, got) = call[r].amount /\ call[r].amount \in Nat
  BY <1>1, <1>2, AmountsNumbers DEF AirdropInv, SharesAddUp
<1>7. \A v \in Viewers : old[v] \in Int /\ old[v] = airdropped[v][d] /\ new[v] = airdropped'[v][d]
  <2>1. ASSUME NEW v \in Viewers
        PROVE  airdropped[v][d] \in Int
    <3>1. airdropped[v] \in [1..Days -> Nat] /\ Nat \subseteq Int
      BY <1>4
    <3> HIDE DEF share, got, old, new, gift
    <3>2. airdropped[v][d] \in Nat
      BY <3>1
    <3> QED
      BY <3>2
  <2> QED
    BY <2>1
<1>8. CASE d = call[r].day
  <2>1. \A v \in got : share[v] \in Int
    BY <1>2
  <2>2. \A v \in Viewers : gift[v] \in Int /\ gift[v] = IF v \in got THEN share[v] ELSE 0
    BY <2>1
  <2>3. \A v \in Viewers : new[v] = old[v] + gift[v]
    <3> SUFFICES ASSUME NEW v \in Viewers
                 PROVE  airdropped'[v][d] = airdropped[v][d] + gift[v]
      BY <1>7
    <3>1. airdropped[v] \in [1..Days -> Nat] /\ airdropped[v][d] \in Nat
      BY <1>4
    <3>2. CASE v \in got
      BY <1>3, <1>8, <2>1, <2>2, <3>1, <3>2
    <3>3. CASE v \notin got
      BY <1>3, <2>2, <3>1, <3>3
    <3> QED
      BY <3>2, <3>3
  <2> HIDE DEF new, old, gift, got, share
  <2>4. SumFunctionOnSet(new, Viewers) = SumFunctionOnSet(old, Viewers) + SumFunctionOnSet(gift, Viewers)
    <3>1. \A v \in Viewers : old[v] \in Int /\ gift[v] \in Int /\ new[v] = old[v] + gift[v]
      BY <1>7, <2>2, <2>3
    <3>2. \A f, e, g : (\A x \in Viewers : f[x] \in Int /\ e[x] \in Int /\ g[x] = f[x] + e[x])
              => SumFunctionOnSet(g, Viewers) = SumFunctionOnSet(f, Viewers) + SumFunctionOnSet(e, Viewers)
      <4>1. IsFiniteSet(Viewers)
        BY AmountsNumbers
      <4> QED
        BY <4>1, SumPlus
    <3> QED
      BY <3>1, <3>2
  <2>5. SumFunctionOnSet(gift, Viewers) = SumFunctionOnSet(share, got)
    <3> DEFINE part == [v \in Viewers |-> IF v \in got THEN gift[v] ELSE 0]
    <3>1. \A v \in Viewers : part[v] = gift[v]
      BY <2>2
    <3>2. SumFunctionOnSet(gift, got) = SumFunctionOnSet(part, Viewers)
      <4>1. \A v \in Viewers : gift[v] \in Int
        BY <2>2
      <4>2. got \in SUBSET Viewers /\ IsFiniteSet(Viewers)
        BY <1>2, AmountsNumbers
      <4> QED
        BY <4>1, <4>2, SumPart
    <3> HIDE DEF part
    <3>3. SumFunctionOnSet(part, Viewers) = SumFunctionOnSet(gift, Viewers)
      BY <3>1, AmountsNumbers, SumSame
    <3>4. SumFunctionOnSet(gift, got) = SumFunctionOnSet(share, got)
      <4>1. IsFiniteSet(got) /\ \A v \in got : gift[v] = share[v]
        BY <1>2, <2>2, AmountsNumbers, FS_Subset
      <4> QED
        BY <4>1, SumSame
    <3> QED
      BY <3>2, <3>3, <3>4
  <2> QED
    BY <1>5, <1>6, <1>8, <2>4, <2>5 DEF Total
<1>9. CASE d # call[r].day
  <2>1. \A v \in Viewers : new[v] = old[v]
    <3> SUFFICES ASSUME NEW v \in Viewers
                 PROVE  airdropped'[v][d] = airdropped[v][d]
      BY <1>7
    <3> QED
      BY <1>3, <1>4, <1>9
  <2> HIDE DEF new, old
  <2>2. SumFunctionOnSet(new, Viewers) = SumFunctionOnSet(old, Viewers)
    BY <2>1, AmountsNumbers, SumSame
  <2>3. TodayTotal(d) \in Nat
    BY <1>1, TotalsAreNumbers
  <2> QED
    BY <1>5, <1>9, <2>2, <2>3
<1> QED
  BY <1>8, <1>9

(* The other calls keep all but the room they have. *)
LEMMA CommitCalls ==
    ASSUME AirdropInv, NEW r \in Requests, Commit(r)
    PROVE  /\ DOMAIN call' = Requests
           /\ \E p \in {"paid", "unknown"} : call'[r] = Ended(p, call[r].amount, call[r].day)
           /\ \A q \in Requests \ {r} :
                /\ CallOK(call'[q]) /\ call'[q].place = call[q].place
                /\ call[q].place # "sharing" => call'[q] = call[q]
                /\ call[q].place = "sharing" =>
                      /\ call'[q].share = call[q].share /\ call'[q].amount = call[q].amount
                      /\ call'[q].day = call[q].day
                      /\ ~call'[q].overtaken => ~call[q].overtaken /\ call[q].day # call[r].day
<1>1. PICK p \in {"paid", "unknown"} :
          call' = [q \in Requests |->
                     IF q = r THEN Ended(p, call[r].amount, call[r].day)
                     ELSE IF call[q].place = "sharing" /\ call[q].day = call[r].day
                     THEN [call[q] EXCEPT !.overtaken = TRUE]
                     ELSE call[q]]
  BY DEF Commit
<1>2. ASSUME NEW q \in Requests \ {r}
      PROVE  /\ CallOK(call'[q]) /\ call'[q].place = call[q].place
             /\ call[q].place # "sharing" => call'[q] = call[q]
             /\ call[q].place = "sharing" =>
                   /\ call'[q].share = call[q].share /\ call'[q].amount = call[q].amount
                   /\ call'[q].day = call[q].day
                   /\ ~call'[q].overtaken => ~call[q].overtaken /\ call[q].day # call[r].day
  <2>1. CallOK(call[q])
    BY DEF AirdropInv, AirdropTypeOK
  <2>2. CASE call[q].place = "sharing" /\ call[q].day = call[r].day
    <3>1. Overtaken(call[q], call'[q])
      BY <1>1, <2>2 DEF Overtaken
    <3>2. /\ CallOK(call'[q]) /\ call'[q].place = "sharing" /\ call'[q].amount = call[q].amount
          /\ call'[q].day = call[q].day /\ call'[q].share = call[q].share
          /\ call'[q].overtaken = TRUE
      BY <2>1, <2>2, <3>1, Overtaking
    <3> QED
      BY <2>2, <3>2
  <2>3. CASE ~(call[q].place = "sharing" /\ call[q].day = call[r].day)
    BY <1>1, <2>1, <2>3
  <2> QED
    BY <2>2, <2>3
<1> QED
  BY <1>1, <1>2

(* A commit keeps the types. *)
LEMMA CommitTypes ==
    ASSUME AirdropInv, NEW r \in Requests, Commit(r)
    PROVE  AirdropTypeOK'
<1>1. AirdropTypeOK /\ CallOK(call[r]) /\ call[r].place = "sharing"
  BY DEF AirdropInv, AirdropTypeOK, Commit, Serializable
<1>2. /\ call[r].amount \in Amounts /\ call[r].day \in 1..Days
      /\ DOMAIN call[r].share \subseteq Viewers
      /\ \A v \in DOMAIN call[r].share : call[r].share[v] \in 0..call[r].amount
  BY <1>1, AirdropFields
<1>3. DOMAIN call' = Requests /\ \A q \in Requests : CallOK(call'[q])
  BY <1>2, CommitCalls, AirdropCalls
<1>4. airdropped' \in [Viewers -> [1..Days -> Nat]]
  <2>1. /\ airdropped' = [v \in Viewers |->
                            IF v \in DOMAIN call[r].share
                            THEN [airdropped[v] EXCEPT ![call[r].day] = @ + call[r].share[v]]
                            ELSE airdropped[v]]
        /\ \A v \in Viewers : airdropped[v] \in [1..Days -> Nat]
    BY <1>1 DEF Commit, AirdropTypeOK
  <2>2. ASSUME NEW v \in Viewers
        PROVE  airdropped'[v] \in [1..Days -> Nat]
    <3>1. airdropped[v] \in [1..Days -> Nat] /\ airdropped[v][call[r].day] \in Nat
      BY <1>2, <2>1
    <3>2. CASE v \in DOMAIN call[r].share
      <4>1. call[r].share[v] \in Nat
        BY <1>2, <3>2
      <4>2. airdropped'[v] = [airdropped[v] EXCEPT ![call[r].day] = @ + call[r].share[v]]
        BY <2>1, <3>2
      <4>3. PICK k \in Nat : k = airdropped[v][call[r].day] + call[r].share[v]
        BY <3>1, <4>1
      <4>4. airdropped'[v] = [airdropped[v] EXCEPT ![call[r].day] = k]
        BY <4>2, <4>3
      <4> QED
        BY <3>1, <4>3, <4>4
    <3>3. CASE v \notin DOMAIN call[r].share
      BY <2>1, <3>1, <3>3
    <3> QED
      BY <3>2, <3>3
  <2> QED
    BY <2>1, <2>2
<1> QED
  BY <1>1, <1>3, <1>4 DEF AirdropTypeOK, Commit

(* A commit keeps the invariant: it overtakes those whose room it takes. *)
LEMMA CommitStep ==
    ASSUME AirdropInv, NEW r \in Requests, Commit(r)
    PROVE  AirdropInv'
<1> DEFINE n == call[r].amount
           day == call[r].day
<1>1. AirdropTypeOK /\ CallOK(call[r]) /\ call[r].place = "sharing" /\ ~call[r].overtaken
  BY DEF AirdropInv, AirdropTypeOK, Commit, Serializable
<1>2. n \in Amounts /\ day \in 1..Days /\ n \in Nat
  BY <1>1, AirdropFields, AmountsNumbers
<1>3. AirdropTypeOK'
  BY CommitTypes
<1>4. /\ DOMAIN call' = Requests
      /\ \A q \in Requests \ {r} :
           /\ call'[q].place = call[q].place
           /\ call[q].place # "sharing" => call'[q] = call[q]
           /\ call[q].place = "sharing" =>
                 /\ call'[q].share = call[q].share /\ call'[q].amount = call[q].amount
                 /\ call'[q].day = call[q].day
                 /\ ~call'[q].overtaken => ~call[q].overtaken /\ call[q].day # day
  BY CommitCalls
<1>5. PICK p \in {"paid", "unknown"} : call'[r] = Ended(p, n, day)
  BY CommitCalls
<1>6. call'[r].place = p /\ call'[r].amount = n /\ call'[r].day = day
  BY <1>2, <1>5, AirdropCalls
<1>7. \A d \in 1..Days : TodayTotal(d)' = TodayTotal(d) + (IF d = day THEN n ELSE 0)
  BY CommitTotals
<1>8. DailyLimit' = DailyLimit
  BY DEF Commit, DailyLimit
<1>9. \A d \in 1..Days : TodayTotal(d) \in Nat
  BY <1>1, TotalsAreNumbers
<1>10. TodayTotal(day) + n <= DailyLimit
  BY <1>1 DEF AirdropInv, RoomLeft
<1> HIDE DEF n, day
<1>11. SharesAddUp'
  <2> SUFFICES ASSUME NEW q \in Requests, call'[q].place = "sharing"
               PROVE  Total(call'[q].share, DOMAIN call'[q].share) = call'[q].amount
    BY DEF SharesAddUp
  <2>1. q # r
    BY <1>6
  <2> QED
    BY <1>4, <2>1 DEF AirdropInv, SharesAddUp
<1>12. RoomLeft'
  <2>1. ASSUME NEW q \in Requests, call'[q].place = "sharing", ~call'[q].overtaken
        PROVE  \E d \in 1..Days : /\ TodayTotal(d)' + call'[q].amount <= DailyLimit'
                                  /\ d = call'[q].day
    <3>1. q # r
      BY <1>6, <2>1
    <3>2. /\ call[q].place = "sharing" /\ ~call[q].overtaken /\ call[q].day # day
          /\ call'[q].amount = call[q].amount /\ call'[q].day = call[q].day
      BY <1>4, <2>1, <3>1
    <3>3. TodayTotal(call[q].day) + call[q].amount <= DailyLimit
      BY <3>2 DEF AirdropInv, RoomLeft
    <3>4. call[q].day \in 1..Days
      BY <1>1, <3>2, AirdropFields DEF AirdropTypeOK
    <3>5. TodayTotal(call[q].day) \in Nat
      BY <1>9, <3>4
    <3>6. PICK d \in 1..Days : d = call[q].day
      BY <3>4
    <3>7. TodayTotal(d)' = TodayTotal(d)
      BY <1>7, <1>9, <3>2, <3>6
    <3>8. TodayTotal(d)' + call'[q].amount <= DailyLimit'
      BY <1>8, <3>2, <3>3, <3>6, <3>7
    <3> QED
      BY <3>2, <3>6, <3>8
  <2> QED
    BY <2>1 DEF RoomLeft, TodayTotal
<1>13. DailyLimitHolds'
  <2> SUFFICES ASSUME NEW d \in 1..Days
               PROVE  TodayTotal(d)' <= DailyLimit
    BY <1>8 DEF DailyLimitHolds
  <2>1. CASE d = day
    BY <1>7, <1>10, <2>1
  <2>2. CASE d # day
    <3>1. TodayTotal(d) <= DailyLimit
      BY DEF AirdropInv, DailyLimitHolds
    <3> QED
      BY <1>7, <1>9, <2>2, <3>1
  <2> QED
    BY <2>1, <2>2
<1>14. AirdropsPaidInFull'
  <2> SUFFICES ASSUME NEW d \in 1..Days
               PROVE  /\ TodayTotal(d)' >= AmountsOf({"paid"}, d)'
                      /\ TodayTotal(d)' <= AmountsOf({"paid", "unknown"}, d)'
    BY DEF AirdropsPaidInFull
  <2>1. TodayTotal(d) >= AmountsOf({"paid"}, d) /\ TodayTotal(d) <= AmountsOf({"paid", "unknown"}, d)
    BY DEF AirdropInv, AirdropsPaidInFull
  <2>2. ASSUME NEW places \in SUBSET {"paid", "unknown"}
        PROVE  /\ AmountsOf(places, d)' = AmountsOf(places, d) + PaidBy(r, places, d)'
               /\ AmountsOf(places, d) \in Nat
    <3>1. \A q \in Requests \ {r} : PaidBy(q, places, d)' = PaidBy(q, places, d)
      BY <1>4 DEF PaidBy
    <3>2. PaidBy(r, places, d) = 0
      BY <1>1 DEF PaidBy
    <3>3. /\ AmountsOf(places, d)' = AmountsOf(places, d) - PaidBy(r, places, d) + PaidBy(r, places, d)'
          /\ AmountsOf(places, d) \in Nat /\ PaidBy(r, places, d)' \in Nat
      BY <1>1, <1>3, <3>1, AmountsChange
    <3> QED
      BY <3>2, <3>3
  <2>3. PaidBy(r, {"paid"}, d)' = IF p = "paid" /\ d = day THEN n ELSE 0
    BY <1>6 DEF PaidBy
  <2>4. PaidBy(r, {"paid", "unknown"}, d)' = IF d = day THEN n ELSE 0
    BY <1>6 DEF PaidBy
  <2>5. /\ AmountsOf({"paid"}, d)' = AmountsOf({"paid"}, d) + PaidBy(r, {"paid"}, d)'
        /\ AmountsOf({"paid"}, d) \in Nat
    BY <2>2
  <2>6. /\ AmountsOf({"paid", "unknown"}, d)'
              = AmountsOf({"paid", "unknown"}, d) + PaidBy(r, {"paid", "unknown"}, d)'
        /\ AmountsOf({"paid", "unknown"}, d) \in Nat
    BY <2>2
  <2>7. TodayTotal(d)' = TodayTotal(d) + (IF d = day THEN n ELSE 0) /\ TodayTotal(d) \in Nat
    BY <1>7, <1>9
  <2>8. CASE d = day
    BY <1>2, <2>1, <2>3, <2>4, <2>5, <2>6, <2>7, <2>8
  <2>9. CASE d # day
    BY <2>1, <2>3, <2>4, <2>5, <2>6, <2>7, <2>9
  <2> QED
    BY <2>8, <2>9
<1> QED
  BY <1>3, <1>11, <1>12, <1>13, <1>14 DEF AirdropInv

(* A day begins with nothing airdropped and no call answered. *)
LEMMA AirdropInitInv == AirdropInit => AirdropInv
<1> SUFFICES ASSUME AirdropInit
             PROVE  AirdropInv
  OBVIOUS
<1>1. \A r \in Requests : CallOK(call[r]) /\ call[r].place = "start"
  <2> SUFFICES ASSUME NEW r \in Requests
               PROVE  CallOK(call[r]) /\ call[r].place = "start"
    OBVIOUS
  <2>1. PICK n \in Amounts : call[r] = Start(n, 1)
    BY DEF AirdropInit
  <2>2. 1 \in 1..MaxAttempts
    BY AmountsNumbers
  <2> QED
    BY <2>1, <2>2, AirdropCalls
<1>2. 1 \in 1..Days /\ 0 \in Nat
  BY AmountsNumbers
<1>3. AirdropTypeOK
  BY <1>1, <1>2 DEF AirdropInit, AirdropTypeOK, Absent
<1>4. SharesAddUp /\ RoomLeft
  BY <1>1 DEF SharesAddUp, RoomLeft
<1>5. DailyLimit \in Nat
  BY AmountsNumbers DEF DailyLimit, AirdropInit
<1>6. ASSUME NEW d \in 1..Days
      PROVE  TodayTotal(d) = 0
  <2> DEFINE f == [v \in Viewers |-> airdropped[v][d]]
  <2>1. \A v \in Viewers : f[v] = 0
    BY DEF AirdropInit
  <2>2. TodayTotal(d) = SumFunctionOnSet(f, Viewers)
    BY DEF TodayTotal, Total
  <2> HIDE DEF f
  <2> QED
    BY <2>1, <2>2, AmountsNumbers, SumZero
<1>7. ASSUME NEW d \in 1..Days, NEW places \in SUBSET {"paid", "unknown"}
      PROVE  AmountsOf(places, d) = 0
  <2> DEFINE f == [r \in Requests |-> PaidBy(r, places, d)]
  <2>1. \A r \in Requests : f[r] = 0
    BY <1>1 DEF PaidBy
  <2>2. AmountsOf(places, d) = SumFunctionOnSet(f, Requests)
    BY <1>3, AmountsAreSum
  <2> HIDE DEF f
  <2> QED
    BY <2>1, <2>2, AmountsNumbers, SumZero
<1>8. DailyLimitHolds
  BY <1>5, <1>6 DEF DailyLimitHolds
<1>9. AirdropsPaidInFull
  <2>1. \A d \in 1..Days : AmountsOf({"paid"}, d) = 0 /\ AmountsOf({"paid", "unknown"}, d) = 0
    BY <1>7
  <2> QED
    BY <1>6, <2>1 DEF AirdropsPaidInFull
<1> QED
  BY <1>3, <1>4, <1>8, <1>9 DEF AirdropInv

(* An attempt that ends without paying keeps the invariant. *)
LEMMA GiveUpStep ==
    ASSUME AirdropInv, NEW r \in Requests, Retry(r) \/ Fail(r)
    PROVE  AirdropInv'
<1>1. call[r].place = "sharing" /\ UNCHANGED <<today, session, limit, airdropped>>
  BY DEF Retry, Fail
<1>2. call[r].amount \in Amounts /\ call[r].attempt \in 1..MaxAttempts /\ call[r].day \in 1..Days
  BY <1>1, AirdropFields DEF AirdropInv, AirdropTypeOK
<1>3. CASE Become(r, Refused)
  BY <1>1, <1>3, AirdropCalls, CallMoves
<1>4. CASE Become(r, Ended("unknown", call[r].amount, call[r].day))
  <2>1. CallOK(Ended("unknown", call[r].amount, call[r].day))
        /\ Ended("unknown", call[r].amount, call[r].day).place = "unknown"
    BY <1>2, AirdropCalls
  <2> QED
    BY <1>1, <1>4, <2>1, CallMoves
<1>5. CASE call[r].attempt < MaxAttempts /\ Become(r, Start(call[r].amount, call[r].attempt + 1))
  <2>1. call[r].attempt + 1 \in 1..MaxAttempts
    BY <1>2, <1>5, AmountsNumbers
  <2>2. CallOK(Start(call[r].amount, call[r].attempt + 1))
        /\ Start(call[r].amount, call[r].attempt + 1).place = "start"
    BY <1>2, <2>1, AirdropCalls
  <2> QED
    BY <1>1, <1>5, <2>2, CallMoves
<1> QED
  BY <1>3, <1>4, <1>5 DEF Retry, Fail

(* What the viewers and the clock do leaves the airdrops alone. *)
LEMMA BesideStep ==
    ASSUME AirdropInv, UNCHANGED <<limit, airdropped, call>>,
           today' \in 1..Days, session' \in [Viewers -> {Absent} \cup 0..MaxSeconds]
    PROVE  AirdropInv'
<1>1. AirdropTypeOK'
  BY DEF AirdropInv, AirdropTypeOK
<1>2. DailyLimit' = DailyLimit /\ \A d : TodayTotal(d)' = TodayTotal(d)
  BY DEF DailyLimit, TodayTotal
<1>3. \A places, d : AmountsOf(places, d)' = AmountsOf(places, d)
  BY DEF AmountsOf
<1>4. SharesAddUp' /\ RoomLeft'
  BY <1>2 DEF AirdropInv, SharesAddUp, RoomLeft, TodayTotal
<1>5. DailyLimitHolds' /\ AirdropsPaidInFull'
  BY <1>2, <1>3 DEF AirdropInv, DailyLimitHolds, AirdropsPaidInFull
<1> QED
  BY <1>1, <1>4, <1>5 DEF AirdropInv

(* Every step keeps the invariant. *)
LEMMA AirdropStep ==
    ASSUME AirdropInv, [AirdropNext]_airdropVars
    PROVE  AirdropInv'
<1>0. /\ today \in 1..Days /\ session \in [Viewers -> {Absent} \cup 0..MaxSeconds]
      /\ Days \in Nat /\ MaxSeconds \in Nat
  BY AmountsNumbers DEF AirdropInv, AirdropTypeOK
<1>1. ASSUME NEW r \in Requests, Attempt(r) \/ Commit(r) \/ Retry(r) \/ Fail(r)
      PROVE  AirdropInv'
  BY <1>1, AttemptStep, CommitStep, GiveUpStep
<1>2. ASSUME NEW v \in Viewers, Arrive(v) \/ Heartbeat(v) \/ Leave(v)
      PROVE  AirdropInv'
  <2>1. UNCHANGED <<today, limit, airdropped, call>>
    BY <1>2 DEF Arrive, Heartbeat, Leave
  <2>2. CASE Arrive(v)
    BY <1>0, <2>1, <2>2, BesideStep DEF Arrive
  <2>3. CASE Heartbeat(v)
    <3>1. session[v] + 1 \in 0..MaxSeconds
      BY <1>0, <2>3 DEF Heartbeat
    <3>2. session' = [session EXCEPT ![v] = session[v] + 1]
      BY <2>3 DEF Heartbeat
    <3>3. session' \in [Viewers -> {Absent} \cup 0..MaxSeconds]
      BY <1>0, <3>1, <3>2
    <3> QED
      BY <1>0, <2>1, <3>3, BesideStep
  <2>4. CASE Leave(v)
    BY <1>0, <2>1, <2>4, BesideStep DEF Leave
  <2> QED
    BY <1>2, <2>2, <2>3, <2>4
<1>3. CASE Midnight
  <2>1. today' \in 1..Days /\ UNCHANGED <<session, limit, airdropped, call>>
    BY <1>0, <1>3 DEF Midnight
  <2> QED
    BY <1>0, <2>1, BesideStep
<1>4. CASE UNCHANGED airdropVars
  BY <1>0, <1>4, BesideStep DEF airdropVars
<1> QED
  BY <1>1, <1>2, <1>3, <1>4 DEF AirdropNext

(***************************************************************************)
(* Every table and call holds values of its kind, whatever the viewers do, *)
(* and every share of an attempt is at most its amount.                    *)
(***************************************************************************)
THEOREM AirdropTypeCorrect == AirdropSpec => []AirdropTypeOK
<1>1. AirdropInv /\ [AirdropNext]_airdropVars => AirdropInv'
  BY AirdropStep
<1>2. AirdropInv => AirdropTypeOK
  BY DEF AirdropInv
<1> QED
  BY <1>1, <1>2, AirdropInitInv, PTL DEF AirdropSpec

(***************************************************************************)
(* No day's airdrops exceed the limit, for any number of calls that        *)
(* overlap each other and midnight: what commits has not been overtaken,   *)
(* so that its day has the total it read.                                  *)
(***************************************************************************)
THEOREM LimitHolds == AirdropSpec => []DailyLimitHolds
<1>1. AirdropInv /\ [AirdropNext]_airdropVars => AirdropInv'
  BY AirdropStep
<1>2. AirdropInv => DailyLimitHolds
  BY DEF AirdropInv
<1> QED
  BY <1>1, <1>2, AirdropInitInv, PTL DEF AirdropSpec

(***************************************************************************)
(* To the point, a day's transactions are the amounts the calls report,    *)
(* but for the calls that failed at the commit.                            *)
(***************************************************************************)
THEOREM PaidInFull == AirdropSpec => []AirdropsPaidInFull
<1>1. AirdropInv /\ [AirdropNext]_airdropVars => AirdropInv'
  BY AirdropStep
<1>2. AirdropInv => AirdropsPaidInFull
  BY DEF AirdropInv
<1> QED
  BY <1>1, <1>2, AirdropInitInv, PTL DEF AirdropSpec

(* A call that has shares now and had none computed them in this step. *)
LEMMA SharesAreComputed ==
    ASSUME AirdropInv, [AirdropNext]_airdropVars, NEW r \in Requests,
           call[r].place = "start", call'[r].place = "sharing"
    PROVE  /\ watching # {} /\ call[r].amount \in Amounts
           /\ call'[r].share = Shares(call[r].amount, watching, session)
<1>1. call[r].amount \in Amounts /\ DOMAIN call = Requests
  BY AirdropFields DEF AirdropInv, AirdropTypeOK
<1>2. call' # call
  OBVIOUS
<1>3. PICK q \in Requests : Attempt(q) \/ Commit(q) \/ Retry(q) \/ Fail(q)
  BY <1>2 DEF AirdropNext, airdropVars, Arrive, Heartbeat, Leave, Midnight
<1>4. ASSUME NEW c, Become(q, c)
      PROVE  call'[r] = IF q = r THEN c ELSE call[r]
  BY <1>1, <1>4 DEF Become
<1>5. CASE Commit(q)
  <2>1. call[q].place = "sharing"
    BY <1>5 DEF Commit, Serializable
  <2>2. q # r
    BY <2>1
  <2>3. call'[r].place = call[r].place
    BY <1>5, <2>2, CommitCalls
  <2> QED
    BY <2>3
<1>6. CASE Retry(q) \/ Fail(q)
  <2>1. call[q].place = "sharing"
    BY <1>6 DEF Retry, Fail
  <2>2. PICK c : Become(q, c)
    BY <1>6 DEF Retry, Fail
  <2> QED
    BY <1>4, <2>1, <2>2
<1>7. CASE Attempt(q)
  <2>1. q = r
    BY <1>4, <1>7 DEF Attempt
  <2>2. CASE Become(q, Refused)
    BY <1>4, <2>1, <2>2, AirdropCalls
  <2>3. CASE watching # {} /\ Become(q, Sharing(call[q].amount, call[q].attempt, today,
                                                Shares(call[q].amount, watching, session)))
    BY <1>1, <1>4, <2>1, <2>3 DEF Sharing
  <2> QED
    BY <1>7, <2>2, <2>3 DEF Attempt
<1> QED
  BY <1>3, <1>5, <1>6, <1>7

(* What is fair about the shares of the viewers who watch. *)
LEMMA SharesAreFair ==
    ASSUME AirdropTypeOK, watching # {}, NEW n \in Amounts,
           NEW share, share = Shares(n, watching, session),
           NEW sum, sum = Total(session, watching)
    PROVE  /\ DOMAIN share = watching
           /\ \A v, w \in watching : session[v] > session[w] => share[v] >= share[w]
           /\ sum > 0 => \A v \in watching :
                 /\ share[v] * sum - n * session[v] < sum
                 /\ n * session[v] - share[v] * sum < sum
<1>1. watching \subseteq Nat /\ IsFiniteSet(watching) /\ n \in Nat \ {0}
  BY AmountsNumbers, FS_Subset DEF watching
<1>2. \A v \in watching : session[v] \in Nat
  BY AmountsNumbers DEF watching, AirdropTypeOK, Absent
<1>3. PICK weight, total, floor, rest : ShareOut(n, watching, session, weight, total, floor, rest, share)
  BY <1>1, <1>2, SharesAre
<1>4. DOMAIN share = watching /\ \A v \in watching : share[v] \in Nat
  BY <1>2, <1>3, ShareFacts
<1>5. sum \in Nat
  BY <1>1, <1>2, SumNatural DEF Total
<1>6. CASE sum = 0
  <2>1. \A v \in watching : session[v] = 0
    <3> SUFFICES ASSUME NEW v \in watching
                 PROVE  session[v] = 0
      OBVIOUS
    <3>1. \A w \in watching : session[w] \in Int
      BY <1>2
    <3>2. SumFunctionOnSet(session, watching) = session[v] + SumFunctionOnSet(session, watching \ {v})
      BY <1>1, <3>1, SumTake
    <3>3. SumFunctionOnSet(session, watching \ {v}) \in Nat
      <4>1. IsFiniteSet(watching \ {v}) /\ \A w \in watching \ {v} : session[w] \in Nat
        BY <1>1, <1>2, FS_RemoveElement
      <4> QED
        BY <4>1, SumNatural
    <3>4. session[v] \in Nat
      BY <1>2
    <3>5. SumFunctionOnSet(session, watching) = 0
      BY <1>6 DEF Total
    <3> DEFINE others == SumFunctionOnSet(session, watching \ {v})
    <3>6. 0 = session[v] + others /\ others \in Nat
      BY <3>2, <3>3, <3>5
    <3> HIDE DEF others
    <3> QED
      BY <3>4, <3>6
  <2> QED
    BY <1>4, <1>6, <2>1
<1>7. CASE sum # 0
  <2>1. weight = session /\ total = sum
    BY <1>3, <1>7 DEF ShareOut, Divided
  <2>2. \A v, w \in watching : session[v] > session[w] => share[v] >= share[w]
    BY <1>2, <1>3, <2>1, LongerGetsMore
  <2>3. \A v \in watching : share[v] * sum - n * session[v] < sum /\ n * session[v] - share[v] * sum < sum
    BY <1>2, <1>3, <2>1, WithinAPoint
  <2> QED
    BY <1>4, <2>2, <2>3
<1> QED
  BY <1>6, <1>7

(***************************************************************************)
(* Each viewer gets less than a point more or less than the proportion of  *)
(* the watch time, and nobody who watched longer gets less: the points     *)
(* that rounding leaves go to the largest remainders, and a viewer without *)
(* a remainder gets none of them.                                          *)
(***************************************************************************)
THEOREM Proportional == AirdropSpec => SharesAreProportional
<1>1. AirdropInv /\ [AirdropNext]_airdropVars => AirdropInv'
  BY AirdropStep
<1>2. AirdropInv /\ [AirdropNext]_airdropVars =>
        [\A r \in Requests : (call[r].place = "start" /\ call'[r].place = "sharing") =>
          LET n == call[r].amount
              share == call'[r].share
              sum == Total(session, watching)
          IN  /\ DOMAIN share = watching
              /\ \A v, w \in watching : session[v] > session[w] => share[v] >= share[w]
              /\ sum > 0 => \A v \in watching :
                    /\ share[v] * sum - n * session[v] < sum
                    /\ n * session[v] - share[v] * sum < sum]_airdropVars
  <2> SUFFICES ASSUME AirdropInv, [AirdropNext]_airdropVars, NEW r \in Requests,
                      call[r].place = "start", call'[r].place = "sharing"
               PROVE  LET n == call[r].amount
                          share == call'[r].share
                          sum == Total(session, watching)
                      IN  /\ DOMAIN share = watching
                          /\ \A v, w \in watching : session[v] > session[w] => share[v] >= share[w]
                          /\ sum > 0 => \A v \in watching :
                                /\ share[v] * sum - n * session[v] < sum
                                /\ n * session[v] - share[v] * sum < sum
    OBVIOUS
  <2>1. watching # {} /\ call[r].amount \in Amounts
        /\ call'[r].share = Shares(call[r].amount, watching, session)
    BY SharesAreComputed
  <2>2. AirdropTypeOK
    BY DEF AirdropInv
  <2> QED
    BY <2>1, <2>2, SharesAreFair
<1> QED
  BY <1>1, <1>2, AirdropInitInv, PTL DEF AirdropSpec, SharesAreProportional
=============================================================================
