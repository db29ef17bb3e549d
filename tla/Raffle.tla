------------------------------- MODULE Raffle -------------------------------
(***************************************************************************)
(* RaffleService for one raffle: its life cycle, the participant list that *)
(* CSV imports and viewers' joins fill, and the draws, from the whole list *)
(* or for a prize tier with a quota.                                       *)
(*                                                                         *)
(* No operation locks a row between its read and its write, so each one    *)
(* that reads first is a call in progress between its steps; an operation  *)
(* whose single conditional statement decides is one step.  Every call may *)
(* also end at any step: a database error, a cancelled request, a restart. *)
(***************************************************************************)
EXTENDS Calls, Integers, FiniteSets

CONSTANTS
    Logins,         \* Twitch logins linked to an account; the others are skipped
    Subscribers,    \* those Twitch reports as subscribers of the streamer
    NoLogin,
    Tiers,          \* the raffle_prize_tiers rows there may be
    NoTier,
    Quotas,         \* the values winner_count takes
    EditedTiers,    \* the tiers UpdatePrizeTier is called for
    MaxTries        \* drawMaxRetries (5)

ASSUME RaffleAssumption ==
    /\ Subscribers \subseteq Logins /\ NoLogin \notin Logins
    /\ IsFiniteSet(Logins)
    /\ NoTier \notin Tiers /\ "none" \notin Tiers \cup {NoTier}
    /\ Quotas \subseteq Nat \ {0} /\ EditedTiers \subseteq Tiers /\ MaxTries \in Nat \ {0}

VARIABLES
    status, mode, entryOpen,
    imported,       \* entries a CSV import made
    joined,         \* entries the extension button made
    draw,           \* raffle_draws: the tier a login was drawn for, NoTier, or "none"
    tiers,          \* the tier rows that exist
    quota,          \* winner_count
    drawnCount      \* drawn_count

raffle == <<status, mode, entryOpen>>
prizes == <<tiers, quota, drawnCount>>
vars == <<raffle, imported, joined, draw, prizes, call>>

entries == imported \cup joined
drawn == {l \in Logins : draw[l] # "none"}
DrawsOf(t) == {l \in Logins : draw[l] = t}

Importing(rows) == [op |-> "import", rows |-> rows]
Joining(l, m) == [op |-> "join", login |-> l, mode |-> m]
Drawing(t, l, n) == [op |-> "draw", tier |-> t, pick |-> l, tries |-> n]
Saving(t, q, n) == [op |-> "save", tier |-> t, quota |-> q, drawn |-> n]

RaffleInit ==
    /\ status = "draft" /\ mode = "public" /\ entryOpen = FALSE
    /\ imported = {} /\ joined = {}
    /\ draw = [l \in Logins |-> "none"]
    /\ tiers = {}
    /\ quota = [t \in Tiers |-> 0] /\ drawnCount = [t \in Tiers |-> 0]
    /\ CallsInit

-----------------------------------------------------------------------------
(* The life cycle: one conditional UPDATE each. *)

Activate ==
    /\ status = "draft"
    /\ status' = "active"
    /\ UNCHANGED <<mode, entryOpen, imported, joined, draw, prizes, call>>

(* entry_open keeps its value. *)
Complete ==
    /\ status # "completed"
    /\ status' = "completed"
    /\ UNCHANGED <<mode, entryOpen, imported, joined, draw, prizes, call>>

Modes == {"public", "subscribers_only"}

(* Mutant: the update is not conditional on the status. *)
SetModeAnyTime ==
    /\ mode' \in Modes
    /\ UNCHANGED <<status, entryOpen, imported, joined, draw, prizes, call>>

SetMode ==
    /\ status = "draft"
    /\ mode' \in Modes
    /\ UNCHANGED <<status, entryOpen, imported, joined, draw, prizes, call>>

SetEntryOpen ==
    /\ status = "active"
    /\ entryOpen' \in BOOLEAN
    /\ UNCHANGED <<status, mode, imported, joined, draw, prizes, call>>

-----------------------------------------------------------------------------
(* The participant list. *)

(* The status is read here and never again. *)
ImportStart(r) ==
    /\ call[r] = Idle
    /\ status = "draft"
    /\ \E rows \in (SUBSET Logins) \ {{}} : Become(r, Importing(rows))
    /\ UNCHANGED <<raffle, imported, joined, draw, prizes>>

(* Each row is looked up and inserted by itself; an entry is skipped. *)
ImportRow(r) ==
    /\ call[r].op = "import"
    /\ \E l \in call[r].rows :
          /\ imported' = imported \cup ({l} \ joined)
          /\ Become(r, IF call[r].rows = {l} THEN Idle ELSE Importing(call[r].rows \ {l}))
    /\ UNCHANGED <<raffle, joined, draw, prizes>>

JoinStart(r) ==
    /\ call[r] = Idle
    /\ entryOpen
    /\ \E l \in Logins : Become(r, Joining(l, mode))
    /\ UNCHANGED <<raffle, imported, joined, draw, prizes>>

(* Twitch is asked in subscribers_only mode; a second entry does nothing. *)
JoinInsert(r) ==
    /\ call[r].op = "join"
    /\ LET l == call[r].login
           admitted == call[r].mode = "public" \/ l \in Subscribers
       IN  joined' = joined \cup IF admitted THEN {l} \ imported ELSE {}
    /\ Finish(r)
    /\ UNCHANGED <<raffle, imported, draw, prizes>>

-----------------------------------------------------------------------------
(* The draws. *)

DrawNext(r) ==
    /\ call[r] = Idle
    /\ status # "completed"
    /\ Become(r, Drawing(NoTier, NoLogin, 0))
    /\ UNCHANGED <<raffle, imported, joined, draw, prizes>>

DrawFromTier(r) ==
    /\ call[r] = Idle
    /\ status = "active"
    /\ \E t \in tiers : drawnCount[t] < quota[t] /\ Become(r, Drawing(t, NoLogin, 0))
    /\ UNCHANGED <<raffle, imported, joined, draw, prizes>>

(* SELECT ... ORDER BY RANDOM(); with no entry left the call ends. *)
Pick(r) ==
    /\ call[r].op = "draw" /\ call[r].pick = NoLogin
    /\ \/ entries \subseteq drawn /\ Finish(r)
       \/ \E l \in entries \ drawn : Become(r, [call[r] EXCEPT !.pick = l])
    /\ UNCHANGED <<raffle, imported, joined, draw, prizes>>

Picked(r) == call[r].op = "draw" /\ call[r].pick # NoLogin

(* Mutant: drawn_count is incremented without its condition. *)
TierOpenUnchecked(t) == t \in tiers
TierOpen(t) == t \in {u \in tiers : drawnCount[u] < quota[u]}

(***************************************************************************)
(* The insert, and for a tier the conditional increment, in one commit.  A *)
(* tier that is full or gone by then rolls the insert back.                *)
(***************************************************************************)
InsertDraw(r) ==
    /\ Picked(r) /\ call[r].pick \notin drawn
    /\ LET t == call[r].tier
           won == t = NoTier \/ TierOpen(t)
       IN  /\ draw' = IF won THEN [draw EXCEPT ![call[r].pick] = t] ELSE draw
           /\ drawnCount' = [u \in Tiers |-> drawnCount[u] + IF won /\ u = t THEN 1 ELSE 0]
    /\ Finish(r)
    /\ UNCHANGED <<raffle, imported, joined, tiers, quota>>

(* Mutant: the next attempt does not read the draws again. *)
LoseDrawPoisoned(r) ==
    /\ Picked(r) /\ call[r].pick \in drawn
    /\ UNCHANGED vars

(* The unique index refuses the insert: another attempt, up to MaxTries. *)
LoseDraw(r) ==
    /\ Picked(r) /\ call[r].pick \in drawn
    /\ LET n == call[r].tries + 1
       IN  Become(r, IF n < MaxTries THEN Drawing(call[r].tier, NoLogin, n) ELSE Idle)
    /\ UNCHANGED <<raffle, imported, joined, draw, prizes>>

-----------------------------------------------------------------------------
(* The prize tiers; a row id is used once. *)

CreatePrizeTier ==
    /\ \E t \in Tiers, q \in Quotas :
          /\ quota[t] = 0
          /\ tiers' = tiers \cup {t}
          /\ quota' = [quota EXCEPT ![t] = q]
    /\ UNCHANGED <<raffle, imported, joined, draw, drawnCount, call>>

(* A new name alone leaves winner_count as it was read. *)
UpdatePrizeTier(r) ==
    /\ call[r] = Idle
    /\ \E t \in tiers \cap EditedTiers : \E q \in Quotas \cup {quota[t]} :
          q >= drawnCount[t] /\ Become(r, Saving(t, q, drawnCount[t]))
    /\ UNCHANGED <<raffle, imported, joined, draw, prizes>>

(* Save writes every column as it was read, and inserts a row that is gone. *)
SaveTier(r) ==
    /\ call[r].op = "save"
    /\ tiers' = tiers \cup {call[r].tier}
    /\ quota' = [quota EXCEPT ![call[r].tier] = call[r].quota]
    /\ drawnCount' = [drawnCount EXCEPT ![call[r].tier] = call[r].drawn]
    /\ Finish(r)
    /\ UNCHANGED <<raffle, imported, joined, draw>>

(* ON DELETE SET NULL takes the tier from the draws it may have. *)
DeletePrizeTier ==
    /\ \E t \in tiers :
          /\ drawnCount[t] = 0
          /\ tiers' = tiers \ {t}
          /\ draw' = [l \in Logins |-> IF draw[l] = t THEN NoTier ELSE draw[l]]
    /\ UNCHANGED <<raffle, imported, joined, quota, drawnCount, call>>

Abort(r) ==
    /\ call[r] # Idle
    /\ Finish(r)
    /\ UNCHANGED <<raffle, imported, joined, draw, prizes>>

Proceed(r) ==
    ImportRow(r) \/ JoinInsert(r) \/ Pick(r) \/ InsertDraw(r) \/ LoseDraw(r) \/ SaveTier(r)

RaffleNext ==
    \/ Activate \/ Complete \/ SetMode \/ SetEntryOpen
    \/ CreatePrizeTier \/ DeletePrizeTier
    \/ \E r \in Requests :
          \/ ImportStart(r) \/ JoinStart(r) \/ DrawNext(r) \/ DrawFromTier(r)
          \/ UpdatePrizeTier(r) \/ Proceed(r) \/ Abort(r)

RaffleSpec == RaffleInit /\ [][RaffleNext]_vars

(* A goroutine that can run runs. *)
FairRaffleSpec == RaffleSpec /\ \A r \in Requests : WF_vars(Proceed(r))

-----------------------------------------------------------------------------
(* Properties. *)

RaffleCalls ==
    {Idle}
    \cup [op : {"import"}, rows : (SUBSET Logins) \ {{}}]
    \cup [op : {"join"}, login : Logins, mode : Modes]
    \cup [op : {"draw"}, tier : Tiers \cup {NoTier}, pick : Logins \cup {NoLogin}, tries : 0..MaxTries - 1]
    \cup [op : {"save"}, tier : EditedTiers, quota : Quotas, drawn : Nat]

(* The tables hold what their columns and unique indexes admit. *)
RaffleTypeOK ==
    /\ status \in {"draft", "active", "completed"}
    /\ mode \in Modes /\ entryOpen \in BOOLEAN
    /\ imported \subseteq Logins /\ joined \subseteq Logins \ imported
    /\ draw \in [Logins -> {"none", NoTier} \cup Tiers] /\ drawn \subseteq entries
    /\ tiers \subseteq Tiers
    /\ quota \in [Tiers -> Quotas \cup {0}] /\ drawnCount \in [Tiers -> Nat]
    /\ call \in [Requests -> RaffleCalls]

(***************************************************************************)
(* The count of a tier nobody edits is the number of its draws, and no     *)
(* interleaving of draws, of edits of other tiers and of deletions takes   *)
(* it over the quota or orphans a draw.                                    *)
(***************************************************************************)
CountIsDraws ==
    /\ \A t \in tiers \ EditedTiers : drawnCount[t] = Cardinality(DrawsOf(t)) /\ drawnCount[t] <= quota[t]
    /\ \A t \in Tiers \ (tiers \cup EditedTiers) : DrawsOf(t) = {}

(* raffle_service.go: concurrent draws for a tier do not exceed its quota. *)
TierWithinQuota == \A t \in tiers : Cardinality(DrawsOf(t)) <= quota[t]

(***************************************************************************)
(* A raffle that is for subscribers has no other viewer who joined it: the *)
(* mode is fixed before the first join can read it, whatever the order of  *)
(* mode changes, activation, opening and joins in progress.                *)
(***************************************************************************)
SubscribersOnly == mode = "subscribers_only" => joined \subseteq Subscribers

(* Every call ends, also a draw that keeps losing its entry to others. *)
CallsEnd == \A r \in Requests : (call[r] # Idle) ~> (call[r] = Idle)

(* raffle_service.go: activation locks the list that CSV uploads fill. *)
ParticipantListLocked == [][status # "draft" => imported' = imported]_vars
=============================================================================
