--------------------------- MODULE RaffleScheduler ---------------------------
(***************************************************************************)
(* RaffleScheduler and SyncFromTwitchAPI: every five minutes the raffles   *)
(* that are due, oldest first and at most a batch of them, get the         *)
(* streamer's Twitch subscribers as entries and are activated.  Meanwhile  *)
(* streamers log in again, run the same sync by hand (the handler's) and   *)
(* activate or complete their raffles, as in Raffle.                       *)
(*                                                                         *)
(* The raffles are those an operator gave a time and the Twitch source; a  *)
(* raffle is its number in the order of scheduled_at and id.               *)
(***************************************************************************)
EXTENDS Integers, FiniteSets

CONSTANTS
    NumRaffles,
    Streamers,
    Streamer,       \* raffles.user_id
    Subscribers,    \* of each streamer, those with an account here
    BatchLimit,     \* scheduledSnapshotBatchLimit (500)
    MaxFaults       \* bound: Twitch or database errors, time-outs and restarts

Raffles == 1..NumRaffles

ASSUME SchedulerAssumption ==
    /\ NumRaffles \in Nat
    /\ Streamer \in [Raffles -> Streamers]
    /\ BatchLimit \in Nat \ {0} /\ MaxFaults \in Nat

VARIABLES
    arrived,        \* how many raffles are due: within ten minutes of their time
    status, entries,
    token,          \* the streamer's stored Twitch token
    batch,          \* the raffles the scheduler still has to do
    sync,           \* the sync of the scheduler and the handler's
    faults

vars == <<arrived, status, entries, token, batch, sync, faults>>

Workers == {"scheduler", "handler"}
NoSync == [step |-> "none"]
Step(w) == sync[w].step
Doing(w, s) == sync' = [sync EXCEPT ![w] = s]
Ends(w) == Doing(w, NoSync)

SchedulerInit ==
    /\ arrived = 0
    /\ status = [r \in Raffles |-> "draft"]
    /\ entries = [r \in Raffles |-> {}]
    /\ token \in [Streamers -> {"valid", "none"}]
    /\ batch = {}
    /\ sync = [w \in Workers |-> NoSync]
    /\ faults = 0

-----------------------------------------------------------------------------
(* What goes on around the scheduler. *)

Arrive ==
    /\ arrived < NumRaffles
    /\ arrived' = arrived + 1
    /\ UNCHANGED <<status, entries, token, batch, sync, faults>>

SetStatus(r, s) ==
    /\ status' = [status EXCEPT ![r] = s]
    /\ UNCHANGED <<arrived, entries, token, batch, sync, faults>>
ActivateByHand(r) == status[r] = "draft" /\ SetStatus(r, "active")
CompleteByHand(r) == status[r] # "completed" /\ SetStatus(r, "completed")

(* A token goes bad: it expires, is revoked or lacks the scope. *)
TokenGoesBad(s) ==
    /\ token[s] = "valid"
    /\ token' = [token EXCEPT ![s] = "bad"]
    /\ UNCHANGED <<arrived, status, entries, batch, sync, faults>>

LogsInAgain(s) ==
    /\ token' = [token EXCEPT ![s] = "valid"]
    /\ UNCHANGED <<arrived, status, entries, batch, sync, faults>>

-----------------------------------------------------------------------------
(* The scheduler. *)

IsDue(r) == status[r] = "draft" /\ r <= arrived

Scan ==
    /\ batch = {} /\ Step("scheduler") = "none"
    /\ batch' = {r \in Raffles : IsDue(r) /\ Cardinality({q \in 1..r - 1 : IsDue(q)}) < BatchLimit}
    /\ UNCHANGED <<arrived, status, entries, token, sync, faults>>

Syncing(r, t) == [step |-> "rows", raffle |-> r, token |-> t, left |-> Subscribers[Streamer[r]]]

SnapshotOne ==
    /\ Step("scheduler") = "none"
    /\ \E r \in batch :
          /\ \A q \in batch : r <= q
          /\ Doing("scheduler", Syncing(r, token[Streamer[r]]))
          /\ batch' = batch \ {r}
    /\ UNCHANGED <<arrived, status, entries, token, faults>>

(* The handler checks the owner and the source, never the status. *)
SnapshotByHand(r) ==
    /\ Step("handler") = "none"
    /\ Doing("handler", Syncing(r, token[Streamer[r]]))
    /\ UNCHANGED <<arrived, status, entries, token, batch, faults>>

(* Mutant: an error ends the batch. *)
AfterErrorNothing == {}
AfterError == batch

Failed(w) ==
    /\ Ends(w)
    /\ batch' = IF w = "scheduler" THEN AfterError ELSE batch
    /\ UNCHANGED <<arrived, status, entries>>

(* There is no token, or it has expired, or Twitch refuses it: what is     *)
(* stored is cleared, also when it is no longer what was read.             *)
SyncRefused(w) ==
    /\ Step(w) = "rows" /\ sync[w].token # "valid"
    /\ token' = IF sync[w].token = "none" THEN token
                ELSE [token EXCEPT ![Streamer[sync[w].raffle]] = "none"]
    /\ Failed(w) /\ UNCHANGED faults

(* The rows of a page, each by itself; a row that is there is skipped. *)
SyncRow(w) ==
    /\ Step(w) = "rows" /\ sync[w].token = "valid"
    /\ \E v \in sync[w].left :
          /\ entries' = [entries EXCEPT ![sync[w].raffle] = @ \cup {v}]
          /\ Doing(w, [sync[w] EXCEPT !.left = @ \ {v}])
    /\ UNCHANGED <<arrived, status, token, batch, faults>>

(* After the last page the scheduler goes on to activate the raffle. *)
SyncDone(w) ==
    /\ Step(w) = "rows" /\ sync[w].token = "valid" /\ sync[w].left = {}
    /\ Doing(w, IF w = "scheduler" THEN [step |-> "promote", raffle |-> sync[w].raffle] ELSE NoSync)
    /\ UNCHANGED <<arrived, status, entries, token, batch, faults>>

(* Twitch refuses a later page, fails, or the database does. *)
SyncFails(w) ==
    /\ Step(w) # "none" /\ faults < MaxFaults
    /\ faults' = faults + 1
    /\ (token' = token) \/ (Step(w) = "rows" /\ token' = [token EXCEPT ![Streamer[sync[w].raffle]] = "none"])
    /\ Failed(w)

(* Mutants: the update is not conditional; the sync need not have ended. *)
StillDraftAlways(r) == TRUE
ReadyAnyTime == Step("scheduler") \in {"rows", "promote"}

StillDraft(r) == status[r] = "draft"
Ready == Step("scheduler") = "promote"

Promote ==
    /\ Ready
    /\ LET r == sync["scheduler"].raffle
       IN  status' = IF StillDraft(r) THEN [status EXCEPT ![r] = "active"] ELSE status
    /\ Ends("scheduler")
    /\ UNCHANGED <<arrived, entries, token, batch, faults>>

(* Five minutes are over: what is left of the batch fails too. *)
TimeOut ==
    /\ faults < MaxFaults /\ faults' = faults + 1
    /\ batch' = {} /\ Ends("scheduler")
    /\ UNCHANGED <<arrived, status, entries, token>>

Restart ==
    /\ faults < MaxFaults /\ faults' = faults + 1
    /\ batch' = {} /\ sync' = [w \in Workers |-> NoSync]
    /\ UNCHANGED <<arrived, status, entries, token>>

Proceed(w) == SyncRefused(w) \/ SyncRow(w) \/ SyncDone(w)

SchedulerNext ==
    \/ Arrive \/ Scan \/ SnapshotOne \/ Promote \/ TimeOut \/ Restart
    \/ \E w \in Workers : Proceed(w) \/ SyncFails(w)
    \/ \E r \in Raffles : ActivateByHand(r) \/ CompleteByHand(r) \/ SnapshotByHand(r)
    \/ \E s \in Streamers : TokenGoesBad(s) \/ LogsInAgain(s)

SchedulerSpec == SchedulerInit /\ [][SchedulerNext]_vars

(* The goroutine goes on: the next scan and the next step of a sync. *)
SchedulerGoesOn == Scan \/ SnapshotOne \/ Proceed("scheduler") \/ Promote
FairSchedulerSpec == SchedulerSpec /\ WF_vars(SchedulerGoesOn)

-----------------------------------------------------------------------------

Known == UNION {Subscribers[s] : s \in Streamers}
Tokens == {"valid", "bad", "none"}
Syncs ==
    {NoSync}
    \cup [step : {"rows"}, raffle : Raffles, token : Tokens, left : SUBSET Known]
    \cup [step : {"promote"}, raffle : Raffles]

(* The rows, the batch and the two syncs have values of their kinds. *)
SchedulerTypeOK ==
    /\ arrived \in 0..NumRaffles
    /\ status \in [Raffles -> {"draft", "active", "completed"}]
    /\ entries \in [Raffles -> SUBSET Known]
    /\ token \in [Streamers -> Tokens]
    /\ batch \subseteq Raffles
    /\ sync \in [Workers -> Syncs]
    /\ faults \in 0..MaxFaults

(***************************************************************************)
(* A raffle that the scheduler activates has all the subscribers, although *)
(* syncs fail half-way, are repeated and run beside those of the handler.  *)
(***************************************************************************)
SnapshotIsWhole ==
    [][\A r \in Raffles : status[r] = "draft" /\ status'[r] = "active" /\ sync' # sync
          => Subscribers[Streamer[r]] \subseteq entries[r]]_vars

(***************************************************************************)
(* A raffle completed while its snapshot runs is not activated again.      *)
(***************************************************************************)
NeverReopened == [][\A r \in Raffles : status[r] = "completed" => status'[r] = "completed"]_vars

(***************************************************************************)
(* A due raffle is taken care of once its streamer's token works for good, *)
(* as long as less than a batch of older raffles whose tokens do not work  *)
(* stay ahead of it.                                                       *)
(***************************************************************************)
Blocked(r, q) == token[Streamer[q]] # "valid" /\ IsDue(q) /\ q # r
Served(r) ==
    /\ token[Streamer[r]] = "valid" /\ r <= arrived
    /\ Cardinality({q \in Raffles : Blocked(r, q)}) < BatchLimit
DueGetsSnapshot == \A r \in Raffles : <>[]Served(r) => <>(status[r] # "draft")
=============================================================================
