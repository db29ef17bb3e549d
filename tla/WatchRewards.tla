---------------------------- MODULE WatchRewards ----------------------------
(***************************************************************************)
(* WatchService: watch sessions of one channel, the points a heartbeat or  *)
(* a click earns, and the statistics of viewers and streamers that the     *)
(* heartbeat handler writes afterwards in a transaction of its own.        *)
(*                                                                         *)
(* Heartbeat, RecordClick and EndSession hold the session's row lock to    *)
(* their commit and are one step each.  StartSession is not: its SELECT    *)
(* FOR UPDATE locks nothing when there is no row, and when it waits for a  *)
(* row it re-reads only that row, so its lookup and its insert are steps   *)
(* of their own.  Time is a counter in the unit of the durations.          *)
(***************************************************************************)
EXTENDS Integers, FiniteSets, FiniteSetsExt

CONSTANTS
    Viewers,        \* the viewers of the channel
    Nobody,
    Sessions,       \* the watch_sessions rows there may be
    NoSession,
    Streamers,      \* the accounts that may hold the channel's Twitch identity
    NoStreamer,
    Requests,       \* the handler goroutines: at most so many calls at a time
    MinGap,         \* a heartbeat after less is a resend (20 s)
    MaxCredit,      \* the most one heartbeat counts (30 s)
    StaleAfter,     \* staleThreshold (2 min)
    Cooldown,       \* clickCooldown (5 s)
    SecondsPerPoint,\* the values channel_configs.seconds_per_point takes
    Multipliers,    \* the values channel_configs.multiplier takes
    MaxInt,         \* math.MaxInt64
    Horizon         \* bound: how far the clock runs

ASSUME WatchAssumption ==
    /\ IsFiniteSet(Viewers) /\ IsFiniteSet(Sessions) /\ IsFiniteSet(Requests)
    /\ IsFiniteSet(SecondsPerPoint) /\ IsFiniteSet(Multipliers) /\ IsFiniteSet(Streamers)
    /\ Nobody \notin Viewers /\ NoSession \notin Sessions /\ NoStreamer \notin Streamers
    /\ MinGap \in Nat \ {0} /\ MaxCredit \in Nat /\ MinGap <= MaxCredit
    /\ StaleAfter \in Nat /\ Cooldown \in Nat /\ Horizon \in Nat /\ MaxInt \in Nat
    /\ SecondsPerPoint \subseteq Nat \ {0} /\ Multipliers \subseteq Nat \ {0}

VARIABLES
    now,            \* the clock
    owner,          \* user_id of each session row; Nobody when there is no row
    active,         \* is_active
    started,        \* created_at
    last,           \* last_heartbeat_at
    accumulated,    \* accumulated_seconds
    rewarded,       \* rewarded_seconds
    clickable,      \* click_cooldown_until
    paid,           \* the watch_time points_transactions of the session, summed
    clickedAt,      \* created_at of the viewer's newest click transaction, or none
    perPoint,       \* the channel's seconds_per_point
    multiplier,     \* the channel's multiplier
    watchStat,      \* watch_time_stats.total_watch_seconds of each viewer
    broadcastStat,  \* broadcast_time_stats.total_broadcast_seconds of each streamer
    unattended,     \* history: the seconds recorded when the channel had no streamer
    streamer,       \* user_id of the channel's Twitch row in auth_providers
    pc,             \* what each handler goroutine is about to do
    who,            \* the viewer it serves
    seen,           \* the session its SELECT found
    owed,           \* DeltaSeconds it has not yet added to the statistics
    found           \* the streamer its transaction for them has read

rows == <<owner, active, started, last, accumulated, rewarded, clickable, paid>>
config == <<perPoint, multiplier>>
stats == <<watchStat, broadcastStat, unattended>>
calls == <<pc, who, seen, owed, found>>
vars == <<now, rows, clickedAt, config, stats, streamer, calls>>

Never == -1

SessionsOf(v) == {s \in Sessions : owner[s] = v}
ActiveOf(v) == {s \in SessionsOf(v) : active[s]}
Unused == {s \in Sessions : owner[s] = Nobody}

WatchInit ==
    /\ now = 0
    /\ owner = [s \in Sessions |-> Nobody]
    /\ active = [s \in Sessions |-> FALSE]
    /\ started = [s \in Sessions |-> 0]
    /\ last = [s \in Sessions |-> 0]
    /\ accumulated = [s \in Sessions |-> 0]
    /\ rewarded = [s \in Sessions |-> 0]
    /\ clickable = [s \in Sessions |-> 0]
    /\ paid = [s \in Sessions |-> 0]
    /\ clickedAt = [v \in Viewers |-> Never]
    /\ perPoint \in SecondsPerPoint /\ multiplier \in Multipliers
    /\ watchStat = [v \in Viewers |-> 0]
    /\ broadcastStat = [m \in Streamers |-> 0]
    /\ unattended = 0
    /\ streamer \in Streamers \cup {NoStreamer}
    /\ pc = [r \in Requests |-> "idle"]
    /\ who = [r \in Requests |-> Nobody]
    /\ seen = [r \in Requests |-> NoSession]
    /\ owed = [r \in Requests |-> 0]
    /\ found = [r \in Requests |-> NoStreamer]

-----------------------------------------------------------------------------
(* StartSession.                                                           *)

(* The call returns, and its variables are gone. *)
Finish(r) ==
    /\ pc' = [pc EXCEPT ![r] = "idle"]
    /\ who' = [who EXCEPT ![r] = Nobody]
    /\ seen' = [seen EXCEPT ![r] = NoSession]
    /\ owed' = [owed EXCEPT ![r] = 0]
    /\ found' = [found EXCEPT ![r] = NoStreamer]

(* A new row s of viewer v; the sessions in closed end in the same commit. *)
Insert(s, v, closed) ==
    /\ owner' = [owner EXCEPT ![s] = v]
    /\ active' = [x \in Sessions |-> x = s \/ (active[x] /\ x \notin closed)]
    /\ started' = [started EXCEPT ![s] = now]
    /\ last' = [last EXCEPT ![s] = now]
    /\ UNCHANGED <<accumulated, rewarded, clickable, paid>>

(* The SELECT takes its snapshot; it may then have to wait for the row. *)
StartLook(r) ==
    /\ pc[r] = "idle"
    /\ \E v \in Viewers :
          /\ who' = [who EXCEPT ![r] = v]
          /\ \/ ActiveOf(v) = {} /\ seen' = [seen EXCEPT ![r] = NoSession]
             \/ \E s \in ActiveOf(v) : seen' = [seen EXCEPT ![r] = s]
    /\ pc' = [pc EXCEPT ![r] = "start"]
    /\ UNCHANGED <<now, rows, clickedAt, config, stats, streamer, owed, found>>

Stale(s) == now - last[s] > StaleAfter

Found(r) == seen[r] \in {s \in Sessions : active[s]}

(* The row the SELECT found is locked and still active. *)
StartFound(r) ==
    /\ pc[r] = "start"
    /\ Found(r)
    /\ \/ ~Stale(seen[r]) /\ UNCHANGED rows
       \/ /\ Stale(seen[r])
          /\ \E s \in Unused : Insert(s, who[r], {seen[r]})
    /\ Finish(r)
    /\ UNCHANGED <<now, clickedAt, config, stats, streamer>>

(* Mutant: the insert meets no unique index. *)
StartInsertUnchecked(r) ==
    /\ pc[r] = "start"
    /\ ~Found(r)
    /\ \E s \in Unused : Insert(s, who[r], {})
    /\ Finish(r)
    /\ UNCHANGED <<now, clickedAt, config, stats, streamer>>

(***************************************************************************)
(* There was no row, or it was closed while the SELECT waited.  Losing the *)
(* unique index to another insert rolls back to the savepoint and answers  *)
(* with the other session, or with an error when that one ended already.   *)
(***************************************************************************)
StartInsert(r) ==
    /\ pc[r] = "start"
    /\ ~Found(r)
    /\ \/ ActiveOf(who[r]) # {} /\ UNCHANGED rows
       \/ /\ ActiveOf(who[r]) = {}
          /\ \E s \in Unused : Insert(s, who[r], {})
    /\ Finish(r)
    /\ UNCHANGED <<now, clickedAt, config, stats, streamer>>

-----------------------------------------------------------------------------
(* Heartbeat and the statistics.                                           *)

Credit(s) == Min({now - last[s], MaxCredit})

(* The seconds accumulated and not yet paid, this heartbeat's included. *)
Pending(s) == accumulated[s] + Credit(s) - rewarded[s]
BasePoints(s) == Pending(s) \div perPoint

(* Mutant: rewarded_seconds does not move. *)
NothingRewarded(s) == rewarded[s]
NewRewarded(s) == rewarded[s] + BasePoints(s) * perPoint

(***************************************************************************)
(* A heartbeat after less than MinGap changes nothing, and neither does    *)
(* one whose points overflow int64: its transaction is rolled back.  The   *)
(* handler then owes the statistics the seconds counted.                   *)
(***************************************************************************)
Heartbeat(r) ==
    /\ pc[r] = "idle"
    /\ \E v \in Viewers : \E s \in ActiveOf(v) :
          /\ now - last[s] >= MinGap
          /\ BasePoints(s) * multiplier <= MaxInt
          /\ accumulated' = [accumulated EXCEPT ![s] = @ + Credit(s)]
          /\ rewarded' = [rewarded EXCEPT ![s] = NewRewarded(s)]
          /\ last' = [last EXCEPT ![s] = now]
          /\ paid' = [paid EXCEPT ![s] = @ + BasePoints(s) * multiplier]
          /\ who' = [who EXCEPT ![r] = v]
          /\ owed' = [owed EXCEPT ![r] = Credit(s)]
    /\ pc' = [pc EXCEPT ![r] = "stats"]
    /\ UNCHANGED <<now, owner, active, started, clickable, clickedAt, config, stats,
                   streamer, seen, found>>

(***************************************************************************)
(* AddHeartbeatTime, a second transaction: its upsert locks the viewer's   *)
(* row of the statistics, and then it reads who holds the channel.  When   *)
(* it fails, here or later, the client is told so, but its repeated        *)
(* heartbeat comes too early to count.                                     *)
(***************************************************************************)
LookUpStreamer(r) ==
    /\ pc[r] = "stats"
    /\ \A q \in Requests : pc[q] = "book" => who[q] # who[r]
    /\ \/ /\ pc' = [pc EXCEPT ![r] = "book"]
          /\ found' = [found EXCEPT ![r] = streamer]
          /\ UNCHANGED <<who, seen, owed>>
       \/ Finish(r)
    /\ UNCHANGED <<now, rows, clickedAt, config, stats, streamer>>

(* A channel without a streamer has no broadcast statistic: the row is skipped. *)
Book(r) ==
    /\ watchStat' = [watchStat EXCEPT ![who[r]] = @ + owed[r]]
    /\ \/ /\ found[r] \in Streamers
          /\ broadcastStat' = [broadcastStat EXCEPT ![found[r]] = @ + owed[r]]
          /\ UNCHANGED unattended
       \/ /\ found[r] = NoStreamer
          /\ unattended' = unattended + owed[r]
          /\ UNCHANGED broadcastStat

(* Mutant: the broadcast statistic is written outside the transaction. *)
AddHeartbeatTimeApart(r) ==
    /\ pc[r] = "book"
    /\ \/ Book(r)
       \/ /\ found[r] \in Streamers
          /\ broadcastStat' = [broadcastStat EXCEPT ![found[r]] = @ + owed[r]]
          /\ UNCHANGED <<watchStat, unattended>>
    /\ Finish(r)
    /\ UNCHANGED <<now, rows, clickedAt, config, streamer>>

AddHeartbeatTime(r) ==
    /\ pc[r] = "book"
    /\ Book(r) \/ UNCHANGED stats
    /\ Finish(r)
    /\ UNCHANGED <<now, rows, clickedAt, config, streamer>>

-----------------------------------------------------------------------------
(* EndSession, RecordClick, the configuration, time and crashes.           *)

EndSession(v) ==
    /\ ActiveOf(v) # {}
    /\ active' = [s \in Sessions |-> active[s] /\ owner[s] # v]
    /\ UNCHANGED <<now, owner, started, last, accumulated, rewarded, clickable, paid,
                   clickedAt, config, stats, streamer, calls>>

(* Mutant: the cooldown counts from the session's last heartbeat. *)
CooledDownAt(s) == last[s] + Cooldown
NextClick(s) == now + Cooldown

(* One point is added to the viewer's ledger. *)
RecordClick(v) ==
    /\ \E s \in ActiveOf(v) :
          /\ now >= clickable[s]
          /\ clickable' = [clickable EXCEPT ![s] = NextClick(s)]
    /\ clickedAt' = [clickedAt EXCEPT ![v] = now]
    /\ UNCHANGED <<now, owner, active, started, last, accumulated, rewarded, paid,
                   config, stats, streamer, calls>>

(* Either field may be given; two calls may also mix their values. *)
UpdateChannelConfig ==
    /\ perPoint' \in SecondsPerPoint /\ multiplier' \in Multipliers
    /\ config' # config
    /\ UNCHANGED <<now, rows, clickedAt, stats, streamer, calls>>

(* A login joins the channel's free identity to an account, or an account unlinks it. *)
TakeChannel(m) ==
    /\ streamer = NoStreamer
    /\ streamer' = m
    /\ UNCHANGED <<now, rows, clickedAt, config, stats, calls>>

LeaveChannel ==
    /\ streamer # NoStreamer
    /\ streamer' = NoStreamer
    /\ UNCHANGED <<now, rows, clickedAt, config, stats, calls>>

Tick ==
    /\ now < Horizon
    /\ now' = now + 1
    /\ UNCHANGED <<rows, clickedAt, config, stats, streamer, calls>>

Crash ==
    /\ \E r \in Requests : pc[r] # "idle"
    /\ pc' = [r \in Requests |-> "idle"]
    /\ who' = [r \in Requests |-> Nobody]
    /\ seen' = [r \in Requests |-> NoSession]
    /\ owed' = [r \in Requests |-> 0]
    /\ found' = [r \in Requests |-> NoStreamer]
    /\ UNCHANGED <<now, rows, clickedAt, config, stats, streamer>>

WatchNext ==
    \/ \E r \in Requests :
          \/ StartLook(r) \/ StartFound(r) \/ StartInsert(r)
          \/ Heartbeat(r) \/ LookUpStreamer(r) \/ AddHeartbeatTime(r)
    \/ \E v \in Viewers : EndSession(v) \/ RecordClick(v)
    \/ \E m \in Streamers : TakeChannel(m)
    \/ LeaveChannel \/ UpdateChannelConfig \/ Tick \/ Crash

WatchSpec == WatchInit /\ [][WatchNext]_vars

-----------------------------------------------------------------------------
(* Properties.                                                             *)

(* Every row, statistic and handler holds values of the declared kinds. *)
WatchTypeOK ==
    /\ now \in 0..Horizon
    /\ owner \in [Sessions -> Viewers \cup {Nobody}]
    /\ active \in [Sessions -> BOOLEAN]
    /\ \A f \in {started, last, accumulated, rewarded, clickable, paid} :
          f \in [Sessions -> Nat]
    /\ clickedAt \in [Viewers -> {Never} \cup Nat]
    /\ perPoint \in SecondsPerPoint /\ multiplier \in Multipliers
    /\ watchStat \in [Viewers -> Nat]
    /\ broadcastStat \in [Streamers -> Nat]
    /\ unattended \in Nat
    /\ streamer \in Streamers \cup {NoStreamer}
    /\ pc \in [Requests -> {"idle", "start", "stats", "book"}]
    /\ who \in [Requests -> Viewers \cup {Nobody}]
    /\ seen \in [Requests -> Sessions \cup {NoSession}]
    /\ owed \in [Requests -> 0..MaxCredit]
    /\ found \in [Requests -> Streamers \cup {NoStreamer}]

Sum(f, S) == SumFunctionOnSet(f, S)

(***************************************************************************)
(* A viewer is never credited more time than has passed, over all the      *)
(* sessions a race of StartSession calls, a stale close, an end and a      *)
(* restart leave behind: sessions of a viewer do not overlap.              *)
(***************************************************************************)
WatchTimeIsReal ==
    \A v \in Viewers :
        SessionsOf(v) # {} =>
            Sum(accumulated, SessionsOf(v))
                <= Max({last[s] : s \in SessionsOf(v)}) - Min({started[s] : s \in SessionsOf(v)})

(***************************************************************************)
(* docs/watch-to-points-design.md:163: over any number of heartbeats no    *)
(* second is paid twice, and none that makes up a full point is withheld,  *)
(* also when the channel's rate changes between two heartbeats.            *)
(***************************************************************************)
SecondsPaidOnce ==
    \A s \in Sessions :
        /\ rewarded[s] <= accumulated[s]
        /\ accumulated[s] - rewarded[s] < Max(SecondsPerPoint)
        /\ paid[s] * Min(SecondsPerPoint) <= rewarded[s] * Max(Multipliers)
        /\ paid[s] * Max(SecondsPerPoint) >= rewarded[s] * Min(Multipliers)

(***************************************************************************)
(* The statistics never run ahead of the sessions: what is recorded and    *)
(* what handlers still owe is time some session of the viewer accumulated. *)
(* And every second recorded for a viewer is booked to one streamer, the   *)
(* one the transaction found, however the channel changes hands between    *)
(* and within transactions; only those of an unattended channel are not.   *)
(***************************************************************************)
StatsFollowSessions ==
    /\ \A v \in Viewers :
          watchStat[v] + Sum(owed, {r \in Requests : pc[r] \in {"stats", "book"} /\ who[r] = v})
              <= Sum(accumulated, SessionsOf(v))
    /\ Sum(broadcastStat, Streamers) + unattended = Sum(watchStat, Viewers)

(***************************************************************************)
(* Two clicks of a viewer that earn points are Cooldown apart, unless a    *)
(* session was started in between: the row, and not the viewer, keeps the  *)
(* time of the next click, over heartbeats, resends and racing starts.     *)
(***************************************************************************)
ClickCooldown ==
    [][\A v \in Viewers :
          RecordClick(v) =>
              \/ clickedAt[v] = Never \/ now - clickedAt[v] >= Cooldown
              \/ \E s \in ActiveOf(v) : started[s] >= clickedAt[v]]_vars
=============================================================================
