-------------------------- MODULE WatchRewardsProofs --------------------------
(***************************************************************************)
(* Proofs about the watch rewards, for any viewers, rows, requests, rates  *)
(* and durations: the time credited is time that passed, no second is paid *)
(* twice, the statistics follow the sessions, and clicks keep apart.       *)
(***************************************************************************)
EXTENDS WatchRewards, Sums, TLAPS

-----------------------------------------------------------------------------
(* Greatest and least numbers.                                               *)

(* A finite set of integers that is not empty has a greatest member: Max is it. *)
LEMMA MaxIsGreatest ==
    ASSUME NEW S \in SUBSET Int, IsFiniteSet(S), S # {}
    PROVE  Max(S) \in S /\ \A x \in S : x <= Max(S)
<1> DEFINE F == {s \in SUBSET S : s = {} \/ \E x \in s : \A y \in s : x >= y}
<1>1. ASSUME NEW s \in SUBSET S, \A x \in s : s \ {x} \in F
      PROVE  s \in F
  <2> SUFFICES ASSUME NEW z \in s
               PROVE  \E x \in s : \A y \in s : x >= y
    OBVIOUS
  <2>1. CASE s \ {z} = {}
    BY <2>1
  <2>2. CASE s \ {z} # {}
    <3>1. PICK x \in s \ {z} : \A y \in s \ {z} : x >= y
      BY <1>1, <2>2
    <3>2. CASE x >= z
      BY <3>1, <3>2
    <3>3. CASE ~(x >= z)
      <4>1. \A y \in s : z >= y
        BY <3>1, <3>3
      <4> QED
        BY <4>1
    <3> QED
      BY <3>2, <3>3
  <2> QED
    BY <2>1, <2>2
<1> HIDE DEF F
<1>2. S \in F
  BY <1>1, SetInduction
<1>3. \E x \in S : \A y \in S : x >= y
  BY <1>2 DEF F
<1> QED
  BY <1>3 DEF Max

(* And a least one: Min is it. *)
LEMMA MinIsLeast ==
    ASSUME NEW S \in SUBSET Int, IsFiniteSet(S), S # {}
    PROVE  Min(S) \in S /\ \A x \in S : Min(S) <= x
<1> DEFINE F == {s \in SUBSET S : s = {} \/ \E x \in s : \A y \in s : x =< y}
<1>1. ASSUME NEW s \in SUBSET S, \A x \in s : s \ {x} \in F
      PROVE  s \in F
  <2> SUFFICES ASSUME NEW z \in s
               PROVE  \E x \in s : \A y \in s : x =< y
    OBVIOUS
  <2>1. CASE s \ {z} = {}
    BY <2>1
  <2>2. CASE s \ {z} # {}
    <3>1. PICK x \in s \ {z} : \A y \in s \ {z} : x =< y
      BY <1>1, <2>2
    <3>2. CASE x =< z
      BY <3>1, <3>2
    <3>3. CASE ~(x =< z)
      <4>1. \A y \in s : z =< y
        BY <3>1, <3>3
      <4> QED
        BY <4>1
    <3> QED
      BY <3>2, <3>3
  <2> QED
    BY <2>1, <2>2
<1> HIDE DEF F
<1>2. S \in F
  BY <1>1, SetInduction
<1>3. \E x \in S : \A y \in S : x =< y
  BY <1>2 DEF F
<1> QED
  BY <1>3 DEF Min

(* The values of a function on a finite set are finitely many. *)
LEMMA ValuesFinite ==
    ASSUME NEW f, NEW S, IsFiniteSet(S)
    PROVE  IsFiniteSet({f[x] : x \in S})
<1> DEFINE T == {f[x] : x \in S}
           g == [x \in S |-> f[x]]
<1>1. g \in Surjection(S, T)
  BY DEF Surjection
<1> HIDE DEF g
<1> QED
  BY <1>1, FS_Surjection

(* The part of a number below a multiple of the divisor. *)
LEMMA Division ==
    ASSUME NEW n \in Nat, NEW d \in Nat \ {0}
    PROVE  /\ n \div d \in Nat
           /\ (n \div d) * d <= n
           /\ n < (n \div d) * d + d
  OBVIOUS

(* A product grows with both factors. *)
LEMMA ProductGrows ==
    ASSUME NEW a \in Nat, NEW b \in Nat, NEW c \in Nat, NEW d \in Nat, a <= b, c <= d
    PROVE  a * c <= b * d
<1>1. a * c <= b * c
  OBVIOUS
<1>2. b * c <= b * d
  OBVIOUS
<1>3. a * c \in Nat /\ b * c \in Nat /\ b * d \in Nat
  OBVIOUS
<1> QED
  BY <1>1, <1>2, <1>3

(* The seconds a heartbeat counts. *)
LEMMA CreditFits ==
    ASSUME WatchTypeOK, NEW s \in Sessions, last[s] <= now
    PROVE  Credit(s) \in 0..MaxCredit /\ Credit(s) <= now - last[s]
<1>1. now - last[s] \in Nat /\ MaxCredit \in Nat
  BY WatchAssumption DEF WatchTypeOK
<1>2. ASSUME NEW a \in Nat, NEW b \in Nat
      PROVE  Min({a, b}) \in {a, b} /\ Min({a, b}) <= a /\ Min({a, b}) <= b
  <2>1. IsFiniteSet({a, b})
    <3>1. IsFiniteSet({a}) /\ {a, b} = {a} \cup {b}
      BY FS_Singleton
    <3> QED
      BY <3>1, FS_AddElement
  <2>2. {a, b} \in SUBSET Int /\ {a, b} # {}
    OBVIOUS
  <2> QED
    BY <2>1, <2>2, MinIsLeast
<1> QED
  BY <1>1, <1>2 DEF Credit

-----------------------------------------------------------------------------
(* What the rows and the calls always are.                                   *)

(* A session's times are in order, and an unused row has nothing on it. *)
RowOK(s) ==
    /\ owner[s] = Nobody => ~active[s] /\ accumulated[s] = 0
    /\ started[s] <= last[s] /\ last[s] <= now
    /\ rewarded[s] <= accumulated[s]

(* A call under way serves a viewer, and the row it found is that viewer's. *)
CallOK(r) ==
    /\ pc[r] # "idle" => who[r] \in Viewers
    /\ seen[r] \in Sessions => pc[r] = "start" /\ owner[seen[r]] = who[r]

(* A viewer's active session is the only one, and the latest of all. *)
LatestIsActive ==
    \A s, t \in Sessions :
        owner[s] = owner[t] /\ active[t] => last[s] <= last[t] /\ (active[s] => s = t)

WatchInv ==
    /\ WatchTypeOK
    /\ \A s \in Sessions : RowOK(s)
    /\ \A r \in Requests : CallOK(r)
    /\ LatestIsActive

(* A viewer's session ends, if there is one, and a new one starts. *)
Opens(s, v) ==
    /\ v \in Viewers /\ s \in Unused
    /\ Insert(s, v, ActiveOf(v))
    /\ UNCHANGED <<now, clickedAt, config>>

(* Nothing happens to the sessions, or the clock runs. *)
Waits == now' \in {now, now + 1} /\ UNCHANGED <<rows, clickedAt>>

(* What a step may do to the sessions. *)
LEMMA RowSteps ==
    ASSUME WatchInv, [WatchNext]_vars
    PROVE  \/ Waits
           \/ \E s, v : Opens(s, v)
           \/ \E r \in Requests : Heartbeat(r)
           \/ \E v \in Viewers : EndSession(v) \/ RecordClick(v)
<1> now \in Nat
  BY DEF WatchInv, WatchTypeOK
<1>1. CASE UNCHANGED vars
  BY <1>1 DEF vars, Waits
<1>2. ASSUME NEW r \in Requests, StartLook(r) \/ LookUpStreamer(r) \/ AddHeartbeatTime(r)
      PROVE  Waits
  BY <1>2 DEF StartLook, LookUpStreamer, AddHeartbeatTime, Waits
<1>3. ASSUME NEW r \in Requests, StartFound(r)
      PROVE  Waits \/ \E s, v : Opens(s, v)
  <2>1. CASE UNCHANGED rows
    BY <1>3, <2>1 DEF StartFound, Waits
  <2>2. ASSUME NEW s \in Unused, Insert(s, who[r], {seen[r]})
        PROVE  Opens(s, who[r])
    <3>1. seen[r] \in Sessions /\ active[seen[r]] /\ pc[r] = "start"
      BY <1>3 DEF StartFound, Found
    <3>2. who[r] \in Viewers /\ owner[seen[r]] = who[r]
      BY <3>1 DEF WatchInv, CallOK
    <3>3. ActiveOf(who[r]) = {seen[r]}
      BY <3>1, <3>2 DEF ActiveOf, SessionsOf, WatchInv, LatestIsActive
    <3> QED
      BY <1>3, <2>2, <3>2, <3>3 DEF Opens, StartFound
  <2> QED
    BY <1>3, <2>1, <2>2 DEF StartFound
<1>4. ASSUME NEW r \in Requests, StartInsert(r)
      PROVE  Waits \/ \E s, v : Opens(s, v)
  <2>1. CASE UNCHANGED rows
    BY <1>4, <2>1 DEF StartInsert, Waits
  <2>2. ASSUME NEW s \in Unused, Insert(s, who[r], {}), ActiveOf(who[r]) = {}
        PROVE  Opens(s, who[r])
    BY <1>4, <2>2 DEF Opens, StartInsert, WatchInv, CallOK
  <2> QED
    BY <1>4, <2>1, <2>2 DEF StartInsert
<1>5. CASE UpdateChannelConfig \/ Tick \/ Crash \/ LeaveChannel \/ \E m \in Streamers : TakeChannel(m)
  BY <1>5 DEF UpdateChannelConfig, Tick, Crash, LeaveChannel, TakeChannel, Waits
<1> QED
  BY <1>1, <1>2, <1>3, <1>4, <1>5 DEF WatchNext

(* What a heartbeat does, in the terms of the invariant. *)
LEMMA HeartbeatEffect ==
    ASSUME WatchInv, NEW r \in Requests, Heartbeat(r)
    PROVE  \E s \in Sessions :
              /\ owner[s] \in Viewers /\ active[s]
              /\ Credit(s) \in 0..MaxCredit /\ Credit(s) <= now - last[s]
              /\ BasePoints(s) \in Nat
              /\ BasePoints(s) * perPoint <= Pending(s)
              /\ Pending(s) < BasePoints(s) * perPoint + perPoint
              /\ accumulated' = [accumulated EXCEPT ![s] = @ + Credit(s)]
              /\ rewarded' = [rewarded EXCEPT ![s] = @ + BasePoints(s) * perPoint]
              /\ last' = [last EXCEPT ![s] = now]
              /\ paid' = [paid EXCEPT ![s] = @ + BasePoints(s) * multiplier]
              /\ who' = [who EXCEPT ![r] = owner[s]]
              /\ owed' = [owed EXCEPT ![r] = Credit(s)]
<1>1. PICK v \in Viewers, s \in Sessions :
          /\ s \in ActiveOf(v)
          /\ accumulated' = [accumulated EXCEPT ![s] = @ + Credit(s)]
          /\ rewarded' = [rewarded EXCEPT ![s] = NewRewarded(s)]
          /\ last' = [last EXCEPT ![s] = now]
          /\ paid' = [paid EXCEPT ![s] = @ + BasePoints(s) * multiplier]
          /\ who' = [who EXCEPT ![r] = v]
          /\ owed' = [owed EXCEPT ![r] = Credit(s)]
  BY DEF Heartbeat, ActiveOf, SessionsOf
<1>2. s \in Sessions /\ owner[s] = v /\ active[s]
  BY <1>1 DEF ActiveOf, SessionsOf
<1>3. Credit(s) \in 0..MaxCredit /\ Credit(s) <= now - last[s]
  BY <1>2, CreditFits DEF WatchInv, RowOK
<1>4. Pending(s) \in Nat
  BY <1>2, <1>3 DEF Pending, WatchInv, RowOK, WatchTypeOK
<1>5. perPoint \in Nat \ {0}
  BY WatchAssumption DEF WatchInv, WatchTypeOK
<1>6. /\ BasePoints(s) \in Nat
      /\ BasePoints(s) * perPoint <= Pending(s)
      /\ Pending(s) < BasePoints(s) * perPoint + perPoint
  BY <1>4, <1>5, Division DEF BasePoints
<1>7. rewarded' = [rewarded EXCEPT ![s] = @ + BasePoints(s) * perPoint]
  BY <1>1, <1>2 DEF NewRewarded, WatchInv, WatchTypeOK
<1> QED
  BY <1>1, <1>2, <1>3, <1>6, <1>7

(* The rows keep their types. *)
RowsTyped ==
    /\ owner \in [Sessions -> Viewers \cup {Nobody}]
    /\ active \in [Sessions -> BOOLEAN]
    /\ \A f \in {started, last, accumulated, rewarded, clickable, paid} :
          f \in [Sessions -> Nat]
    /\ clickedAt \in [Viewers -> {Never} \cup Nat]

(* Session rows stay of their kinds. *)
LEMMA RowsKeepType ==
    ASSUME WatchInv, [WatchNext]_vars
    PROVE  RowsTyped'
<1> USE WatchAssumption
<1>1. now \in Nat /\ RowsTyped
  BY DEF WatchInv, WatchTypeOK, RowsTyped
<1>2. CASE Waits
  BY <1>1, <1>2 DEF Waits, rows, RowsTyped
<1>3. ASSUME NEW s, NEW v, Opens(s, v)
      PROVE  RowsTyped'
  BY <1>1, <1>3 DEF Opens, Insert, Unused, RowsTyped
<1>4. ASSUME NEW r \in Requests, Heartbeat(r)
      PROVE  RowsTyped'
  <2>1. PICK s \in Sessions :
            /\ Credit(s) \in 0..MaxCredit
            /\ BasePoints(s) \in Nat
            /\ accumulated' = [accumulated EXCEPT ![s] = @ + Credit(s)]
            /\ rewarded' = [rewarded EXCEPT ![s] = @ + BasePoints(s) * perPoint]
            /\ last' = [last EXCEPT ![s] = now]
            /\ paid' = [paid EXCEPT ![s] = @ + BasePoints(s) * multiplier]
    BY <1>4, HeartbeatEffect
  <2>2. perPoint \in Nat /\ multiplier \in Nat
    BY DEF WatchInv, WatchTypeOK
  <2>3. BasePoints(s) * perPoint \in Nat /\ BasePoints(s) * multiplier \in Nat
    BY <2>1, <2>2
  <2>4. Credit(s) \in Nat
    BY <2>1
  <2> QED
    <3>1. UNCHANGED <<owner, active, started, clickable, clickedAt>>
      BY <1>4 DEF Heartbeat
    <3>2. /\ accumulated' \in [Sessions -> Nat] /\ last' \in [Sessions -> Nat]
          /\ rewarded' \in [Sessions -> Nat] /\ paid' \in [Sessions -> Nat]
      <4>1. /\ accumulated \in [Sessions -> Nat] /\ last \in [Sessions -> Nat]
            /\ rewarded \in [Sessions -> Nat] /\ paid \in [Sessions -> Nat]
        BY <1>1 DEF RowsTyped
      <4>2. /\ accumulated[s] + Credit(s) \in Nat
            /\ rewarded[s] + BasePoints(s) * perPoint \in Nat
            /\ paid[s] + BasePoints(s) * multiplier \in Nat
        BY <2>3, <2>4, <4>1
      <4> QED
        BY <1>1, <2>1, <4>1, <4>2
    <3> QED
      BY <1>1, <3>1, <3>2 DEF RowsTyped
<1>5. ASSUME NEW v \in Viewers, EndSession(v)
      PROVE  RowsTyped'
  BY <1>1, <1>5 DEF EndSession, RowsTyped
<1>6. ASSUME NEW v \in Viewers, RecordClick(v)
      PROVE  RowsTyped'
  <2>1. PICK s \in Sessions : clickable' = [clickable EXCEPT ![s] = NextClick(s)]
    BY <1>6 DEF RecordClick, ActiveOf, SessionsOf
  <2>2. NextClick(s) \in Nat
    BY <1>1 DEF NextClick
  <2> QED
    <3>1. UNCHANGED <<owner, active, started, last, accumulated, rewarded, paid>>
      BY <1>6 DEF RecordClick
    <3>2. clickable' \in [Sessions -> Nat]
      BY <1>1, <2>1, <2>2 DEF RowsTyped
    <3>3. clickedAt' \in [Viewers -> {Never} \cup Nat]
      BY <1>1, <1>6 DEF RecordClick, RowsTyped
    <3> QED
      BY <1>1, <3>1, <3>2, <3>3 DEF RowsTyped
<1> QED
  BY <1>2, <1>3, <1>4, <1>5, <1>6, RowSteps

(* The sessions stay in order and the active ones latest. *)
LEMMA RowsKeepOrder ==
    ASSUME WatchInv, [WatchNext]_vars
    PROVE  (\A s \in Sessions : RowOK(s))' /\ LatestIsActive'
<1> USE WatchAssumption DEF WatchInv, RowOK, LatestIsActive
<1>1. now \in Nat /\ RowsTyped
  BY DEF WatchTypeOK, RowsTyped
<1>2. CASE Waits
  BY <1>1, <1>2 DEF Waits, rows, RowsTyped
<1>3. ASSUME NEW s, NEW v, Opens(s, v)
      PROVE  (\A x \in Sessions : RowOK(x))' /\ LatestIsActive'
  <2>1. /\ s \in Sessions /\ v \in Viewers /\ v # Nobody /\ owner[s] = Nobody
        /\ owner' = [owner EXCEPT ![s] = v]
        /\ active' = [x \in Sessions |-> x = s \/ (active[x] /\ x \notin ActiveOf(v))]
        /\ started' = [started EXCEPT ![s] = now]
        /\ last' = [last EXCEPT ![s] = now]
        /\ UNCHANGED <<now, accumulated, rewarded>>
    BY <1>3 DEF Opens, Insert, Unused
  <2>2. \A x \in Sessions : active'[x] => x = s \/ (active[x] /\ owner[x] # v)
    BY <2>1 DEF ActiveOf, SessionsOf
  <2>3. (\A x \in Sessions : RowOK(x))'
    BY <1>1, <2>1 DEF RowsTyped
  <2>4. LatestIsActive'
    BY <1>1, <2>1, <2>2 DEF RowsTyped
  <2> QED
    BY <2>3, <2>4
<1>4. ASSUME NEW r \in Requests, Heartbeat(r)
      PROVE  (\A x \in Sessions : RowOK(x))' /\ LatestIsActive'
  <2>1. PICK s \in Sessions :
            /\ owner[s] \in Viewers /\ active[s]
            /\ Credit(s) \in 0..MaxCredit
            /\ BasePoints(s) \in Nat
            /\ BasePoints(s) * perPoint <= Pending(s)
            /\ accumulated' = [accumulated EXCEPT ![s] = @ + Credit(s)]
            /\ rewarded' = [rewarded EXCEPT ![s] = @ + BasePoints(s) * perPoint]
            /\ last' = [last EXCEPT ![s] = now]
    BY <1>4, HeartbeatEffect
  <2>2. UNCHANGED <<now, owner, active, started>>
    BY <1>4 DEF Heartbeat
  <2>3. rewarded[s] + BasePoints(s) * perPoint <= accumulated[s] + Credit(s)
    <3>1. /\ Pending(s) = accumulated[s] + Credit(s) - rewarded[s]
          /\ BasePoints(s) * perPoint \in Nat
          /\ accumulated[s] \in Nat /\ rewarded[s] \in Nat /\ Credit(s) \in Nat
      BY <1>1, <2>1 DEF RowsTyped, Pending, WatchTypeOK
    <3> QED
      BY <2>1, <3>1
  <2>4. (\A x \in Sessions : RowOK(x))'
    BY <1>1, <2>1, <2>2, <2>3 DEF RowsTyped
  <2>5. LatestIsActive'
    BY <1>1, <2>1, <2>2 DEF RowsTyped
  <2> QED
    BY <2>4, <2>5
<1>5. ASSUME NEW v \in Viewers, EndSession(v)
      PROVE  (\A x \in Sessions : RowOK(x))' /\ LatestIsActive'
  BY <1>1, <1>5 DEF EndSession, RowsTyped
<1>6. ASSUME NEW v \in Viewers, RecordClick(v)
      PROVE  (\A x \in Sessions : RowOK(x))' /\ LatestIsActive'
  BY <1>1, <1>6 DEF RecordClick, RowsTyped
<1> QED
  BY <1>2, <1>3, <1>4, <1>5, <1>6, RowSteps

(* A row never changes its viewer. *)
LEMMA OwnersStay ==
    ASSUME WatchInv, [WatchNext]_vars, NEW s \in Sessions, owner[s] # Nobody
    PROVE  owner'[s] = owner[s]
<1>1. owner \in [Sessions -> Viewers \cup {Nobody}]
  BY DEF WatchInv, WatchTypeOK
<1> QED
  BY <1>1, RowSteps
  DEF Waits, rows, Opens, Insert, Unused, Heartbeat, EndSession, RecordClick

(* The calls keep their types, and what they hold stays true. *)
CallsTyped ==
    /\ pc \in [Requests -> {"idle", "start", "stats", "book"}]
    /\ who \in [Requests -> Viewers \cup {Nobody}]
    /\ seen \in [Requests -> Sessions \cup {NoSession}]
    /\ owed \in [Requests -> 0..MaxCredit]
    /\ found \in [Requests -> Streamers \cup {NoStreamer}]

(* What a call has read goes on fitting its session. *)
LEMMA CallsKept ==
    ASSUME WatchInv, [WatchNext]_vars
    PROVE  CallsTyped' /\ (\A r \in Requests : CallOK(r))'
<1> USE WatchAssumption
<1>1. /\ CallsTyped /\ \A q \in Requests : CallOK(q)
      /\ \A s \in Sessions : owner[s] # Nobody => owner'[s] = owner[s]
      /\ 0 \in 0..MaxCredit
  BY OwnersStay DEF WatchInv, WatchTypeOK, CallsTyped
<1>2. CASE UNCHANGED calls
  BY <1>1, <1>2 DEF calls, CallsTyped, CallOK
<1>3. ASSUME NEW r \in Requests, Finish(r)
      PROVE  CallsTyped' /\ (\A q \in Requests : CallOK(q))'
  BY <1>1, <1>3 DEF Finish, CallsTyped, CallOK
<1>4. ASSUME NEW r \in Requests, StartLook(r)
      PROVE  CallsTyped' /\ (\A q \in Requests : CallOK(q))'
  <2>1. PICK v \in Viewers :
            /\ who' = [who EXCEPT ![r] = v]
            /\ \/ seen' = [seen EXCEPT ![r] = NoSession]
               \/ \E s \in Sessions : owner[s] = v /\ seen' = [seen EXCEPT ![r] = s]
    BY <1>4 DEF StartLook, ActiveOf, SessionsOf
  <2>2. pc' = [pc EXCEPT ![r] = "start"] /\ UNCHANGED <<owed, found>>
    BY <1>4 DEF StartLook
  <2> QED
    BY <1>1, <2>1, <2>2 DEF CallsTyped, CallOK
<1>5. ASSUME NEW r \in Requests, Heartbeat(r)
      PROVE  CallsTyped' /\ (\A q \in Requests : CallOK(q))'
  <2>1. PICK s \in Sessions :
            /\ owner[s] \in Viewers
            /\ Credit(s) \in 0..MaxCredit
            /\ who' = [who EXCEPT ![r] = owner[s]]
            /\ owed' = [owed EXCEPT ![r] = Credit(s)]
    BY <1>5, HeartbeatEffect
  <2>2. pc[r] = "idle" /\ pc' = [pc EXCEPT ![r] = "stats"] /\ UNCHANGED <<seen, found>>
    BY <1>5 DEF Heartbeat
  <2> QED
    BY <1>1, <2>1, <2>2 DEF CallsTyped, CallOK
<1>6. CASE Crash
  BY <1>1, <1>6 DEF Crash, CallsTyped, CallOK
<1>7. ASSUME NEW r \in Requests, LookUpStreamer(r), ~Finish(r)
      PROVE  CallsTyped' /\ (\A q \in Requests : CallOK(q))'
  <2>1. /\ pc[r] = "stats" /\ pc' = [pc EXCEPT ![r] = "book"]
        /\ found' = [found EXCEPT ![r] = streamer]
        /\ UNCHANGED <<who, seen, owed>>
    BY <1>7 DEF LookUpStreamer
  <2>2. streamer \in Streamers \cup {NoStreamer}
    BY DEF WatchInv, WatchTypeOK
  <2>3. CallsTyped'
    BY <1>1, <2>1, <2>2 DEF CallsTyped
  <2>4. UNCHANGED owner
    BY <1>7 DEF LookUpStreamer, rows
  <2> QED
    BY <1>1, <2>1, <2>3, <2>4 DEF CallsTyped, CallOK
<1> QED
  BY <1>2, <1>3, <1>4, <1>5, <1>6, <1>7
  DEF WatchNext, vars, StartFound, StartInsert, LookUpStreamer, AddHeartbeatTime, EndSession,
      RecordClick, TakeChannel, LeaveChannel, UpdateChannelConfig, Tick

(* What booking does to the two statistics, in the terms of the sums. *)
Booked(r) ==
    /\ watchStat' = [watchStat EXCEPT ![who[r]] = @ + owed[r]]
    /\ \/ \E m \in Streamers :
             /\ broadcastStat' = [broadcastStat EXCEPT ![m] = @ + owed[r]]
             /\ UNCHANGED unattended
       \/ unattended' = unattended + owed[r] /\ UNCHANGED broadcastStat

(* A handler about to record has a viewer and a number of seconds. *)
LEMMA BookingFits ==
    ASSUME WatchInv, NEW r \in Requests, AddHeartbeatTime(r)
    PROVE  /\ who[r] \in Viewers /\ owed[r] \in Nat /\ pc[r] = "book" /\ Finish(r)
           /\ UNCHANGED <<now, config, streamer, owner, accumulated>>
           /\ Booked(r) \/ UNCHANGED <<watchStat, broadcastStat, unattended>>
<1>1. pc[r] = "book" /\ Finish(r) /\ UNCHANGED <<now, config, streamer, owner, accumulated>>
  BY DEF AddHeartbeatTime, rows
<1>2. who[r] \in Viewers /\ owed[r] \in Nat
  BY <1>1, WatchAssumption DEF WatchInv, WatchTypeOK, CallOK
<1>3. Booked(r) \/ UNCHANGED <<watchStat, broadcastStat, unattended>>
  BY DEF AddHeartbeatTime, Book, Booked, stats
<1> QED
  BY <1>1, <1>2, <1>3

(* The clock, the configuration, the statistics and the channel keep their types. *)
OthersTyped ==
    /\ now \in 0..Horizon
    /\ perPoint \in SecondsPerPoint /\ multiplier \in Multipliers
    /\ watchStat \in [Viewers -> Nat] /\ broadcastStat \in [Streamers -> Nat]
    /\ unattended \in Nat
    /\ streamer \in Streamers \cup {NoStreamer}

LEMMA OthersKeepType ==
    ASSUME WatchInv, [WatchNext]_vars
    PROVE  OthersTyped'
<1> USE WatchAssumption
<1>1. OthersTyped
  BY DEF OthersTyped, WatchInv, WatchTypeOK
<1>2. CASE UNCHANGED <<now, config, stats, streamer>>
  BY <1>1, <1>2 DEF config, stats, OthersTyped
<1>3. ASSUME NEW r \in Requests, AddHeartbeatTime(r)
      PROVE  OthersTyped'
  <2>1. /\ owed[r] \in Nat /\ who[r] \in Viewers /\ UNCHANGED <<now, config, streamer>>
        /\ Booked(r) \/ UNCHANGED <<watchStat, broadcastStat, unattended>>
    BY <1>3, BookingFits
  <2>2. CASE UNCHANGED <<watchStat, broadcastStat, unattended>>
    BY <1>1, <2>1, <2>2 DEF config, OthersTyped
  <2>3. CASE Booked(r)
    <3>1. watchStat' \in [Viewers -> Nat]
      BY <1>1, <2>1, <2>3 DEF Booked, OthersTyped
    <3>2. broadcastStat' \in [Streamers -> Nat] /\ unattended' \in Nat
      BY <1>1, <2>1, <2>3 DEF Booked, OthersTyped
    <3> QED
      BY <1>1, <2>1, <3>1, <3>2 DEF config, OthersTyped
  <2> QED
    BY <2>1, <2>2, <2>3
<1>4. CASE Tick
  BY <1>1, <1>4 DEF Tick, config, stats, OthersTyped
<1>5. CASE UpdateChannelConfig
  BY <1>1, <1>5 DEF UpdateChannelConfig, stats, OthersTyped
<1>6. CASE LeaveChannel \/ \E m \in Streamers : TakeChannel(m)
  BY <1>1, <1>6 DEF LeaveChannel, TakeChannel, config, stats, OthersTyped
<1> QED
  BY <1>2, <1>3, <1>4, <1>5, <1>6
  DEF WatchNext, vars, config, StartLook, StartFound, StartInsert, Heartbeat, LookUpStreamer,
      EndSession, RecordClick, Crash

(* The invariant holds initially and is kept by every step. *)
LEMMA WatchInvHolds == WatchSpec => []WatchInv
<1>1. WatchInit => WatchInv
  <2> SUFFICES ASSUME WatchInit
               PROVE  WatchInv
    OBVIOUS
  <2>1. WatchTypeOK
    BY WatchAssumption DEF WatchInit, WatchTypeOK, Never
  <2>2. (\A s \in Sessions : RowOK(s)) /\ LatestIsActive
    BY DEF WatchInit, RowOK, LatestIsActive
  <2>3. \A r \in Requests : CallOK(r)
    BY WatchAssumption DEF WatchInit, CallOK
  <2> QED
    BY <2>1, <2>2, <2>3 DEF WatchInv
<1>2. WatchInv /\ [WatchNext]_vars => WatchInv'
  <2> SUFFICES ASSUME WatchInv, [WatchNext]_vars
               PROVE  WatchInv'
    OBVIOUS
  <2>1. WatchTypeOK'
    BY RowsKeepType, CallsKept, OthersKeepType DEF RowsTyped, CallsTyped, OthersTyped, WatchTypeOK
  <2> QED
    BY <2>1, RowsKeepOrder, CallsKept DEF WatchInv
<1> QED
  BY <1>1, <1>2, PTL DEF WatchSpec

-----------------------------------------------------------------------------
(* Clicks.                                                                   *)

(* The newest click of a viewer holds back the active session's next one. *)
Cooling ==
    \A v \in Viewers :
        /\ clickedAt[v] <= now
        /\ \/ clickedAt[v] = Never
           \/ \A s \in ActiveOf(v) :
                 clickable[s] >= clickedAt[v] + Cooldown \/ started[s] >= clickedAt[v]

(* The cooldown of the last click covers the sessions of its viewer, in every state. *)
LEMMA CoolingHolds == WatchSpec => []Cooling
<1>1. WatchInit => Cooling
  BY DEF WatchInit, Cooling, Never
<1>2. WatchInv /\ Cooling /\ [WatchNext]_vars => Cooling'
  <2> SUFFICES ASSUME WatchInv, Cooling, [WatchNext]_vars
               PROVE  Cooling'
    OBVIOUS
  <2> USE WatchAssumption
  <2>1. /\ now \in Nat
        /\ \A s \in Sessions : started[s] \in Nat /\ clickable[s] \in Nat
        /\ \A v \in Viewers : clickedAt[v] \in {Never} \cup Nat
    BY DEF WatchInv, WatchTypeOK
  <2>2. CASE Waits
    BY <2>1, <2>2 DEF Waits, rows, Cooling, ActiveOf, SessionsOf, Never
  <2>3. ASSUME NEW s, NEW v, Opens(s, v)
        PROVE  Cooling'
    <3>1. /\ s \in Sessions /\ v \in Viewers /\ v # Nobody /\ owner[s] = Nobody
          /\ owner' = [owner EXCEPT ![s] = v]
          /\ active' = [x \in Sessions |-> x = s \/ (active[x] /\ x \notin ActiveOf(v))]
          /\ started' = [started EXCEPT ![s] = now]
          /\ UNCHANGED <<now, clickable, clickedAt>>
      BY <2>3 DEF Opens, Insert, Unused
    <3>2. started \in [Sessions -> Nat] /\ owner \in [Sessions -> Viewers \cup {Nobody}]
      BY DEF WatchInv, WatchTypeOK
    <3>3. ASSUME NEW u \in Viewers, NEW x \in Sessions, owner'[x] = u, active'[x]
          PROVE  \/ x = s /\ started'[x] = now
                 \/ x \in ActiveOf(u) /\ started'[x] = started[x]
      BY <3>1, <3>2, <3>3 DEF ActiveOf, SessionsOf
    <3>4. ASSUME NEW u \in Viewers, clickedAt[u] # Never, NEW x \in Sessions,
                 owner'[x] = u, active'[x]
          PROVE  clickable[x] >= clickedAt[u] + Cooldown \/ started'[x] >= clickedAt[u]
      BY <3>3, <3>4 DEF Cooling
    <3> QED
      BY <3>1, <3>4 DEF Cooling, ActiveOf, SessionsOf
  <2>4. CASE UNCHANGED <<now, owner, active, started, clickable, clickedAt>>
    BY <2>4 DEF Cooling, ActiveOf, SessionsOf
  <2>5. ASSUME NEW v \in Viewers, EndSession(v)
        PROVE  Cooling'
    BY <2>5 DEF EndSession, Cooling, ActiveOf, SessionsOf
  <2>6. ASSUME NEW v \in Viewers, RecordClick(v)
        PROVE  Cooling'
    <3>1. PICK s \in Sessions :
              owner[s] = v /\ active[s] /\ clickable' = [clickable EXCEPT ![s] = now + Cooldown]
      BY <2>6 DEF RecordClick, ActiveOf, SessionsOf, NextClick
    <3>2. /\ clickedAt' = [clickedAt EXCEPT ![v] = now]
          /\ UNCHANGED <<now, owner, active, started>>
      BY <2>6 DEF RecordClick
    <3>3. /\ clickable \in [Sessions -> Nat]
          /\ clickedAt \in [Viewers -> {Never} \cup Nat]
      BY DEF WatchInv, WatchTypeOK
    <3>4. \A x \in Sessions : owner[x] = v /\ active[x] => x = s
      BY <3>1 DEF WatchInv, LatestIsActive
    <3> QED
      BY <2>1, <3>1, <3>2, <3>3, <3>4 DEF Cooling, ActiveOf, SessionsOf
  <2> QED
    BY <2>2, <2>3, <2>4, <2>5, <2>6, RowSteps DEF Heartbeat
<1> QED
  BY <1>1, <1>2, WatchInvHolds, PTL DEF WatchSpec

(***************************************************************************)
(* ClickCooldown holds for any viewers, rows and calls: clicks of a viewer *)
(* that earn points are Cooldown apart unless a session started between.   *)
(***************************************************************************)
THEOREM ClicksApart == WatchSpec => ClickCooldown
<1>1. ASSUME WatchInv, Cooling, NEW v \in Viewers, RecordClick(v)
      PROVE  \/ clickedAt[v] = Never \/ now - clickedAt[v] >= Cooldown
             \/ \E s \in ActiveOf(v) : started[s] >= clickedAt[v]
  <2>1. PICK s \in ActiveOf(v) : now >= clickable[s]
    BY <1>1 DEF RecordClick
  <2>2. /\ now \in Nat /\ clickable[s] \in Nat /\ Cooldown \in Nat
        /\ clickedAt[v] \in {Never} \cup Nat
    BY <1>1, WatchAssumption DEF WatchInv, WatchTypeOK, ActiveOf, SessionsOf
  <2> QED
    BY <1>1, <2>1, <2>2 DEF Cooling
<1>2. WatchInv /\ Cooling
         => \A v \in Viewers :
               RecordClick(v) =>
                   \/ clickedAt[v] = Never \/ now - clickedAt[v] >= Cooldown
                   \/ \E s \in ActiveOf(v) : started[s] >= clickedAt[v]
  BY <1>1
<1> QED
  BY <1>2, WatchInvHolds, CoolingHolds, PTL DEF ClickCooldown

-----------------------------------------------------------------------------
(* The seconds paid.                                                         *)

(* SecondsPaidOnce for the row s. *)
PaidOnce(s) ==
    /\ rewarded[s] <= accumulated[s]
    /\ accumulated[s] - rewarded[s] < Max(SecondsPerPoint)
    /\ paid[s] * Min(SecondsPerPoint) <= rewarded[s] * Max(Multipliers)
    /\ paid[s] * Max(SecondsPerPoint) >= rewarded[s] * Min(Multipliers)

(* The bounds on the rates. *)
LEMMA RateBounds ==
    ASSUME perPoint \in SecondsPerPoint, multiplier \in Multipliers
    PROVE  /\ Min(SecondsPerPoint) \in Nat \ {0} /\ Max(SecondsPerPoint) \in Nat \ {0}
           /\ Min(Multipliers) \in Nat /\ Max(Multipliers) \in Nat
           /\ Min(SecondsPerPoint) <= perPoint /\ perPoint <= Max(SecondsPerPoint)
           /\ Min(Multipliers) <= multiplier /\ multiplier <= Max(Multipliers)
<1>1. /\ SecondsPerPoint \in SUBSET Int /\ IsFiniteSet(SecondsPerPoint) /\ SecondsPerPoint # {}
      /\ Multipliers \in SUBSET Int /\ IsFiniteSet(Multipliers) /\ Multipliers # {}
  BY WatchAssumption
<1>2. /\ Max(SecondsPerPoint) \in SecondsPerPoint /\ perPoint <= Max(SecondsPerPoint)
      /\ Max(Multipliers) \in Multipliers /\ multiplier <= Max(Multipliers)
  BY <1>1, MaxIsGreatest
<1>3. /\ Min(SecondsPerPoint) \in SecondsPerPoint /\ Min(SecondsPerPoint) <= perPoint
      /\ Min(Multipliers) \in Multipliers /\ Min(Multipliers) <= multiplier
  BY <1>1, MinIsLeast
<1> QED
  BY <1>2, <1>3, WatchAssumption

(* Points times the price of one and seconds times the rate grow in proportion. *)
LEMMA PaymentKeepsRate ==
    ASSUME NEW p \in Nat, NEW w \in Nat, NEW n \in Nat,
           NEW c \in Nat, NEW m \in Nat,
           NEW lo \in Nat, NEW hi \in Nat, NEW few \in Nat, NEW many \in Nat,
           lo <= c, c <= hi, few <= m, m <= many,
           p * lo <= w * many, p * hi >= w * few
    PROVE  /\ (p + n * m) * lo <= (w + n * c) * many
           /\ (p + n * m) * hi >= (w + n * c) * few
<1>1. m * lo <= many * c /\ m * hi >= few * c
  BY ProductGrows
<1>2. n * (m * lo) <= n * (many * c) /\ n * (few * c) <= n * (m * hi)
  <2>1. m * lo \in Nat /\ many * c \in Nat /\ m * hi \in Nat /\ few * c \in Nat
    OBVIOUS
  <2> QED
    BY <1>1, <2>1, ProductGrows
<1>3. /\ (p + n * m) * lo = p * lo + n * (m * lo)
      /\ (w + n * c) * many = w * many + n * (many * c)
      /\ (p + n * m) * hi = p * hi + n * (m * hi)
      /\ (w + n * c) * few = w * few + n * (few * c)
  OBVIOUS
<1>4. /\ p * lo \in Nat /\ w * many \in Nat /\ p * hi \in Nat /\ w * few \in Nat
      /\ n * (m * lo) \in Nat /\ n * (many * c) \in Nat
      /\ n * (m * hi) \in Nat /\ n * (few * c) \in Nat
  OBVIOUS
<1> QED
  BY <1>2, <1>3, <1>4

(* A heartbeat pays full points only and leaves less than the price of one. *)
LEMMA HeartbeatPaysOnce ==
    ASSUME WatchInv, \A x \in Sessions : PaidOnce(x), NEW r \in Requests, Heartbeat(r)
    PROVE  \A x \in Sessions : PaidOnce(x)'
<1>1. PICK s \in Sessions :
          /\ Credit(s) \in 0..MaxCredit
          /\ BasePoints(s) \in Nat
          /\ BasePoints(s) * perPoint <= Pending(s)
          /\ Pending(s) < BasePoints(s) * perPoint + perPoint
          /\ accumulated' = [accumulated EXCEPT ![s] = @ + Credit(s)]
          /\ rewarded' = [rewarded EXCEPT ![s] = @ + BasePoints(s) * perPoint]
          /\ paid' = [paid EXCEPT ![s] = @ + BasePoints(s) * multiplier]
  BY HeartbeatEffect
<1>2. /\ accumulated \in [Sessions -> Nat] /\ rewarded \in [Sessions -> Nat]
      /\ paid \in [Sessions -> Nat]
      /\ perPoint \in Nat \ {0} /\ multiplier \in Nat
      /\ perPoint \in SecondsPerPoint /\ multiplier \in Multipliers
      /\ Credit(s) \in Nat
  BY <1>1, WatchAssumption DEF WatchInv, WatchTypeOK
<1>3. ASSUME NEW x \in Sessions, x # s
      PROVE  PaidOnce(x)'
  <2>1. accumulated'[x] = accumulated[x] /\ rewarded'[x] = rewarded[x] /\ paid'[x] = paid[x]
    BY <1>1, <1>2, <1>3
  <2> QED
    BY <1>3, <2>1 DEF PaidOnce
<1>4. PaidOnce(s)'
  <2> DEFINE n == BasePoints(s)
             lo == Min(SecondsPerPoint)  hi == Max(SecondsPerPoint)
             few == Min(Multipliers)     many == Max(Multipliers)
  <2>1. /\ accumulated'[s] = accumulated[s] + Credit(s)
        /\ rewarded'[s] = rewarded[s] + n * perPoint
        /\ paid'[s] = paid[s] + n * multiplier
    BY <1>1, <1>2
  <2>2. /\ lo \in Nat /\ hi \in Nat /\ few \in Nat /\ many \in Nat
        /\ lo <= perPoint /\ perPoint <= hi /\ few <= multiplier /\ multiplier <= many
    BY <1>2, RateBounds
  <2>3. /\ n \in Nat /\ n * perPoint \in Nat
        /\ n * perPoint <= accumulated[s] + Credit(s) - rewarded[s]
        /\ accumulated[s] + Credit(s) - rewarded[s] < n * perPoint + perPoint
    BY <1>1, <1>2 DEF Pending
  <2>4. paid[s] * lo <= rewarded[s] * many /\ paid[s] * hi >= rewarded[s] * few
    BY DEF PaidOnce
  <2>5. accumulated[s] \in Nat /\ rewarded[s] \in Nat /\ paid[s] \in Nat
    BY <1>2
  <2> HIDE DEF n, lo, hi, few, many
  <2>6. /\ (paid[s] + n * multiplier) * lo <= (rewarded[s] + n * perPoint) * many
        /\ (paid[s] + n * multiplier) * hi >= (rewarded[s] + n * perPoint) * few
    BY <1>2, <2>2, <2>3, <2>4, <2>5, PaymentKeepsRate
  <2>7. /\ rewarded'[s] <= accumulated'[s]
        /\ accumulated'[s] - rewarded'[s] < hi
    BY <1>2, <2>1, <2>2, <2>3, <2>5
  <2> QED
    BY <2>1, <2>6, <2>7 DEF PaidOnce, lo, hi, few, many
<1> QED
  BY <1>3, <1>4

(***************************************************************************)
(* SecondsPaidOnce holds for any rates and any changes of them: no second  *)
(* is paid twice, and less than a full point is ever withheld.             *)
(***************************************************************************)
THEOREM NoSecondPaidTwice == WatchSpec => []SecondsPaidOnce
<1>1. WatchInit => \A s \in Sessions : PaidOnce(s)
  <2> SUFFICES ASSUME WatchInit, NEW s \in Sessions
               PROVE  PaidOnce(s)
    OBVIOUS
  <2>1. accumulated[s] = 0 /\ rewarded[s] = 0 /\ paid[s] = 0
    BY DEF WatchInit
  <2>2. /\ Min(SecondsPerPoint) \in Nat /\ Max(SecondsPerPoint) \in Nat \ {0}
        /\ Min(Multipliers) \in Nat /\ Max(Multipliers) \in Nat
    BY RateBounds DEF WatchInit
  <2> QED
    BY <2>1, <2>2 DEF PaidOnce
<1>2. WatchInv /\ (\A s \in Sessions : PaidOnce(s)) /\ [WatchNext]_vars
         => (\A s \in Sessions : PaidOnce(s))'
  <2> SUFFICES ASSUME WatchInv, \A s \in Sessions : PaidOnce(s), [WatchNext]_vars
               PROVE  \A s \in Sessions : PaidOnce(s)'
    OBVIOUS
  <2>1. CASE UNCHANGED <<accumulated, rewarded, paid>>
    BY <2>1 DEF PaidOnce
  <2>2. ASSUME NEW r \in Requests, Heartbeat(r)
        PROVE  \A s \in Sessions : PaidOnce(s)'
    BY <2>2, HeartbeatPaysOnce
  <2> QED
    BY <2>1, <2>2, RowSteps DEF Waits, rows, Opens, Insert, EndSession, RecordClick
<1>3. (\A s \in Sessions : PaidOnce(s)) => SecondsPaidOnce
  BY DEF PaidOnce, SecondsPaidOnce
<1> QED
  BY <1>1, <1>2, <1>3, WatchInvHolds, PTL DEF WatchSpec

(* Type correctness of the watch rewards, for any constants. *)
THEOREM WatchTypeCorrect == WatchSpec => []WatchTypeOK
<1>1. WatchInv => WatchTypeOK
  BY DEF WatchInv
<1> QED
  BY <1>1, WatchInvHolds, PTL

-----------------------------------------------------------------------------
(* The time credited.                                                        *)

Credited(v) == Sum(accumulated, SessionsOf(v))

(* What a step does to the seconds credited to a viewer. *)
LEMMA CreditedChange ==
    ASSUME WatchInv, [WatchNext]_vars, NEW v \in Viewers
    PROVE  /\ Credited(v) \in Nat
           /\ UNCHANGED <<owner, accumulated>> => Credited(v)' = Credited(v)
           /\ \A s, u : Opens(s, u) => Credited(v)' = Credited(v)
           /\ \A s \in Sessions : \A n \in Nat :
                 /\ UNCHANGED owner /\ accumulated' = [accumulated EXCEPT ![s] = @ + n]
                 => Credited(v)' = IF owner[s] = v THEN Credited(v) + n ELSE Credited(v)
<1>1. /\ accumulated \in [Sessions -> Nat] /\ IsFiniteSet(Sessions)
      /\ owner \in [Sessions -> Viewers \cup {Nobody}] /\ Nobody \notin Viewers
  BY WatchAssumption DEF WatchInv, WatchTypeOK
<1>2. SessionsOf(v) \in SUBSET Sessions /\ SessionsOf(v)' \in SUBSET Sessions
  BY DEF SessionsOf
<1>3. Credited(v) \in Nat
  <2>1. IsFiniteSet(SessionsOf(v)) /\ \A x \in SessionsOf(v) : accumulated[x] \in Nat
    BY <1>1, <1>2, FS_Subset
  <2> QED
    BY <2>1, SumNatural DEF Credited, Sum
<1>4. ASSUME UNCHANGED <<owner, accumulated>>
      PROVE  Credited(v)' = Credited(v)
  BY <1>4 DEF Credited, SessionsOf
<1>5. ASSUME NEW s, NEW u, Opens(s, u)
      PROVE  Credited(v)' = Credited(v)
  <2>1. /\ s \in Sessions /\ owner[s] = Nobody /\ UNCHANGED accumulated
        /\ owner' = [owner EXCEPT ![s] = u]
    BY <1>5 DEF Opens, Insert, Unused
  <2>2. accumulated[s] = 0
    BY <2>1 DEF WatchInv, RowOK
  <2> DEFINE P == SessionsOf(v)
             Q == SessionsOf(v)'
  <2>3. \A x \in Sessions \ {s} : accumulated[x] = accumulated[x] /\ (x \in Q <=> x \in P)
    BY <1>1, <2>1 DEF SessionsOf
  <2>4. P \in SUBSET Sessions /\ Q \in SUBSET Sessions
    BY <1>2
  <2>5. \A x \in Sessions : accumulated[x] \in Int
    BY <1>1
  <2> HIDE DEF P, Q
  <2>6. SumFunctionOnSet(accumulated, Q) = SumFunctionOnSet(accumulated, P)
            - (IF s \in P THEN accumulated[s] ELSE 0) + (IF s \in Q THEN accumulated[s] ELSE 0)
    BY <1>1, <2>1, <2>3, <2>4, <2>5, SumMember
  <2>7. SumFunctionOnSet(accumulated, P) \in Nat
    BY <1>3 DEF P, Credited, Sum
  <2>8. SumFunctionOnSet(accumulated, Q) = SumFunctionOnSet(accumulated, P)
    BY <2>2, <2>6, <2>7
  <2> QED
    BY <2>1, <2>8 DEF P, Q, Credited, Sum
<1>6. ASSUME NEW s \in Sessions, NEW n \in Nat,
             UNCHANGED owner, accumulated' = [accumulated EXCEPT ![s] = @ + n]
      PROVE  Credited(v)' = IF owner[s] = v THEN Credited(v) + n ELSE Credited(v)
  <2> DEFINE P == SessionsOf(v)
             e == accumulated'
  <2>1. SessionsOf(v)' = P
    BY <1>6 DEF SessionsOf
  <2>2. /\ \A x \in Sessions : accumulated[x] \in Int /\ e[x] \in Int
        /\ \A x \in Sessions \ {s} : e[x] = accumulated[x] /\ (x \in P <=> x \in P)
        /\ e[s] = accumulated[s] + n
        /\ P \in SUBSET Sessions
        /\ s \in P <=> owner[s] = v
    BY <1>1, <1>2, <1>6 DEF SessionsOf
  <2>3. accumulated[s] \in Nat /\ SumFunctionOnSet(accumulated, P) \in Nat
    BY <1>1, <1>3 DEF Credited, Sum
  <2> HIDE DEF P, e
  <2>4. SumFunctionOnSet(e, P) = SumFunctionOnSet(accumulated, P)
            - (IF s \in P THEN accumulated[s] ELSE 0) + (IF s \in P THEN e[s] ELSE 0)
    BY <1>1, <2>2, SumMember
  <2>5. SumFunctionOnSet(e, P)
            = IF owner[s] = v THEN SumFunctionOnSet(accumulated, P) + n
                              ELSE SumFunctionOnSet(accumulated, P)
    BY <2>2, <2>3, <2>4
  <2> QED
    BY <2>1, <2>5 DEF P, e, Credited, Sum
<1> QED
  BY <1>3, <1>4, <1>5, <1>6

(* The seconds credited to a viewer fit between two times of his sessions. *)
Spans(v, a, b) ==
    /\ \A x \in SessionsOf(v) : started[a] <= started[x] /\ last[x] <= last[b]
    /\ Credited(v) <= last[b] - started[a]

TimeIsReal ==
    \A v \in Viewers :
        SessionsOf(v) # {} => \E a, b \in SessionsOf(v) : Spans(v, a, b)

(* A new session of the viewer starts after all the others. *)
LEMMA OpenKeepsTime ==
    ASSUME WatchInv, TimeIsReal, [WatchNext]_vars, NEW s, NEW u, Opens(s, u)
    PROVE  TimeIsReal'
<1>1. /\ s \in Sessions /\ u \in Viewers /\ u # Nobody /\ owner[s] = Nobody
      /\ owner' = [owner EXCEPT ![s] = u]
      /\ started' = [started EXCEPT ![s] = now] /\ last' = [last EXCEPT ![s] = now]
      /\ UNCHANGED accumulated
  BY WatchAssumption DEF Opens, Insert, Unused
<1>2. /\ owner \in [Sessions -> Viewers \cup {Nobody}]
      /\ started \in [Sessions -> Nat] /\ last \in [Sessions -> Nat] /\ now \in Nat
      /\ \A x \in Sessions : started[x] <= last[x] /\ last[x] <= now
  BY DEF WatchInv, WatchTypeOK, RowOK
<1>3. SUFFICES ASSUME NEW v \in Viewers, SessionsOf(v)' # {}
               PROVE  \E a, b \in SessionsOf(v)' : Spans(v, a, b)'
  BY DEF TimeIsReal
<1>4. Credited(v)' = Credited(v) /\ Credited(v) \in Nat
  BY CreditedChange
<1>5. CASE v # u
  <2>1. SessionsOf(v)' = SessionsOf(v) /\ s \notin SessionsOf(v)
    BY <1>1, <1>2, <1>5, WatchAssumption DEF SessionsOf
  <2>2. PICK a \in SessionsOf(v), b \in SessionsOf(v) : Spans(v, a, b)
    BY <1>3, <2>1 DEF TimeIsReal
  <2>3. \A x \in SessionsOf(v) : started'[x] = started[x] /\ last'[x] = last[x]
    BY <1>1, <1>2, <2>1 DEF SessionsOf
  <2>4. Spans(v, a, b)'
    BY <1>4, <2>1, <2>2, <2>3 DEF Spans
  <2> QED
    BY <2>1, <2>4
<1>6. CASE v = u
  <2>1. SessionsOf(v)' = SessionsOf(v) \cup {s} /\ s \notin SessionsOf(v)
    BY <1>1, <1>2, <1>6 DEF SessionsOf
  <2>2. /\ started'[s] = now /\ last'[s] = now
        /\ \A x \in SessionsOf(v) :
              x \in Sessions /\ started'[x] = started[x] /\ last'[x] = last[x]
    BY <1>1, <1>2, <2>1 DEF SessionsOf
  <2>3. CASE SessionsOf(v) = {}
    <3>1. Credited(v) = 0
      BY <2>3, SumEmpty DEF Credited, Sum
    <3>2. Spans(v, s, s)'
      BY <1>2, <1>4, <2>1, <2>2, <2>3, <3>1 DEF Spans
    <3> QED
      BY <2>1, <3>2
  <2>4. CASE SessionsOf(v) # {}
    <3>1. PICK a \in SessionsOf(v), b \in SessionsOf(v) : Spans(v, a, b)
      BY <2>4 DEF TimeIsReal
    <3>2. started[a] \in Nat /\ last[b] \in Nat /\ last[b] <= now /\ started[a] <= now
      BY <1>2, <2>2
    <3>3. \A x \in SessionsOf(v)' : started'[a] <= started'[x] /\ last'[x] <= last'[s]
      BY <1>2, <2>1, <2>2, <3>1, <3>2 DEF Spans
    <3>4. Credited(v)' <= last'[s] - started'[a]
      BY <1>2, <1>4, <2>2, <3>1, <3>2 DEF Spans
    <3>5. Spans(v, a, s)'
      BY <3>3, <3>4 DEF Spans
    <3> QED
      BY <2>1, <3>5
  <2> QED
    BY <2>3, <2>4
<1> QED
  BY <1>5, <1>6

(* A heartbeat counts no more than the time since the latest one. *)
LEMMA HeartbeatKeepsTime ==
    ASSUME WatchInv, TimeIsReal, [WatchNext]_vars, NEW r \in Requests, Heartbeat(r)
    PROVE  TimeIsReal'
<1>1. PICK s \in Sessions :
          /\ owner[s] \in Viewers /\ active[s]
          /\ Credit(s) \in 0..MaxCredit /\ Credit(s) <= now - last[s]
          /\ accumulated' = [accumulated EXCEPT ![s] = @ + Credit(s)]
          /\ last' = [last EXCEPT ![s] = now]
  BY HeartbeatEffect
<1>2. UNCHANGED <<owner, started>>
  BY DEF Heartbeat
<1>3. /\ started \in [Sessions -> Nat] /\ last \in [Sessions -> Nat] /\ now \in Nat
      /\ \A x \in Sessions : started[x] <= last[x] /\ last[x] <= now
      /\ Credit(s) \in Nat
  BY <1>1, WatchAssumption DEF WatchInv, WatchTypeOK, RowOK
<1>4. SUFFICES ASSUME NEW v \in Viewers, SessionsOf(v)' # {}
               PROVE  \E a, b \in SessionsOf(v)' : Spans(v, a, b)'
  BY DEF TimeIsReal
<1>5. SessionsOf(v)' = SessionsOf(v)
  BY <1>2 DEF SessionsOf
<1>6. /\ Credited(v) \in Nat
      /\ Credited(v)' = IF owner[s] = v THEN Credited(v) + Credit(s) ELSE Credited(v)
  BY <1>1, <1>2, <1>3, CreditedChange
<1>7. PICK a \in SessionsOf(v), b \in SessionsOf(v) : Spans(v, a, b)
  BY <1>4, <1>5 DEF TimeIsReal
<1>8. CASE owner[s] # v
  <2>1. \A x \in SessionsOf(v) : last'[x] = last[x]
    BY <1>1, <1>3, <1>8 DEF SessionsOf
  <2> QED
    BY <1>2, <1>5, <1>6, <1>7, <1>8, <2>1 DEF Spans
<1>9. CASE owner[s] = v
  <2>1. s \in SessionsOf(v) /\ a \in Sessions /\ b \in Sessions /\ owner[b] = v
    BY <1>9 DEF SessionsOf
  <2>2. last[b] <= last[s]
    BY <1>1, <1>9, <2>1 DEF WatchInv, LatestIsActive
  <2>3. \A x \in SessionsOf(v) : x \in Sessions /\ last'[x] <= now
    BY <1>1, <1>3 DEF SessionsOf
  <2>4. last'[s] = now
    BY <1>1, <1>3
  <2>5. Credited(v)' <= last'[s] - started[a]
    <3>1. last[b] \in Nat /\ last[s] \in Nat /\ started[a] \in Nat
      BY <1>3, <2>1
    <3>2. Credited(v) <= last[b] - started[a]
      BY <1>7 DEF Spans
    <3> QED
      BY <1>1, <1>3, <1>6, <1>9, <2>2, <2>4, <3>1, <3>2
  <2>6. Spans(v, a, s)'
    BY <1>2, <1>5, <1>7, <2>3, <2>4, <2>5 DEF Spans
  <2> QED
    BY <1>5, <2>1, <2>6
<1> QED
  BY <1>8, <1>9

(* What a viewer is credited fits between two times of his sessions, in every state. *)
LEMMA TimeIsRealHolds == WatchSpec => []TimeIsReal
<1>1. WatchInit => TimeIsReal
  BY WatchAssumption DEF WatchInit, TimeIsReal, SessionsOf
<1>2. WatchInv /\ TimeIsReal /\ [WatchNext]_vars => TimeIsReal'
  <2> SUFFICES ASSUME WatchInv, TimeIsReal, [WatchNext]_vars
               PROVE  TimeIsReal'
    OBVIOUS
  <2>1. CASE UNCHANGED <<owner, started, last, accumulated>>
    <3>1. \A v \in Viewers : Credited(v)' = Credited(v) /\ SessionsOf(v)' = SessionsOf(v)
      BY <2>1, CreditedChange DEF SessionsOf
    <3> QED
      BY <2>1, <3>1 DEF TimeIsReal, Spans
  <2> QED
    BY <2>1, OpenKeepsTime, HeartbeatKeepsTime, RowSteps DEF Waits, rows, EndSession, RecordClick
<1> QED
  BY <1>1, <1>2, WatchInvHolds, PTL DEF WatchSpec

(***************************************************************************)
(* WatchTimeIsReal holds for any viewers, rows and races of the calls: the *)
(* time credited is never more than the time that passed.                  *)
(***************************************************************************)
THEOREM CreditedTimePassed == WatchSpec => []WatchTimeIsReal
<1>1. WatchInv /\ TimeIsReal => WatchTimeIsReal
  <2> SUFFICES ASSUME WatchInv, TimeIsReal, NEW v \in Viewers, SessionsOf(v) # {}
               PROVE  Credited(v) <= Max({last[s] : s \in SessionsOf(v)})
                                         - Min({started[s] : s \in SessionsOf(v)})
    BY DEF WatchTimeIsReal, Credited
  <2> DEFINE S == SessionsOf(v)
             Ends == {last[s] : s \in S}
             Begins == {started[s] : s \in S}
  <2>1. PICK a \in S, b \in S : Spans(v, a, b)
    BY DEF TimeIsReal
  <2>2. \A x \in S : x \in Sessions /\ last[x] \in Nat /\ started[x] \in Nat
    BY DEF WatchInv, WatchTypeOK, SessionsOf
  <2>3. Credited(v) \in Nat
    <3>1. IsFiniteSet(S) /\ \A x \in S : accumulated[x] \in Nat
      BY <2>2, FS_Subset, WatchAssumption DEF WatchInv, WatchTypeOK, SessionsOf
    <3> QED
      BY <3>1, SumNatural DEF Credited, Sum
  <2>4. /\ Ends \in SUBSET Int /\ Begins \in SUBSET Int
        /\ last[b] \in Ends /\ started[a] \in Begins
    BY <2>1, <2>2
  <2>5. IsFiniteSet(Ends) /\ IsFiniteSet(Begins)
    <3>1. IsFiniteSet(S)
      BY <2>2, FS_Subset, WatchAssumption
    <3> QED
      BY <3>1, ValuesFinite DEF Ends, Begins
  <2> HIDE DEF Ends, Begins
  <2>6. last[b] <= Max(Ends) /\ Max(Ends) \in Int
    BY <2>4, <2>5, MaxIsGreatest
  <2>7. Min(Begins) <= started[a] /\ Min(Begins) \in Int
    BY <2>4, <2>5, MinIsLeast
  <2>8. Credited(v) <= Max(Ends) - Min(Begins)
    BY <2>1, <2>2, <2>3, <2>6, <2>7 DEF Spans
  <2> QED
    BY <2>8 DEF Ends, Begins
<1> QED
  BY <1>1, WatchInvHolds, TimeIsRealHolds, PTL

-----------------------------------------------------------------------------
(* The statistics.                                                           *)

(* The handlers that still owe the statistics of v, and what they owe. *)
Owing(v) == {r \in Requests : pc[r] \in {"stats", "book"} /\ who[r] = v}
Owed(v) == Sum(owed, Owing(v))

(* What is owed to the statistics is a number. *)
LEMMA OwedNatural == ASSUME WatchInv, NEW v PROVE Owed(v) \in Nat
<1>1. IsFiniteSet(Owing(v))
  BY WatchAssumption, FS_Subset DEF Owing
<1>2. \A r \in Owing(v) : owed[r] \in Nat
  BY WatchAssumption DEF WatchInv, WatchTypeOK, Owing
<1> QED
  BY <1>1, <1>2, SumNatural DEF Owed, Sum

(* One handler changes; the others and what they owe do not. *)
LEMMA OneHandlerOwes ==
    ASSUME WatchInv, WatchInv', NEW v, NEW r \in Requests,
           \A q \in Requests \ {r} : pc'[q] = pc[q] /\ who'[q] = who[q] /\ owed'[q] = owed[q]
    PROVE  Owed(v)' = Owed(v) - (IF r \in Owing(v) THEN owed[r] ELSE 0)
                              + (IF r \in Owing(v)' THEN owed'[r] ELSE 0)
<1> DEFINE P == Owing(v)
           Q == Owing(v)'
           e == owed'
<1>1. /\ P \in SUBSET Requests /\ Q \in SUBSET Requests /\ IsFiniteSet(Requests)
      /\ \A q \in Requests \ {r} : e[q] = owed[q] /\ (q \in Q <=> q \in P)
  BY WatchAssumption DEF Owing
<1>2. \A q \in Requests : owed[q] \in Int /\ e[q] \in Int
  BY WatchAssumption DEF WatchInv, WatchTypeOK
<1> HIDE DEF P, Q, e
<1>3. SumFunctionOnSet(e, Q) = SumFunctionOnSet(owed, P)
          - (IF r \in P THEN owed[r] ELSE 0) + (IF r \in Q THEN e[r] ELSE 0)
  BY <1>1, <1>2, SumMember
<1> QED
  BY <1>3 DEF P, Q, e, Owed, Sum

(* StatsFollowSessions for the viewer v. *)
StatOK(v) == watchStat[v] + Owed(v) <= Credited(v)
AllBooked == Sum(broadcastStat, Streamers) + unattended = Sum(watchStat, Viewers)
StatsOK == (\A v \in Viewers : StatOK(v)) /\ AllBooked

(* A call that owes nothing before and after owes nothing in between. *)
LEMMA FreeHandler ==
    ASSUME WatchInv, WatchInv', NEW r \in Requests,
           pc[r] \notin {"stats", "book"}, pc'[r] \notin {"stats", "book"},
           \A q \in Requests \ {r} : pc'[q] = pc[q] /\ who'[q] = who[q] /\ owed'[q] = owed[q]
    PROVE  \A v \in Viewers : Owed(v)' = Owed(v)
<1> SUFFICES ASSUME NEW v \in Viewers
             PROVE  Owed(v)' = Owed(v)
  OBVIOUS
<1>1. r \notin Owing(v) /\ r \notin Owing(v)'
  BY DEF Owing
<1>2. Owed(v) \in Nat
  BY OwedNatural
<1>3. Owed(v)' = Owed(v) - (IF r \in Owing(v) THEN owed[r] ELSE 0)
                         + (IF r \in Owing(v)' THEN owed'[r] ELSE 0)
  BY OneHandlerOwes
<1> QED
  BY <1>1, <1>2, <1>3

(* A heartbeat's seconds are credited and owed in the same commit. *)
LEMMA HeartbeatOwes ==
    ASSUME WatchInv, WatchInv', StatsOK, [WatchNext]_vars, NEW r \in Requests, Heartbeat(r)
    PROVE  StatsOK'
<1>1. PICK s \in Sessions :
          /\ owner[s] \in Viewers
          /\ Credit(s) \in 0..MaxCredit
          /\ accumulated' = [accumulated EXCEPT ![s] = @ + Credit(s)]
          /\ who' = [who EXCEPT ![r] = owner[s]]
          /\ owed' = [owed EXCEPT ![r] = Credit(s)]
  BY HeartbeatEffect
<1>2. /\ pc[r] = "idle" /\ pc' = [pc EXCEPT ![r] = "stats"]
      /\ UNCHANGED <<owner, watchStat, broadcastStat, unattended>>
  BY DEF Heartbeat, stats
<1>3. /\ pc \in [Requests -> {"idle", "start", "stats", "book"}]
      /\ who \in [Requests -> Viewers \cup {Nobody}] /\ owed \in [Requests -> 0..MaxCredit]
      /\ Credit(s) \in Nat
  BY <1>1, WatchAssumption DEF WatchInv, WatchTypeOK
<1>4. /\ \A q \in Requests \ {r} : pc'[q] = pc[q] /\ who'[q] = who[q] /\ owed'[q] = owed[q]
      /\ pc'[r] = "stats" /\ who'[r] = owner[s] /\ owed'[r] = Credit(s)
  BY <1>1, <1>2, <1>3
<1>5. ASSUME NEW v \in Viewers
      PROVE  StatOK(v)'
  <2>1. /\ r \notin Owing(v)
        /\ r \in Owing(v)' <=> owner[s] = v
    BY <1>2, <1>4 DEF Owing
  <2>2. /\ Owed(v) \in Nat /\ Credited(v) \in Nat /\ watchStat[v] \in Nat
        /\ watchStat'[v] = watchStat[v]
    BY <1>2, OwedNatural, CreditedChange DEF WatchInv, WatchTypeOK
  <2>3. Owed(v)' = IF owner[s] = v THEN Owed(v) + Credit(s) ELSE Owed(v)
    <3>1. Owed(v)' = Owed(v) - (IF r \in Owing(v) THEN owed[r] ELSE 0)
                             + (IF r \in Owing(v)' THEN owed'[r] ELSE 0)
      BY <1>4, OneHandlerOwes
    <3> QED
      BY <1>3, <1>4, <2>1, <2>2, <3>1
  <2>4. Credited(v)' = IF owner[s] = v THEN Credited(v) + Credit(s) ELSE Credited(v)
    BY <1>1, <1>2, <1>3, CreditedChange
  <2>5. watchStat[v] + Owed(v) <= Credited(v)
    BY DEF StatsOK, StatOK
  <2>6. watchStat'[v] + Owed(v)' <= Credited(v)'
    BY <1>3, <2>2, <2>3, <2>4, <2>5
  <2> QED
    BY <2>6 DEF StatOK
<1>6. AllBooked'
  BY <1>2 DEF StatsOK, AllBooked, Sum
<1> QED
  BY <1>5, <1>6 DEF StatsOK

(* Any other step touches neither the credited seconds, nor the owed, nor the statistics. *)
LEMMA OtherStepsKeepStats ==
    ASSUME StatsOK, UNCHANGED <<watchStat, broadcastStat, unattended>>,
           \A v \in Viewers : Owed(v)' = Owed(v) /\ Credited(v)' = Credited(v)
    PROVE  StatsOK'
  BY DEF StatsOK, StatOK, AllBooked, Sum

(* Booked seconds are added to the viewer's total and to one of the others. *)
LEMMA BookingAddsUp ==
    ASSUME WatchInv, StatsOK, NEW r \in Requests, AddHeartbeatTime(r)
    PROVE  AllBooked'
<1>1. /\ who[r] \in Viewers /\ owed[r] \in Nat
      /\ watchStat \in [Viewers -> Nat] /\ broadcastStat \in [Streamers -> Nat]
      /\ unattended \in Nat
      /\ IsFiniteSet(Viewers) /\ IsFiniteSet(Streamers)
      /\ Booked(r) \/ UNCHANGED <<watchStat, broadcastStat, unattended>>
  BY BookingFits, WatchAssumption DEF WatchInv, WatchTypeOK
<1>2. /\ SumFunctionOnSet(watchStat, Viewers) \in Nat
      /\ SumFunctionOnSet(broadcastStat, Streamers) \in Nat
  BY <1>1, SumNatural
<1>3. SumFunctionOnSet(broadcastStat, Streamers) + unattended = SumFunctionOnSet(watchStat, Viewers)
  BY DEF StatsOK, AllBooked, Sum
<1>4. CASE UNCHANGED <<watchStat, broadcastStat, unattended>>
  BY <1>3, <1>4 DEF AllBooked, Sum
<1>5. CASE Booked(r)
  <2>1. ASSUME NEW S, IsFiniteSet(S), NEW f \in [S -> Nat], NEW x \in S, NEW n \in Nat
        PROVE  SumFunctionOnSet([f EXCEPT ![x] = @ + n], S) = SumFunctionOnSet(f, S) + n
    <3> DEFINE e == [f EXCEPT ![x] = @ + n]
    <3>1. /\ \A y \in S : f[y] \in Int /\ e[y] \in Int
          /\ \A y \in S \ {x} : e[y] = f[y]
          /\ e[x] = f[x] + n /\ f[x] \in Nat
      BY <2>1
    <3> HIDE DEF e
    <3>2. SumFunctionOnSet(e, S) = SumFunctionOnSet(f, S) - f[x] + e[x]
      BY <2>1, <3>1, SumChange
    <3>3. SumFunctionOnSet(f, S) \in Nat
      BY <2>1, SumNatural
    <3>4. SumFunctionOnSet(e, S) = SumFunctionOnSet(f, S) + n
      BY <3>1, <3>2, <3>3
    <3> QED
      BY <3>4 DEF e
  <2>2. SumFunctionOnSet(watchStat', Viewers) = SumFunctionOnSet(watchStat, Viewers) + owed[r]
    <3>1. watchStat' = [watchStat EXCEPT ![who[r]] = @ + owed[r]]
      BY <1>5 DEF Booked
    <3>2. SumFunctionOnSet([watchStat EXCEPT ![who[r]] = @ + owed[r]], Viewers)
              = SumFunctionOnSet(watchStat, Viewers) + owed[r]
      BY <1>1, <2>1
    <3> QED
      BY <3>1, <3>2
  <2>3. CASE unattended' = unattended + owed[r] /\ UNCHANGED broadcastStat
    BY <1>1, <1>2, <1>3, <2>2, <2>3 DEF AllBooked, Sum
  <2>4. ASSUME NEW m \in Streamers,
               broadcastStat' = [broadcastStat EXCEPT ![m] = @ + owed[r]], UNCHANGED unattended
        PROVE  AllBooked'
    <3>1. SumFunctionOnSet([broadcastStat EXCEPT ![m] = @ + owed[r]], Streamers)
              = SumFunctionOnSet(broadcastStat, Streamers) + owed[r]
      BY <1>1, <2>1
    <3>2. SumFunctionOnSet(broadcastStat', Streamers)
              = SumFunctionOnSet(broadcastStat, Streamers) + owed[r]
      BY <2>4, <3>1
    <3> QED
      BY <1>1, <1>2, <1>3, <2>2, <2>4, <3>2 DEF AllBooked, Sum
  <2> QED
    BY <1>5, <2>3, <2>4 DEF Booked
<1> QED
  BY <1>1, <1>4, <1>5

(* What is recorded is no longer owed. *)
LEMMA RecordingOwesLess ==
    ASSUME WatchInv, WatchInv', StatsOK, [WatchNext]_vars, NEW r \in Requests, AddHeartbeatTime(r)
    PROVE  StatsOK'
<1>1. /\ pc[r] = "book" /\ Finish(r) /\ UNCHANGED <<owner, accumulated>>
      /\ watchStat' = [watchStat EXCEPT ![who[r]] = @ + owed[r]] \/ UNCHANGED watchStat
      /\ who[r] \in Viewers /\ owed[r] \in Nat
  BY BookingFits DEF Booked
<1>2. watchStat \in [Viewers -> Nat]
  BY DEF WatchInv, WatchTypeOK
<1>3. /\ \A q \in Requests \ {r} : pc'[q] = pc[q] /\ who'[q] = who[q] /\ owed'[q] = owed[q]
      /\ pc'[r] = "idle"
  BY <1>1 DEF Finish, WatchInv, WatchTypeOK
<1>4. ASSUME NEW v \in Viewers
      PROVE  StatOK(v)'
  <2>1. /\ r \notin Owing(v)'
        /\ r \in Owing(v) <=> who[r] = v
    BY <1>1, <1>3 DEF Owing
  <2>2. /\ Owed(v) \in Nat /\ Credited(v) \in Nat /\ watchStat[v] \in Nat
        /\ Credited(v)' = Credited(v)
    BY <1>1, OwedNatural, CreditedChange DEF WatchInv, WatchTypeOK
  <2>3. Owed(v)' = Owed(v) - (IF r \in Owing(v) THEN owed[r] ELSE 0)
                           + (IF r \in Owing(v)' THEN owed'[r] ELSE 0)
    BY <1>3, OneHandlerOwes
  <2>4. Owed(v)' = IF who[r] = v THEN Owed(v) - owed[r] ELSE Owed(v)
    BY <1>1, <2>1, <2>2, <2>3
  <2>5. watchStat'[v] = watchStat[v] \/ (who[r] = v /\ watchStat'[v] = watchStat[v] + owed[r])
    BY <1>1, <1>2
  <2>6. watchStat[v] + Owed(v) <= Credited(v)
    BY DEF StatsOK, StatOK
  <2>7. watchStat'[v] + Owed(v)' <= Credited(v)'
    BY <1>1, <2>2, <2>4, <2>5, <2>6
  <2> QED
    BY <2>7 DEF StatOK
<1> QED
  BY <1>4, BookingAddsUp DEF StatsOK

(* Who holds the channel is read, and the seconds stay owed; or the call fails. *)
LEMMA LookingUpOwes ==
    ASSUME WatchInv, WatchInv', StatsOK, [WatchNext]_vars, NEW r \in Requests, LookUpStreamer(r)
    PROVE  StatsOK'
<1>1. /\ pc[r] = "stats"
      /\ UNCHANGED <<owner, accumulated, watchStat, broadcastStat, unattended>>
      /\ \/ pc' = [pc EXCEPT ![r] = "book"] /\ UNCHANGED <<who, owed>>
         \/ Finish(r)
  BY DEF LookUpStreamer, rows, stats
<1>2. CASE pc' = [pc EXCEPT ![r] = "book"] /\ UNCHANGED <<who, owed>>
  <2>1. \A v \in Viewers : Owing(v)' = Owing(v)
    BY <1>1, <1>2 DEF Owing, WatchInv, WatchTypeOK
  <2>2. \A v \in Viewers : Owed(v)' = Owed(v) /\ Credited(v)' = Credited(v)
    BY <1>1, <1>2, <2>1, CreditedChange DEF Owed, Sum
  <2> QED
    BY <1>1, <2>2, OtherStepsKeepStats
<1>3. CASE Finish(r)
  <2>1. /\ \A q \in Requests \ {r} : pc'[q] = pc[q] /\ who'[q] = who[q] /\ owed'[q] = owed[q]
        /\ pc'[r] = "idle"
    BY <1>3 DEF Finish, WatchInv, WatchTypeOK
  <2>2. ASSUME NEW v \in Viewers
        PROVE  StatOK(v)'
    <3>1. Owed(v)' = Owed(v) - (IF r \in Owing(v) THEN owed[r] ELSE 0)
                             + (IF r \in Owing(v)' THEN owed'[r] ELSE 0)
      BY <2>1, OneHandlerOwes
    <3>2. r \notin Owing(v)'
      BY <2>1 DEF Owing
    <3>3. /\ Owed(v) \in Nat /\ Credited(v) \in Nat /\ watchStat[v] \in Nat
          /\ Credited(v)' = Credited(v) /\ owed[r] \in Nat
      BY <1>1, OwedNatural, CreditedChange, WatchAssumption DEF WatchInv, WatchTypeOK
    <3>4. Owed(v)' <= Owed(v) /\ Owed(v)' \in Int
      BY <3>1, <3>2, <3>3
    <3>5. watchStat[v] + Owed(v) <= Credited(v)
      BY DEF StatsOK, StatOK
    <3>6. watchStat'[v] + Owed(v)' <= Credited(v)'
      BY <1>1, <3>3, <3>4, <3>5
    <3> QED
      BY <3>6 DEF StatOK
  <2> QED
    BY <1>1, <2>2 DEF StatsOK, AllBooked, Sum
<1> QED
  BY <1>1, <1>2, <1>3

(* A crash forgets what was owed. *)
LEMMA CrashOwesNothing ==
    ASSUME WatchInv, WatchInv', StatsOK, [WatchNext]_vars, Crash
    PROVE  StatsOK'
<1>1. /\ pc' = [q \in Requests |-> "idle"]
      /\ UNCHANGED <<owner, accumulated, watchStat, broadcastStat, unattended>>
  BY DEF Crash, rows, stats
<1>2. ASSUME NEW v \in Viewers
      PROVE  StatOK(v)'
  <2>1. Owing(v)' = {}
    BY <1>1 DEF Owing
  <2>2. Owed(v)' = 0
    BY <2>1, SumEmpty DEF Owed, Sum
  <2>3. /\ Owed(v) \in Nat /\ Credited(v) \in Nat /\ watchStat[v] \in Nat
        /\ Credited(v)' = Credited(v)
    BY <1>1, OwedNatural, CreditedChange DEF WatchInv, WatchTypeOK
  <2> QED
    BY <1>1, <2>2, <2>3 DEF StatsOK, StatOK
<1> QED
  BY <1>1, <1>2 DEF StatsOK, AllBooked, Sum

(***************************************************************************)
(* StatsFollowSessions holds for any viewers, streamers and handlers,      *)
(* whatever of the second transactions fail or are lost in a crash, and    *)
(* whoever holds the channel when one of them looks (addBroadcastTime).    *)
(***************************************************************************)
THEOREM StatisticsFollow == WatchSpec => []StatsFollowSessions
<1>1. WatchInit => StatsOK
  <2> SUFFICES ASSUME WatchInit
               PROVE  StatsOK
    OBVIOUS
  <2>1. ASSUME NEW v \in Viewers
        PROVE  StatOK(v)
    <3>1. Owing(v) = {} /\ SessionsOf(v) = {} /\ watchStat[v] = 0
      BY WatchAssumption DEF WatchInit, Owing, SessionsOf
    <3>2. Owed(v) = 0 /\ Credited(v) = 0
      BY <3>1, SumEmpty DEF Owed, Credited, Sum
    <3> QED
      BY <3>1, <3>2 DEF StatOK
  <2>2. /\ IsFiniteSet(Viewers) /\ (\A v \in Viewers : watchStat[v] = 0)
        /\ IsFiniteSet(Streamers) /\ (\A m \in Streamers : broadcastStat[m] = 0)
        /\ unattended = 0
    BY WatchAssumption DEF WatchInit
  <2>3. SumFunctionOnSet(watchStat, Viewers) = 0 /\ SumFunctionOnSet(broadcastStat, Streamers) = 0
    BY <2>2, SumZero
  <2>4. AllBooked
    BY <2>2, <2>3 DEF AllBooked, Sum
  <2> QED
    BY <2>1, <2>4 DEF StatsOK
<1>2. WatchInv /\ WatchInv' /\ StatsOK /\ [WatchNext]_vars => StatsOK'
  <2> SUFFICES ASSUME WatchInv, WatchInv', StatsOK, [WatchNext]_vars
               PROVE  StatsOK'
    OBVIOUS
  <2>1. ASSUME UNCHANGED calls
        PROVE  \A v \in Viewers : Owed(v)' = Owed(v)
    BY <2>1 DEF calls, Owed, Owing
  <2>2. ASSUME UNCHANGED <<owner, accumulated>> \/ \E s, u : Opens(s, u)
        PROVE  \A v \in Viewers : Credited(v)' = Credited(v)
    BY <2>2, CreditedChange
  <2>3. CASE UNCHANGED vars
    BY <2>1, <2>2, <2>3, OtherStepsKeepStats DEF vars, rows, stats
  <2>4. ASSUME NEW r \in Requests, StartLook(r)
        PROVE  StatsOK'
    <3>1. /\ pc[r] \notin {"stats", "book"} /\ pc'[r] \notin {"stats", "book"}
          /\ \A q \in Requests \ {r} : pc'[q] = pc[q] /\ who'[q] = who[q] /\ owed'[q] = owed[q]
      BY <2>4 DEF StartLook, WatchInv, WatchTypeOK
    <3>2. UNCHANGED <<owner, accumulated, watchStat, broadcastStat, unattended>>
      BY <2>4 DEF StartLook, rows, stats
    <3> QED
      BY <2>2, <3>1, <3>2, FreeHandler, OtherStepsKeepStats
  <2>5. ASSUME NEW r \in Requests, StartFound(r) \/ StartInsert(r)
        PROVE  StatsOK'
    <3>1. pc[r] = "start" /\ Finish(r) /\ UNCHANGED <<watchStat, broadcastStat, unattended>>
      BY <2>5 DEF StartFound, StartInsert, stats
    <3>2. /\ pc'[r] \notin {"stats", "book"}
          /\ \A q \in Requests \ {r} : pc'[q] = pc[q] /\ who'[q] = who[q] /\ owed'[q] = owed[q]
      BY <3>1 DEF Finish, WatchInv, WatchTypeOK
    <3>3. UNCHANGED <<owner, accumulated>> \/ \E s, u : Opens(s, u)
      <4>1. UNCHANGED accumulated
        BY <2>5 DEF StartFound, StartInsert, rows, Insert
      <4>2. ASSUME NEW q \in Requests, Heartbeat(q)
            PROVE  FALSE
        BY <3>1, <3>2, <4>2 DEF Heartbeat, WatchInv, WatchTypeOK
      <4> QED
        BY <4>1, <4>2, RowSteps DEF Waits, rows, EndSession, RecordClick
    <3>4. \A v \in Viewers : Owed(v)' = Owed(v)
      BY <3>1, <3>2, FreeHandler
    <3> QED
      BY <2>2, <3>1, <3>3, <3>4, OtherStepsKeepStats
  <2>6. ASSUME NEW r \in Requests, Heartbeat(r) \/ LookUpStreamer(r) \/ AddHeartbeatTime(r)
        PROVE  StatsOK'
    BY <2>6, HeartbeatOwes, LookingUpOwes, RecordingOwesLess
  <2>7. ASSUME NEW v \in Viewers, EndSession(v) \/ RecordClick(v)
        PROVE  StatsOK'
    BY <2>1, <2>2, <2>7, OtherStepsKeepStats DEF EndSession, RecordClick, stats
  <2>8. CASE UpdateChannelConfig \/ Tick \/ LeaveChannel \/ \E m \in Streamers : TakeChannel(m)
    BY <2>1, <2>2, <2>8, OtherStepsKeepStats
    DEF UpdateChannelConfig, Tick, LeaveChannel, TakeChannel, rows, stats
  <2> QED
    BY <2>3, <2>4, <2>5, <2>6, <2>7, <2>8, CrashOwesNothing DEF WatchNext
<1>3. StatsOK => StatsFollowSessions
  BY DEF StatsOK, StatOK, AllBooked, StatsFollowSessions, Owed, Owing, Credited
<1> QED
  BY <1>1, <1>2, <1>3, WatchInvHolds, PTL DEF WatchSpec
=============================================================================
