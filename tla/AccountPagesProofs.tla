------------------------- MODULE AccountPagesProofs --------------------------
(***************************************************************************)
(* Proofs about the pages of addresses, channels and prizes, one part for  *)
(* each page, then about the three together; about the links that verify   *)
(* and recover an account; and about the scheduler that takes the          *)
(* snapshots of the raffles.                                               *)
(***************************************************************************)
EXTENDS AccountPages, AccountRecovery, RaffleScheduler, SequenceTheorems, FiniteSetTheorems, TLAPS

(* Addresses. *)

(* A call of this page, once it is under way. *)
BookCalls ==
    {Idle} \cup [op : {"clear", "wait", "save"}, addr : Addresses, default : BOOLEAN,
                 skips : BOOLEAN, sees : SUBSET Addresses, locks : SUBSET Addresses]

(* Rows and calls are of their kinds. *)
BookTypeOK ==
    /\ address \in [Addresses -> [state : {"none", "live", "deleted"}, default : BOOLEAN]]
    /\ crossed \in BOOLEAN
    /\ call \in [Requests -> BookCalls]

(***************************************************************************)
(* Unless calls crossed, a call that will make a default clears all the    *)
(* other addresses or, if it clears none, no other is the default.         *)
(***************************************************************************)
ClearsOthers(r) ==
    /\ call[r].skips => call[r].op = "save" /\ Defaults \subseteq {call[r].addr}
    /\ call[r].op = "wait" => Live \ {call[r].addr} \subseteq call[r].sees
    /\ call[r].op = "save" /\ ~call[r].skips => Live \ {call[r].addr} \subseteq call[r].locks

BookInv ==
    /\ BookTypeOK
    /\ ~crossed => \A r \in Defaulting : ClearsOthers(r)
    /\ OneDefault

(* The fields of a call under way. *)
LEMMA BookFields ==
    ASSUME BookTypeOK, NEW r \in Requests
    PROVE  /\ call[r] \in BookCalls /\ Idle \in BookCalls /\ Idle.op = "idle"
           /\ call[r].op \in {"clear", "wait", "save"} =>
                /\ call[r].addr \in Addresses /\ call[r].default \in BOOLEAN
                /\ call[r].skips \in BOOLEAN
                /\ call[r].sees \in SUBSET Addresses /\ call[r].locks \in SUBSET Addresses
<1>1. call[r] \in BookCalls /\ Idle \in BookCalls /\ Idle.op = "idle"
  BY DEF BookTypeOK, BookCalls, Idle
<1> QED
  BY <1>1 DEF BookCalls

(* What the calls are after one of them changed. *)
LEMMA BookBecomes ==
    ASSUME BookTypeOK, NEW r \in Requests, NEW k \in BookCalls, Become(r, k)
    PROVE  /\ call' \in [Requests -> BookCalls]
           /\ call'[r] = k
           /\ \A q \in Requests \ {r} : call'[q] = call[q]
<1> QED
  BY DEF BookTypeOK, Become

(* A call that changes no row, and clears the others itself if it must. *)
LEMMA BookCallStep ==
    ASSUME BookInv, NEW r \in Requests, NEW k \in BookCalls, Become(r, k), UNCHANGED bookVars,
           ~crossed /\ k.op \in {"clear", "wait", "save"} /\ k.default =>
              /\ k.skips => k.op = "save" /\ Defaults \subseteq {k.addr}
              /\ k.op = "wait" => Live \ {k.addr} \subseteq k.sees
              /\ k.op = "save" /\ ~k.skips => Live \ {k.addr} \subseteq k.locks
    PROVE  BookInv'
<1>1. /\ call' \in [Requests -> BookCalls] /\ call'[r] = k
      /\ \A q \in Requests \ {r} : call'[q] = call[q]
  BY BookBecomes DEF BookInv
<1>2. Live' = Live /\ Defaults' = Defaults /\ UNCHANGED <<address, crossed>>
  BY DEF bookVars, Live, Defaults
<1>3. BookTypeOK'
  BY <1>1, <1>2 DEF BookInv, BookTypeOK
<1>4. ASSUME ~crossed, NEW q \in Requests, q \in Defaulting' PROVE ClearsOthers(q)'
  <2>1. CASE q = r
    BY <1>1, <1>2, <1>4, <2>1 DEF Defaulting, ClearsOthers
  <2>2. CASE q # r
    <3>1. call'[q] = call[q] /\ q \in Defaulting
      BY <1>1, <1>4, <2>2 DEF Defaulting
    <3>2. ClearsOthers(q)
      BY <1>4, <3>1 DEF BookInv
    <3> QED
      BY <1>2, <3>1, <3>2 DEF ClearsOthers
  <2> QED
    BY <2>1, <2>2
<1>5. Defaulting' \subseteq Requests
  BY DEF Defaulting
<1>6. OneDefault'
  BY <1>2 DEF BookInv, OneDefault
<1> QED
  BY <1>2, <1>3, <1>4, <1>5, <1>6 DEF BookInv

(* No address is there, so none is the default. *)
LEMMA BookInitInv == CallsInit /\ BookInit => BookInv
<1> SUFFICES ASSUME CallsInit, BookInit PROVE BookInv
  OBVIOUS
<1>1. BookTypeOK
  BY DEF CallsInit, BookInit, BookTypeOK, BookCalls, Row
<1>2. Live = {} /\ Defaults = {}
  BY DEF BookInit, Live, Defaults, Row
<1>3. Defaulting = {}
  BY DEF CallsInit, Defaulting, Idle
<1> QED
  BY <1>1, <1>2, <1>3 DEF BookInv, OneDefault

(* A save and what it clears leave at most one default. *)
LEMMA SaveStep ==
    ASSUME BookInv, NEW r \in Requests, Save(r)
    PROVE  BookInv'
<1> DEFINE a == call[r].addr
           d == call[r].default
<1>1. /\ call[r].op = "save" /\ a \in Addresses /\ d \in BOOLEAN
      /\ call[r].skips \in BOOLEAN /\ call[r].locks \in SUBSET Addresses
  BY BookFields DEF BookInv, Save
<1>2. /\ call' \in [Requests -> BookCalls] /\ call'[r] = Idle /\ Idle.op = "idle"
      /\ \A q \in Requests \ {r} : call'[q] = call[q]
  BY BookFields, BookBecomes DEF BookInv, Save, Finish
<1>3. /\ address' = [b \in Addresses |->
                        IF b = a THEN Row("live", d)
                        ELSE IF b \in call[r].locks THEN [address[b] EXCEPT !.default = FALSE]
                        ELSE address[b]]
      /\ crossed' = (crossed \/ Crosses(r))
  BY DEF Save
<1>4. BookTypeOK'
  <2>1. Crosses(r) \in BOOLEAN
    BY DEF Crosses
  <2>2. crossed' \in BOOLEAN
    BY <1>3, <2>1 DEF BookInv, BookTypeOK
  <2>3. ASSUME NEW b \in Addresses
        PROVE  /\ [address[b] EXCEPT !.default = FALSE] \in [state : {"none", "live", "deleted"}, default : BOOLEAN]
               /\ address[b] \in [state : {"none", "live", "deleted"}, default : BOOLEAN]
    BY DEF BookInv, BookTypeOK
  <2>4. Row("live", d) \in [state : {"none", "live", "deleted"}, default : BOOLEAN]
    BY <1>1 DEF Row
  <2>5. address' \in [Addresses -> [state : {"none", "live", "deleted"}, default : BOOLEAN]]
    BY <1>3, <2>3, <2>4
  <2> QED
    BY <1>2, <2>2, <2>5 DEF BookTypeOK
<1>5. ASSUME NEW b \in Addresses
      PROVE  /\ address'[b].state = IF b = a THEN "live" ELSE address[b].state
             /\ address'[b].default = IF b = a THEN d
                                      ELSE IF b \in call[r].locks THEN FALSE ELSE address[b].default
  <2>1. address[b] \in [state : {"none", "live", "deleted"}, default : BOOLEAN]
    BY DEF BookInv, BookTypeOK
  <2>2. /\ [address[b] EXCEPT !.default = FALSE].state = address[b].state
        /\ [address[b] EXCEPT !.default = FALSE].default = FALSE
    BY <2>1
  <2>3. Row("live", d).state = "live" /\ Row("live", d).default = d
    BY DEF Row
  <2> QED
    BY <1>3, <2>2, <2>3
<1>6. Live' = Live \cup {a}
  BY <1>1, <1>5 DEF Live
<1>7. ASSUME NEW b \in Defaults'
      PROVE  /\ b \in Addresses
             /\ \/ b = a /\ d
                \/ b # a /\ b \in Defaults /\ b \notin call[r].locks
  BY <1>5, <1>7 DEF Defaults, Live
<1> HIDE DEF a, d
<1>8. ASSUME ~crossed' PROVE ~crossed /\ ~Crosses(r)
  BY <1>3, <1>8 DEF BookInv, BookTypeOK
<1>9. r \in Defaulting <=> d
  BY <1>1 DEF Defaulting, d
<1>10. ASSUME ~crossed', d PROVE Defaults' \subseteq {a}
  <2>1. ClearsOthers(r)
    BY <1>8, <1>9, <1>10 DEF BookInv
  <2>2. CASE call[r].skips
    BY <1>7, <2>1, <2>2 DEF ClearsOthers, a
  <2>3. CASE ~call[r].skips
    BY <1>1, <1>7, <2>1, <2>3 DEF ClearsOthers, a, Defaults
  <2> QED
    BY <2>2, <2>3
<1>11. ASSUME ~d PROVE Defaults' \subseteq Defaults
  BY <1>7, <1>11
<1>12. OneDefault'
  <2> SUFFICES ASSUME ~crossed', NEW b \in Defaults', NEW c \in Defaults' PROVE b = c
    BY DEF OneDefault
  <2>1. CASE d
    BY <1>10, <2>1
  <2>2. CASE ~d
    BY <1>8, <1>11, <2>2 DEF BookInv, OneDefault
  <2> QED
    BY <1>1, <2>1, <2>2
<1>13. ASSUME ~crossed', NEW q \in Requests, q \in Defaulting' PROVE ClearsOthers(q)'
  <2>1. q # r
    BY <1>2, <1>13 DEF Defaulting
  <2>2. call'[q] = call[q] /\ q \in Defaulting
    BY <1>2, <1>13, <2>1 DEF Defaulting
  <2>3. ClearsOthers(q)
    BY <1>8, <1>13, <2>2 DEF BookInv
  <2>4. Live' = Live
    BY <1>6, <1>8, <1>13, <2>1, <2>2 DEF Crosses, a
  <2>5. call[q].skips => ~d
    BY <1>8, <1>9, <1>13, <2>1, <2>2 DEF Crosses
  <2>6. call[q].skips => Defaults' \subseteq Defaults
    BY <1>11, <2>5
  <2> QED
    BY <2>2, <2>3, <2>4, <2>6 DEF ClearsOthers
<1>14. Defaulting' \subseteq Requests
  BY DEF Defaulting
<1> QED
  BY <1>4, <1>12, <1>13, <1>14 DEF BookInv

(* An address that goes is no default any more. *)
LEMMA DeleteStep ==
    ASSUME BookInv, NEW a \in Addresses, Delete(a)
    PROVE  BookInv'
<1>1. /\ address' = [address EXCEPT ![a].state = "deleted"] /\ UNCHANGED <<call, crossed>>
      /\ address \in [Addresses -> [state : {"none", "live", "deleted"}, default : BOOLEAN]]
  BY DEF Delete, BookInv, BookTypeOK
<1>2. address' \in [Addresses -> [state : {"none", "live", "deleted"}, default : BOOLEAN]]
  BY <1>1
<1>3. ASSUME NEW b \in Addresses
      PROVE  /\ address'[b].default = address[b].default
             /\ address'[b].state = "live" => address[b].state = "live"
  BY <1>1
<1>4. Live' \subseteq Live /\ Defaults' \subseteq Defaults /\ Defaulting' = Defaulting
  BY <1>1, <1>3 DEF Live, Defaults, Defaulting
<1>5. BookTypeOK'
  BY <1>1, <1>2 DEF BookInv, BookTypeOK
<1>6. ASSUME ~crossed, NEW r \in Defaulting PROVE ClearsOthers(r)'
  <2>1. ClearsOthers(r)
    BY <1>6 DEF BookInv
  <2> QED
    BY <1>1, <1>4, <2>1 DEF ClearsOthers
<1>7. OneDefault'
  BY <1>1, <1>4 DEF BookInv, OneDefault
<1> QED
  BY <1>1, <1>4, <1>5, <1>6, <1>7 DEF BookInv

(* Each step of the page keeps what clears the defaults. *)
LEMMA BookStep == BookInv /\ [BookNext]_<<call, bookVars>> => BookInv'
<1> SUFFICES ASSUME BookInv, [BookNext]_<<call, bookVars>> PROVE BookInv'
  OBVIOUS
<1>1. ASSUME NEW r \in Requests, NEW a \in Addresses, NEW d \in BOOLEAN, NEW c \in BOOLEAN,
             c => d, Begin(r, Write(a, d, c)), UNCHANGED bookVars,
             d /\ ~c => a \in Live /\ address[a].default
      PROVE  BookInv'
  <2> DEFINE k == Write(a, d, c)
  <2>1. k \in BookCalls
    BY DEF Write, BookCalls
  <2>2. /\ k.op = IF c THEN "clear" ELSE "save"
        /\ k.addr = a /\ k.default = d /\ k.skips = (d /\ ~c)
    BY DEF Write
  <2>3. Become(r, k) /\ UNCHANGED bookVars
    BY <1>1 DEF Begin
  <2> HIDE DEF k
  <2>4. d /\ ~c /\ ~crossed => Defaults \subseteq {a}
    BY <1>1 DEF BookInv, OneDefault, Defaults
  <2> QED
    BY <1>1, <2>1, <2>2, <2>3, <2>4, BookCallStep
<1>2. ASSUME NEW r \in Requests, NEW a \in Addresses, NEW d \in BOOLEAN, Create(r, a, d)
      PROVE  BookInv'
  BY <1>1, <1>2 DEF Create
<1>3. ASSUME NEW r \in Requests, NEW a \in Addresses, NEW d \in BOOLEAN, Update(r, a, d)
      PROVE  BookInv'
  <2>1. address[a].default \in BOOLEAN /\ a \in Live
    BY <1>3 DEF Update, BookInv, BookTypeOK
  <2>2. (d /\ ~address[a].default) \in BOOLEAN
    BY <2>1
  <2> QED
    BY <1>1, <1>3, <2>1, <2>2 DEF Update
<1>4. ASSUME NEW r \in Requests, NEW a \in Addresses, SetDefault(r, a)
      PROVE  BookInv'
  BY <1>1, <1>4 DEF SetDefault
<1>5. ASSUME NEW r \in Requests, ClearStarts(r)
      PROVE  BookInv'
  <2> DEFINE k == [call[r] EXCEPT !.op = "wait", !.sees = Seen(r)]
  <2>1. call[r] \in BookCalls \ {Idle} /\ call[r].op = "clear"
    BY <1>5, BookFields DEF ClearStarts, BookInv
  <2>2. call[r] \in [op : {"clear", "wait", "save"}, addr : Addresses, default : BOOLEAN,
                     skips : BOOLEAN, sees : SUBSET Addresses, locks : SUBSET Addresses]
    BY <2>1 DEF BookCalls
  <2>3. Seen(r) \in SUBSET Addresses
    BY DEF Seen, Live
  <2>4. k \in BookCalls
    BY <2>2, <2>3 DEF BookCalls
  <2>5. k.op = "wait" /\ k.addr = call[r].addr /\ k.default = call[r].default
        /\ k.skips = call[r].skips /\ k.sees = Live \ {call[r].addr}
    BY <2>2 DEF Seen
  <2>6. ~crossed /\ k.default => ~k.skips
    BY <2>1, <2>2, <2>5 DEF BookInv, Defaulting, ClearsOthers
  <2>7. Become(r, k) /\ UNCHANGED bookVars
    BY <1>5 DEF ClearStarts
  <2> HIDE DEF k
  <2> QED
    BY <2>4, <2>5, <2>6, <2>7, BookCallStep
<1>6. ASSUME NEW r \in Requests, Clear(r)
      PROVE  BookInv'
  <2> DEFINE k == [call[r] EXCEPT !.op = "save", !.locks = call[r].sees \cap Live]
  <2>1. call[r] \in BookCalls \ {Idle} /\ call[r].op = "wait"
    BY <1>6, BookFields DEF Clear, BookInv
  <2>2. call[r] \in [op : {"clear", "wait", "save"}, addr : Addresses, default : BOOLEAN,
                     skips : BOOLEAN, sees : SUBSET Addresses, locks : SUBSET Addresses]
    BY <2>1 DEF BookCalls
  <2>3. k \in BookCalls
    BY <2>2 DEF BookCalls
  <2>4. k.op = "save" /\ k.addr = call[r].addr /\ k.default = call[r].default
        /\ k.skips = call[r].skips /\ k.locks = call[r].sees \cap Live
    BY <2>2
  <2>5. ~crossed /\ k.default => ~k.skips /\ Live \ {k.addr} \subseteq k.locks
    BY <2>1, <2>2, <2>4 DEF BookInv, Defaulting, ClearsOthers
  <2>6. Become(r, k) /\ UNCHANGED bookVars
    BY <1>6 DEF Clear
  <2> HIDE DEF k
  <2> QED
    BY <2>3, <2>4, <2>5, <2>6, BookCallStep
<1>7. ASSUME NEW r \in Requests, Save(r)
      PROVE  BookInv'
  BY <1>7, SaveStep
<1>8. ASSUME NEW r \in Requests, BookFail(r)
      PROVE  BookInv'
  BY <1>8, BookFields, BookCallStep DEF BookFail, Finish, BookInv
<1>9. ASSUME NEW a \in Addresses, Delete(a)
      PROVE  BookInv'
  BY <1>9, DeleteStep
<1>10. CASE UNCHANGED <<call, bookVars>>
  <2>1. Live' = Live /\ Defaults' = Defaults /\ Defaulting' = Defaulting /\ UNCHANGED <<address, crossed, call>>
    BY <1>10 DEF bookVars, Live, Defaults, Defaulting
  <2> QED
    BY <2>1 DEF BookInv, BookTypeOK, OneDefault, ClearsOthers
<1> QED
  BY <1>2, <1>3, <1>4, <1>5, <1>6, <1>7, <1>8, <1>9, <1>10 DEF BookNext

-----------------------------------------------------------------------------
(* Channels: registrations and settings. *)

(* Who is registered, or about to be, held the channel's identity. *)
EarnedByHolding ==
    /\ \A c \in Channels : registered[c] \subseteq held[c]
    /\ \A c \in Channels : identity[c] # Nobody => identity[c] \in held[c]
    /\ \A r \in Requests : call[r].op = "register" => call[r].user \in held[call[r].channel]

(* An agency looks after registrations only. *)
LookedAfter ==
    \A c \in Channels, u \in Users :
        agency[c][u] # Nobody => u \in registered[c] /\ agency[c][u] \in Agencies

RegistryInv == RegistryTypeOK /\ EarnedByHolding /\ LookedAfter

-----------------------------------------------------------------------------

(* A record says what kind of call it is of. *)
LEMMA CallFields ==
    ASSUME RegistryTypeOK, NEW r \in Requests
    PROVE  /\ Idle \in RegistryCalls /\ Idle.op = "idle"
           /\ call[r].op = "register" =>
                /\ call[r].user \in Users /\ call[r].channel \in Channels
                /\ call[r].agency \in Agencies \cup {Nobody}
           /\ call[r].op = "configure" =>
                /\ call[r].channel \in Channels /\ call[r].read \in Settings
                /\ call[r].seconds \in Rates /\ call[r].multiplier \in Factors
<1>1. call[r] \in RegistryCalls /\ Idle \in RegistryCalls /\ Idle.op = "idle"
  BY DEF RegistryTypeOK, RegistryCalls, Idle
<1> QED
  BY <1>1 DEF RegistryCalls

(* What the table of calls is after a call began or ended. *)
LEMMA CallBecomes ==
    ASSUME RegistryTypeOK, NEW r \in Requests, NEW k \in RegistryCalls, Become(r, k)
    PROVE  /\ call' \in [Requests -> RegistryCalls]
           /\ call'[r] = k
           /\ \A q \in Requests \ {r} : call'[q] = call[q]
<1> QED
  BY DEF RegistryTypeOK, Become

(* A call that ends leaves the registrations under way alone. *)
LEMMA CallFinishes ==
    ASSUME RegistryTypeOK, NEW r \in Requests, Finish(r)
    PROVE  /\ call' \in [Requests -> RegistryCalls]
           /\ \A q \in Requests : call'[q].op = "register" => call'[q] = call[q]
<1> QED
  BY CallBecomes, CallFields DEF Finish

(* The settings that hold, and those an update writes, are proper ones. *)
LEMMA ProperSettings ==
    ASSUME RegistryTypeOK, NEW c \in Channels
    PROVE  Current(c) \in Settings
<1>1. Standard \in Settings
  BY RegistryAssumption DEF Standard, Settings
<1> QED
  BY <1>1 DEF Current, RegistryTypeOK

(* Merging an update gives settings, and keeps those that it does not set. *)
LEMMA MergedSettings ==
    ASSUME NEW cfg \in Settings, NEW rate \in Rates, NEW factor \in Factors
    PROVE  /\ Merged(cfg, rate, factor) \in Settings
           /\ rate = 0 => Merged(cfg, rate, factor).seconds = cfg.seconds
           /\ factor = 0 => Merged(cfg, rate, factor).multiplier = cfg.multiplier
<1>1. rate \in Nat /\ factor \in 0..10
  BY RegistryAssumption
<1> QED
  BY <1>1 DEF Merged, Settings

(* A missing row is no settings. *)
LEMMA NoConfigIsImproper == NoConfig \notin Settings
<1> QED
  BY DEF NoConfig, Settings

-----------------------------------------------------------------------------

(* Nobody is registered at first. *)
LEMMA RegistryInitInv == CallsInit /\ RegistryInit => RegistryInv
<1> SUFFICES ASSUME CallsInit, RegistryInit
             PROVE  RegistryInv
  OBVIOUS
<1>1. \A r \in Requests : call[r].op = "idle"
  BY DEF CallsInit, Idle
<1>2. RegistryTypeOK
  BY DEF CallsInit, RegistryInit, RegistryTypeOK, RegistryCalls
<1>3. EarnedByHolding /\ LookedAfter
  BY <1>1 DEF RegistryInit, EarnedByHolding, LookedAfter
<1> QED
  BY <1>2, <1>3 DEF RegistryInv

(* Whoever gets the identity has held it from then on. *)
LEMMA RelinkStep ==
    ASSUME RegistryInv, NEW c \in Channels, NEW u \in Users \cup {Nobody}, Relink(c, u)
    PROVE  RegistryInv'
<1>1. RegistryTypeOK'
  BY DEF Relink, streamerVars, RegistryInv, RegistryTypeOK
<1>2. /\ \A d \in Channels : held[d] \subseteq held'[d]
      /\ \A d \in Channels : identity'[d] = IF d = c THEN u ELSE identity[d]
      /\ u # Nobody => u \in held'[c]
  BY DEF Relink, RegistryInv, RegistryTypeOK
<1>3. \A r \in Requests : call[r].op = "register" => call[r].channel \in Channels
  BY CallFields DEF RegistryInv
<1>4. EarnedByHolding'
  BY <1>2, <1>3 DEF Relink, streamerVars, RegistryInv, EarnedByHolding
<1>5. LookedAfter'
  BY DEF Relink, streamerVars, RegistryInv, LookedAfter
<1> QED
  BY <1>1, <1>4, <1>5 DEF RegistryInv

(* Both ways to register look for the holder of the identity. *)
LEMMA RegisteringStep ==
    ASSUME RegistryInv, NEW r \in Requests, NEW u \in Users, NEW c \in Channels,
           NEW g \in Agencies \cup {Nobody},
           Holds(u, c), Begin(r, Registering(u, c, g)), UNCHANGED registryVars
    PROVE  RegistryInv'
<1> DEFINE k == Registering(u, c, g)
<1>1. /\ k \in RegistryCalls /\ k.op = "register" /\ k.user = u /\ k.channel = c
  BY DEF Registering, RegistryCalls
<1> HIDE DEF k
<1>2. /\ call' \in [Requests -> RegistryCalls]
      /\ call'[r] = k
      /\ \A q \in Requests \ {r} : call'[q] = call[q]
  BY <1>1, CallBecomes DEF Begin, RegistryInv, k
<1>3. u \in held[c]
  BY RegistryAssumption DEF Holds, RegistryInv, EarnedByHolding
<1>4. \A q \in Requests : call'[q].op = "register" => call'[q].user \in held[call'[q].channel]
  BY <1>1, <1>2, <1>3 DEF RegistryInv, EarnedByHolding
<1> QED
  BY <1>2, <1>4
  DEF RegistryInv, RegistryTypeOK, EarnedByHolding, LookedAfter, registryVars

(* A call that ends, or that only reads, registers nobody. *)
LEMMA OnlyCallsStep ==
    ASSUME RegistryInv, call' \in [Requests -> RegistryCalls], UNCHANGED registryVars,
           \A q \in Requests : call'[q].op = "register" => call'[q] = call[q]
    PROVE  RegistryInv'
<1> QED
  BY DEF RegistryInv, RegistryTypeOK, EarnedByHolding, LookedAfter, registryVars

(* A registration inserts its row, or finds the one of another. *)
LEMMA FirstOrCreateStep ==
    ASSUME RegistryInv, NEW r \in Requests, FirstOrCreate(r)
    PROVE  RegistryInv'
<1> DEFINE c == call[r].channel
           u == call[r].user
           g == call[r].agency
<1>1. c \in Channels /\ u \in Users /\ g \in Agencies \cup {Nobody} /\ u \in held[c]
  BY CallFields DEF FirstOrCreate, RegistryInv, EarnedByHolding
<1>2. /\ registered' = [registered EXCEPT ![c] = @ \cup {u}]
      /\ agency' = [agency EXCEPT ![c][u] = IF g = Nobody THEN @ ELSE g]
      /\ UNCHANGED <<identity, config, held>>
  BY DEF FirstOrCreate
<1>3. /\ call' \in [Requests -> RegistryCalls]
      /\ \A q \in Requests : call'[q].op = "register" => call'[q] = call[q]
  BY CallFinishes DEF FirstOrCreate, RegistryInv
<1> HIDE DEF c, u, g
<1>4. \A d \in Channels : registered'[d] = IF d = c THEN registered[d] \cup {u} ELSE registered[d]
  BY <1>1, <1>2 DEF RegistryInv, RegistryTypeOK
<1>5. \A d \in Channels, v \in Users :
          agency'[d][v] = IF d = c /\ v = u /\ g # Nobody THEN g ELSE agency[d][v]
  BY <1>1, <1>2 DEF RegistryInv, RegistryTypeOK
<1>6. RegistryTypeOK'
  <2>1. Agencies \subseteq Users
    BY DEF Agencies
  <2>2. agency' \in [Channels -> [Users -> Users \cup {Nobody}]]
    BY <1>1, <1>2, <2>1 DEF RegistryInv, RegistryTypeOK
  <2>3. registered' \in [Channels -> SUBSET Users]
    BY <1>1, <1>2 DEF RegistryInv, RegistryTypeOK
  <2> QED
    BY <1>2, <1>3, <2>2, <2>3 DEF RegistryInv, RegistryTypeOK
<1>7. EarnedByHolding'
  BY <1>1, <1>2, <1>3, <1>4 DEF RegistryInv, EarnedByHolding
<1>8. LookedAfter'
  BY <1>1, <1>4, <1>5 DEF RegistryInv, LookedAfter
<1> QED
  BY <1>6, <1>7, <1>8 DEF RegistryInv

(* An update writes what it merged with the settings it read. *)
LEMMA UpdateConfigStep ==
    ASSUME RegistryInv, NEW r \in Requests, UpdateConfig(r)
    PROVE  RegistryInv'
<1> DEFINE new == Merged(call[r].read, call[r].seconds, call[r].multiplier)
<1>1. call[r].channel \in Channels /\ new \in Settings
  BY CallFields, MergedSettings DEF UpdateConfig, RegistryInv
<1>2. /\ config' = [config EXCEPT ![call[r].channel] = new]
      /\ UNCHANGED <<identity, registered, agency, held>>
  BY DEF UpdateConfig, streamerVars
<1> HIDE DEF new
<1>3. config' \in [Channels -> Settings \cup {NoConfig}]
  BY <1>1, <1>2 DEF RegistryInv, RegistryTypeOK
<1>4. /\ call' \in [Requests -> RegistryCalls]
      /\ \A q \in Requests : call'[q].op = "register" => call'[q] = call[q]
  BY CallFinishes DEF UpdateConfig, RegistryInv
<1> QED
  BY <1>2, <1>3, <1>4 DEF RegistryInv, RegistryTypeOK, EarnedByHolding, LookedAfter

(* Migration 020 gives an agency to registrations only. *)
LEMMA BackfillStep ==
    ASSUME RegistryInv, BackfillAgency
    PROVE  RegistryInv'
<1>1. ASSUME NEW c \in Channels, NEW u \in Users
      PROVE  \/ agency'[c][u] = agency[c][u]
             \/ u \in registered[c] /\ agency'[c][u] \in Agencies
  <2> DEFINE g == CHOOSE h \in Users : h \in Legacy[c]
  <2>1. Legacy[c] # {} => g \in Agencies
    BY RegistryAssumption DEF Agencies
  <2>2. agency'[c][u] = IF u \in Orphans(c) /\ Legacy[c] # {} THEN g ELSE agency[c][u]
    BY DEF BackfillAgency
  <2> HIDE DEF g
  <2> QED
    BY <2>1, <2>2 DEF Orphans
<1>2. Agencies \subseteq Users
  BY DEF Agencies
<1>3. /\ agency' \in [Channels -> [Users -> Users \cup {Nobody}]]
      /\ UNCHANGED <<identity, registered, config, held, call>>
  <2>1. agency' = [c \in Channels |-> [u \in Users |-> agency'[c][u]]]
    BY DEF BackfillAgency
  <2> QED
    BY <1>1, <1>2, <2>1 DEF BackfillAgency, RegistryInv, RegistryTypeOK
<1> QED
  BY <1>1, <1>3 DEF RegistryInv, RegistryTypeOK, EarnedByHolding, LookedAfter

(* Every step of the registry keeps its invariant. *)
LEMMA RegistryStep == RegistryInv /\ [RegistryNext]_<<call, registryVars>> => RegistryInv'
<1> SUFFICES ASSUME RegistryInv, [RegistryNext]_<<call, registryVars>>
             PROVE  RegistryInv'
  OBVIOUS
<1>1. ASSUME NEW r \in Requests, NEW c \in Channels, NEW u \in Users, Register(r, u, c)
      PROVE  RegistryInv'
  BY <1>1, RegisteringStep DEF Register
<1>2. ASSUME NEW r \in Requests, NEW c \in Channels, NEW u \in Users,
             NEW g \in Users \cup {Nobody}, CreateStreamer(r, u, c, g)
      PROVE  RegistryInv'
  BY <1>2, RegisteringStep DEF CreateStreamer
<1>3. ASSUME NEW r \in Requests, NEW c \in Channels, NEW u \in Users,
             NEW rate \in Rates, NEW factor \in Factors,
             UpdateConfigLook(r, u, c, rate, factor)
      PROVE  RegistryInv'
  <2> DEFINE k == [op |-> "configure", channel |-> c, read |-> Current(c),
                   seconds |-> rate, multiplier |-> factor]
  <2>1. k \in RegistryCalls /\ k.op = "configure"
    BY ProperSettings DEF RegistryCalls, RegistryInv
  <2> HIDE DEF k
  <2>2. Become(r, k) /\ UNCHANGED registryVars
    BY <1>3 DEF UpdateConfigLook, Begin, k
  <2> QED
    BY <2>1, <2>2, CallBecomes, OnlyCallsStep DEF RegistryInv
<1>4. ASSUME NEW r \in Requests, RegistryFail(r)
      PROVE  RegistryInv'
  BY <1>4, CallFinishes, OnlyCallsStep DEF RegistryFail, RegistryInv
<1>5. CASE UNCHANGED <<call, registryVars>>
  BY <1>5 DEF RegistryInv, RegistryTypeOK, EarnedByHolding, LookedAfter, registryVars
<1> QED
  BY <1>1, <1>2, <1>3, <1>4, <1>5, RelinkStep, BackfillStep, FirstOrCreateStep,
     UpdateConfigStep DEF RegistryNext

-----------------------------------------------------------------------------

(* The invariant of the registry holds in every state. *)
LEMMA RegistryInvariant == RegistrySpec => []RegistryInv
<1> QED
  BY RegistryInitInv, RegistryStep, PTL DEF RegistrySpec

(* What the invariant says of those who are listed. *)
LEMMA ListedAreHolders ==
    ASSUME RegistryInv, NEW c \in Channels, NEW u \in Users, c \in DOMAIN ListStreamerUserIDs(u)
    PROVE  ListStreamerUserIDs(u)[c] \in held[c]
<1>1. /\ \A d \in ListStreamers(u) : Cardinality(registered[d]) = 1
      /\ c \in ListStreamers(u)
      /\ ListStreamerUserIDs(u)[c] = CHOOSE v \in Users : v \in registered[c]
  BY DEF ListStreamerUserIDs
<1>2. registered[c] # {}
  BY <1>1, FS_EmptySet
<1>3. registered[c] \subseteq Users /\ registered[c] \subseteq held[c]
  BY DEF RegistryInv, RegistryTypeOK, EarnedByHolding
<1> QED
  BY <1>1, <1>2, <1>3

(***************************************************************************)
(* Registrations, settings, agencies and calls keep their types.           *)
(***************************************************************************)
THEOREM RegistryTypeCorrect == RegistrySpec => []RegistryTypeOK
<1>1. RegistryInv => RegistryTypeOK
  BY DEF RegistryInv
<1> QED
  BY <1>1, RegistryInvariant, PTL

(* What the invariant says of the registered. *)
LEMMA EarnedNow == RegistryInv => RegistrationEarned
<1> SUFFICES ASSUME RegistryInv PROVE RegistrationEarned
  OBVIOUS
<1> SUFFICES ASSUME NEW c \in Channels, NEW u \in Users
             PROVE  /\ (u \in registered[c] \/ (Role[u] # "admin" /\ MayConfigure(u, c))) => u \in held[c]
                    /\ agency[c][u] # Nobody => u \in registered[c] /\ agency[c][u] \in Agencies
                    /\ \A v \in Users : <<c, u>> \in ListedChannels(v) => SeesStats(v, c, u) /\ MayRead(v, c)
                    /\ c \in DOMAIN ListStreamerUserIDs(u) => ListStreamerUserIDs(u)[c] \in held[c]
  BY DEF RegistrationEarned
<1>1. (u \in registered[c] \/ (Role[u] # "admin" /\ MayConfigure(u, c))) => u \in held[c]
  BY DEF RegistryInv, EarnedByHolding, MayConfigure, MayRead, OwnsChannel
<1>2. agency[c][u] # Nobody => u \in registered[c] /\ agency[c][u] \in Agencies
  BY DEF RegistryInv, LookedAfter
<1>3. \A v \in Users : <<c, u>> \in ListedChannels(v) => SeesStats(v, c, u) /\ MayRead(v, c)
  BY DEF ListedChannels, Listed, SeesStats, MayRead, OwnsAgencyChannel
<1> QED
  BY <1>1, <1>2, <1>3, ListedAreHolders

(***************************************************************************)
(* Whoever but an admin may change a channel's settings, or is named on an *)
(* agency's dashboard, held the channel's Twitch identity, however the     *)
(* identity moves under registrations in progress (StreamerService).       *)
(***************************************************************************)
THEOREM Earned == RegistrySpec => []RegistrationEarned
<1> QED
  BY EarnedNow, RegistryInvariant, PTL

(* One step changes a setting it was not given only over a newer value. *)
LEMMA UpdateKeeps ==
    ASSUME RegistryInv, RegistryNext, NEW c \in Channels, NEW f \in {"seconds", "multiplier"},
           (Current(c)[f])' # Current(c)[f]
    PROVE  \E r \in Requests :
               /\ call[r].op = "configure" /\ call[r].channel = c
               /\ call[r][f] # 0 \/ call[r].read # Current(c)
<1>1. config' # config
  BY DEF Current
<1>2. PICK r \in Requests : UpdateConfig(r)
  BY <1>1 DEF RegistryNext, BackfillAgency, Relink, Register, CreateStreamer,
     UpdateConfigLook, FirstOrCreate, RegistryFail, registryVars
<1> DEFINE new == Merged(call[r].read, call[r].seconds, call[r].multiplier)
<1>3. /\ call[r].op = "configure" /\ call[r].channel \in Channels
      /\ call[r].read \in Settings
      /\ call[r].seconds \in Rates /\ call[r].multiplier \in Factors
  BY <1>2, CallFields DEF UpdateConfig, RegistryInv
<1>4. /\ new \in Settings
      /\ call[r].seconds = 0 => new.seconds = call[r].read.seconds
      /\ call[r].multiplier = 0 => new.multiplier = call[r].read.multiplier
  BY <1>3, MergedSettings
<1>5. \A d \in Channels : config'[d] = IF d = call[r].channel THEN new ELSE config[d]
  BY <1>2, <1>3 DEF UpdateConfig, RegistryInv, RegistryTypeOK
<1> HIDE DEF new
<1>6. call[r].channel = c
  BY <1>5 DEF Current
<1>7. Current(c)' = new
  BY <1>4, <1>5, <1>6, NoConfigIsImproper DEF Current
<1>8. call[r][f] # 0 \/ call[r].read # Current(c)
  <2> SUFFICES ASSUME call[r][f] = 0, call[r].read = Current(c)
               PROVE  FALSE
    OBVIOUS
  <2>1. new[f] = Current(c)[f]
    BY <1>4
  <2> QED
    BY <1>7, <2>1
<1> QED
  BY <1>3, <1>6, <1>8

(***************************************************************************)
(* However updates of a channel's settings overlap, one writes back an old *)
(* value only over one that was written after its read                     *)
(* (UpdateChannelConfigContext).                                           *)
(***************************************************************************)
THEOREM SettingsKept == RegistrySpec => UnsetFieldKept
<1>1. RegistryInv /\ [RegistryNext]_<<call, registryVars>> =>
          [\A c \in Channels, f \in {"seconds", "multiplier"} :
             (Current(c)[f])' # Current(c)[f] =>
                 \E r \in Requests :
                     /\ call[r].op = "configure" /\ call[r].channel = c
                     /\ call[r][f] # 0 \/ call[r].read # Current(c)
          ]_<<call, registryVars>>
  BY UpdateKeeps
<1> QED
  BY <1>1, RegistryInvariant, PTL DEF RegistrySpec, UnsetFieldKept

-----------------------------------------------------------------------------
(* Entries and prizes. *)

PrizeCalls == {Idle} \cup [op : {"enter", "claim"}, name : Names, user : Viewers]

(* While nobody is estranged, names, identities and entries under way agree. *)
NamesAgree ==
    ~estranged =>
        /\ \A n \in Names : entrant[n] # NoViewer => username[entrant[n]] = n
        /\ \A l \in Logins : twitch[l] # NoViewer => username[twitch[l]] = l
        /\ \A r \in Requests : call[r].op = "enter" => username[call[r].user] = call[r].name

(* A claim, made or under way, is the entrant's and follows the link. *)
ClaimsOfEntrants ==
    /\ \A n \in Names : claim[n] # NoViewer => claim[n] = entrant[n] /\ draw[n] = "known"
    /\ \A r \in Requests : call[r].op = "claim" =>
          entrant[call[r].name] = call[r].user /\ draw[call[r].name] = "known"

PrizesInv == PrizesTypeOK /\ NamesAgree /\ ClaimsOfEntrants

-----------------------------------------------------------------------------

(* What a request's record holds once it begins, and once it ends. *)
LEMMA Beginning ==
    ASSUME PrizesTypeOK, NEW r \in Requests, NEW c \in PrizeCalls, Become(r, c)
    PROVE  /\ call' \in [Requests -> PrizeCalls]
           /\ call'[r] = c
           /\ \A q \in Requests \ {r} : call'[q] = call[q]
<1> QED
  BY DEF PrizesTypeOK, Become, PrizeCalls

(* The kinds of calls. *)
LEMMA Calling ==
    ASSUME PrizesTypeOK, NEW r \in Requests
    PROVE  /\ Idle \in PrizeCalls /\ Idle.op = "idle"
           /\ call[r].op \in {"enter", "claim"} => call[r].name \in Names /\ call[r].user \in Viewers
<1>1. call[r] \in PrizeCalls /\ Idle.op = "idle"
  BY DEF PrizesTypeOK, PrizeCalls, Idle
<1> QED
  BY <1>1 DEF PrizeCalls

(* A request that ends takes nothing with it. *)
LEMMA Ending ==
    ASSUME PrizesInv, NEW r \in Requests, Finish(r), UNCHANGED prizeVars
    PROVE  PrizesInv'
<1>1. /\ call' \in [Requests -> PrizeCalls]
      /\ call'[r].op = "idle"
      /\ \A q \in Requests \ {r} : call'[q] = call[q]
  BY Beginning, Calling DEF PrizesInv, Finish
<1>2. \A q \in Requests : call'[q].op \in {"enter", "claim"} => call'[q] = call[q]
  BY <1>1
<1> QED
  BY <1>1, <1>2
  DEF PrizesInv, PrizesTypeOK, NamesAgree, ClaimsOfEntrants, prizeVars, accountVars, PrizeCalls

(* An entry is looked up for the account that has the name. *)
LEMMA LookUp ==
    ASSUME PrizesInv, NEW r \in Requests, NEW n \in Names, NEW u \in Viewers,
           ~estranged => username[u] = n,
           Begin(r, Entering(n, u)), UNCHANGED prizeVars
    PROVE  PrizesInv'
<1>1. /\ Entering(n, u) \in PrizeCalls
      /\ Entering(n, u).op = "enter" /\ Entering(n, u).name = n /\ Entering(n, u).user = u
  BY DEF Entering, PrizeCalls
<1>2. /\ call' \in [Requests -> PrizeCalls]
      /\ call'[r] = Entering(n, u)
      /\ \A q \in Requests \ {r} : call'[q] = call[q]
  BY <1>1, Beginning DEF PrizesInv, Begin
<1>3. /\ \A q \in Requests : call'[q].op = "claim" => call'[q] = call[q]
      /\ \A q \in Requests : call'[q].op = "enter" =>
            call'[q] = call[q] \/ (call'[q].name = n /\ call'[q].user = u)
  BY <1>1, <1>2
<1> QED
  BY <1>2, <1>3
  DEF PrizesInv, PrizesTypeOK, NamesAgree, ClaimsOfEntrants, prizeVars, accountVars, PrizeCalls

(* No entries and no claims at first. *)
LEMMA PrizesInitInv == CallsInit /\ PrizesInit => PrizesInv
<1> SUFFICES ASSUME CallsInit, PrizesInit
             PROVE  PrizesInv
  OBVIOUS
<1>1. \A r \in Requests : call[r] = Idle /\ call[r].op = "idle"
  BY DEF CallsInit, Idle
<1>2. PrizesTypeOK
  BY DEF CallsInit, PrizesInit, PrizesTypeOK
<1>3. NamesAgree /\ ClaimsOfEntrants
  BY <1>1 DEF PrizesInit, NamesAgree, ClaimsOfEntrants
<1> QED
  BY <1>2, <1>3 DEF PrizesInv

(* Renames and identities: from then on the names need not agree. *)
LEMMA AccountsStep ==
    ASSUME PrizesInv
    PROVE  /\ \A u \in Viewers, n \in Logins : Rename(u, n) => PrizesInv'
           /\ \A l \in Logins, u \in Viewers \cup {NoViewer} : RelinkTwitch(l, u) => PrizesInv'
<1>1. ASSUME NEW u \in Viewers, NEW n \in Logins, Rename(u, n)
      PROVE  PrizesInv'
  BY <1>1 DEF Rename, PrizesInv, PrizesTypeOK, NamesAgree, ClaimsOfEntrants
<1>2. ASSUME NEW l \in Logins, NEW u \in Viewers \cup {NoViewer}, RelinkTwitch(l, u)
      PROVE  PrizesInv'
  <2>1. PrizesTypeOK' /\ ClaimsOfEntrants'
    BY <1>2 DEF RelinkTwitch, PrizesInv, PrizesTypeOK, ClaimsOfEntrants
  <2>2. NamesAgree'
    <3> SUFFICES ASSUME ~estranged'
                 PROVE  NamesAgree'
      BY DEF NamesAgree
    <3>1. ~estranged /\ (u = NoViewer \/ username[u] = l)
      BY <1>2 DEF RelinkTwitch, PrizesInv, PrizesTypeOK
    <3>2. \A m \in Logins : twitch'[m] = IF m = l THEN u ELSE twitch[m]
      BY <1>2 DEF RelinkTwitch, PrizesInv, PrizesTypeOK
    <3> QED
      BY <1>2, <3>1, <3>2 DEF RelinkTwitch, PrizesInv, NamesAgree
  <2> QED
    BY <2>1, <2>2 DEF PrizesInv
<1> QED
  BY <1>1, <1>2

(* The three look-ups find the account under its own name. *)
LEMMA LookUpStep ==
    ASSUME PrizesInv, NEW r \in Requests, NEW l \in Logins,
           ImportLook(r, l) \/ JoinLook(r, l) \/ SyncLook(r, l)
    PROVE  PrizesInv'
<1> USE PrizeAssumption
<1>1. l \in Names /\ TwitchID[l] \in Names
  BY DEF Names, TwitchIDs
<1>2. CASE ImportLook(r, l)
  BY <1>1, <1>2, LookUp DEF ImportLook
<1>3. CASE SyncLook(r, l)
  BY <1>1, <1>3, LookUp DEF SyncLook, PrizesInv, NamesAgree
<1>4. CASE JoinLook(r, l)
  <2>1. twitch[l] \in Viewers /\ username[twitch[l]] \in Logins \cup {NoName}
    BY <1>4 DEF JoinLook, PrizesInv, PrizesTypeOK
  <2>2. JoinName(l) \in Names
    BY <1>1, <2>1 DEF JoinName, Names
  <2>3. ~estranged => username[twitch[l]] = JoinName(l)
    BY <1>1, <2>1 DEF JoinName, PrizesInv, NamesAgree
  <2> QED
    BY <1>4, <2>1, <2>2, <2>3, LookUp DEF JoinLook
<1> QED
  BY <1>2, <1>3, <1>4

(* An entry that is there stays; a new one is the caller's own. *)
LEMMA InsertEntryStep ==
    ASSUME PrizesInv, NEW r \in Requests, InsertEntry(r)
    PROVE  PrizesInv'
<1> USE PrizeAssumption
<1> DEFINE n == call[r].name
           u == call[r].user
<1>1. n \in Names /\ u \in Viewers /\ (~estranged => username[u] = n)
  BY Calling DEF InsertEntry, PrizesInv, NamesAgree
<1>2. /\ call' \in [Requests -> PrizeCalls]
      /\ \A q \in Requests : call'[q].op \in {"enter", "claim"} => call'[q] = call[q]
  <2>1. call'[r].op = "idle" /\ \A q \in Requests \ {r} : call'[q] = call[q]
    BY Beginning, Calling DEF PrizesInv, InsertEntry, Finish
  <2> QED
    BY <2>1, Beginning, Calling DEF PrizesInv, InsertEntry, Finish
<1> HIDE DEF n, u
<1>3. /\ entrant' \in [Names -> Viewers \cup {NoViewer}]
      /\ \A k \in Names : entrant'[k] = entrant[k]
                          \/ (entrant[k] = NoViewer /\ k = n /\ entrant'[k] = u)
  BY <1>1 DEF InsertEntry, PrizesInv, PrizesTypeOK, n, u
<1>4. UNCHANGED <<accountVars, draw, expired, claim>>
  BY DEF InsertEntry
<1>5. PrizesTypeOK'
  BY <1>2, <1>3, <1>4 DEF PrizesInv, PrizesTypeOK, accountVars, PrizeCalls
<1>6. NamesAgree'
  BY <1>1, <1>2, <1>3, <1>4 DEF PrizesInv, NamesAgree, accountVars
<1>7. ClaimsOfEntrants'
  <2>1. \A k \in Names : claim[k] # NoViewer => claim'[k] = entrant'[k]
    BY <1>3, <1>4 DEF PrizesInv, ClaimsOfEntrants
  <2>2. \A q \in Requests : call[q].op = "claim" => entrant'[call[q].name] = call[q].user
    BY <1>3, Calling DEF PrizesInv, ClaimsOfEntrants
  <2> QED
    BY <1>2, <1>4, <2>1, <2>2 DEF PrizesInv, ClaimsOfEntrants
<1> QED
  BY <1>5, <1>6, <1>7 DEF PrizesInv

(* A draw's link becomes known or is lost once. *)
LEMMA DrawStep ==
    ASSUME PrizesInv, NEW n \in Names,
           DrawWinner(n) \/ SendLink(n) \/ LoseLink(n) \/ Expire(n)
    PROVE  PrizesInv'
<1>1. /\ \A k \in Names : draw[k] = "known" => draw'[k] = "known"
      /\ draw' \in [Names -> {"none", "drawn", "known", "lost"}]
      /\ expired' \subseteq Names
      /\ UNCHANGED <<call, accountVars, entrant, claim>>
  BY DEF DrawWinner, SendLink, LoseLink, Expire, PrizesInv, PrizesTypeOK
<1>2. \A q \in Requests : call[q].op = "claim" => call[q].name \in Names
  BY Calling DEF PrizesInv
<1> QED
  BY <1>1, <1>2 DEF PrizesInv, PrizesTypeOK, NamesAgree, ClaimsOfEntrants, accountVars

(* A claim begins: the entry is the account's. *)
LEMMA SubmitClaimStep ==
    ASSUME PrizesInv, NEW r \in Requests, NEW u \in Viewers, NEW n \in Names,
           SubmitClaim(r, u, n)
    PROVE  PrizesInv'
<1> DEFINE c == [op |-> "claim", name |-> n, user |-> u]
<1>1. c \in PrizeCalls /\ c.op = "claim" /\ c.name = n /\ c.user = u
  BY DEF PrizeCalls
<1>2. /\ call' \in [Requests -> PrizeCalls]
      /\ call'[r] = c
      /\ \A q \in Requests \ {r} : call'[q] = call[q]
  BY <1>1, Beginning DEF PrizesInv, SubmitClaim, Begin
<1>3. draw[n] = "known" /\ entrant[n] = u /\ UNCHANGED prizeVars
  BY DEF SubmitClaim, Claimable, GetDrawByToken
<1>4. /\ \A q \in Requests : call'[q].op = "enter" => call'[q] = call[q]
      /\ \A q \in Requests : call'[q].op = "claim" =>
            call'[q] = call[q] \/ (call'[q].name = n /\ call'[q].user = u)
  BY <1>1, <1>2
<1> HIDE DEF c
<1> QED
  BY <1>2, <1>3, <1>4
  DEF PrizesInv, PrizesTypeOK, NamesAgree, ClaimsOfEntrants, prizeVars, accountVars, PrizeCalls

(* A claim is stored once. *)
LEMMA InsertClaimStep ==
    ASSUME PrizesInv, NEW r \in Requests, InsertClaim(r)
    PROVE  PrizesInv'
<1> DEFINE n == call[r].name
           u == call[r].user
<1>1. n \in Names /\ u \in Viewers /\ entrant[n] = u /\ draw[n] = "known"
  BY Calling DEF InsertClaim, PrizesInv, ClaimsOfEntrants
<1>2. /\ call' \in [Requests -> PrizeCalls]
      /\ \A q \in Requests : call'[q].op \in {"enter", "claim"} => call'[q] = call[q]
  <2>1. call'[r].op = "idle" /\ \A q \in Requests \ {r} : call'[q] = call[q]
    BY Beginning, Calling DEF PrizesInv, InsertClaim, Finish
  <2> QED
    BY <2>1, Beginning, Calling DEF PrizesInv, InsertClaim, Finish
<1> HIDE DEF n, u
<1>3. /\ claim' \in [Names -> Viewers \cup {NoViewer}]
      /\ \A k \in Names : claim'[k] = claim[k] \/ (k = n /\ claim'[k] = u)
  BY <1>1 DEF InsertClaim, PrizesInv, PrizesTypeOK, n, u
<1>4. UNCHANGED <<accountVars, entrant, draw, expired>>
  BY DEF InsertClaim
<1> QED
  BY <1>1, <1>2, <1>3, <1>4
  DEF PrizesInv, PrizesTypeOK, NamesAgree, ClaimsOfEntrants, accountVars, PrizeCalls

(* Every step of the entries and claims keeps their invariant. *)
LEMMA PrizesStep == PrizesInv /\ [PrizesNext]_<<call, prizeVars>> => PrizesInv'
<1> SUFFICES ASSUME PrizesInv, [PrizesNext]_<<call, prizeVars>>
             PROVE  PrizesInv'
  OBVIOUS
<1>1. CASE \E r \in Requests : PrizeFail(r)
  BY <1>1, Ending DEF PrizeFail
<1>2. CASE UNCHANGED <<call, prizeVars>>
  BY <1>2
  DEF PrizesInv, PrizesTypeOK, NamesAgree, ClaimsOfEntrants, prizeVars, accountVars
<1> QED
  BY <1>1, <1>2, AccountsStep, LookUpStep, DrawStep, SubmitClaimStep, InsertEntryStep,
     InsertClaimStep DEF PrizesNext

-----------------------------------------------------------------------------

(* Their invariant holds in every state. *)
LEMMA PrizesInvariant == PrizesSpec => []PrizesInv
<1> QED
  BY PrizesInitInv, PrizesStep, PTL DEF PrizesSpec

(***************************************************************************)
(* Names, identities, entries, draws and calls keep their types.           *)
(***************************************************************************)
THEOREM PrizesTypeCorrect == PrizesSpec => []PrizesTypeOK
<1>1. PrizesInv => PrizesTypeOK
  BY DEF PrizesInv
<1> QED
  BY <1>1, PrizesInvariant, PTL

(* What the invariant says of tickets and claims. *)
LEMMA TicketsNow == PrizesInv => OneTicketEach
BY DEF PrizesInv, NamesAgree, ClaimsOfEntrants, OneTicketEach

(***************************************************************************)
(* However imports, joins, syncs, draws and claims overlap, an account     *)
(* that keeps its name and has its own identity has one entry, which only  *)
(* it can claim, and every claim is the entrant's (RaffleService).         *)
(***************************************************************************)
THEOREM OneTicket == PrizesSpec => []OneTicketEach
<1> QED
  BY TicketsNow, PrizesInvariant, PTL

-----------------------------------------------------------------------------
(* The pages together. *)

(* The page in use keeps its invariant, the tables of the others are empty. *)
PagesInv ==
    /\ IF page = "addresses" THEN BookInv ELSE BookInit
    /\ IF page = "channels" THEN RegistryInv ELSE RegistryInit
    /\ IF page = "prizes" THEN PrizesInv ELSE PrizesInit

(* The pages begin empty. *)
LEMMA PagesInitInv == PagesInit => PagesInv
BY BookInitInv, RegistryInitInv, PrizesInitInv DEF PagesInit, PagesInv

(* A step of one page leaves the tables of the others as they are. *)
LEMMA PagesStep == PagesInv /\ [PagesNext]_pagesVars => PagesInv'
<1> SUFFICES ASSUME PagesInv, [PagesNext]_pagesVars PROVE PagesInv'
  OBVIOUS
<1>1. page' = page
  BY DEF PagesNext, pagesVars
<1>2. IF page = "addresses" THEN BookInv' ELSE BookInit'
  <2>1. CASE page = "addresses"
    <3>1. [BookNext]_<<call, bookVars>>
      BY <2>1 DEF PagesNext, pagesVars
    <3> QED
      BY <2>1, <3>1, BookStep DEF PagesInv
  <2>2. CASE page # "addresses"
    <3>1. UNCHANGED bookVars
      BY <2>2 DEF PagesNext, pagesVars
    <3> QED
      BY <2>2, <3>1 DEF PagesInv, BookInit, bookVars
  <2> QED
    BY <2>1, <2>2
<1>3. IF page = "channels" THEN RegistryInv' ELSE RegistryInit'
  <2>1. CASE page = "channels"
    <3>1. [RegistryNext]_<<call, registryVars>>
      BY <2>1 DEF PagesNext, pagesVars
    <3> QED
      BY <2>1, <3>1, RegistryStep DEF PagesInv
  <2>2. CASE page # "channels"
    <3>1. UNCHANGED registryVars
      BY <2>2 DEF PagesNext, pagesVars
    <3> QED
      BY <2>2, <3>1 DEF PagesInv, RegistryInit, registryVars, streamerVars
  <2> QED
    BY <2>1, <2>2
<1>4. IF page = "prizes" THEN PrizesInv' ELSE PrizesInit'
  <2>1. CASE page = "prizes"
    <3>1. [PrizesNext]_<<call, prizeVars>>
      BY <2>1 DEF PagesNext, pagesVars
    <3> QED
      BY <2>1, <3>1, PrizesStep DEF PagesInv
  <2>2. CASE page # "prizes"
    <3>1. UNCHANGED prizeVars
      BY <2>2 DEF PagesNext, pagesVars
    <3> QED
      BY <2>2, <3>1 DEF PagesInv, PrizesInit, prizeVars, accountVars
  <2> QED
    BY <2>1, <2>2
<1> QED
  BY <1>1, <1>2, <1>3, <1>4 DEF PagesInv

(* The invariant of all pages holds in every state. *)
LEMMA PagesInvariant == PagesSpec => []PagesInv
<1> QED
  BY PagesInitInv, PagesStep, PTL DEF PagesSpec

(***************************************************************************)
(* However the calls that move the default address overlap, they leave at  *)
(* most one, unless one of them inserts an address beside another, or one  *)
(* that read its own address as the default is overtaken (AddressService). *)
(***************************************************************************)
THEOREM OneDefaultAddress == PagesSpec => []OneDefault
<1>1. PagesInv => OneDefault
  <2>1. BookInit => OneDefault
    BY DEF BookInit, OneDefault, Defaults, Live, Row
  <2> QED
    BY <2>1 DEF PagesInv, BookInv
<1> QED
  BY <1>1, PagesInvariant, PTL

(***************************************************************************)
(* What holds of registrations and of entries by themselves holds of the   *)
(* server with all its pages: holders only are registered, and a viewer    *)
(* has one ticket and claims but its own prize.                            *)
(***************************************************************************)
THEOREM PagesKeep == PagesSpec => [](RegistrationEarned /\ OneTicketEach)
<1>1. PagesInv => RegistrationEarned
  <2>1. RegistryInit => RegistrationEarned
    <3> SUFFICES ASSUME RegistryInit, NEW c \in Channels, NEW u \in Users
                 PROVE  /\ (u \in registered[c] \/ (Role[u] # "admin" /\ MayConfigure(u, c))) => u \in held[c]
                        /\ agency[c][u] # Nobody => u \in registered[c] /\ agency[c][u] \in Agencies
                        /\ \A v \in Users : <<c, u>> \in ListedChannels(v) => SeesStats(v, c, u) /\ MayRead(v, c)
                        /\ c \in DOMAIN ListStreamerUserIDs(u) => ListStreamerUserIDs(u)[c] \in held[c]
      BY DEF RegistrationEarned
    <3>1. /\ \A d \in Channels : registered[d] = {}
          /\ agency[c][u] = Nobody
      BY DEF RegistryInit
    <3>2. ~MayConfigure(u, c) \/ Role[u] = "admin"
      BY <3>1 DEF MayConfigure, MayRead, OwnsChannel
    <3>3. \A v \in Users : <<c, u>> \notin ListedChannels(v)
      BY <3>1 DEF ListedChannels, Listed
    <3>4. c \notin DOMAIN ListStreamerUserIDs(u)
      BY <3>1, FS_EmptySet DEF ListStreamerUserIDs, ListStreamers
    <3> QED
      BY <3>1, <3>2, <3>3, <3>4
  <2> QED
    BY <2>1, EarnedNow DEF PagesInv
<1>2. PagesInv => OneTicketEach
  <2>1. PrizesInit => OneTicketEach
    BY DEF PrizesInit, OneTicketEach
  <2> QED
    BY <2>1, TicketsNow DEF PagesInv
<1> QED
  BY <1>1, <1>2, PagesInvariant, PTL

-----------------------------------------------------------------------------
(* Links that verify and recover an account. *)

(* A call under way holds an account that exists, or a link. *)
RecoveryCall(c) ==
    \/ c = Idle
    \/ \E e \in Emails :
          /\ account[e].open
          /\ \/ \E kind \in Kinds : c \in {Asking(kind, e), Issuing(kind, e)}
             \/ c = Replacing(e)
             \/ \E user \in UserRows : user.open /\ user.name # "" /\ c = Saving(e, user)
    \/ \E n \in DOMAIN links : c \in {Mailing(n), Superseding(n), Withdrawing(n), Using(n)}

(* A row is written for an account, and only those of resets cool down. *)
RecoveryLink(l) == l \in Links /\ account[l.to].open /\ (l.state = "cooling" => l.kind = "reset")

(* The accounts that are open have names of their own. *)
AccountsAre(acc) ==
    /\ acc \in [Emails -> UserRows]
    /\ \A e \in Emails :
          IF acc[e].open
          THEN acc[e].name # "" /\ \A other \in Emails \ {e} : acc[other].name # acc[e].name
          ELSE acc[e] = NoAccount

RecoveryTypes ==
    /\ AccountsAre(account)
    /\ links \in Seq(Links) /\ \A n \in DOMAIN links : RecoveryLink(links[n])
    /\ DOMAIN call = Requests /\ \A r \in Requests : RecoveryCall(call[r])
    /\ crowded \subseteq Emails

(* How far the mail of a link is by the call that sends it. *)
MailGoesOn(c) ==
    /\ c.op = "mail" => links[c.link].mail = "none"
    /\ c.op = "withdraw" => links[c.link].kind = "reset" /\ links[c.link].mail # "sent"
    /\ c.op = "supersede" => links[c.link].kind = "reset" /\ links[c.link].mail = "sent"
    /\ c.op = "use" => links[c.link].mail # "none"

SendingOps == {"mail", "supersede", "withdraw"}

(* No two calls send one link; unless they crowd, none sends to one address. *)
Senders ==
    /\ \A r \in Requests : MailGoesOn(call[r])
    /\ \A r, s \in Requests :
          r # s /\ call[r].op \in SendingOps /\ call[s].op \in SendingOps => call[r].link # call[s].link
    /\ \A r, s \in Requests : \A e \in Emails \ crowded : Sends(r, e) /\ Sends(s, e) => r = s
    /\ \A r \in Requests : call[r].op \in SendingOps =>
          \A later \in DOMAIN links :
             /\ later > call[r].link /\ links[later].kind = "reset" /\ links[call[r].link].kind = "reset"
             /\ links[later].to = links[call[r].link].to
             => links[later].to \in crowded

UsedIsGone == \A n \in DOMAIN links : links[n].uses > 0 => ~Works(n)

(* The link that is being mailed is still there. *)
MailedLinkStays ==
    \A r \in Requests :
        /\ call[r].op = "mail" /\ links[call[r].link].kind = "reset"
        /\ links[call[r].link].to \notin crowded
        => links[call[r].link].state # "deleted"

RecoveryInv ==
    /\ RecoveryTypes /\ Senders /\ UsedIsGone /\ MailedLinkStays
    /\ ThrottledOnlyByMail /\ LatestLinkWorks

(* What a call under way holds. *)
LEMMA RecoveryCallIs ==
    ASSUME NEW c, RecoveryCall(c)
    PROVE  /\ c.op \in {"mail", "supersede", "withdraw", "use"} => c.link \in DOMAIN links
           /\ c.op = "mail" => c = Mailing(c.link)
           /\ c.op = "supersede" => c = Superseding(c.link)
           /\ c.op = "withdraw" => c = Withdrawing(c.link)
           /\ c.op = "use" => c = Using(c.link)
           /\ c.op \in {"issue", "replace"} =>
                c.kind \in Kinds /\ c.to \in Emails /\ account[c.to].open
           /\ c.op = "save" =>
                /\ c.to \in Emails /\ account[c.to].open
                /\ c.user \in UserRows /\ c.user.open /\ c.user.name # ""
<1>1. CASE c = Idle
  BY <1>1 DEF Idle
<1>2. CASE \E e \in Emails : account[e].open
              /\ \/ \E kind \in Kinds : c \in {Asking(kind, e), Issuing(kind, e)}
                 \/ c = Replacing(e)
                 \/ \E user \in UserRows : user.open /\ user.name # "" /\ c = Saving(e, user)
  <2>1. PICK e \in Emails : account[e].open
              /\ \/ \E kind \in Kinds : c \in {Asking(kind, e), Issuing(kind, e)}
                 \/ c = Replacing(e)
                 \/ \E user \in UserRows : user.open /\ user.name # "" /\ c = Saving(e, user)
    BY <1>2
  <2>2. CASE \E kind \in Kinds : c \in {Asking(kind, e), Issuing(kind, e)}
    <3>1. PICK kind \in Kinds : c \in {Asking(kind, e), Issuing(kind, e)}
      BY <2>2
    <3>2. c.op \in {"ask", "issue"} /\ c.kind = kind /\ c.to = e
      BY <3>1 DEF Asking, Issuing
    <3> QED
      BY <2>1, <3>1, <3>2
  <2>3. CASE c = Replacing(e)
    BY <2>1, <2>3 DEF Replacing, Kinds
  <2>4. CASE \E user \in UserRows : user.open /\ user.name # "" /\ c = Saving(e, user)
    <3>1. PICK user \in UserRows : user.open /\ user.name # "" /\ c = Saving(e, user)
      BY <2>4
    <3>2. c.op = "save" /\ c.to = e /\ c.user = user
      BY <3>1 DEF Saving
    <3> QED
      BY <2>1, <3>1, <3>2
  <2> QED
    BY <2>1, <2>2, <2>3, <2>4
<1>3. CASE \E n \in DOMAIN links : c \in {Mailing(n), Superseding(n), Withdrawing(n), Using(n)}
  <2>1. PICK n \in DOMAIN links : c \in {Mailing(n), Superseding(n), Withdrawing(n), Using(n)}
    BY <1>3
  <2>2. c.link = n /\ c.op \in {"mail", "supersede", "withdraw", "use"}
    BY <2>1 DEF Mailing, Superseding, Withdrawing, Using
  <2>3. /\ c.op = "mail" => c = Mailing(n)
        /\ c.op = "supersede" => c = Superseding(n)
        /\ c.op = "withdraw" => c = Withdrawing(n)
        /\ c.op = "use" => c = Using(n)
    BY <2>1 DEF Mailing, Superseding, Withdrawing, Using
  <2>4. c.op \notin {"issue", "replace", "save"}
    BY <2>2
  <2> QED
    BY <2>2, <2>3, <2>4
<1> QED
  BY <1>1, <1>2, <1>3 DEF RecoveryCall

(* A call stays one while accounts and links only come. *)
LEMMA RecoveryCallStays ==
    ASSUME NEW c, RecoveryCall(c), \A e \in Emails : account[e].open => account'[e].open,
           DOMAIN links \subseteq DOMAIN links'
    PROVE  RecoveryCall(c)'
<1>1. CASE \E e \in Emails : account[e].open
              /\ \/ \E kind \in Kinds : c \in {Asking(kind, e), Issuing(kind, e)}
                 \/ c = Replacing(e)
                 \/ \E user \in UserRows : user.open /\ user.name # "" /\ c = Saving(e, user)
  <2>1. \E e \in Emails : account'[e].open
              /\ \/ \E kind \in Kinds : c \in {Asking(kind, e), Issuing(kind, e)}
                 \/ c = Replacing(e)
                 \/ \E user \in UserRows : user.open /\ user.name # "" /\ c = Saving(e, user)
    BY <1>1
  <2> QED
    BY <2>1 DEF RecoveryCall
<1>2. CASE \E n \in DOMAIN links : c \in {Mailing(n), Superseding(n), Withdrawing(n), Using(n)}
  <2>1. \E n \in DOMAIN links' : c \in {Mailing(n), Superseding(n), Withdrawing(n), Using(n)}
    BY <1>2
  <2> QED
    BY <2>1 DEF RecoveryCall
<1> QED
  BY <1>1, <1>2 DEF RecoveryCall

LinksApart == links \in Seq(Links) /\ \A n \in DOMAIN links : RecoveryLink(links[n])

(* What the types ask of a step. *)
LEMMA RecoveryTypesStay ==
    ASSUME RecoveryTypes, AccountsAre(account'), LinksApart',
           \A e \in Emails : account[e].open => account'[e].open,
           DOMAIN links \subseteq DOMAIN links', crowded' \subseteq Emails,
           \/ UNCHANGED call
           \/ \E r \in Requests : \E k : Become(r, k) /\ RecoveryCall(k)'
    PROVE  RecoveryTypes'
<1>1. \A q \in Requests : RecoveryCall(call[q])'
  <2>1. CASE UNCHANGED call
    <3> SUFFICES ASSUME NEW q \in Requests PROVE RecoveryCall(call[q])'
      OBVIOUS
    <3>1. PICK c : c = call[q]
      OBVIOUS
    <3>2. RecoveryCall(c)
      BY <3>1 DEF RecoveryTypes
    <3>3. RecoveryCall(c)'
      BY <3>2, RecoveryCallStays
    <3>4. call'[q] = c
      BY <2>1, <3>1
    <3> QED
      BY <3>3, <3>4
  <2>2. ASSUME NEW r \in Requests, NEW k, Become(r, k), RecoveryCall(k)'
        PROVE  \A q \in Requests : RecoveryCall(call[q])'
    <3> SUFFICES ASSUME NEW q \in Requests PROVE RecoveryCall(call[q])'
      OBVIOUS
    <3>0. DOMAIN call = Requests
      BY DEF RecoveryTypes
    <3>1. CASE q = r
      <4>1. call'[q] = k
        BY <3>0, <3>1, <2>2 DEF Become
      <4> QED
        BY <4>1, <2>2
    <3>2. CASE q # r
      <4>1. PICK c : c = call[q]
        OBVIOUS
      <4>2. RecoveryCall(c)
        BY <4>1 DEF RecoveryTypes
      <4>3. RecoveryCall(c)'
        BY <4>2, RecoveryCallStays
      <4>4. call'[q] = c
        BY <3>0, <3>2, <4>1, <2>2 DEF Become
      <4> QED
        BY <4>3, <4>4
    <3> QED
      BY <3>1, <3>2
  <2> QED
    BY <2>1, <2>2
<1>2. DOMAIN call' = Requests
  BY DEF RecoveryTypes, Become
<1> QED
  BY <1>1, <1>2 DEF RecoveryTypes, LinksApart

(* A row d is the row l with one of its fields set. *)
OnlyState(d, l, state) ==
    /\ d \in Links /\ d.kind = l.kind /\ d.to = l.to
    /\ d.state = state /\ d.mail = l.mail /\ d.uses = l.uses /\ d.stranded = l.stranded
OnlyMail(d, l, mail) ==
    /\ d \in Links /\ d.kind = l.kind /\ d.to = l.to
    /\ d.state = l.state /\ d.mail = mail /\ d.uses = l.uses /\ d.stranded = l.stranded
OnlyUses(d, l) ==
    /\ d \in Links /\ d.kind = l.kind /\ d.to = l.to
    /\ d.state = l.state /\ d.mail = l.mail /\ d.uses = l.uses + 1 /\ d.stranded = l.stranded
OnlyStranded(d, l) ==
    /\ d \in Links /\ d.kind = l.kind /\ d.to = l.to
    /\ d.state = l.state /\ d.mail = l.mail /\ d.uses = l.uses /\ d.stranded

(* What setting a field does to a row. *)
LEMMA SetState ==
    ASSUME NEW l \in Links, NEW s \in {"cooling", "usable", "expired", "deleted"}
    PROVE  OnlyState([l EXCEPT !.state = s], l, s)
<1>0. l.uses \in Nat
  BY DEF Links
<1>1. [l EXCEPT !.state = s] \in Links
  BY <1>0 DEF Links
<1> QED
  BY <1>0, <1>1 DEF Links, OnlyState

(* The same of the mail. *)
LEMMA SetMail ==
    ASSUME NEW l \in Links, NEW m \in {"none", "perhaps", "sent"}
    PROVE  OnlyMail([l EXCEPT !.mail = m], l, m)
<1>0. l.uses \in Nat
  BY DEF Links
<1>1. [l EXCEPT !.mail = m] \in Links
  BY <1>0 DEF Links
<1> QED
  BY <1>0, <1>1 DEF Links, OnlyMail

(* The same of the uses. *)
LEMMA SetUses ==
    ASSUME NEW l \in Links
    PROVE  OnlyUses([l EXCEPT !.uses = @ + 1], l)
<1>0. l.uses \in Nat
  BY DEF Links
<1>1. [l EXCEPT !.uses = @ + 1] \in Links
  BY <1>0 DEF Links
<1> QED
  BY <1>0, <1>1 DEF Links, OnlyUses

(* The same of a call cut off. *)
LEMMA SetStranded ==
    ASSUME NEW l \in Links
    PROVE  OnlyStranded([l EXCEPT !.stranded = TRUE], l)
<1>0. l.uses \in Nat
  BY DEF Links
<1>1. [l EXCEPT !.stranded = TRUE] \in Links
  BY <1>0 DEF Links
<1> QED
  BY <1>0, <1>1 DEF Links, OnlyStranded

(* The rows are numbered as they come. *)
LEMMA LinkNumbers ==
    ASSUME links \in Seq(Links)
    PROVE  /\ DOMAIN links = 1..Len(links) /\ Len(links) \in Nat
           /\ \A n \in DOMAIN links : n \in Nat /\ links[n] \in Links
<1> QED
  BY LenProperties, ElementOfSeq

(* What becomes of rows that are deleted. *)
LEMMA DeletedAre ==
    ASSUME links \in Seq(Links), NEW ns
    PROVE  /\ Deleted(ns) \in Seq(Links) /\ DOMAIN Deleted(ns) = DOMAIN links
           /\ \A n \in DOMAIN links :
                 OnlyState(Deleted(ns)[n], links[n],
                           IF n \in ns /\ Works(n) THEN "deleted" ELSE links[n].state)
<1>1. \A n \in DOMAIN links : links[n] \in Links
  BY LinkNumbers
<1>2. ASSUME NEW n \in DOMAIN links
      PROVE  OnlyState(Deleted(ns)[n], links[n],
                       IF n \in ns /\ Works(n) THEN "deleted" ELSE links[n].state)
  <2>1. Deleted(ns)[n] = IF n \in ns /\ Works(n) THEN [links[n] EXCEPT !.state = "deleted"] ELSE links[n]
    BY DEF Deleted
  <2>2. CASE n \in ns /\ Works(n)
    <3>1. Deleted(ns)[n] = [links[n] EXCEPT !.state = "deleted"]
      BY <2>1, <2>2
    <3>2. OnlyState([links[n] EXCEPT !.state = "deleted"], links[n], "deleted")
      BY <1>1, SetState
    <3> QED
      BY <2>2, <3>1, <3>2
  <2>3. CASE ~(n \in ns /\ Works(n))
    BY <1>1, <2>1, <2>3 DEF OnlyState
  <2> QED
    BY <2>2, <2>3
<1>3. DOMAIN Deleted(ns) = DOMAIN links
  BY DEF Deleted
<1>4. Deleted(ns) \in Seq(Links)
  <2>1. DOMAIN links = 1..Len(links) /\ Len(links) \in Nat
    BY LinkNumbers
  <2>2. Deleted(ns) = [n \in 1..Len(links) |-> Deleted(ns)[n]]
    BY <2>1 DEF Deleted
  <2>3. \A n \in 1..Len(links) : Deleted(ns)[n] \in Links
    BY <1>2, <2>1 DEF OnlyState
  <2> QED
    BY <2>1, <2>2, <2>3
<1> QED
  BY <1>2, <1>3, <1>4

(* A sequence with the length of links and rows in its places is one of rows. *)
LEMMA SameLength ==
    ASSUME links \in Seq(Links), NEW new, DOMAIN new = DOMAIN links, new = [n \in DOMAIN new |-> new[n]],
           \A n \in DOMAIN links : new[n] \in Links
    PROVE  new \in Seq(Links)
<1>1. DOMAIN links = 1..Len(links) /\ Len(links) \in Nat
  BY LinkNumbers
<1> QED
  BY <1>1

(***************************************************************************)
(* Most steps add no row and mail none, and start no call that sends a     *)
(* reset.                                                                  *)
(***************************************************************************)
RowGoesOn(d, l) ==
    /\ d \in Links /\ d.kind = l.kind /\ d.to = l.to /\ d.mail = l.mail
    /\ d.state = "cooling" => l.state = "cooling"
    /\ l.stranded => d.stranded
    /\ d.uses >= l.uses
RowsGoOn ==
    /\ links' \in Seq(Links) /\ DOMAIN links' = DOMAIN links
    /\ \A n \in DOMAIN links : RowGoesOn(links'[n], links[n])

Calm(c) ==
    /\ c.op \notin SendingOps
    /\ c.op = "issue" => c.kind = "verify"
    /\ c.op = "use" => c.link \in DOMAIN links /\ links[c.link].mail # "none"
CalmCalls == \A q \in Requests : call'[q] = call[q] \/ Calm(call'[q])

(* Senders needs no more than that. *)
LEMMA SendersStay ==
    ASSUME RecoveryTypes, Senders, RowsGoOn, CalmCalls, crowded' = crowded
    PROVE  Senders'
<1>1. \A q \in Requests : call'[q].op \in SendingOps => call'[q] = call[q]
  BY DEF CalmCalls, Calm
<1>2. \A q \in Requests : RecoveryCall(call[q])
  BY DEF RecoveryTypes
<1>3. \A q \in Requests : call[q].op \in SendingOps \cup {"use"} => call[q].link \in DOMAIN links
  BY <1>2, RecoveryCallIs DEF SendingOps
<1>4. \A n \in DOMAIN links : /\ links'[n].kind = links[n].kind /\ links'[n].to = links[n].to
                              /\ links'[n].mail = links[n].mail
  BY DEF RowsGoOn, RowGoesOn
<1>5. \A q \in Requests : MailGoesOn(call[q])'
  <2> SUFFICES ASSUME NEW q \in Requests PROVE MailGoesOn(call[q])'
    OBVIOUS
  <2>1. CASE call'[q] = call[q]
    <3>1. MailGoesOn(call[q])
      BY DEF Senders
    <3> QED
      BY <1>3, <1>4, <2>1, <3>1 DEF MailGoesOn, SendingOps
  <2>2. CASE Calm(call'[q])
    BY <1>4, <2>2 DEF MailGoesOn, Calm, SendingOps
  <2> QED
    BY <2>1, <2>2 DEF CalmCalls
<1>6. \A q \in Requests : \A e \in Emails : Sends(q, e)' => Sends(q, e)
  <2> SUFFICES ASSUME NEW q \in Requests, NEW e \in Emails, Sends(q, e)' PROVE Sends(q, e)
    OBVIOUS
  <2>1. call'[q] = call[q]
    BY DEF CalmCalls, Calm, Sends, SendingOps
  <2> QED
    BY <1>3, <1>4, <2>1 DEF Sends, SendingOps
<1>7. \A r, s \in Requests :
         r # s /\ call'[r].op \in SendingOps /\ call'[s].op \in SendingOps => call'[r].link # call'[s].link
  BY <1>1 DEF Senders
<1>8. \A r, s \in Requests : \A e \in Emails \ crowded' : Sends(r, e)' /\ Sends(s, e)' => r = s
  BY <1>6 DEF Senders
<1>9. \A r \in Requests : call'[r].op \in SendingOps =>
          \A later \in DOMAIN links' :
             /\ later > call'[r].link /\ links'[later].kind = "reset" /\ links'[call'[r].link].kind = "reset"
             /\ links'[later].to = links'[call'[r].link].to
             => links'[later].to \in crowded'
  <2> SUFFICES ASSUME NEW r \in Requests, call'[r].op \in SendingOps, NEW later \in DOMAIN links',
                      later > call'[r].link, links'[later].kind = "reset",
                      links'[call'[r].link].kind = "reset",
                      links'[later].to = links'[call'[r].link].to
               PROVE  links'[later].to \in crowded'
    OBVIOUS
  <2>1. call'[r] = call[r] /\ call[r].op \in SendingOps
    BY <1>1
  <2>2. call[r].link \in DOMAIN links /\ later \in DOMAIN links
    BY <1>3, <2>1 DEF RowsGoOn
  <2>3. /\ links[later].kind = "reset" /\ links[call[r].link].kind = "reset"
        /\ links[later].to = links[call[r].link].to
    BY <1>4, <2>1, <2>2
  <2>4. links[later].to \in crowded
    BY <2>1, <2>2, <2>3 DEF Senders
  <2> QED
    BY <1>4, <2>2, <2>4
<1> QED
  BY <1>5, <1>7, <1>8, <1>9 DEF Senders

(***************************************************************************)
(* Nor does the rest of the invariant, if a row whose sending ends is not  *)
(* in its cooldown, used rows stop working, and no row is deleted that     *)
(* counts: of a mailed link that is the last and was not used, or of a     *)
(* link that is being mailed.                                              *)
(***************************************************************************)
Superseder(n) == \E later \in LinksTo("reset", links[n].to) : later > n /\ links[later].mail = "sent"
MayGo(n) ==
    \/ links[n].kind # "reset" \/ links[n].to \in crowded
    \/ links[n].mail # "none" /\ links'[n].uses > 0
    \/ links[n].mail = "sent" /\ Superseder(n)
    \/ links[n].mail # "sent" /\ \A r \in Requests : call'[r] # Mailing(n)

(* Rows that go on keep the rest of the invariant. *)
LEMMA RestStays ==
    ASSUME RecoveryInv, RowsGoOn, CalmCalls, crowded' = crowded,
           \A q \in Requests : \A n \in DOMAIN links :
              /\ call[q] \in {Mailing(n), Withdrawing(n)} /\ call'[q] # call[q]
              => links'[n].state # "cooling" \/ links'[n].stranded,
           \A n \in DOMAIN links : links'[n].uses > 0 /\ links'[n].state \in {"cooling", "usable"} =>
              links[n].uses > 0 /\ Works(n),
           \A n \in DOMAIN links : links'[n].state = "deleted" => links[n].state = "deleted" \/ MayGo(n)
    PROVE  Senders' /\ UsedIsGone' /\ MailedLinkStays' /\ ThrottledOnlyByMail' /\ LatestLinkWorks'
<1> USE DEF RecoveryInv
<1>1. \A n \in DOMAIN links :
         /\ links'[n].kind = links[n].kind /\ links'[n].to = links[n].to
         /\ links'[n].mail = links[n].mail /\ links'[n].uses >= links[n].uses
         /\ links'[n].uses \in Nat /\ links[n].uses \in Nat
         /\ links'[n].state = "cooling" => links[n].state = "cooling"
         /\ links[n].stranded => links'[n].stranded
  <2>1. \A n \in DOMAIN links : links'[n].uses \in Nat
    BY DEF RowsGoOn, RowGoesOn, Links
  <2>2. \A n \in DOMAIN links : links[n].uses \in Nat
    BY DEF RecoveryTypes, RecoveryLink, Links
  <2> QED
    BY <2>1, <2>2 DEF RowsGoOn, RowGoesOn
<1>2. DOMAIN links' = DOMAIN links
  BY DEF RowsGoOn
<1>3. \A q \in Requests : call'[q].op \in SendingOps => call'[q] = call[q]
  BY DEF CalmCalls, Calm
<1>4. Senders'
  BY SendersStay
<1>5. UsedIsGone'
  BY <1>1, <1>2 DEF UsedIsGone, Works
<1>6. MailedLinkStays'
  <2> SUFFICES ASSUME NEW r \in Requests, call'[r].op = "mail",
                      links'[call'[r].link].kind = "reset",
                      links'[call'[r].link].to \notin crowded'
               PROVE  links'[call'[r].link].state # "deleted"
    BY DEF MailedLinkStays
  <2>1. call'[r] = call[r]
    BY <1>3 DEF SendingOps
  <2>2. RecoveryCall(call[r])
    BY DEF RecoveryTypes
  <2>3. PICK n : n = call[r].link
    OBVIOUS
  <2>4. n \in DOMAIN links /\ call[r] = Mailing(n)
    BY <2>1, <2>2, <2>3, RecoveryCallIs
  <2>5. links[n].state # "deleted"
    <3>1. call[r].op = "mail"
      BY <2>1
    <3>2. links[n].kind = "reset" /\ links[n].to \notin crowded
      BY <1>1, <2>1, <2>3, <2>4
    <3> QED
      BY <2>3, <3>1, <3>2 DEF MailedLinkStays
  <2>6. links[n].mail = "none"
    BY <2>1, <2>3 DEF Senders, MailGoesOn
  <2>7. ~(links'[n].state = "deleted")
    BY <1>1, <2>1, <2>3, <2>4, <2>5, <2>6 DEF MayGo
  <2> QED
    BY <2>1, <2>3, <2>7
<1>7. ThrottledOnlyByMail'
  <2> SUFFICES ASSUME NEW n \in DOMAIN links, links'[n].state = "cooling"
               PROVE  \/ links'[n].mail = "sent" \/ links'[n].stranded
                      \/ \E r \in Requests : call'[r] \in {Mailing(n), Withdrawing(n)}
    BY <1>2 DEF ThrottledOnlyByMail
  <2>1. \/ links[n].mail = "sent" \/ links[n].stranded
        \/ \E r \in Requests : call[r] \in {Mailing(n), Withdrawing(n)}
    BY <1>1 DEF ThrottledOnlyByMail
  <2> QED
    BY <1>1, <2>1
<1>8. LatestLinkWorks'
  <2> SUFFICES ASSUME NEW n \in DOMAIN links,
                      links'[n].kind = "reset", links'[n].mail = "sent", links'[n].uses = 0,
                      links'[n].to \notin crowded',
                      \A later \in LinksTo("reset", links[n].to)' : later > n => links'[later].mail # "sent"
               PROVE  links'[n].state # "deleted"
    BY <1>1, <1>2 DEF LatestLinkWorks, LinksTo
  <2>1. LinksTo("reset", links[n].to)' = LinksTo("reset", links[n].to)
    BY <1>1, <1>2 DEF LinksTo
  <2> QED
    BY <1>1, <1>2, <2>1 DEF LatestLinkWorks, LinksTo, MayGo, Superseder
<1> QED
  BY <1>4, <1>5, <1>6, <1>7, <1>8

(* There is room for one password at least. *)
LEMMA PasswordBound == 0 \in 0..MaxPasswords /\ 1 \in 0..MaxPasswords
<1>1. MaxPasswords \in Nat \ {0}
  BY RecoveryAssumption
<1> QED
  BY <1>1

(* The invariant holds at first. *)
LEMMA RecoveryInitInv == RecoveryInit => RecoveryInv
<1> SUFFICES ASSUME RecoveryInit PROVE RecoveryInv
  OBVIOUS
<1>1. links = <<>> /\ DOMAIN links = {} /\ links \in Seq(Links)
  BY EmptySeq, LenProperties DEF RecoveryInit
<1>2. DOMAIN call = Requests /\ \A r \in Requests : call[r] = Idle
  BY DEF RecoveryInit, CallsInit
<1>3. account \in [Emails -> UserRows]
  <2>1. NoAccount \in UserRows
    <3>1. 0 \in 0..MaxPasswords
      BY PasswordBound
    <3> QED
      BY <3>1 DEF NoAccount, UserRows
  <2> QED
    BY <2>1 DEF RecoveryInit
<1>4. \A e \in Emails : account[e] = NoAccount /\ ~account[e].open
  BY DEF RecoveryInit, NoAccount
<1>5. RecoveryTypes
  <2>1. AccountsAre(account)
    BY <1>3, <1>4 DEF AccountsAre
  <2> QED
    BY <1>1, <1>2, <2>1 DEF RecoveryTypes, RecoveryCall, RecoveryInit
<1>6. Senders /\ MailedLinkStays
  BY <1>2 DEF Senders, MailGoesOn, Sends, SendingOps, MailedLinkStays, Idle
<1> QED
  BY <1>1, <1>5, <1>6 DEF RecoveryInv, UsedIsGone, ThrottledOnlyByMail, LatestLinkWorks

(* A step in which one call moves and no row changes. *)
LEMMA QuietStep ==
    ASSUME RecoveryInv, AccountsAre(account'), \A e \in Emails : account[e].open => account'[e].open,
           UNCHANGED <<links, crowded>>,
           \/ UNCHANGED call
           \/ \E r \in Requests : \E k :
                 /\ Become(r, k) /\ RecoveryCall(k)' /\ Calm(k)
                 /\ call[r].op \notin {"mail", "withdraw"}
    PROVE  RecoveryInv'
<1> USE DEF RecoveryInv
<1>0. DOMAIN call = Requests /\ links \in Seq(Links) /\ crowded \subseteq Emails
  BY DEF RecoveryTypes
<1>1. RecoveryTypes'
  <2>1. LinksApart'
    <3>1. \A n \in DOMAIN links : RecoveryLink(links[n])
      BY DEF RecoveryTypes
    <3>2. \A n \in DOMAIN links : RecoveryLink(links[n])'
      BY <3>1 DEF RecoveryLink, Links
    <3> QED
      BY <1>0, <3>2 DEF LinksApart
  <2> QED
    BY <1>0, <2>1, RecoveryTypesStay
<1>2. RowsGoOn
  BY <1>0, LinkNumbers DEF RowsGoOn, RowGoesOn, Links
<1>3. CalmCalls
  BY <1>0 DEF CalmCalls, Become
<1>4. \A q \in Requests : \A n \in DOMAIN links :
         ~(call[q] \in {Mailing(n), Withdrawing(n)} /\ call'[q] # call[q])
  BY <1>0 DEF Become, Mailing, Withdrawing
<1>5. Senders' /\ UsedIsGone' /\ MailedLinkStays' /\ ThrottledOnlyByMail' /\ LatestLinkWorks'
  <2>1. \A n \in DOMAIN links : links'[n].uses > 0 /\ links'[n].state \in {"cooling", "usable"} =>
              links[n].uses > 0 /\ Works(n)
    BY DEF Works
  <2> QED
    BY <1>2, <1>3, <1>4, <2>1, RestStays
<1> QED
  BY <1>1, <1>5

(* A row written over an account, under a name that is free. *)
LEMMA AccountWritten ==
    ASSUME NEW acc, AccountsAre(acc), NEW e \in Emails, NEW u \in UserRows, u.open, u.name # "",
           \A other \in Emails \ {e} : acc[other].name # u.name
    PROVE  LET new == [acc EXCEPT ![e] = u]
           IN  AccountsAre(new) /\ new[e] = u /\ \A a \in Emails : acc[a].open => new[a].open
<1> DEFINE new == [acc EXCEPT ![e] = u]
<1>1. new \in [Emails -> UserRows] /\ new[e] = u /\ \A a \in Emails \ {e} : new[a] = acc[a]
  BY DEF AccountsAre
<1> HIDE DEF new
<1>2. ASSUME NEW a \in Emails
      PROVE  IF new[a].open
             THEN new[a].name # "" /\ \A other \in Emails \ {a} : new[other].name # new[a].name
             ELSE new[a] = NoAccount
  <2>1. CASE a = e
    BY <1>1, <2>1
  <2>2. CASE a # e
    BY <1>1, <2>2 DEF AccountsAre
  <2> QED
    BY <2>1, <2>2
<1>3. AccountsAre(new)
  BY <1>1, <1>2 DEF AccountsAre
<1>4. \A a \in Emails : acc[a].open => new[a].open
  BY <1>1
<1> QED
  BY <1>1, <1>3, <1>4 DEF new

(* The row of an agency is open. *)
LEMMA AgencyIsOpen ==
    ASSUME NEW acc, AccountsAre(acc), NEW e \in Emails
    PROVE  acc[e] \in UserRows /\ (acc[e].agency => acc[e].open)
<1>1. acc[e] \in UserRows
  BY DEF AccountsAre
<1>2. ~acc[e].open => acc[e] = NoAccount
  BY DEF AccountsAre
<1>3. ~NoAccount.agency
  BY DEF NoAccount
<1> QED
  BY <1>1, <1>2, <1>3

(* Opening an account. *)
LEMMA OpenStep ==
    ASSUME RecoveryInv, NEW e \in Emails, NEW name \in UserNames, NEW ag \in BOOLEAN,
           Open(e, name, ag)
    PROVE  /\ AccountsAre(account') /\ account'[e].open
           /\ \A a \in Emails : account[a].open => account'[a].open
<1>1. PICK u : u = [open |-> TRUE, agency |-> ag, password |-> IF ag THEN 0 ELSE 1,
                    verified |-> ag, name |-> name]
  OBVIOUS
<1>2. u \in UserRows /\ u.open /\ u.name = name /\ name # ""
  <2>1. (IF ag THEN 0 ELSE 1) \in 0..MaxPasswords
    BY PasswordBound
  <2>2. u \in UserRows
    BY <1>1, <2>1 DEF UserRows
  <2>3. name # ""
    BY RecoveryAssumption
  <2> QED
    BY <1>1, <2>2, <2>3
<1>3. account' = [account EXCEPT ![e] = u] /\ \A other \in Emails \ {e} : account[other].name # u.name
  BY <1>1, <1>2 DEF Open, Free
<1>4. AccountsAre(account)
  BY DEF RecoveryInv, RecoveryTypes
<1> QED
  BY <1>2, <1>3, <1>4, AccountWritten

(* An account is opened, and a link for it asked for. *)
LEMMA OpenSteps ==
    ASSUME RecoveryInv, NEW r \in Requests, NEW e \in Emails, NEW name \in UserNames,
           RegisterUser(r, e, name) \/ AgencyCreate(r, e, name)
    PROVE  RecoveryInv'
<1>1. ASSUME NEW kind \in Kinds, NEW ag \in BOOLEAN, call[r] = Idle, Open(e, name, ag),
             Become(r, Asking(kind, e))
      PROVE  RecoveryInv'
  <2>1. /\ AccountsAre(account') /\ account'[e].open
        /\ \A a \in Emails : account[a].open => account'[a].open
    BY <1>1, OpenStep
  <2>2. RecoveryCall(Asking(kind, e))' /\ Calm(Asking(kind, e))
    BY <2>1 DEF RecoveryCall, Calm, Asking, SendingOps
  <2>3. call[r].op \notin {"mail", "withdraw"} /\ UNCHANGED <<links, crowded>>
    BY <1>1 DEF Idle, Open
  <2> QED
    BY <1>1, <2>1, <2>2, <2>3, QuietStep
<1>2. CASE RegisterUser(r, e, name)
  BY <1>1, <1>2 DEF RegisterUser, Kinds
<1>3. CASE AgencyCreate(r, e, name)
  BY <1>1, <1>3 DEF AgencyCreate, Kinds
<1> QED
  BY <1>2, <1>3

(* A link is asked for. *)
LEMMA AskSteps ==
    ASSUME RecoveryInv, NEW r \in Requests, NEW e \in Emails, ResendSetup(r, e) \/ VerifyAsked(r, e)
    PROVE  RecoveryInv'
<1>0. AccountsAre(account)
  BY DEF RecoveryInv, RecoveryTypes
<1>1. CASE ResendSetup(r, e)
  <2>0. UNCHANGED account /\ UNCHANGED <<links, crowded>> /\ Become(r, Asking("reset", e)) /\ call[r] = Idle
        /\ account[e].agency
    BY <1>1 DEF ResendSetup
  <2>1. account[e].open
    BY <1>0, <2>0, AgencyIsOpen
  <2>2. RecoveryCall(Asking("reset", e))' /\ Calm(Asking("reset", e))
    BY <2>0, <2>1 DEF RecoveryCall, Calm, Asking, SendingOps, Kinds
  <2>3. call[r].op \notin {"mail", "withdraw"}
    BY <2>0 DEF Idle
  <2> QED
    BY <1>0, <2>0, <2>2, <2>3, QuietStep
<1>2. CASE VerifyAsked(r, e)
  <2>0. /\ UNCHANGED account /\ UNCHANGED <<links, crowded>> /\ Become(r, Replacing(e))
        /\ call[r] \in {Idle, Asking("verify", e)} /\ account[e].open
    BY <1>2 DEF VerifyAsked, Asked
  <2>1. RecoveryCall(Replacing(e))' /\ Calm(Replacing(e))
    BY <2>0 DEF RecoveryCall, Calm, Replacing, SendingOps
  <2>2. call[r].op \notin {"mail", "withdraw"}
    BY <2>0 DEF Idle, Asking
  <2> QED
    BY <1>0, <2>0, <2>1, <2>2, QuietStep
<1> QED
  BY <1>1, <1>2

(* A profile is saved as it was read. *)
LEMMA ProfileSaveStep == ASSUME RecoveryInv, NEW r \in Requests, ProfileSave(r) PROVE RecoveryInv'
<1>0. AccountsAre(account) /\ RecoveryCall(call[r])
  BY DEF RecoveryInv, RecoveryTypes
<1>1. /\ call[r].op = "save" /\ Free(call[r].user.name, call[r].to)
      /\ account' = [account EXCEPT ![call[r].to] = call[r].user]
      /\ Become(r, Idle) /\ UNCHANGED <<links, crowded>>
  BY DEF ProfileSave, Saved, Finish
<1>2. /\ call[r].to \in Emails /\ account[call[r].to].open
      /\ call[r].user \in UserRows /\ call[r].user.open /\ call[r].user.name # ""
  BY <1>0, <1>1, RecoveryCallIs
<1>3. \A other \in Emails \ {call[r].to} : account[other].name # call[r].user.name
  BY <1>1 DEF Free
<1>4. AccountsAre(account') /\ \A a \in Emails : account[a].open => account'[a].open
  BY <1>0, <1>1, <1>2, <1>3, AccountWritten
<1>5. RecoveryCall(Idle)' /\ Calm(Idle)
  BY DEF RecoveryCall, Calm, Idle, SendingOps
<1>6. call[r].op \notin {"mail", "withdraw"}
  BY <1>1
<1> QED
  BY <1>1, <1>4, <1>5, <1>6, QuietStep

(* An agency takes a name that is free. *)
LEMMA AgencySettingsStep ==
    ASSUME RecoveryInv, NEW e \in Emails, NEW name \in UserNames, AgencySettings(e, name)
    PROVE  RecoveryInv'
<1>0. AccountsAre(account)
  BY DEF RecoveryInv, RecoveryTypes
<1>1. PICK u : u = [account[e] EXCEPT !.name = name]
  OBVIOUS
<1>2. account' = [account EXCEPT ![e] = u] /\ account[e].agency /\ Free(name, e)
      /\ UNCHANGED <<links, call, crowded>>
  BY <1>1 DEF AgencySettings
<1>3. account[e].open /\ account[e] \in UserRows
  BY <1>0, <1>2, AgencyIsOpen
<1>4. u \in UserRows /\ u.open /\ u.name = name
  BY <1>1, <1>3 DEF UserRows
<1>5. name # ""
  BY RecoveryAssumption
<1>6. AccountsAre(account') /\ \A a \in Emails : account[a].open => account'[a].open
  BY <1>0, <1>2, <1>4, <1>5, AccountWritten DEF Free
<1> QED
  BY <1>2, <1>6, QuietStep

(* The steps that look an account or a link up. *)
LEMMA LookSteps ==
    ASSUME RecoveryInv, NEW r \in Requests,
           \/ \E e \in Emails, name \in UserNames : ProfileLook(r, e, name)
           \/ \E n \in DOMAIN links : UseLook(r, n)
    PROVE  RecoveryInv'
<1>0. AccountsAre(account) /\ RecoveryCall(call[r])
  BY DEF RecoveryInv, RecoveryTypes
<1>1. ASSUME NEW e \in Emails, NEW name \in UserNames, ProfileLook(r, e, name)
      PROVE  RecoveryInv'
  <2>1. PICK u : u = [account[e] EXCEPT !.name = name]
    OBVIOUS
  <2>2. /\ call[r] = Idle /\ account[e].open /\ Become(r, Saving(e, u))
        /\ UNCHANGED account /\ UNCHANGED <<links, crowded>>
    BY <1>1, <2>1 DEF ProfileLook
  <2>3. account[e] \in UserRows
    BY <1>0 DEF AccountsAre
  <2>4. u \in UserRows /\ u.open /\ u.name = name
    BY <2>1, <2>2, <2>3 DEF UserRows
  <2>5. u.name # ""
    BY <2>4, RecoveryAssumption
  <2>6. RecoveryCall(Saving(e, u))'
    BY <2>2, <2>4, <2>5 DEF RecoveryCall
  <2>7. Calm(Saving(e, u)) /\ call[r].op \notin {"mail", "withdraw"}
    BY <2>2 DEF Calm, Saving, Idle, SendingOps
  <2> QED
    BY <1>0, <2>2, <2>6, <2>7, QuietStep
<1>2. ASSUME NEW n \in DOMAIN links, UseLook(r, n)
      PROVE  RecoveryInv'
  <2>1. /\ call[r] = Idle /\ links[n].mail # "none" /\ Become(r, Using(n))
        /\ UNCHANGED account /\ UNCHANGED <<links, crowded>>
    BY <1>2 DEF UseLook
  <2>2. RecoveryCall(Using(n))'
    BY <2>1 DEF RecoveryCall
  <2>3. Using(n).op = "use" /\ Using(n).link = n
    BY DEF Using
  <2>4. Calm(Using(n))
    BY <2>1, <2>3 DEF Calm, SendingOps
  <2>5. call[r].op \notin {"mail", "withdraw"}
    BY <2>1 DEF Idle
  <2> QED
    BY <1>0, <2>1, <2>2, <2>4, <2>5, QuietStep
<1> QED
  BY <1>1, <1>2

(* A step in which rows change and none is added. *)
LEMMA RowStep ==
    ASSUME RecoveryInv, AccountsAre(account'), \A e \in Emails : account[e].open => account'[e].open,
           RowsGoOn, crowded' = crowded,
           \/ UNCHANGED call
           \/ \E r \in Requests : \E k : Become(r, k) /\ RecoveryCall(k)' /\ Calm(k),
           \A q \in Requests : \A n \in DOMAIN links :
              /\ call[q] \in {Mailing(n), Withdrawing(n)} /\ call'[q] # call[q]
              => links'[n].state # "cooling" \/ links'[n].stranded,
           \A n \in DOMAIN links : links'[n].uses > 0 /\ links'[n].state \in {"cooling", "usable"} =>
              links[n].uses > 0 /\ Works(n),
           \A n \in DOMAIN links : links'[n].state = "deleted" => links[n].state = "deleted" \/ MayGo(n)
    PROVE  RecoveryInv'
<1>0. DOMAIN call = Requests /\ crowded \subseteq Emails /\ RecoveryTypes
  BY DEF RecoveryInv, RecoveryTypes
<1>1. LinksApart'
  <2> SUFFICES ASSUME NEW n \in DOMAIN links PROVE RecoveryLink(links[n])'
    BY DEF LinksApart, RowsGoOn
  <2>1. RecoveryLink(links[n])
    BY <1>0 DEF RecoveryTypes
  <2>2. links[n].to \in Emails
    BY <2>1 DEF RecoveryLink, Links
  <2>3. /\ links'[n] \in Links /\ links'[n].kind = links[n].kind /\ links'[n].to = links[n].to
        /\ links'[n].state = "cooling" => links[n].state = "cooling"
    BY DEF RowsGoOn, RowGoesOn
  <2> QED
    BY <2>1, <2>2, <2>3 DEF RecoveryLink
<1>2. RecoveryTypes'
  BY <1>0, <1>1, RecoveryTypesStay DEF RowsGoOn
<1>3. CalmCalls
  BY <1>0 DEF CalmCalls, Become
<1> QED
  BY <1>2, <1>3, RestStays DEF RecoveryInv

(* Deleting rows is such a step. *)
LEMMA DeletedGoOn ==
    ASSUME RecoveryTypes, NEW ns, links' = Deleted(ns)
    PROVE  /\ RowsGoOn
           /\ \A n \in DOMAIN links :
                 /\ links'[n].uses = links[n].uses /\ links[n].uses \in Nat
                 /\ links'[n].state = IF n \in ns /\ Works(n) THEN "deleted" ELSE links[n].state
<1>1. links \in Seq(Links) /\ \A n \in DOMAIN links : links[n].uses \in Nat
  BY LinkNumbers DEF RecoveryTypes, Links
<1>2. /\ links' \in Seq(Links) /\ DOMAIN links' = DOMAIN links
      /\ \A n \in DOMAIN links :
            OnlyState(links'[n], links[n], IF n \in ns /\ Works(n) THEN "deleted" ELSE links[n].state)
  BY <1>1, DeletedAre
<1>3. \A n \in DOMAIN links : RowGoesOn(links'[n], links[n])
  <2> SUFFICES ASSUME NEW n \in DOMAIN links PROVE RowGoesOn(links'[n], links[n])
    OBVIOUS
  <2>1. OnlyState(links'[n], links[n], IF n \in ns /\ Works(n) THEN "deleted" ELSE links[n].state)
    BY <1>2
  <2> QED
    BY <1>1, <2>1 DEF OnlyState, RowGoesOn
<1> QED
  BY <1>1, <1>2, <1>3 DEF RowsGoOn, OnlyState

(* Calls that are over. *)
LEMMA OverIsCalm == RecoveryCall(Idle)' /\ Calm(Idle)
<1> QED
  BY DEF RecoveryCall, Calm, Idle, SendingOps

(* The older links of an address are replaced by none. *)
LEMMA VerifyReplaceStep == ASSUME RecoveryInv, NEW r \in Requests, VerifyReplace(r) PROVE RecoveryInv'
<1>0. RecoveryTypes /\ DOMAIN call = Requests /\ RecoveryCall(call[r]) /\ AccountsAre(account)
  BY DEF RecoveryInv, RecoveryTypes
<1>1. PICK e : e = call[r].to
  OBVIOUS
<1>2. /\ call[r].op = "replace" /\ links' = Deleted(LinksTo("verify", e))
      /\ Become(r, Issuing("verify", e)) /\ UNCHANGED account /\ crowded' = crowded
  BY <1>1 DEF VerifyReplace
<1>3. e \in Emails /\ account[e].open
  BY <1>0, <1>1, <1>2, RecoveryCallIs
<1>4. RecoveryCall(Issuing("verify", e))' /\ Calm(Issuing("verify", e))
  BY <1>2, <1>3 DEF RecoveryCall, Calm, Issuing, SendingOps, Kinds
<1>5. /\ RowsGoOn
      /\ \A n \in DOMAIN links :
            /\ links'[n].uses = links[n].uses
            /\ links'[n].state = IF n \in LinksTo("verify", e) /\ Works(n) THEN "deleted" ELSE links[n].state
  BY <1>0, <1>2, DeletedGoOn
<1>6. \A q \in Requests : \A n \in DOMAIN links :
         ~(call[q] \in {Mailing(n), Withdrawing(n)} /\ call'[q] # call[q])
  BY <1>0, <1>2 DEF Become, Mailing, Withdrawing
<1>7. \A n \in DOMAIN links : links'[n].uses > 0 /\ links'[n].state \in {"cooling", "usable"} =>
              links[n].uses > 0 /\ Works(n)
  BY <1>5 DEF Works
<1>8. \A n \in DOMAIN links : links'[n].state = "deleted" => links[n].state = "deleted" \/ MayGo(n)
  BY <1>5 DEF MayGo, LinksTo
<1> QED
  BY <1>0, <1>2, <1>4, <1>5, <1>6, <1>7, <1>8, RowStep

(* The call that supersedes is the only sender, and its link the last. *)
LEMMA SupersedeStep == ASSUME RecoveryInv, NEW r \in Requests, Supersede(r) PROVE RecoveryInv'
<1>0. RecoveryTypes /\ Senders /\ DOMAIN call = Requests /\ RecoveryCall(call[r]) /\ AccountsAre(account)
  BY DEF RecoveryInv, RecoveryTypes
<1>1. PICK m : m = call[r].link
  OBVIOUS
<1>2. PICK e : e = links[m].to
  OBVIOUS
<1>3. /\ call[r].op = "supersede" /\ links' = Deleted(LinksTo("reset", e) \ {m})
      /\ Become(r, Idle) /\ UNCHANGED account /\ crowded' = crowded
  BY <1>1, <1>2 DEF Supersede, Superseded, Finish
<1>4. m \in DOMAIN links
  BY <1>0, <1>1, <1>3, RecoveryCallIs
<1>5. e \in Emails
  BY <1>0, <1>2, <1>4 DEF RecoveryTypes, RecoveryLink, Links
<1>6. links[m].kind = "reset" /\ links[m].mail = "sent"
  BY <1>0, <1>1, <1>3 DEF Senders, MailGoesOn
<1>7. /\ RowsGoOn
      /\ \A n \in DOMAIN links :
            /\ links'[n].uses = links[n].uses
            /\ links'[n].state = IF n \in LinksTo("reset", e) \ {m} /\ Works(n) THEN "deleted"
                                 ELSE links[n].state
  BY <1>0, <1>3, DeletedGoOn
<1>8. \A q \in Requests : \A n \in DOMAIN links :
         ~(call[q] \in {Mailing(n), Withdrawing(n)} /\ call'[q] # call[q])
  BY <1>0, <1>3 DEF Become, Mailing, Withdrawing
<1>9. \A n \in DOMAIN links : links'[n].uses > 0 /\ links'[n].state \in {"cooling", "usable"} =>
              links[n].uses > 0 /\ Works(n)
  BY <1>7 DEF Works
<1>10. ASSUME NEW n \in LinksTo("reset", e) \ {m}
       PROVE  MayGo(n)
  <2>0. n \in DOMAIN links /\ links[n].kind = "reset" /\ links[n].to = e
    BY DEF LinksTo
  <2>1. CASE e \in crowded
    BY <2>0, <2>1 DEF MayGo
  <2>2. CASE e \notin crowded
    <3>1. ~(n > m)
      BY <1>0, <1>1, <1>2, <1>3, <1>6, <2>0, <2>2 DEF Senders, SendingOps
    <3>2. m > n /\ m \in LinksTo("reset", e)
      <4>1. m \in Nat /\ n \in Nat
        BY <1>0, <1>4, <2>0, LinkNumbers DEF RecoveryTypes
      <4>2. m \in LinksTo("reset", e) /\ m # n
        BY <1>2, <1>4, <1>6 DEF LinksTo
      <4> QED
        BY <3>1, <4>1, <4>2
    <3>3. Superseder(n)
      BY <1>6, <2>0, <3>2 DEF Superseder
    <3>4. ASSUME NEW q \in Requests, call'[q] = Mailing(n)
          PROVE  FALSE
      <4>1. q # r /\ call[q] = Mailing(n)
        BY <1>0, <1>3, <3>4 DEF Become, Idle, Mailing
      <4>2. Sends(q, e)
        BY <2>0, <4>1 DEF Sends, Mailing
      <4>3. Sends(r, e)
        BY <1>1, <1>2, <1>3, <1>6 DEF Sends
      <4> QED
        BY <1>0, <1>5, <2>2, <4>1, <4>2, <4>3 DEF Senders
    <3> QED
      BY <3>3, <3>4 DEF MayGo
  <2> QED
    BY <2>1, <2>2
<1>11. \A n \in DOMAIN links : links'[n].state = "deleted" => links[n].state = "deleted" \/ MayGo(n)
  BY <1>7, <1>10
<1> QED
  BY <1>0, <1>3, <1>7, <1>8, <1>9, <1>11, OverIsCalm, RowStep

(* A link that was not mailed is withdrawn by its own call. *)
LEMMA WithdrawStep == ASSUME RecoveryInv, NEW r \in Requests, Withdraw(r) PROVE RecoveryInv'
<1>0. RecoveryTypes /\ Senders /\ DOMAIN call = Requests /\ RecoveryCall(call[r]) /\ AccountsAre(account)
  BY DEF RecoveryInv, RecoveryTypes
<1>1. PICK m : m = call[r].link
  OBVIOUS
<1>2. /\ call[r].op = "withdraw" /\ links' = Deleted({m})
      /\ Become(r, Idle) /\ UNCHANGED account /\ crowded' = crowded
  BY <1>1 DEF Withdraw, Finish
<1>3. m \in DOMAIN links /\ call[r] = Withdrawing(m)
  BY <1>0, <1>1, <1>2, RecoveryCallIs
<1>4. links[m].mail # "sent"
  BY <1>0, <1>1, <1>2 DEF Senders, MailGoesOn
<1>5. /\ RowsGoOn
      /\ \A n \in DOMAIN links :
            /\ links'[n].uses = links[n].uses
            /\ links'[n].state = IF n \in {m} /\ Works(n) THEN "deleted" ELSE links[n].state
  BY <1>0, <1>2, DeletedGoOn
<1>6. \A q \in Requests : \A n \in DOMAIN links :
         call[q] \in {Mailing(n), Withdrawing(n)} /\ call'[q] # call[q] => links'[n].state # "cooling"
  <2> SUFFICES ASSUME NEW q \in Requests, NEW n \in DOMAIN links,
                      call[q] \in {Mailing(n), Withdrawing(n)}, call'[q] # call[q]
               PROVE  links'[n].state # "cooling"
    OBVIOUS
  <2>1. q = r
    BY <1>0, <1>2 DEF Become
  <2>2. n = m
    BY <1>1, <2>1 DEF Mailing, Withdrawing
  <2> QED
    BY <1>5, <2>2 DEF Works
<1>7. \A n \in DOMAIN links : links'[n].uses > 0 /\ links'[n].state \in {"cooling", "usable"} =>
              links[n].uses > 0 /\ Works(n)
  BY <1>5 DEF Works
<1>8. MayGo(m)
  <2> SUFFICES ASSUME NEW q \in Requests, call'[q] = Mailing(m) PROVE FALSE
    BY <1>4 DEF MayGo
  <2>1. q # r /\ call[q] = Mailing(m)
    BY <1>0, <1>2 DEF Become, Idle, Mailing
  <2>2. call[q].op = "mail" /\ call[q].link = m
    BY <2>1 DEF Mailing
  <2> QED
    BY <1>0, <1>1, <1>2, <2>1, <2>2 DEF Senders, SendingOps
<1>9. \A n \in DOMAIN links : links'[n].state = "deleted" => links[n].state = "deleted" \/ MayGo(n)
  BY <1>5, <1>8
<1> QED
  BY <1>0, <1>2, <1>5, <1>6, <1>7, <1>9, OverIsCalm, RowStep

(* The row goes as it is used. *)
LEMMA UseLinkStep == ASSUME RecoveryInv, NEW r \in Requests, UseLink(r) PROVE RecoveryInv'
<1>0. /\ RecoveryTypes /\ Senders /\ DOMAIN call = Requests /\ RecoveryCall(call[r]) /\ AccountsAre(account)
      /\ links \in Seq(Links) /\ \A n \in DOMAIN links : RecoveryLink(links[n])
  BY DEF RecoveryInv, RecoveryTypes
<1>1. PICK m : m = call[r].link
  OBVIOUS
<1>2. PICK e : e = links[m].to
  OBVIOUS
<1>3. /\ call[r].op = "use" /\ links' = [Deleted({m}) EXCEPT ![m].uses = @ + 1]
      /\ IF links[m].kind = "reset"
         THEN account[e].password < MaxPasswords /\ account' = [account EXCEPT ![e].password = @ + 1]
         ELSE account' = [account EXCEPT ![e].verified = TRUE]
      /\ Become(r, Idle) /\ crowded' = crowded
  BY <1>1, <1>2 DEF UseLink, Used, Finish
<1>4. m \in DOMAIN links /\ call[r] = Using(m) /\ links[m].mail # "none"
  BY <1>0, <1>1, <1>3, RecoveryCallIs DEF Senders, MailGoesOn
<1>5. e \in Emails /\ account[e].open
  BY <1>0, <1>2, <1>4 DEF RecoveryLink, Links
<1>6. AccountsAre(account') /\ \A a \in Emails : account[a].open => account'[a].open
  <2>1. account[e] \in UserRows /\ account[e].name # ""
        /\ \A other \in Emails \ {e} : account[other].name # account[e].name
    BY <1>0, <1>5 DEF AccountsAre
  <2>2. ASSUME NEW u \in UserRows, u.open, u.name = account[e].name, account' = [account EXCEPT ![e] = u]
        PROVE  AccountsAre(account') /\ \A a \in Emails : account[a].open => account'[a].open
    <3>1. u.name # "" /\ \A other \in Emails \ {e} : account[other].name # u.name
      BY <2>1, <2>2
    <3> QED
      BY <1>0, <1>5, <2>2, <3>1, AccountWritten
  <2>3. CASE links[m].kind = "reset"
    <3>1. PICK u : u = [account[e] EXCEPT !.password = @ + 1]
      OBVIOUS
    <3>2. account' = [account EXCEPT ![e] = u]
      BY <1>3, <2>3, <3>1
    <3>3. account[e].password + 1 \in 0..MaxPasswords
      <4>1. account[e].password \in 0..MaxPasswords /\ account[e].password < MaxPasswords
        BY <1>3, <2>1, <2>3 DEF UserRows
      <4>2. MaxPasswords \in Nat
        BY RecoveryAssumption
      <4> QED
        BY <4>1, <4>2
    <3>4. u \in UserRows /\ u.open /\ u.name = account[e].name
      BY <1>5, <2>1, <3>1, <3>3 DEF UserRows
    <3> QED
      BY <2>2, <3>2, <3>4
  <2>4. CASE links[m].kind # "reset"
    <3>1. PICK u : u = [account[e] EXCEPT !.verified = TRUE]
      OBVIOUS
    <3>2. account' = [account EXCEPT ![e] = u]
      BY <1>3, <2>4, <3>1
    <3>3. u \in UserRows /\ u.open /\ u.name = account[e].name
      BY <1>5, <2>1, <3>1 DEF UserRows
    <3> QED
      BY <2>2, <3>2, <3>3
  <2> QED
    BY <2>3, <2>4
<1>7. PICK gone : gone = Deleted({m})
  OBVIOUS
<1>8. /\ gone \in Seq(Links) /\ DOMAIN gone = DOMAIN links
      /\ \A n \in DOMAIN links :
            OnlyState(gone[n], links[n], IF n \in {m} /\ Works(n) THEN "deleted" ELSE links[n].state)
  BY <1>0, <1>7, DeletedAre
<1>9. /\ DOMAIN links' = DOMAIN links
      /\ \A n \in DOMAIN links \ {m} : links'[n] = gone[n]
      /\ links'[m] = [gone[m] EXCEPT !.uses = @ + 1]
  BY <1>3, <1>4, <1>7, <1>8
<1>10. gone[m] \in Links
  BY <1>4, <1>8 DEF OnlyState
<1>11. OnlyUses(links'[m], gone[m])
  BY <1>9, <1>10, SetUses
<1>12. links' \in Seq(Links)
  <2>1. links' = [gone EXCEPT ![m] = links'[m]]
    BY <1>3, <1>4, <1>7, <1>8, <1>9
  <2>2. m \in 1..Len(gone)
    BY <1>4, <1>8, LenProperties
  <2>3. links'[m] \in Links
    BY <1>11 DEF OnlyUses
  <2> QED
    BY <1>8, <2>1, <2>2, <2>3, ExceptSeq
<1>13. \A n \in DOMAIN links : links[n].uses \in Nat
  BY <1>0, LinkNumbers DEF Links
<1>14. RowsGoOn
  <2> SUFFICES ASSUME NEW n \in DOMAIN links PROVE RowGoesOn(links'[n], links[n])
    BY <1>9, <1>12 DEF RowsGoOn
  <2>1. OnlyState(gone[n], links[n], IF n \in {m} /\ Works(n) THEN "deleted" ELSE links[n].state)
    BY <1>8
  <2>2. CASE n = m
    BY <1>11, <1>13, <2>1, <2>2 DEF OnlyUses, OnlyState, RowGoesOn
  <2>3. CASE n # m
    BY <1>9, <1>13, <2>1, <2>3 DEF OnlyState, RowGoesOn
  <2> QED
    BY <2>2, <2>3
<1>15. \A q \in Requests : \A n \in DOMAIN links :
         ~(call[q] \in {Mailing(n), Withdrawing(n)} /\ call'[q] # call[q])
  BY <1>0, <1>3 DEF Become, Mailing, Withdrawing
<1>16. links'[m].uses > 0 /\ links'[m].state \notin {"cooling", "usable"}
  <2>1. OnlyState(gone[m], links[m], IF m \in {m} /\ Works(m) THEN "deleted" ELSE links[m].state)
    BY <1>4, <1>8
  <2> QED
    BY <1>4, <1>11, <1>13, <2>1 DEF OnlyState, OnlyUses, Works
<1>17. \A n \in DOMAIN links \ {m} : links'[n].uses = links[n].uses /\ links'[n].state = links[n].state
  BY <1>8, <1>9 DEF OnlyState
<1>18. \A n \in DOMAIN links : links'[n].uses > 0 /\ links'[n].state \in {"cooling", "usable"} =>
              links[n].uses > 0 /\ Works(n)
  BY <1>16, <1>17 DEF Works
<1>19. \A n \in DOMAIN links : links'[n].state = "deleted" => links[n].state = "deleted" \/ MayGo(n)
  BY <1>4, <1>16, <1>17 DEF MayGo
<1> QED
  BY <1>3, <1>6, <1>14, <1>15, <1>18, <1>19, OverIsCalm, RowStep

(* Time. *)
LEMMA AgeStep == ASSUME RecoveryInv, NEW m \in DOMAIN links, Age(m) PROVE RecoveryInv'
<1>0. /\ RecoveryTypes /\ DOMAIN call = Requests /\ AccountsAre(account)
      /\ links \in Seq(Links) /\ \A n \in DOMAIN links : links[n] \in Links
  BY LinkNumbers DEF RecoveryInv, RecoveryTypes
<1>1. PICK s : s = IF links[m].state = "cooling" THEN "usable" ELSE "expired"
  OBVIOUS
<1>2. /\ links' = [links EXCEPT ![m].state = s] /\ Works(m)
      /\ UNCHANGED account /\ UNCHANGED call /\ crowded' = crowded
  BY <1>1 DEF Age
<1>3. s \in {"cooling", "usable", "expired", "deleted"}
  BY <1>1
<1>4. OnlyState([links[m] EXCEPT !.state = s], links[m], s)
  BY <1>0, <1>3, SetState
<1>5. /\ DOMAIN links' = DOMAIN links
      /\ \A n \in DOMAIN links \ {m} : links'[n] = links[n]
      /\ OnlyState(links'[m], links[m], s)
  BY <1>2, <1>4
<1>6. links' \in Seq(Links)
  <2>1. links' = [links EXCEPT ![m] = links'[m]]
    BY <1>2, <1>5
  <2>2. m \in 1..Len(links) /\ links'[m] \in Links
    BY <1>0, <1>5, LenProperties DEF OnlyState
  <2> QED
    BY <1>0, <2>1, <2>2, ExceptSeq
<1>7. \A n \in DOMAIN links : links[n].uses \in Nat
  BY <1>0 DEF Links
<1>8. RowsGoOn
  <2> SUFFICES ASSUME NEW n \in DOMAIN links PROVE RowGoesOn(links'[n], links[n])
    BY <1>5, <1>6 DEF RowsGoOn
  <2>1. CASE n = m
    BY <1>1, <1>5, <1>7, <2>1 DEF OnlyState, RowGoesOn
  <2>2. CASE n # m
    BY <1>0, <1>5, <1>7, <2>2 DEF RowGoesOn
  <2> QED
    BY <2>1, <2>2
<1>9. \A n \in DOMAIN links : links'[n].uses > 0 /\ links'[n].state \in {"cooling", "usable"} =>
              links[n].uses > 0 /\ Works(n)
  BY <1>2, <1>5 DEF Works, OnlyState
<1>10. \A n \in DOMAIN links : links'[n].state = "deleted" => links[n].state = "deleted"
  BY <1>1, <1>5 DEF OnlyState
<1> QED
  BY <1>0, <1>2, <1>8, <1>9, <1>10, RowStep

(* A call that is cut off strands the link it was mailing or withdrawing. *)
LEMMA FailStep == ASSUME RecoveryInv, NEW r \in Requests, Fail(r) PROVE RecoveryInv'
<1>0. /\ RecoveryTypes /\ DOMAIN call = Requests /\ AccountsAre(account)
      /\ links \in Seq(Links) /\ \A n \in DOMAIN links : links[n] \in Links
  BY LinkNumbers DEF RecoveryInv, RecoveryTypes
<1>1. /\ links' = [n \in DOMAIN links |->
                      IF call[r] \in {Mailing(n), Withdrawing(n)}
                      THEN [links[n] EXCEPT !.stranded = TRUE] ELSE links[n]]
      /\ Become(r, Idle) /\ UNCHANGED account /\ crowded' = crowded
  BY DEF Fail, Finish
<1>2. \A n \in DOMAIN links :
         /\ call[r] \in {Mailing(n), Withdrawing(n)} => OnlyStranded(links'[n], links[n])
         /\ call[r] \notin {Mailing(n), Withdrawing(n)} => links'[n] = links[n]
  <2> SUFFICES ASSUME NEW n \in DOMAIN links
               PROVE  /\ call[r] \in {Mailing(n), Withdrawing(n)} => OnlyStranded(links'[n], links[n])
                      /\ call[r] \notin {Mailing(n), Withdrawing(n)} => links'[n] = links[n]
    OBVIOUS
  <2>1. CASE call[r] \in {Mailing(n), Withdrawing(n)}
    <3>1. links'[n] = [links[n] EXCEPT !.stranded = TRUE]
      BY <1>1, <2>1
    <3>2. OnlyStranded([links[n] EXCEPT !.stranded = TRUE], links[n])
      BY <1>0, SetStranded
    <3> QED
      BY <2>1, <3>1, <3>2
  <2>2. CASE call[r] \notin {Mailing(n), Withdrawing(n)}
    BY <1>1, <2>2
  <2> QED
    BY <2>1, <2>2
<1>3. \A n \in DOMAIN links :
         /\ RowGoesOn(links'[n], links[n])
         /\ links'[n].state = links[n].state /\ links'[n].uses = links[n].uses
  <2> SUFFICES ASSUME NEW n \in DOMAIN links
               PROVE  /\ RowGoesOn(links'[n], links[n])
                      /\ links'[n].state = links[n].state /\ links'[n].uses = links[n].uses
    OBVIOUS
  <2>1. links[n] \in Links /\ links[n].uses \in Nat
    BY <1>0 DEF Links
  <2>2. CASE call[r] \in {Mailing(n), Withdrawing(n)}
    <3>1. OnlyStranded(links'[n], links[n])
      BY <1>2, <2>2
    <3> QED
      BY <2>1, <3>1 DEF OnlyStranded, RowGoesOn
  <2>3. CASE call[r] \notin {Mailing(n), Withdrawing(n)}
    <3>1. links'[n] = links[n]
      BY <1>2, <2>3
    <3> QED
      BY <2>1, <3>1 DEF RowGoesOn
  <2> QED
    BY <2>2, <2>3
<1>4. RowsGoOn
  <2>1. DOMAIN links' = DOMAIN links
    BY <1>1
  <2>2. links' = [n \in DOMAIN links' |-> links'[n]]
    BY <1>1
  <2>3. \A n \in DOMAIN links : links'[n] \in Links
    BY <1>3 DEF RowGoesOn
  <2>4. PICK new : new = links'
    OBVIOUS
  <2>5. new \in Seq(Links)
    BY <1>0, <2>1, <2>2, <2>3, <2>4, SameLength
  <2> QED
    BY <1>3, <2>1, <2>4, <2>5 DEF RowsGoOn
<1>5. ASSUME NEW q \in Requests, NEW n \in DOMAIN links,
             call[q] \in {Mailing(n), Withdrawing(n)}, call'[q] # call[q]
      PROVE  links'[n].stranded
  <2>1. q = r
    BY <1>0, <1>1, <1>5 DEF Become
  <2> QED
    BY <1>2, <1>5, <2>1 DEF OnlyStranded
<1> QED
  BY <1>0, <1>1, <1>3, <1>4, <1>5, OverIsCalm, RowStep DEF Works

(* A reset is asked for: when another is being sent, the two crowd. *)
LEMMA ResetAskedStep ==
    ASSUME RecoveryInv, NEW r \in Requests, NEW e \in Emails, ResetAsked(r, e)
    PROVE  RecoveryInv'
<1> USE DEF RecoveryInv
<1>0. /\ RecoveryTypes /\ DOMAIN call = Requests /\ AccountsAre(account) /\ crowded \subseteq Emails
      /\ \A q \in Requests : RecoveryCall(call[q])
      /\ links \in Seq(Links) /\ \A n \in DOMAIN links : RecoveryLink(links[n])
  BY DEF RecoveryTypes
<1>1. /\ call[r] \in {Idle, Asking("reset", e)} /\ account[e].open
      /\ Become(r, Issuing("reset", e)) /\ UNCHANGED account /\ UNCHANGED links
      /\ crowded' = crowded \cup {a \in {e} : \E other \in Requests \ {r} : Sends(other, e)}
  BY DEF ResetAsked, Asked
<1>2. call'[r] = Issuing("reset", e) /\ \A q \in Requests \ {r} : call'[q] = call[q]
  BY <1>0, <1>1 DEF Become
<1>3. Issuing("reset", e).op = "issue" /\ Issuing("reset", e).to = e
      /\ call[r].op \notin {"issue", "mail", "supersede", "withdraw"}
  BY <1>1 DEF Issuing, Idle, Asking
<1>4. RecoveryTypes'
  <2>1. RecoveryCall(Issuing("reset", e))'
    BY <1>1 DEF RecoveryCall, Kinds
  <2>2. LinksApart'
    <3>1. \A n \in DOMAIN links : RecoveryLink(links[n])'
      BY <1>0, <1>1 DEF RecoveryLink
    <3> QED
      BY <1>0, <1>1, <3>1 DEF LinksApart
  <2>3. crowded' \subseteq Emails
    BY <1>0, <1>1
  <2> QED
    BY <1>0, <1>1, <2>1, <2>2, <2>3, RecoveryTypesStay
<1>5. Senders'
  <2>1. \A q \in Requests : MailGoesOn(call[q])'
    BY <1>1, <1>2, <1>3 DEF Senders, MailGoesOn
  <2>2. \A q \in Requests : call'[q].op \in SendingOps => q # r /\ call'[q] = call[q]
    BY <1>2, <1>3 DEF SendingOps
  <2>3. \A q, s \in Requests : \A a \in Emails \ crowded' : Sends(q, a)' /\ Sends(s, a)' => q = s
    <3> SUFFICES ASSUME NEW q \in Requests, NEW s \in Requests, NEW a \in Emails \ crowded',
                        Sends(q, a)', Sends(s, a)'
                 PROVE  q = s
      OBVIOUS
    <3>1. \A t \in Requests \ {r} : Sends(t, a)' => Sends(t, a)
      BY <1>1, <1>2 DEF Sends
    <3>2. Sends(r, a)' => a = e
      BY <1>2, <1>3 DEF Sends
    <3>3. a = e => \A t \in Requests \ {r} : ~Sends(t, a)
      BY <1>1
    <3> QED
      BY <1>1, <3>1, <3>2, <3>3 DEF Senders
  <2>4. \A q \in Requests : call'[q].op \in SendingOps =>
          \A later \in DOMAIN links' :
             /\ later > call'[q].link /\ links'[later].kind = "reset" /\ links'[call'[q].link].kind = "reset"
             /\ links'[later].to = links'[call'[q].link].to
             => links'[later].to \in crowded'
    BY <1>1, <2>2 DEF Senders
  <2> QED
    BY <1>1, <2>1, <2>2, <2>3, <2>4 DEF Senders
<1>6. UsedIsGone'
  BY <1>1 DEF UsedIsGone, Works
<1>7. MailedLinkStays'
  BY <1>1, <1>2, <1>3 DEF MailedLinkStays
<1>8. ThrottledOnlyByMail'
  <2>1. \A n \in DOMAIN links : call[r] \notin {Mailing(n), Withdrawing(n)}
    BY <1>3 DEF Mailing, Withdrawing
  <2> QED
    BY <1>1, <1>2, <2>1 DEF ThrottledOnlyByMail
<1>9. LatestLinkWorks'
  <2>1. \A a : LinksTo("reset", a)' = LinksTo("reset", a)
    BY <1>1 DEF LinksTo
  <2> QED
    BY <1>1, <2>1 DEF LatestLinkWorks
<1> QED
  BY <1>4, <1>5, <1>6, <1>7, <1>8, <1>9

(* The row that is added is the last, and its sender the only one. *)
LEMMA IssueLinkStep == ASSUME RecoveryInv, NEW r \in Requests, IssueLink(r) PROVE RecoveryInv'
<1> USE DEF RecoveryInv
<1>0. /\ RecoveryTypes /\ DOMAIN call = Requests /\ AccountsAre(account) /\ crowded \subseteq Emails
      /\ \A q \in Requests : RecoveryCall(call[q])
      /\ links \in Seq(Links) /\ \A n \in DOMAIN links : RecoveryLink(links[n])
  BY DEF RecoveryTypes
<1>1. PICK m : m = Len(links) + 1
  OBVIOUS
<1>2. PICK kind, e : kind = call[r].kind /\ e = call[r].to
  OBVIOUS
<1>3. PICK new : new = [kind |-> kind, to |-> e, state |-> IF kind = "reset" THEN "cooling" ELSE "usable",
                        mail |-> "none", uses |-> 0, stranded |-> FALSE]
  OBVIOUS
<1>4. /\ call[r].op = "issue" /\ links' = Append(links, new) /\ Become(r, Mailing(m))
      /\ UNCHANGED account /\ crowded' = crowded
  BY <1>1, <1>2, <1>3 DEF IssueLink
<1>5. kind \in Kinds /\ e \in Emails /\ account[e].open
  BY <1>0, <1>2, <1>4, RecoveryCallIs
<1>6. new \in Links /\ new.kind = kind /\ new.to = e /\ new.mail = "none" /\ new.uses = 0
      /\ new.state \in {"cooling", "usable"} /\ (new.state = "cooling" => kind = "reset")
  BY <1>3, <1>5 DEF Links
<1>7. /\ links' \in Seq(Links) /\ DOMAIN links' = DOMAIN links \cup {m} /\ m \notin DOMAIN links
      /\ links'[m] = new /\ \A n \in DOMAIN links : links'[n] = links[n] /\ n < m /\ n \in Nat
      /\ m \in Nat
  <2>1. DOMAIN links = 1..Len(links) /\ Len(links) \in Nat
    BY <1>0, LenProperties
  <2>2. /\ links' \in Seq(Links) /\ Len(links') = Len(links) + 1
        /\ \A i \in 1..Len(links) : links'[i] = links[i]
        /\ links'[Len(links) + 1] = new
    BY <1>0, <1>4, <1>6, AppendProperties
  <2>3. DOMAIN links' = 1..(Len(links) + 1)
    BY <2>2, LenProperties
  <2> QED
    BY <1>1, <2>1, <2>2, <2>3
<1>8. call'[r] = Mailing(m) /\ \A q \in Requests \ {r} : call'[q] = call[q]
  BY <1>0, <1>4 DEF Become
<1>9. Mailing(m).op = "mail" /\ Mailing(m).link = m
  BY DEF Mailing
<1>10. \A q \in Requests : call[q].op \in SendingOps \cup {"use"} => call[q].link \in DOMAIN links
  BY <1>0, RecoveryCallIs DEF SendingOps
<1>11. RecoveryTypes'
  <2>1. RecoveryCall(Mailing(m))'
    BY <1>7 DEF RecoveryCall
  <2>2. LinksApart'
    <3>1. \A n \in DOMAIN links : RecoveryLink(links[n])'
      BY <1>0, <1>4, <1>7 DEF RecoveryLink
    <3>2. RecoveryLink(links[m])'
      BY <1>4, <1>5, <1>6, <1>7 DEF RecoveryLink
    <3> QED
      BY <1>7, <3>1, <3>2 DEF LinksApart
  <2> QED
    BY <1>0, <1>4, <1>7, <2>1, <2>2, RecoveryTypesStay
<1>12. Senders'
  <2>1. \A q \in Requests : MailGoesOn(call[q])'
    <3> SUFFICES ASSUME NEW q \in Requests PROVE MailGoesOn(call[q])'
      OBVIOUS
    <3>1. CASE q = r
      BY <1>6, <1>7, <1>8, <1>9, <3>1 DEF MailGoesOn
    <3>2. CASE q # r
      <4>1. MailGoesOn(call[q])
        BY DEF Senders
      <4> QED
        BY <1>7, <1>8, <1>10, <3>2, <4>1 DEF MailGoesOn, SendingOps
    <3> QED
      BY <3>1, <3>2
  <2>2. \A q, s \in Requests :
           q # s /\ call'[q].op \in SendingOps /\ call'[s].op \in SendingOps => call'[q].link # call'[s].link
    BY <1>7, <1>8, <1>9, <1>10 DEF Senders
  <2>3. \A q \in Requests : \A a \in Emails : Sends(q, a)' => Sends(q, a)
    <3> SUFFICES ASSUME NEW q \in Requests, NEW a \in Emails, Sends(q, a)' PROVE Sends(q, a)
      OBVIOUS
    <3>1. CASE q = r
      <4>1. links'[m].kind = "reset" /\ links'[m].to = a
        BY <1>8, <1>9, <3>1 DEF Sends
      <4> QED
        BY <1>2, <1>4, <1>6, <1>7, <3>1, <4>1 DEF Sends
    <3>2. CASE q # r
      BY <1>7, <1>8, <1>10, <3>2 DEF Sends, SendingOps
    <3> QED
      BY <3>1, <3>2
  <2>4. \A q, s \in Requests : \A a \in Emails \ crowded' : Sends(q, a)' /\ Sends(s, a)' => q = s
    BY <1>4, <2>3 DEF Senders
  <2>5. ASSUME NEW q \in Requests, call'[q].op \in SendingOps, NEW later \in DOMAIN links',
               later > call'[q].link, links'[later].kind = "reset", links'[call'[q].link].kind = "reset",
               links'[later].to = links'[call'[q].link].to
        PROVE  links'[later].to \in crowded'
    <3>1. q # r
      BY <1>7, <1>8, <1>9, <2>5
    <3>2. PICK n : n = call[q].link
      OBVIOUS
    <3>3. n \in DOMAIN links /\ call'[q] = call[q] /\ call[q].op \in SendingOps /\ links'[n] = links[n]
      BY <1>7, <1>8, <1>10, <2>5, <3>1, <3>2
    <3>4. CASE later = m
      <4>1. kind = "reset" /\ links[n].to = e /\ links[n].kind = "reset"
        BY <1>6, <1>7, <2>5, <3>2, <3>3, <3>4
      <4>2. Sends(q, e) /\ Sends(r, e)
        BY <1>2, <1>4, <3>2, <3>3, <4>1 DEF Sends, SendingOps
      <4>3. e \in crowded
        BY <1>5, <3>1, <4>2 DEF Senders
      <4> QED
        BY <1>4, <1>6, <1>7, <3>4, <4>3
    <3>5. CASE later # m
      <4>1. later \in DOMAIN links /\ links'[later] = links[later]
        BY <1>7, <2>5, <3>5
      <4>2. /\ later > call[q].link /\ links[later].kind = "reset" /\ links[call[q].link].kind = "reset"
            /\ links[later].to = links[call[q].link].to
        BY <2>5, <3>2, <3>3, <4>1
      <4>3. links[later].to \in crowded
        BY <3>3, <4>1, <4>2 DEF Senders
      <4> QED
        BY <1>4, <4>1, <4>3
    <3> QED
      BY <3>4, <3>5
  <2> QED
    BY <2>1, <2>2, <2>4, <2>5 DEF Senders
<1>13. UsedIsGone'
  BY <1>6, <1>7 DEF UsedIsGone, Works
<1>14. MailedLinkStays'
  <2> SUFFICES ASSUME NEW q \in Requests, call'[q].op = "mail", links'[call'[q].link].kind = "reset",
                      links'[call'[q].link].to \notin crowded'
               PROVE  links'[call'[q].link].state # "deleted"
    BY DEF MailedLinkStays
  <2>1. CASE q = r
    BY <1>6, <1>7, <1>8, <1>9, <2>1
  <2>2. CASE q # r
    <3>1. call'[q] = call[q] /\ call[q].link \in DOMAIN links
      BY <1>8, <1>10, <2>2 DEF SendingOps
    <3>2. links'[call[q].link] = links[call[q].link]
      BY <1>7, <3>1
    <3> QED
      BY <1>4, <3>1, <3>2 DEF MailedLinkStays
  <2> QED
    BY <2>1, <2>2
<1>15. ThrottledOnlyByMail'
  <2>1. \A n \in DOMAIN links : call[r] \notin {Mailing(n), Withdrawing(n)}
    BY <1>4 DEF Mailing, Withdrawing
  <2> QED
    BY <1>7, <1>8, <2>1 DEF ThrottledOnlyByMail
<1>16. LatestLinkWorks'
  <2> SUFFICES ASSUME NEW n \in DOMAIN links',
                      links'[n].kind = "reset", links'[n].mail = "sent", links'[n].uses = 0,
                      links'[n].to \notin crowded',
                      \A later \in LinksTo("reset", links[n].to)' : later > n => links'[later].mail # "sent"
               PROVE  links'[n].state # "deleted"
    BY DEF LatestLinkWorks
  <2>1. n \in DOMAIN links /\ links'[n] = links[n]
    BY <1>6, <1>7
  <2>2. LinksTo("reset", links[n].to) \subseteq LinksTo("reset", links[n].to)'
    BY <1>7, <2>1 DEF LinksTo
  <2>3. \A later \in LinksTo("reset", links[n].to) : later > n => links[later].mail # "sent"
    BY <1>7, <2>2 DEF LinksTo
  <2> QED
    BY <1>4, <2>1, <2>3 DEF LatestLinkWorks
<1> QED
  BY <1>11, <1>12, <1>13, <1>14, <1>15, <1>16

(* A mail that was accepted leaves the call the only sender it was. *)
LEMMA MailStep == ASSUME RecoveryInv, NEW r \in Requests, Mail(r) PROVE RecoveryInv'
<1> USE DEF RecoveryInv
<1>0. /\ RecoveryTypes /\ DOMAIN call = Requests /\ AccountsAre(account) /\ crowded \subseteq Emails
      /\ \A q \in Requests : RecoveryCall(call[q])
      /\ links \in Seq(Links) /\ \A n \in DOMAIN links : RecoveryLink(links[n]) /\ links[n] \in Links
  BY DEF RecoveryTypes, RecoveryLink
<1>1. PICK m : m = call[r].link
  OBVIOUS
<1>2. PICK outcome \in {"none", "perhaps", "sent"} :
         /\ links' = [links EXCEPT ![m].mail = outcome]
         /\ Become(r, IF outcome # "sent" THEN AfterFailure(m)
                      ELSE IF links[m].kind = "reset" THEN Superseding(m) ELSE Idle)
  BY <1>1 DEF Mail
<1>3. call[r].op = "mail" /\ UNCHANGED account /\ crowded' = crowded
  BY DEF Mail
<1>4. m \in DOMAIN links /\ call[r] = Mailing(m)
  BY <1>0, <1>1, <1>3, RecoveryCallIs
<1>5. links[m].mail = "none"
  BY <1>1, <1>3 DEF Senders, MailGoesOn
<1>6. PICK k : k = IF outcome # "sent" THEN AfterFailure(m)
                   ELSE IF links[m].kind = "reset" THEN Superseding(m) ELSE Idle
  OBVIOUS
<1>7. \/ links[m].kind = "reset" /\ outcome = "sent" /\ k = Superseding(m)
      \/ links[m].kind = "reset" /\ outcome # "sent" /\ k = Withdrawing(m)
      \/ links[m].kind # "reset" /\ k = Idle
  BY <1>6 DEF AfterFailure
<1>8. \/ links[m].kind = "reset" /\ outcome = "sent" /\ k.op = "supersede" /\ k.link = m
      \/ links[m].kind = "reset" /\ outcome # "sent" /\ k.op = "withdraw" /\ k.link = m
      \/ links[m].kind # "reset" /\ k.op = "idle"
  BY <1>7 DEF Superseding, Withdrawing, Idle
<1>9. call'[r] = k /\ \A q \in Requests \ {r} : call'[q] = call[q]
  BY <1>0, <1>2, <1>6 DEF Become
<1>10. OnlyMail(links'[m], links[m], outcome)
  <2>1. links'[m] = [links[m] EXCEPT !.mail = outcome]
    BY <1>2, <1>4
  <2>2. OnlyMail([links[m] EXCEPT !.mail = outcome], links[m], outcome)
    BY <1>0, <1>4, SetMail
  <2> QED
    BY <2>1, <2>2
<1>11. DOMAIN links' = DOMAIN links /\ \A n \in DOMAIN links \ {m} : links'[n] = links[n]
  BY <1>2
<1>12. links' \in Seq(Links)
  <2>1. links' = [links EXCEPT ![m] = links'[m]]
    BY <1>2, <1>4
  <2>2. m \in 1..Len(links) /\ links'[m] \in Links
    BY <1>0, <1>4, <1>10, LenProperties DEF OnlyMail
  <2> QED
    BY <1>0, <2>1, <2>2, ExceptSeq
<1>13. \A n \in DOMAIN links :
          /\ links'[n].kind = links[n].kind /\ links'[n].to = links[n].to
          /\ links'[n].state = links[n].state /\ links'[n].uses = links[n].uses
          /\ links'[n].stranded = links[n].stranded /\ links'[n] \in Links
  BY <1>0, <1>10, <1>11 DEF OnlyMail
<1>14. \A q \in Requests : call[q].op \in SendingOps \cup {"use"} => call[q].link \in DOMAIN links
  BY <1>0, RecoveryCallIs DEF SendingOps
<1>15. \A q \in Requests \ {r} : call[q].op \in SendingOps \cup {"use"} =>
          call[q].link \in DOMAIN links \ {m}
  <2> SUFFICES ASSUME NEW q \in Requests \ {r}, call[q].op \in SendingOps \cup {"use"},
                      call[q].link = m
               PROVE  FALSE
    BY <1>14
  <2>1. MailGoesOn(call[q])
    BY DEF Senders
  <2>2. call[q].op # "use"
    BY <1>5, <2>1 DEF MailGoesOn
  <2> QED
    BY <1>1, <1>3, <2>2 DEF Senders, SendingOps
<1>16. RecoveryTypes'
  <2>1. RecoveryCall(k)'
    BY <1>4, <1>7, <1>11 DEF RecoveryCall
  <2>2. LinksApart'
    <3>1. \A n \in DOMAIN links : RecoveryLink(links[n])'
      BY <1>0, <1>3, <1>13 DEF RecoveryLink
    <3> QED
      BY <1>11, <1>12, <3>1 DEF LinksApart
  <2> QED
    BY <1>0, <1>2, <1>3, <1>6, <1>11, <2>1, <2>2, RecoveryTypesStay
<1>17. Senders'
  <2>1. \A q \in Requests : MailGoesOn(call[q])'
    <3> SUFFICES ASSUME NEW q \in Requests PROVE MailGoesOn(call[q])'
      OBVIOUS
    <3>1. CASE q = r
      <4>1. links'[m].kind = links[m].kind /\ links'[m].mail = outcome
        BY <1>10 DEF OnlyMail
      <4> QED
        BY <1>8, <1>9, <3>1, <4>1 DEF MailGoesOn
    <3>2. CASE q # r
      <4>1. MailGoesOn(call[q])
        BY DEF Senders
      <4> QED
        BY <1>9, <1>11, <1>15, <3>2, <4>1 DEF MailGoesOn, SendingOps
    <3> QED
      BY <3>1, <3>2
  <2>2. \A q \in Requests : call'[q].op \in SendingOps =>
           call[q].op \in SendingOps /\ call'[q].link = call[q].link
    BY <1>1, <1>3, <1>8, <1>9 DEF SendingOps
  <2>3. \A q, s \in Requests :
           q # s /\ call'[q].op \in SendingOps /\ call'[s].op \in SendingOps => call'[q].link # call'[s].link
    BY <2>2 DEF Senders
  <2>4. \A q \in Requests : \A a \in Emails : Sends(q, a)' => Sends(q, a)
    <3> SUFFICES ASSUME NEW q \in Requests, NEW a \in Emails, Sends(q, a)' PROVE Sends(q, a)
      OBVIOUS
    <3>1. CASE call'[q].op \in SendingOps
      <4>1. call[q].op \in SendingOps /\ call'[q].link = call[q].link
        BY <2>2, <3>1
      <4>2. call[q].link \in DOMAIN links
        BY <1>14, <4>1
      <4> QED
        BY <1>13, <3>1, <4>1, <4>2 DEF Sends, SendingOps
    <3>2. CASE call'[q].op \notin SendingOps
      <4>1. q # r
        BY <1>8, <1>9, <3>2 DEF Sends, SendingOps
      <4> QED
        BY <1>9, <3>2, <4>1 DEF Sends, SendingOps
    <3> QED
      BY <3>1, <3>2
  <2>5. \A q, s \in Requests : \A a \in Emails \ crowded' : Sends(q, a)' /\ Sends(s, a)' => q = s
    BY <1>3, <2>4 DEF Senders
  <2>6. ASSUME NEW q \in Requests, call'[q].op \in SendingOps, NEW later \in DOMAIN links',
               later > call'[q].link, links'[later].kind = "reset", links'[call'[q].link].kind = "reset",
               links'[later].to = links'[call'[q].link].to
        PROVE  links'[later].to \in crowded'
    <3>1. call[q].op \in SendingOps /\ call'[q].link = call[q].link
      BY <2>2, <2>6
    <3>2. call[q].link \in DOMAIN links /\ later \in DOMAIN links
      BY <1>11, <1>14, <2>6, <3>1
    <3>3. /\ later > call[q].link /\ links[later].kind = "reset" /\ links[call[q].link].kind = "reset"
          /\ links[later].to = links[call[q].link].to
      BY <1>13, <2>6, <3>1, <3>2
    <3>4. links[later].to \in crowded
      BY <3>1, <3>2, <3>3 DEF Senders
    <3> QED
      BY <1>3, <1>13, <3>2, <3>4
  <2> QED
    BY <2>1, <2>3, <2>5, <2>6 DEF Senders
<1>18. UsedIsGone'
  BY <1>11, <1>13 DEF UsedIsGone, Works
<1>19. MailedLinkStays'
  <2> SUFFICES ASSUME NEW q \in Requests, call'[q].op = "mail", links'[call'[q].link].kind = "reset",
                      links'[call'[q].link].to \notin crowded'
               PROVE  links'[call'[q].link].state # "deleted"
    BY DEF MailedLinkStays
  <2>1. q # r
    BY <1>8, <1>9
  <2>2. call'[q] = call[q] /\ call[q].link \in DOMAIN links
    BY <1>9, <1>14, <2>1 DEF SendingOps
  <2> QED
    BY <1>3, <1>13, <2>2 DEF MailedLinkStays
<1>20. ThrottledOnlyByMail'
  <2> SUFFICES ASSUME NEW n \in DOMAIN links, links'[n].state = "cooling"
               PROVE  \/ links'[n].mail = "sent" \/ links'[n].stranded
                      \/ \E q \in Requests : call'[q] \in {Mailing(n), Withdrawing(n)}
    BY <1>11 DEF ThrottledOnlyByMail
  <2>1. links[n].state = "cooling"
    BY <1>13
  <2>2. CASE n = m
    <3>1. links[m].kind = "reset"
      BY <1>0, <1>4, <2>1, <2>2 DEF RecoveryLink
    <3>2. links'[m].mail = outcome
      BY <1>10 DEF OnlyMail
    <3> QED
      BY <1>7, <1>9, <2>2, <3>1, <3>2
  <2>3. CASE n # m
    <3>1. links'[n] = links[n]
      BY <1>11, <2>3
    <3>2. call[r] \notin {Mailing(n), Withdrawing(n)}
      BY <1>1, <2>3 DEF Mailing, Withdrawing
    <3> QED
      BY <1>9, <2>1, <3>1, <3>2 DEF ThrottledOnlyByMail
  <2> QED
    BY <2>2, <2>3
<1>21. LatestLinkWorks'
  <2> SUFFICES ASSUME NEW n \in DOMAIN links,
                      links'[n].kind = "reset", links'[n].mail = "sent", links'[n].uses = 0,
                      links'[n].to \notin crowded',
                      \A later \in LinksTo("reset", links[n].to)' : later > n => links'[later].mail # "sent"
               PROVE  links'[n].state # "deleted"
    BY <1>11 DEF LatestLinkWorks
  <2>1. CASE n = m
    BY <1>1, <1>3, <1>4, <1>13, <2>1 DEF MailedLinkStays
  <2>2. CASE n # m
    <3>1. links'[n] = links[n]
      BY <1>11, <2>2
    <3>2. \A later \in LinksTo("reset", links[n].to) : later > n => links[later].mail # "sent"
      <4> SUFFICES ASSUME NEW later \in LinksTo("reset", links[n].to), later > n, later # m
                   PROVE  links[later].mail # "sent"
        BY <1>5
      <4>1. later \in LinksTo("reset", links[n].to)'
        BY <1>11, <1>13, <3>1 DEF LinksTo
      <4> QED
        BY <1>11, <4>1 DEF LinksTo
    <3> QED
      BY <1>3, <3>1, <3>2 DEF LatestLinkWorks
  <2> QED
    BY <2>1, <2>2
<1> QED
  BY <1>16, <1>17, <1>18, <1>19, <1>20, <1>21

(* Every step keeps the invariant. *)
LEMMA RecoveryStep == RecoveryInv /\ [RecoveryNext]_recoveryVars => RecoveryInv'
<1> SUFFICES ASSUME RecoveryInv, [RecoveryNext]_recoveryVars PROVE RecoveryInv'
  OBVIOUS
<1>1. CASE UNCHANGED recoveryVars
  <2>1. UNCHANGED call /\ UNCHANGED <<links, crowded>> /\ UNCHANGED account
    BY <1>1 DEF recoveryVars
  <2>2. AccountsAre(account)
    BY DEF RecoveryInv, RecoveryTypes
  <2> QED
    BY <2>1, <2>2, QuietStep
<1>2. ASSUME NEW r \in Requests, NEW e \in Emails,
             \/ \E name \in UserNames :
                   RegisterUser(r, e, name) \/ AgencyCreate(r, e, name) \/ ProfileLook(r, e, name)
             \/ VerifyAsked(r, e) \/ ResetAsked(r, e) \/ ResendSetup(r, e)
      PROVE  RecoveryInv'
  <2>1. CASE \E name \in UserNames :
                RegisterUser(r, e, name) \/ AgencyCreate(r, e, name) \/ ProfileLook(r, e, name)
    BY <2>1, OpenSteps, LookSteps
  <2>2. CASE VerifyAsked(r, e)
    BY <2>2, AskSteps
  <2>3. CASE ResetAsked(r, e)
    BY <2>3, ResetAskedStep
  <2>4. CASE ResendSetup(r, e)
    BY <2>4, AskSteps
  <2> QED
    BY <1>2, <2>1, <2>2, <2>3, <2>4
<1>3. ASSUME NEW e \in Emails, NEW name \in UserNames, AgencySettings(e, name) PROVE RecoveryInv'
  BY <1>3, AgencySettingsStep
<1>4. ASSUME NEW r \in Requests,
             \/ ProfileSave(r) \/ VerifyReplace(r) \/ IssueLink(r) \/ Mail(r) \/ Supersede(r)
             \/ Withdraw(r) \/ UseLink(r) \/ Fail(r) \/ \E n \in DOMAIN links : UseLook(r, n)
      PROVE  RecoveryInv'
  BY <1>4, ProfileSaveStep, VerifyReplaceStep, IssueLinkStep, MailStep, SupersedeStep, WithdrawStep,
     UseLinkStep, FailStep, LookSteps
<1>5. ASSUME NEW n \in DOMAIN links, Age(n) PROVE RecoveryInv'
  BY <1>5, AgeStep
<1> QED
  BY <1>1, <1>2, <1>3, <1>4, <1>5 DEF RecoveryNext

(* It holds in every state. *)
LEMMA RecoveryInvariant == RecoverySpec => []RecoveryInv
<1> QED
  BY RecoveryInitInv, RecoveryStep, PTL DEF RecoverySpec

(***************************************************************************)
(* Accounts, rows and calls are of their kinds, and every account that was *)
(* opened keeps a name no other has.                                       *)
(***************************************************************************)
THEOREM RecoveryTypeCorrect == RecoverySpec => []RecoveryTypeOK
<1>1. RecoveryInv => RecoveryTypeOK
  <2> SUFFICES ASSUME RecoveryInv PROVE RecoveryTypeOK
    OBVIOUS
  <2>1. RecoveryTypes
    BY DEF RecoveryInv
  <2>2. ASSUME NEW r \in Requests PROVE CallOK(call[r])
    <3>1. PICK c : c = call[r]
      OBVIOUS
    <3>2. RecoveryCall(c)
      BY <2>1, <3>1 DEF RecoveryTypes
    <3>3. CASE c = Idle
      BY <3>1, <3>3 DEF CallOK
    <3>4. CASE \E e \in Emails : \E kind \in Kinds : c \in {Asking(kind, e), Issuing(kind, e)}
      <4>1. c.op \in {"ask", "issue"} /\ c.kind \in Kinds /\ c.to \in Emails
        BY <3>4 DEF Asking, Issuing
      <4> QED
        BY <3>1, <4>1 DEF CallOK
    <3>5. CASE \E e \in Emails : c = Replacing(e)
      BY <3>1, <3>5 DEF CallOK, Replacing
    <3>6. CASE \E e \in Emails : \E user \in UserRows : c = Saving(e, user)
      <4>1. c.op = "save" /\ c.to \in Emails /\ c.user \in UserRows
        BY <3>6 DEF Saving
      <4> QED
        BY <3>1, <4>1 DEF CallOK
    <3>7. CASE \E n \in DOMAIN links : c \in {Mailing(n), Superseding(n), Withdrawing(n), Using(n)}
      <4>1. c.op \in {"mail", "supersede", "withdraw", "use"} /\ c.link \in DOMAIN links
        BY <3>7 DEF Mailing, Superseding, Withdrawing, Using
      <4> QED
        BY <3>1, <4>1 DEF CallOK
    <3> QED
      BY <3>2, <3>3, <3>4, <3>5, <3>6, <3>7 DEF RecoveryCall
  <2> QED
    BY <2>1, <2>2 DEF RecoveryTypes, AccountsAre, RecoveryTypeOK, Free
<1> QED
  BY <1>1, RecoveryInvariant, PTL

(***************************************************************************)
(* Nobody is throttled whose link was not mailed, is not being mailed and  *)
(* was not cut off on the way.                                             *)
(***************************************************************************)
THEOREM ThrottledByMail == RecoverySpec => []ThrottledOnlyByMail
<1> QED
  BY RecoveryInvariant, PTL DEF RecoveryInv

(***************************************************************************)
(* The last reset link mailed works until it is used or expires: its own   *)
(* call was the only sender, and later attempts delete only their own row. *)
(***************************************************************************)
THEOREM LatestLinkStays == RecoverySpec => []LatestLinkWorks
<1> QED
  BY RecoveryInvariant, PTL DEF RecoveryInv

(* A call begins to use a link only if no call has used it. *)
THEOREM UsedLinksAreGone == RecoverySpec => LinksWorkOnce
<1>1. RecoveryInv /\ [RecoveryNext]_recoveryVars =>
         \A r \in Requests :
            call[r] = Idle /\ call'[r].op = "use" => links[call'[r].link].uses = 0
  <2> SUFFICES ASSUME RecoveryInv, [RecoveryNext]_recoveryVars,
                      NEW r \in Requests, call[r] = Idle, call'[r].op = "use"
               PROVE  links[call'[r].link].uses = 0
    OBVIOUS
  <2>0. DOMAIN call = Requests /\ Idle.op = "idle"
    BY DEF RecoveryInv, RecoveryTypes, Idle
  <2>1. \A q \in Requests : \A k : Become(q, k) => q = r /\ k.op = "use"
    BY <2>0 DEF Become
  <2>2. PICK n \in DOMAIN links : UseLook(r, n)
    <3>1. ~UNCHANGED call
      BY <2>0
    <3>2. \A q \in Requests, e \in Emails, kind \in Kinds : ~Become(q, Asking(kind, e))
      BY <2>1 DEF Asking
    <3>3. \A q \in Requests, e \in Emails, name \in UserNames :
             ~(RegisterUser(q, e, name) \/ AgencyCreate(q, e, name) \/ ProfileLook(q, e, name))
      <4>1. \A q \in Requests, e \in Emails : \A u : ~Become(q, Saving(e, u))
        BY <2>1 DEF Saving
      <4> QED
        BY <3>2, <4>1 DEF RegisterUser, AgencyCreate, ProfileLook, Kinds
    <3>4. \A q \in Requests, e \in Emails : ~(VerifyAsked(q, e) \/ ResetAsked(q, e) \/ ResendSetup(q, e))
      <4>1. \A q \in Requests, e \in Emails : ~Become(q, Replacing(e)) /\ ~Become(q, Issuing("reset", e))
        BY <2>1 DEF Replacing, Issuing
      <4> QED
        BY <3>2, <4>1 DEF VerifyAsked, ResetAsked, ResendSetup, Kinds
    <3>5. \A e \in Emails, name \in UserNames : ~AgencySettings(e, name)
      BY <3>1 DEF AgencySettings
    <3>6. \A q \in Requests : call[q].op # "idle" => \A k : ~Become(q, k)
      BY <2>0, <2>1
    <3>7. \A q \in Requests : ~(\/ ProfileSave(q) \/ VerifyReplace(q) \/ IssueLink(q) \/ Mail(q)
                                 \/ Supersede(q) \/ Withdraw(q) \/ UseLink(q))
      BY <3>6 DEF ProfileSave, VerifyReplace, IssueLink, Mail, Supersede, Withdraw, UseLink, Finish
    <3>8. \A q \in Requests : ~Fail(q)
      BY <2>0, <2>1 DEF Fail, Finish
    <3>9. \A n \in DOMAIN links : ~Age(n)
      BY <3>1 DEF Age
    <3>10. RecoveryNext
      BY <3>1 DEF recoveryVars
    <3>11. \E q \in Requests : \E n \in DOMAIN links : UseLook(q, n)
      BY <3>3, <3>4, <3>5, <3>7, <3>8, <3>9, <3>10 DEF RecoveryNext
    <3> QED
      BY <2>1, <3>11 DEF UseLook
  <2>3. call'[r].link = n /\ Works(n)
    BY <2>0, <2>2 DEF UseLook, Become, Using
  <2>4. links[n].uses \in Nat
    BY DEF RecoveryInv, RecoveryTypes, RecoveryLink, Links
  <2> QED
    BY <2>2, <2>3, <2>4 DEF RecoveryInv, UsedIsGone
<1>2. LinksWorkOnce <=> [][\A r \in Requests :
          call[r] = Idle /\ call'[r].op = "use" => links[call'[r].link].uses = 0]_recoveryVars
  BY DEF LinksWorkOnce
<1> QED
  BY <1>1, <1>2, RecoveryInvariant, PTL DEF RecoverySpec

(* What a step may do to the account of an address. *)
NotUndone(e) ==
    \/ /\ account'[e].password >= account[e].password
       /\ account[e].verified => account'[e].verified
    \/ \E r \in Requests :
          /\ call[r].op = "save" /\ call[r].to = e
          /\ \/ call[r].user.password # account[e].password
             \/ call[r].user.verified # account[e].verified

(* Only the update of a profile writes back what was read before. *)
LEMMA AccountsGoOn ==
    ASSUME RecoveryInv, [RecoveryNext]_recoveryVars, NEW e \in Emails
    PROVE  NotUndone(e)
<1>0. /\ account \in [Emails -> UserRows] /\ RecoveryTypes
      /\ \A a \in Emails : ~account[a].open => account[a] = NoAccount
  BY DEF RecoveryInv, RecoveryTypes, AccountsAre
<1>1. account[e] \in UserRows /\ account[e].password \in Int
  <2>1. account[e] \in UserRows
    BY <1>0
  <2>2. account[e].password \in 0..MaxPasswords
    BY <2>1 DEF UserRows
  <2> QED
    BY <2>1, <2>2
<1>2. account'[e] = account[e] => NotUndone(e)
  BY <1>1 DEF NotUndone
<1>3. ASSUME NEW a \in Emails, NEW name \in UserNames, NEW ag \in BOOLEAN, Open(a, name, ag)
      PROVE  NotUndone(e)
  <2>1. CASE a # e
    BY <1>0, <1>2, <1>3, <2>1 DEF Open
  <2>2. CASE a = e
    <3>1. account[e] = NoAccount
      BY <1>0, <1>3, <2>2 DEF Open
    <3>2. NoAccount.password = 0 /\ ~NoAccount.verified
      BY DEF NoAccount
    <3>3. account'[e].password = IF ag THEN 0 ELSE 1
      BY <1>0, <1>3, <2>2 DEF Open
    <3>4. account'[e].password >= 0
      BY <3>3
    <3> QED
      BY <3>1, <3>2, <3>4 DEF NotUndone
  <2> QED
    BY <2>1, <2>2
<1>4. ASSUME NEW a \in Emails, NEW name \in UserNames, AgencySettings(a, name)
      PROVE  NotUndone(e)
  <2>1. account' = [account EXCEPT ![a].name = name]
    BY <1>4 DEF AgencySettings
  <2>2. account'[e].password = account[e].password /\ account'[e].verified = account[e].verified
    BY <1>0, <1>1, <2>1 DEF UserRows
  <2> QED
    BY <1>1, <2>2 DEF NotUndone
<1>5. ASSUME NEW r \in Requests, ProfileSave(r) PROVE NotUndone(e)
  <2>1. call[r].op = "save" /\ account' = [account EXCEPT ![call[r].to] = call[r].user]
    BY <1>5 DEF ProfileSave, Saved
  <2>2. CASE call[r].to # e
    BY <1>0, <1>2, <2>1, <2>2
  <2>3. CASE call[r].to = e
    <3>1. account'[e] = call[r].user
      BY <1>0, <2>1, <2>3
    <3> QED
      BY <1>1, <2>1, <2>3, <3>1 DEF NotUndone
  <2> QED
    BY <2>2, <2>3
<1>6. ASSUME NEW r \in Requests, UseLink(r) PROVE NotUndone(e)
  <2>1. PICK a : a = links[call[r].link].to
    OBVIOUS
  <2>2. \/ account' = [account EXCEPT ![a].password = @ + 1]
        \/ account' = [account EXCEPT ![a].verified = TRUE]
    BY <1>6, <2>1 DEF UseLink
  <2>3. CASE account' = [account EXCEPT ![a].password = @ + 1]
    <3>1. account'[e].verified = account[e].verified
      BY <1>0, <1>1, <2>3 DEF UserRows
    <3>2. account'[e].password \in {account[e].password, account[e].password + 1}
      BY <1>0, <1>1, <2>3 DEF UserRows
    <3> QED
      BY <1>1, <3>1, <3>2 DEF NotUndone
  <2>4. CASE account' = [account EXCEPT ![a].verified = TRUE]
    <3>1. account'[e].password = account[e].password
      BY <1>0, <1>1, <2>4 DEF UserRows
    <3>2. account[e].verified => account'[e].verified
      BY <1>0, <1>1, <2>4 DEF UserRows
    <3> QED
      BY <1>1, <3>1, <3>2 DEF NotUndone
  <2> QED
    BY <2>2, <2>3, <2>4
<1>7. UNCHANGED account => NotUndone(e)
  BY <1>2
<1>8. CASE UNCHANGED recoveryVars
  BY <1>7, <1>8 DEF recoveryVars
<1>9. CASE RecoveryNext
  <2>1. \A r \in Requests, a \in Emails, name \in UserNames :
           RegisterUser(r, a, name) \/ AgencyCreate(r, a, name) \/ ProfileLook(r, a, name) => NotUndone(e)
    BY <1>3, <1>7 DEF RegisterUser, AgencyCreate, ProfileLook
  <2>2. \A r \in Requests, a \in Emails :
           VerifyAsked(r, a) \/ ResetAsked(r, a) \/ ResendSetup(r, a) => NotUndone(e)
    BY <1>7 DEF VerifyAsked, ResetAsked, ResendSetup
  <2>3. \A r \in Requests :
           \/ ProfileSave(r) \/ VerifyReplace(r) \/ IssueLink(r) \/ Mail(r) \/ Supersede(r)
           \/ Withdraw(r) \/ UseLink(r) \/ Fail(r) \/ \E n \in DOMAIN links : UseLook(r, n)
           => NotUndone(e)
    BY <1>5, <1>6, <1>7 DEF VerifyReplace, IssueLink, Mail, Supersede, Withdraw, Fail, UseLook
  <2>4. \A n \in DOMAIN links : Age(n) => NotUndone(e)
    BY <1>7 DEF Age
  <2> QED
    BY <1>4, <1>9, <2>1, <2>2, <2>3, <2>4 DEF RecoveryNext
<1> QED
  BY <1>8, <1>9

(***************************************************************************)
(* No step takes a password or a verification back, but the update of a    *)
(* profile that had read the account before.                               *)
(***************************************************************************)
THEOREM ResetsStick == RecoverySpec => ResetSticks
<1>1. RecoveryInv /\ [RecoveryNext]_recoveryVars => \A e \in Emails : NotUndone(e)
  BY AccountsGoOn
<1>2. ResetSticks <=> [][\A e \in Emails : NotUndone(e)]_recoveryVars
  BY DEF ResetSticks, NotUndone
<1> QED
  BY <1>1, <1>2, RecoveryInvariant, PTL DEF RecoverySpec

-----------------------------------------------------------------------------
(* The scheduler and its snapshots. *)

(* What a sync has not written yet is what it has left. *)
RowsAddUp ==
    \A w \in Workers :
        /\ Step(w) = "rows" =>
              Subscribers[Streamer[sync[w].raffle]] \subseteq entries[sync[w].raffle] \cup sync[w].left
        /\ Step(w) = "promote" =>
              Subscribers[Streamer[sync[w].raffle]] \subseteq entries[sync[w].raffle]

SchedulerInv == SchedulerTypeOK /\ RowsAddUp

-----------------------------------------------------------------------------

(* The fields of a sync in each of its steps. *)
LEMMA SyncFields ==
    ASSUME SchedulerTypeOK, NEW w \in Workers
    PROVE  /\ NoSync \in Syncs /\ NoSync.step = "none"
           /\ Step(w) # "none" => sync[w].raffle \in Raffles
           /\ Step(w) = "rows" => sync[w].token \in Tokens /\ sync[w].left \subseteq Known
                                  /\ sync[w] \in [step : {"rows"}, raffle : Raffles, token : Tokens, left : SUBSET Known]
<1>1. sync[w] \in Syncs /\ NoSync \in Syncs /\ NoSync.step = "none"
  BY DEF SchedulerTypeOK, Syncs, NoSync
<1> QED
  BY <1>1 DEF Syncs, Step, NoSync

(* A step that changes no sync and takes no entry away. *)
LEMMA OtherStep ==
    ASSUME SchedulerInv, SchedulerTypeOK', UNCHANGED sync,
           \A r \in Raffles : entries[r] \subseteq entries'[r]
    PROVE  SchedulerInv'
<1>1. \A w \in Workers : Step(w)' = Step(w)
  BY DEF Step
<1>2. \A w \in Workers : Step(w) # "none" => sync[w].raffle \in Raffles
  BY SyncFields DEF SchedulerInv
<1>3. ASSUME NEW w \in Workers
      PROVE  /\ Step(w) = "rows" =>
                  Subscribers[Streamer[sync[w].raffle]] \subseteq entries'[sync[w].raffle] \cup sync[w].left
             /\ Step(w) = "promote" =>
                  Subscribers[Streamer[sync[w].raffle]] \subseteq entries'[sync[w].raffle]
  BY <1>2 DEF SchedulerInv, RowsAddUp
<1>4. RowsAddUp'
  BY <1>1, <1>3 DEF RowsAddUp
<1> QED
  BY <1>4 DEF SchedulerInv

(* Worker w goes over to s and takes no entry away. *)
LEMMA DoingStep ==
    ASSUME SchedulerInv, NEW w \in Workers, NEW s \in Syncs, Doing(w, s),
           entries' \in [Raffles -> SUBSET Known],
           \A r \in Raffles : entries[r] \subseteq entries'[r],
           s.step = "rows" => Subscribers[Streamer[s.raffle]] \subseteq entries'[s.raffle] \cup s.left,
           s.step = "promote" => Subscribers[Streamer[s.raffle]] \subseteq entries'[s.raffle]
    PROVE  sync' \in [Workers -> Syncs] /\ RowsAddUp'
<1>1. /\ sync' \in [Workers -> Syncs]
      /\ sync'[w] = s
      /\ \A x \in Workers \ {w} : sync'[x] = sync[x]
  BY DEF Doing, SchedulerInv, SchedulerTypeOK
<1>2. ASSUME NEW x \in Workers
      PROVE  /\ sync'[x].step = "rows" =>
                  Subscribers[Streamer[sync'[x].raffle]] \subseteq entries'[sync'[x].raffle] \cup sync'[x].left
             /\ sync'[x].step = "promote" =>
                  Subscribers[Streamer[sync'[x].raffle]] \subseteq entries'[sync'[x].raffle]
  <2>1. CASE x = w
    BY <1>1, <2>1
  <2>2. CASE x # w
    <3>1. sync'[x] = sync[x]
      BY <1>1, <2>2
    <3>2. sync[x].step # "none" => sync[x].raffle \in Raffles
      BY SyncFields DEF SchedulerInv, Step
    <3> QED
      BY <3>1, <3>2 DEF SchedulerInv, RowsAddUp, Step
  <2> QED
    BY <2>1, <2>2
<1> QED
  BY <1>1, <1>2 DEF RowsAddUp, Step

(* A sync that ends leaves no more to account for. *)
LEMMA EndsStep ==
    ASSUME SchedulerInv, NEW w \in Workers, Ends(w), UNCHANGED entries
    PROVE  sync' \in [Workers -> Syncs] /\ RowsAddUp'
<1>1. NoSync \in Syncs /\ NoSync.step = "none"
  BY SyncFields DEF SchedulerInv
<1>2. entries \in [Raffles -> SUBSET Known]
  BY DEF SchedulerInv, SchedulerTypeOK
<1> QED
  BY <1>1, <1>2, DoingStep DEF Ends

(* A sync that fails leaves what it has entered. *)
LEMMA FailedStep ==
    ASSUME SchedulerInv, NEW w \in Workers, Failed(w)
    PROVE  /\ sync' \in [Workers -> Syncs] /\ RowsAddUp'
           /\ UNCHANGED <<arrived, status, entries>>
           /\ batch' \subseteq Raffles
<1> QED
  BY EndsStep DEF Failed, AfterError, SchedulerInv, SchedulerTypeOK

(* Nothing is synced at first. *)
LEMMA SchedulerInitInv == SchedulerInit => SchedulerInv
<1> SUFFICES ASSUME SchedulerInit
             PROVE  SchedulerInv
  OBVIOUS
<1>1. NoSync \in Syncs /\ NoSync.step = "none"
  BY DEF Syncs, NoSync
<1>2. SchedulerTypeOK
  BY <1>1, SchedulerAssumption DEF SchedulerInit, SchedulerTypeOK, Tokens
<1>3. RowsAddUp
  BY <1>1 DEF SchedulerInit, RowsAddUp, Step
<1> QED
  BY <1>2, <1>3 DEF SchedulerInv

(* Raffles, statuses and tokens change without the entries. *)
LEMMA AroundStep ==
    ASSUME SchedulerInv,
           \/ Arrive \/ Scan
           \/ \E r \in Raffles : ActivateByHand(r) \/ CompleteByHand(r)
           \/ \E s \in Streamers : TokenGoesBad(s) \/ LogsInAgain(s)
    PROVE  SchedulerInv'
<1> USE SchedulerAssumption
<1>1. CASE Arrive
  <2>1. SchedulerTypeOK'
    BY <1>1 DEF Arrive, SchedulerInv, SchedulerTypeOK
  <2> QED
    BY <1>1, <2>1, OtherStep DEF Arrive
<1>2. CASE Scan
  <2>1. SchedulerTypeOK'
    BY <1>2 DEF Scan, SchedulerInv, SchedulerTypeOK
  <2> QED
    BY <1>2, <2>1, OtherStep DEF Scan
<1>3. ASSUME NEW r \in Raffles, ActivateByHand(r) \/ CompleteByHand(r)
      PROVE  SchedulerInv'
  <2>1. SchedulerTypeOK'
    BY <1>3 DEF ActivateByHand, CompleteByHand, SetStatus, SchedulerInv, SchedulerTypeOK
  <2> QED
    BY <1>3, <2>1, OtherStep DEF ActivateByHand, CompleteByHand, SetStatus
<1>4. ASSUME NEW s \in Streamers, TokenGoesBad(s) \/ LogsInAgain(s)
      PROVE  SchedulerInv'
  <2>1. SchedulerTypeOK'
    BY <1>4 DEF TokenGoesBad, LogsInAgain, SchedulerInv, SchedulerTypeOK, Tokens
  <2> QED
    BY <1>4, <2>1, OtherStep DEF TokenGoesBad, LogsInAgain
<1> QED
  BY <1>1, <1>2, <1>3, <1>4

(* A sync starts with all the subscribers left. *)
LEMMA StartSync ==
    ASSUME SchedulerInv, NEW w \in Workers, NEW r \in Raffles, Doing(w, Syncing(r, token[Streamer[r]])),
           UNCHANGED <<arrived, status, entries, token, faults>>, batch' \subseteq batch
    PROVE  SchedulerInv'
<1> DEFINE s == Syncing(r, token[Streamer[r]])
<1>1. Streamer[r] \in Streamers
  BY SchedulerAssumption
<1>2. Subscribers[Streamer[r]] \in SUBSET Known /\ token[Streamer[r]] \in Tokens
  BY <1>1 DEF Known, SchedulerInv, SchedulerTypeOK
<1>3. /\ s \in Syncs /\ s.step = "rows" /\ s.raffle = r
      /\ s.left = Subscribers[Streamer[r]]
  BY <1>2 DEF Syncing, Syncs
<1> HIDE DEF s
<1>4. entries \in [Raffles -> SUBSET Known]
  BY DEF SchedulerInv, SchedulerTypeOK
<1>5. sync' \in [Workers -> Syncs] /\ RowsAddUp'
  BY <1>3, <1>4, DoingStep DEF s
<1> QED
  BY <1>5 DEF SchedulerInv, SchedulerTypeOK

(* A snapshot begins with nothing entered by it. *)
LEMMA StartStep ==
    ASSUME SchedulerInv, SnapshotOne \/ \E r \in Raffles : SnapshotByHand(r)
    PROVE  SchedulerInv'
<1>1. CASE SnapshotOne
  <2>1. PICK r \in batch : /\ Doing("scheduler", Syncing(r, token[Streamer[r]]))
                           /\ batch' = batch \ {r}
    BY <1>1 DEF SnapshotOne
  <2>2. r \in Raffles /\ "scheduler" \in Workers
    BY DEF SchedulerInv, SchedulerTypeOK, Workers
  <2> QED
    BY <1>1, <2>1, <2>2, StartSync DEF SnapshotOne
<1>2. ASSUME NEW r \in Raffles, SnapshotByHand(r)
      PROVE  SchedulerInv'
  BY <1>2, StartSync DEF SnapshotByHand, Workers
<1> QED
  BY <1>1, <1>2

(* Twitch refuses the token. *)
LEMMA SyncRefusedStep ==
    ASSUME SchedulerInv, NEW w \in Workers, SyncRefused(w)
    PROVE  SchedulerInv'
<1>1. token' \in [Streamers -> Tokens]
  BY DEF SyncRefused, SchedulerInv, SchedulerTypeOK, Tokens
<1> QED
  BY <1>1, FailedStep DEF SyncRefused, SchedulerInv, SchedulerTypeOK

(* A sync fails on the way. *)
LEMMA SyncFailsStep ==
    ASSUME SchedulerInv, NEW w \in Workers, SyncFails(w)
    PROVE  SchedulerInv'
<1>1. token' \in [Streamers -> Tokens]
  BY DEF SyncFails, SchedulerInv, SchedulerTypeOK, Tokens
<1>2. faults' \in 0..MaxFaults
  BY SchedulerAssumption DEF SyncFails, SchedulerInv, SchedulerTypeOK
<1>3. Failed(w)
  BY DEF SyncFails
<1> QED
  BY <1>1, <1>2, <1>3, FailedStep DEF SchedulerInv, SchedulerTypeOK

(* The subscriber who is inserted is the one who is not left any more. *)
LEMMA SyncRowStep ==
    ASSUME SchedulerInv, NEW w \in Workers, SyncRow(w)
    PROVE  SchedulerInv'
<1> DEFINE r == sync[w].raffle
<1>1. PICK v \in sync[w].left :
          /\ entries' = [entries EXCEPT ![r] = @ \cup {v}]
          /\ Doing(w, [sync[w] EXCEPT !.left = @ \ {v}])
  BY DEF SyncRow
<1> DEFINE s == [sync[w] EXCEPT !.left = @ \ {v}]
<1>2. /\ Step(w) = "rows" /\ r \in Raffles /\ sync[w].left \subseteq Known
      /\ sync[w] \in [step : {"rows"}, raffle : Raffles, token : Tokens, left : SUBSET Known]
  BY SyncFields DEF SyncRow, SchedulerInv
<1>3. /\ s \in Syncs /\ s.step = "rows" /\ s.raffle = r
      /\ s.left = sync[w].left \ {v}
  BY <1>2 DEF Syncs
<1>4. Subscribers[Streamer[r]] \subseteq entries[r] \cup sync[w].left
  BY <1>2 DEF SchedulerInv, RowsAddUp
<1> HIDE DEF s, r
<1>5. /\ entries' \in [Raffles -> SUBSET Known]
      /\ entries'[r] = entries[r] \cup {v}
      /\ \A q \in Raffles : entries[q] \subseteq entries'[q]
  BY <1>1, <1>2 DEF SchedulerInv, SchedulerTypeOK
<1>6. Doing(w, s)
  BY <1>1 DEF s
<1>7. sync' \in [Workers -> Syncs] /\ RowsAddUp'
  BY <1>3, <1>4, <1>5, <1>6, DoingStep
<1> QED
  BY <1>5, <1>7 DEF SyncRow, SchedulerInv, SchedulerTypeOK

(* Nothing is left: the raffle has everybody. *)
LEMMA SyncDoneStep ==
    ASSUME SchedulerInv, NEW w \in Workers, SyncDone(w)
    PROVE  SchedulerInv'
<1> DEFINE r == sync[w].raffle
           s == IF w = "scheduler" THEN [step |-> "promote", raffle |-> r] ELSE NoSync
<1>1. /\ Step(w) = "rows" /\ r \in Raffles /\ sync[w].left = {}
      /\ NoSync \in Syncs /\ NoSync.step = "none"
  BY SyncFields DEF SyncDone, SchedulerInv
<1>2. /\ s \in Syncs /\ s.step # "rows"
      /\ s.step = "promote" => s.raffle = r
  BY <1>1 DEF Syncs
<1>3. Subscribers[Streamer[r]] \subseteq entries[r]
  BY <1>1 DEF SchedulerInv, RowsAddUp
<1>4. Doing(w, s) /\ UNCHANGED <<arrived, status, entries, token, batch, faults>>
  BY DEF SyncDone
<1> HIDE DEF s, r
<1>5. entries \in [Raffles -> SUBSET Known]
  BY DEF SchedulerInv, SchedulerTypeOK
<1>6. sync' \in [Workers -> Syncs] /\ RowsAddUp'
  BY <1>2, <1>3, <1>4, <1>5, DoingStep
<1> QED
  BY <1>4, <1>6 DEF SchedulerInv, SchedulerTypeOK

(* The scheduler promotes a raffle only after its sync went through. *)
LEMMA PromoteStep ==
    ASSUME SchedulerInv, Promote
    PROVE  SchedulerInv'
<1>1. "scheduler" \in Workers
  BY DEF Workers
<1>2. sync' \in [Workers -> Syncs] /\ RowsAddUp'
  BY <1>1, EndsStep DEF Promote
<1> QED
  BY <1>2 DEF Promote, SchedulerInv, SchedulerTypeOK

(* A scan runs out of time, or the server restarts. *)
LEMMA InterruptedStep ==
    ASSUME SchedulerInv, TimeOut \/ Restart
    PROVE  SchedulerInv'
<1> USE SchedulerAssumption
<1>1. CASE TimeOut
  <2>1. "scheduler" \in Workers
    BY DEF Workers
  <2>2. sync' \in [Workers -> Syncs] /\ RowsAddUp'
    BY <1>1, <2>1, EndsStep DEF TimeOut
  <2> QED
    BY <1>1, <2>2 DEF TimeOut, SchedulerInv, SchedulerTypeOK
<1>2. CASE Restart
  <2>1. NoSync \in Syncs /\ NoSync.step = "none"
    BY DEF Syncs, NoSync
  <2>2. sync' \in [Workers -> Syncs] /\ RowsAddUp'
    BY <1>2, <2>1 DEF Restart, RowsAddUp, Step
  <2> QED
    BY <1>2, <2>2 DEF Restart, SchedulerInv, SchedulerTypeOK
<1> QED
  BY <1>1, <1>2

(* Every step of the scheduler keeps its invariant. *)
LEMMA SchedulerStep == SchedulerInv /\ [SchedulerNext]_vars => SchedulerInv'
<1> SUFFICES ASSUME SchedulerInv, [SchedulerNext]_vars
             PROVE  SchedulerInv'
  OBVIOUS
<1>1. CASE UNCHANGED vars
  <2>1. SchedulerTypeOK'
    BY <1>1 DEF vars, SchedulerInv, SchedulerTypeOK
  <2> QED
    BY <1>1, <2>1, OtherStep DEF vars
<1>2. ASSUME NEW w \in Workers, Proceed(w) \/ SyncFails(w)
      PROVE  SchedulerInv'
  BY <1>2, SyncRefusedStep, SyncRowStep, SyncDoneStep, SyncFailsStep DEF Proceed
<1> QED
  BY <1>1, <1>2, AroundStep, StartStep, PromoteStep, InterruptedStep DEF SchedulerNext

-----------------------------------------------------------------------------

(* Its invariant holds in every state. *)
LEMMA SchedulerInvariant == SchedulerSpec => []SchedulerInv
<1> QED
  BY SchedulerInitInv, SchedulerStep, PTL DEF SchedulerSpec

(***************************************************************************)
(* The rows, the batch and the two syncs keep their types.                 *)
(***************************************************************************)
THEOREM SchedulerTypeCorrect == SchedulerSpec => []SchedulerTypeOK
<1>1. SchedulerInv => SchedulerTypeOK
  BY DEF SchedulerInv
<1> QED
  BY <1>1, SchedulerInvariant, PTL

(* Both a status and a sync change in one step only where a sync promotes. *)
LEMMA OnlyPromotes ==
    ASSUME SchedulerInv, SchedulerNext, NEW r \in Raffles,
           status[r] # status'[r], sync' # sync
    PROVE  Promote
<1> QED
  BY DEF SchedulerNext, Arrive, Scan, SnapshotOne, TimeOut, Restart, Proceed, SyncRefused,
     SyncRow, SyncDone, SyncFails, Failed, ActivateByHand, CompleteByHand, SetStatus,
     SnapshotByHand, TokenGoesBad, LogsInAgain

(***************************************************************************)
(* A raffle that the scheduler activates has all the subscribers, however  *)
(* many syncs failed before and whoever runs one beside it                 *)
(* (RunScheduledSnapshots, SyncFromTwitchAPI).                             *)
(***************************************************************************)
THEOREM WholeSnapshots == SchedulerSpec => SnapshotIsWhole
<1>1. ASSUME SchedulerInv, [SchedulerNext]_vars, NEW r \in Raffles,
             status[r] = "draft", status'[r] = "active", sync' # sync
      PROVE  Subscribers[Streamer[r]] \subseteq entries[r]
  <2>1. Promote
    BY <1>1, OnlyPromotes DEF vars
  <2>2. "scheduler" \in Workers
    BY DEF Workers
  <2>3. r = sync["scheduler"].raffle /\ Step("scheduler") = "promote"
    BY <1>1, <2>1 DEF Promote, Ready, SchedulerInv, SchedulerTypeOK
  <2> QED
    BY <1>1, <2>2, <2>3 DEF SchedulerInv, RowsAddUp
<1>2. SchedulerInv /\ [SchedulerNext]_vars =>
          [\A r \in Raffles : status[r] = "draft" /\ status'[r] = "active" /\ sync' # sync
              => Subscribers[Streamer[r]] \subseteq entries[r]]_vars
  BY <1>1
<1> QED
  BY <1>2, SchedulerInvariant, PTL DEF SchedulerSpec, SnapshotIsWhole

(***************************************************************************)
(* A raffle that is completed stays so, also one that is completed between *)
(* its sync and its promotion (RunScheduledSnapshots).                     *)
(***************************************************************************)
THEOREM CompletedStays == SchedulerSpec => NeverReopened
<1>1. ASSUME SchedulerInv, [SchedulerNext]_vars, NEW r \in Raffles, status[r] = "completed"
      PROVE  status'[r] = "completed"
  <2>1. CASE Promote
    BY <1>1, <2>1 DEF Promote, StillDraft, SchedulerInv, SchedulerTypeOK
  <2>2. CASE \E q \in Raffles : ActivateByHand(q) \/ CompleteByHand(q)
    BY <1>1, <2>2 DEF ActivateByHand, CompleteByHand, SetStatus, SchedulerInv, SchedulerTypeOK
  <2>3. CASE UNCHANGED status
    BY <1>1, <2>3
  <2> QED
    BY <1>1, <2>1, <2>2, <2>3
    DEF SchedulerNext, Arrive, Scan, SnapshotOne, TimeOut, Restart, Proceed, SyncRefused,
        SyncRow, SyncDone, SyncFails, Failed, SnapshotByHand, TokenGoesBad, LogsInAgain, vars
<1>2. SchedulerInv /\ [SchedulerNext]_vars =>
          [\A r \in Raffles : status[r] = "completed" => status'[r] = "completed"]_vars
  BY <1>1
<1> QED
  BY <1>2, SchedulerInvariant, PTL DEF SchedulerSpec, NeverReopened
=============================================================================
