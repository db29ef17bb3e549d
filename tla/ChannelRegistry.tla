--------------------------- MODULE ChannelRegistry ---------------------------
(***************************************************************************)
(* StreamerService, AgencyService and ChannelConfigService: which accounts *)
(* are registered for a channel and by which agency they are looked after, *)
(* who may read and change the channel's settings and statistics, and the  *)
(* settings.  A registration looks up who holds the channel's Twitch       *)
(* identity (AccountAccess) and is written in a later statement; an update *)
(* of the settings reads both and writes both.                             *)
(***************************************************************************)
EXTENDS Calls, Integers, FiniteSets

CONSTANTS
    Users, Nobody,
    Role,               \* users.role: viewer, streamer, agency or admin
    Channels,
    Rates, Factors,     \* values of seconds_per_point and multiplier; 0 is unset
    DefaultRate,        \* 60
    Legacy              \* agency_streamers: the agencies of each channel; never written

ASSUME RegistryAssumption ==
    /\ Nobody \notin Users
    /\ Role \in [Users -> {"viewer", "streamer", "agency", "admin"}]
    /\ Rates \subseteq Nat /\ Factors \subseteq 0..10
    /\ DefaultRate \in Nat \ {0}
    /\ Legacy \in [Channels -> SUBSET {u \in Users : Role[u] = "agency"}]

VARIABLES
    identity,           \* auth_providers: the account that holds the channel's identity
    registered,         \* streamers: the accounts registered for each channel
    agency,             \* streamers.agency_user_id
    config,             \* channel_configs
    held                \* history: the accounts that ever held the identity

registryVars == <<identity, registered, agency, config, held>>
streamerVars == <<registered, agency>>

Agencies == {u \in Users : Role[u] = "agency"}
NoConfig == [seconds |-> 0, multiplier |-> 0]
Standard == [seconds |-> DefaultRate, multiplier |-> 1]

RegistryInit ==
    /\ identity = [c \in Channels |-> Nobody]
    /\ registered = [c \in Channels |-> {}]
    /\ agency = [c \in Channels |-> [u \in Users |-> Nobody]]
    /\ config = [c \in Channels |-> NoConfig]
    /\ held = [c \in Channels |-> {}]

-----------------------------------------------------------------------------
(* Reads. *)

OwnsChannel(u, c) == u \in registered[c]
OwnsAgencyChannel(g, c) == \E u \in registered[c] : agency[c][u] = g

(* authorizeChannelAccess *)
MayRead(u, c) ==
    \/ Role[u] = "admin"
    \/ (Role[u] = "agency" /\ OwnsAgencyChannel(u, c))
    \/ (Role[u] = "streamer" /\ OwnsChannel(u, c))

(* The router lets no agency change settings. *)
MayConfigure(u, c) == Role[u] # "agency" /\ MayRead(u, c)

(* GetStats of one registration. *)
SeesStats(u, c, owner) ==
    \/ Role[u] = "admin"
    \/ (Role[u] = "agency" /\ agency[c][owner] = u)
    \/ (Role[u] = "streamer" /\ u = owner)

(* List *)
Listed(u, c, owner) ==
    /\ owner \in registered[c]
    /\ Role[u] = "admin" \/ (Role[u] = "agency" /\ agency[c][owner] = u)
ListedChannels(u) == {p \in Channels \X Users : Listed(u, p[1], p[2])}

(* The dashboard list of an agency fails for a channel two accounts are    *)
(* registered for, and for one nobody is.                                  *)
ListStreamers(g) == {c \in Channels : g \in Legacy[c]}
ListStreamerUserIDs(g) ==
    IF \A c \in ListStreamers(g) : Cardinality(registered[c]) = 1
    THEN [c \in ListStreamers(g) |-> CHOOSE u \in Users : u \in registered[c]]
    ELSE [c \in {} |-> Nobody]

(* GetContext, with the values of a missing row. *)
Current(c) == IF config[c] = NoConfig THEN Standard ELSE config[c]

-----------------------------------------------------------------------------

(* The identity is linked, unlinked or moves to another account. *)
Relink(c, u) ==
    /\ identity' = [identity EXCEPT ![c] = u]
    /\ held' = [held EXCEPT ![c] = @ \cup ({u} \ {Nobody})]
    /\ UNCHANGED <<streamerVars, config, call>>

(* Mutant: the channel need not be the account's own. *)
HoldsAny(u, c) == TRUE
Holds(u, c) == identity[c] = u

Registering(u, c, g) == [op |-> "register", user |-> u, channel |-> c, agency |-> g]

(* By the streamer. *)
Register(r, u, c) ==
    /\ Role[u] = "streamer" /\ Holds(u, c)
    /\ Begin(r, Registering(u, c, Nobody))
    /\ UNCHANGED registryVars

(* By an admin, for an agency or for none. *)
CreateStreamer(r, u, c, g) ==
    /\ Holds(u, c)
    /\ g \in Agencies \cup {Nobody}
    /\ Begin(r, Registering(u, c, g))
    /\ UNCHANGED registryVars

(* A row that is there keeps its agency unless another is given. *)
FirstOrCreate(r) ==
    /\ call[r].op = "register"
    /\ LET c == call[r].channel
           u == call[r].user
           g == call[r].agency
       IN  /\ registered' = [registered EXCEPT ![c] = @ \cup {u}]
           /\ agency' = [agency EXCEPT ![c][u] = IF g = Nobody THEN @ ELSE g]
    /\ Finish(r)
    /\ UNCHANGED <<identity, config, held>>

UpdateConfigLook(r, u, c, rate, factor) ==
    /\ rate # 0 \/ factor # 0
    /\ MayConfigure(u, c)
    /\ Begin(r, [op |-> "configure", channel |-> c, read |-> Current(c),
                 seconds |-> rate, multiplier |-> factor])
    /\ UNCHANGED registryVars

(* Mutant: an unset field is written as its default. *)
MergedDefault(cfg, rate, factor) ==
    [seconds |-> IF rate > 0 THEN rate ELSE DefaultRate,
     multiplier |-> IF factor > 0 THEN factor ELSE 1]
Merged(cfg, rate, factor) ==
    [seconds |-> IF rate > 0 THEN rate ELSE cfg.seconds,
     multiplier |-> IF factor > 0 THEN factor ELSE cfg.multiplier]

UpdateConfig(r) ==
    /\ call[r].op = "configure"
    /\ config' = [config EXCEPT ![call[r].channel] =
                     Merged(call[r].read, call[r].seconds, call[r].multiplier)]
    /\ Finish(r)
    /\ UNCHANGED <<identity, streamerVars, held>>

RegistryFail(r) ==
    /\ call[r].op \in {"register", "configure"}
    /\ Finish(r)
    /\ UNCHANGED registryVars

(* Migration 020, which may run beside the server: registrations without   *)
(* an agency take the one of the old table, unless a channel has two there.*)
Orphans(c) == {u \in registered[c] : agency[c][u] = Nobody}
Conflict == \E c \in Channels : Orphans(c) # {} /\ Cardinality(Legacy[c]) > 1
BackfillAgency ==
    /\ ~Conflict
    /\ agency' = [c \in Channels |-> [u \in Users |->
                     IF u \in Orphans(c) /\ Legacy[c] # {}
                     THEN CHOOSE g \in Users : g \in Legacy[c] ELSE agency[c][u]]]
    /\ UNCHANGED <<identity, registered, config, held, call>>

RegistryNext ==
    \/ BackfillAgency
    \/ \E c \in Channels, u \in Users \cup {Nobody} : Relink(c, u)
    \/ \E r \in Requests, c \in Channels, u \in Users :
          \/ Register(r, u, c)
          \/ \E g \in Users \cup {Nobody} : CreateStreamer(r, u, c, g)
          \/ \E rate \in Rates, factor \in Factors : UpdateConfigLook(r, u, c, rate, factor)
    \/ \E r \in Requests : FirstOrCreate(r) \/ UpdateConfig(r) \/ RegistryFail(r)

RegistrySpec == CallsInit /\ RegistryInit /\ [][RegistryNext]_<<call, registryVars>>

-----------------------------------------------------------------------------

Settings == [seconds : Nat \ {0}, multiplier : 1..10]
RegistryCalls ==
    {Idle}
    \cup [op : {"register"}, user : Users, channel : Channels, agency : Agencies \cup {Nobody}]
    \cup [op : {"configure"}, channel : Channels, read : Settings, seconds : Rates, multiplier : Factors]

(* Registrations, settings and calls as the columns and handlers admit them. *)
RegistryTypeOK ==
    /\ identity \in [Channels -> Users \cup {Nobody}]
    /\ registered \in [Channels -> SUBSET Users]
    /\ agency \in [Channels -> [Users -> Users \cup {Nobody}]]
    /\ config \in [Channels -> Settings \cup {NoConfig}]
    /\ held \in [Channels -> SUBSET Users]
    /\ call \in [Requests -> RegistryCalls]

(***************************************************************************)
(* Registrations are never removed and the right to change a channel's     *)
(* settings and to start raffles for it rests on them.  Except an admin,   *)
(* whoever may change the settings, and whoever an agency's dashboard      *)
(* names, did hold the channel's Twitch identity at some time, by          *)
(* whichever of the two ways it was registered and however the identity    *)
(* moves while the registration is under way.  An account looks after a    *)
(* registration only as an agency, and who is listed a registration passes *)
(* the other two checks, those of its statistics and of its settings.      *)
(***************************************************************************)
RegistrationEarned ==
    \A c \in Channels, u \in Users :
        /\ (u \in registered[c] \/ (Role[u] # "admin" /\ MayConfigure(u, c))) => u \in held[c]
        /\ agency[c][u] # Nobody => u \in registered[c] /\ agency[c][u] \in Agencies
        /\ \A v \in Users : <<c, u>> \in ListedChannels(v) => SeesStats(v, c, u) /\ MayRead(v, c)
        /\ c \in DOMAIN ListStreamerUserIDs(u) => ListStreamerUserIDs(u)[c] \in held[c]

(***************************************************************************)
(* An update leaves the setting it was not given as it is.  It writes back *)
(* an old value only when the settings were changed between its read and   *)
(* its write.                                                              *)
(***************************************************************************)
UnsetFieldKept ==
    [][\A c \in Channels, f \in {"seconds", "multiplier"} :
          Current(c)[f]' # Current(c)[f] =>
              \E r \in Requests :
                  /\ call[r].op = "configure" /\ call[r].channel = c
                  /\ call[r][f] # 0 \/ call[r].read # Current(c)
      ]_<<call, registryVars>>
=============================================================================
