SPECIFICATION WatchSpec
CONSTANTS
    Viewers = {v1, v2}
    Nobody = Nobody
    Sessions = {s1, s2}
    NoSession = NoSession
    Streamers = {m1, m2}
    NoStreamer = NoStreamer
    Requests = {r1, r2}
    MinGap = 1
    MaxCredit = 2
    StaleAfter = 3
    Cooldown = 2
    SecondsPerPoint = {2, 3}
    Multipliers = {2}
    MaxInt = 3
    Horizon = 5
SYMMETRY Symmetry
CONSTRAINT Focus
INVARIANTS WatchTimeIsReal SecondsPaidOnce StatsFollowSessions
PROPERTY ClickCooldown
CHECK_DEADLOCK FALSE
