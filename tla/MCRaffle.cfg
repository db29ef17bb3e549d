SPECIFICATION FairRaffleSpec
CONSTANTS
    Logins = {a1, a2}
    Subscribers = {a1}
    NoLogin = NoLogin
    Tiers = {t1, t2}
    EditedTiers = {t1}
    NoTier = NoTier
    Quotas = {1}
    MaxTries = 2
    Requests = {r1, r2}
INVARIANTS CountIsDraws SubscribersOnly
PROPERTY CallsEnd
CHECK_DEADLOCK FALSE
