SPECIFICATION FairClaimSpec
CONSTANTS
    u1 = u1
    c1 = c1
    c2 = c2
    Users = {u1}
    Linked = {u1}
    Ledgers = {1, 2}
    OwnerOf <- TwoLedgersOfOne
    InitialPoints = {1}
    Amounts = {1}
    MaxEarned = 2
    Claims = {c1, c2}
    Nobody = Nobody
    ClaimAmounts = {0, 2}
    MaxClaim = 4
INVARIANTS PointsConserved VerdictMatchesChain
PROPERTIES StatusLifeCycle RequestsEnd ImplementsExchange
CHECK_DEADLOCK FALSE
