SPECIFICATION AirdropSpec
SYMMETRY RequestSymmetry
CONSTANTS
    Viewers = {1, 2, 3}
    MaxSeconds = 2
    Amounts = {1, 2}
    Limits = {0, 3}
    DefaultLimit = 2
    MaxAttempts = 2
    Days = 2
    Requests = {r1, r2}
INVARIANTS DailyLimitHolds AirdropsPaidInFull
PROPERTIES SharesAreProportional
CHECK_DEADLOCK FALSE
