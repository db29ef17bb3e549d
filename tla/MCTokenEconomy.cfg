SPECIFICATION EconomySpec
SYMMETRY EconomySymmetry
CONSTANTS
    u1 = u1
    Users = {u1}
    Linked = {u1}
    Ledgers = {1}
    OwnerOf <- AllOfOne
    InitialPoints = {2}
    Amounts = {}
    MaxEarned = 2
    Claims = {c1, c2}
    Nobody = Nobody
    ClaimAmounts = {0, 1}
    MaxClaim = 2
    Redemptions = {r1, r2}
    SpendAmounts = {1}
INVARIANT MirrorDrift
CHECK_DEADLOCK FALSE
