SPECIFICATION SpendSpec
CONSTANTS
    Users = {u1}
    Linked = {u1}
    Nobody = Nobody
    Redemptions = {r1, r2}
    SpendAmounts = {1}
    StartTokens = {2}
INVARIANTS DocumentedStatus
CHECK_DEADLOCK FALSE
