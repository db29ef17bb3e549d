SPECIFICATION FairSpendSpec
CONSTANTS
    Users = {u1, u2}
    Linked = {u1}
    Nobody = Nobody
    Redemptions = {r1, r2, r3}
    SpendAmounts = {0, 1, 2}
    StartTokens = {3}
INVARIANTS VoucherIsPaid RowsAccountForBurns
PROPERTY RedemptionsEnd
CHECK_DEADLOCK FALSE
