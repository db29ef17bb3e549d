SPECIFICATION PurchaseSpec
CONSTANTS
    Keys = {"complete", "bits"}
    Limit = 2
    Window = 2
    MaxEntries = 2
    MaxTime = 4
    Purchases = {p}
    Amount <- TenBits
    Users = {u, v}
    Nobody = Nobody
    Requests = {r1, r2}
SYMMETRY Symmetry
INVARIANTS PurchaseAnswersTrue BurstBound
CHECK_DEADLOCK FALSE
