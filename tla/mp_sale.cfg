\* Two purchases of one listing, writes that throw, restarts.
SPECIFICATION Spec
CONSTANTS
    a = a
    b = b
    c = c
    l1 = l1
    r1 = r1
    r2 = r2
    r3 = r3
    Users = {a, b, c}
    Amounts = {1, 2}
    Refs = {r1, r2, r3}
    Sales = {1, 2}
    Listings = {l1}
    MaxBalance = 2
    MaxFailures = 2
    MaxCrashes = 1
INVARIANTS
    TypeOK
    MoneyConserved
    PaidIsDelivered
    GoodsArePaidFor
    AnsweredIsDurable
    NothingToCompensate
SYMMETRY Symmetric
CHECK_DEADLOCK FALSE
