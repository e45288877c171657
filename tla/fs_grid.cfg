\* Two users, two logins, one peer with two keys, one grant, two travel tokens of visitors.
SPECIFICATION Spec
CONSTANTS
    u1 = u1
    u2 = u2
    n1 = n1
    l1 = l1
    l2 = l2
    p1 = p1
    g1 = g1
    t1 = t1
    t2 = t2
    v1 = v1
    v2 = v2
    oldKey = oldKey
    newKey = newKey
    Users = {u1, u2}
    Names = {n1}
    Logins = {l1, l2}
    EarlierIdentities <- SomeIdentities
    Peers = {p1}
    Keys = {oldKey, newKey}
    Grants = {g1}
    Travels = {t1, t2}
    Issuer <- OnePeer
    Signer <- SomeKey
    Visits = {v1, v2}
    Budgets <- SomeBudgets
INVARIANTS
    TypeOK
    RevocationsHold
    TravelOpensOneSession
SYMMETRY Symmetric
CHECK_DEADLOCK FALSE
