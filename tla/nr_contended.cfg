SPECIFICATION Spec
CONSTANTS
    n1 = n1
    n2 = n2
    r1 = r1
    r2 = r2
    c1 = c1
    c2 = c2
    c3 = c3
    u1 = u1
    None = None
    Nodes = {n1, n2}
    Regions = {r1, r2}
    Users = {u1}
    Conns = {c1, c2}
    Config <- Contended
    Cell <- OneCell
    Database = TRUE
    MaxFaults = 1
    MaxRestarts = 1
    MaxGen = 2
INVARIANTS
    PresenceFromOwner
    PresencesGuarded
CHECK_DEADLOCK FALSE
