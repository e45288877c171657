\* The instance of re_entry, one handoff: where the avatar lands.
SPECIFICATION Spec
CONSTANTS
    owner = owner
    guest = guest
    home = home
    middle = middle
    edge = edge
    p1 = p1
    b1 = b1
    b2 = b2
    e1 = e1
    k1 = k1
    t1 = t1
    t2 = t2
    c1 = c1
    c2 = c2
    o1 = o1
    o2 = o2
    Users = {owner, guest}
    Regions = {home}
    Points = {middle, edge}
    Areas <- SomeAreas
    Parcels = {p1}
    Bans = {b1, b2}
    Estates = {e1}
    Policies <- SomePolicies
    Limits <- SomeLimits
    EarlierFiles <- SomeFiles
    Crossings = {k1}
    Tickets = {t1, t2}
    Connections = {c1, c2}
    Objects = {o1, o2}
    Centre = middle
    Edge = edge
    EarlierScenes <- SomeScenes
    Spots <- SomeSpots
    Budgets <- OneHandoff
PROPERTY
    LandsWhereChecked
SYMMETRY Symmetric
CHECK_DEADLOCK FALSE
