\* Three users, one group, two invitations, one message; a write that throws, a restart.
SPECIFICATION Spec
CONSTANTS
    a = a
    b = b
    c = c
    i1 = i1
    i2 = i2
    m1 = m1
    Users = {a, b, c}
    Invites = {i1, i2}
    Messages = {m1}
    MaxChanges = 5
    MaxFailures = 1
    MaxCrashes = 1
INVARIANTS
    TypeOK
    BlockedAreNoFriends
    OneOwner
PROPERTIES
    BlockHolds
    JoinersAreBacked
SYMMETRY Symmetric
CHECK_DEADLOCK FALSE
