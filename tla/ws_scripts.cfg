SPECIFICATION Spec
CONSTANTS
    u1 = u1  u2 = u2  v1 = v1  v2 = v2  s1 = s1
    Users = {u1, u2}
    Viewers = {v1, v2}
    Scripts = {s1}
    Ids <- ThreeIds
    Actions <- TwoActions
    Programs <- SomePrograms
    Snapshots <- SomeSnapshots
    EarlierScenes <- SomeScenes
    Contacts <- OnGroundOrTwo
    MaxEvents = 2
    MaxPending = 2
    MaxAttempts = 2
    Budgets <- SomeBudgets
INVARIANTS TypeOK AppliedWithinAttempts AcknowledgedIsKept LinksetsAreFlat SavedIsSaved
PROPERTIES DoneIsDone
CHECK_DEADLOCK FALSE
