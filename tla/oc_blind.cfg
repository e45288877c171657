\* Finding: a copy left at the destination of a crossing that was rolled back.
SPECIFICATION Spec
CONSTANTS
  west = west
  east = east
  a = a
  b = b
  x = x
  y = y
  Regions = {west, east}
  Objects = {a}
  Crossings = {x}
  Groups = {g1, g2}
  Gone = Gone
  Home <- AllWest
  Obj <- SameObject
  To <- AllEast
  Rank <- IterationOrder
  MaxAttempts = 2
  DiskMayFail = FALSE
  UsersEdit = TRUE
  MaxLate = 0
INVARIANTS NoCopyLeftBehind

