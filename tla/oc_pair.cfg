\* Two crossings of the same object, users who delete, a reliable disk.
SPECIFICATION Spec
CONSTANTS
  west = west
  east = east
  a = a
  b = b
  x = x
  y = y
  Regions = {west, east}
  Objects = {a}
  Crossings = {x, y}
  Groups = {g1}
  Gone = Gone
  Home <- AllWest
  Obj <- SameObject
  To <- AllEast
  Rank <- IterationOrder
  MaxAttempts = 2
  DiskMayFail = FALSE
  UsersEdit = TRUE
  MaxLate = 0
INVARIANTS NoLoss BoundOnlyAfterImport
PROPERTIES SourceRemovedAfterImport NeverBackwards

