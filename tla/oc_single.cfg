\* One crossing, users who edit and delete, writes that fail.
SPECIFICATION Spec
CONSTANTS
  west = west
  east = east
  a = a
  b = b
  x = x
  y = y
  Regions = {west, east}
  Objects = {a}
  Crossings = {x}
  Groups = {g1, g2}
  Gone = Gone
  Home <- AllWest
  Obj <- SameObject
  To <- AllEast
  Rank <- IterationOrder
  MaxAttempts = 1
  DiskMayFail = TRUE
  UsersEdit = TRUE
  MaxLate = 1
INVARIANTS TypeOK CompletedCarriesScript
SYMMETRY GroupSymmetry

