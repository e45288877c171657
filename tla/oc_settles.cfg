\* Two objects that cross the same border, no users, a reliable disk.
SPECIFICATION FairSpec
CONSTANTS
  west = west
  east = east
  a = a
  b = b
  x = x
  y = y
  Regions = {west, east}
  Objects = {a, b}
  Crossings = {x, y}
  Groups = {g1}
  Gone = Gone
  Home <- AllWest
  Obj <- OwnObject
  To <- AllEast
  Rank <- IterationOrder
  MaxAttempts = 1
  DiskMayFail = FALSE
  UsersEdit = FALSE
  MaxLate = 0
PROPERTIES MoveImplemented Settles

