---------------------- MODULE ObjectCrossingRefinement ----------------------
(* ObjectCrossing implements ObjectMove when the crossings ask for distinct *)
(* objects, no user edits them meanwhile and the Core's disk is reliable.   *)
EXTENDS ObjectCrossing

Outcome(s) ==
  CASE s = "none"        -> "idle"
    [] s = "completed"   -> "moved"
    [] s = "rolled_back" -> "stayed"
    [] s \in {"cleanup_pending", "restore_pending"} -> "undoing"
    [] OTHER             -> "open"

Move == INSTANCE ObjectMove WITH
          outcome <- [c \in Crossings |-> Outcome(State(c))],
          here    <- {c \in Crossings : scene[Obj[c]] # Gone},
          there   <- {c \in Crossings : scene[c] # Gone}

\* Every behaviour of the Core and the World Nodes, with their lost messages
\* and restarts, is one in which each object is moved or stays.
MoveImplemented == Move!MoveSpec
=============================================================================
