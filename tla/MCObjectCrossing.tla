-------------------------- MODULE MCObjectCrossing --------------------------
(* Instances of ObjectCrossing for TLC. *)
EXTENDS ObjectCrossingRefinement, TLC

CONSTANTS west, east, a, b, x, y

\* Every object starts in the western Region; every crossing goes east.
AllWest == [o \in Objects |-> west]
AllEast == [c \in Crossings |-> east]

\* Both crossings ask for the same object.
SameObject == [c \in Crossings |-> a]

\* Each crossing has an object of its own.
OwnObject == [c \in Crossings |-> IF c = x THEN a ELSE b]

IterationOrder == [c \in Crossings |-> IF c = x THEN 0 ELSE 1]

\* Groups are only compared for equality.
GroupSymmetry == Permutations(Groups)
=============================================================================
