----------------------------- MODULE ObjectMove -----------------------------
(***************************************************************************)
(* What an object crossing promises its owner.  A crossing either moves    *)
(* the object or leaves it where it was, and says which; until it starts   *)
(* to undo itself the object is never without a Region.                    *)
(***************************************************************************)
CONSTANT Crossings   \* each for an object of its own

VARIABLES
  outcome,  \* per crossing: "idle", "open", "undoing", "moved" or "stayed"
  here,     \* the crossings whose object is in the source Region
  there     \* the crossings whose object is in the destination Region

moveVars == <<outcome, here, there>>

MoveInit ==
  /\ outcome = [c \in Crossings |-> "idle"]
  /\ here = Crossings
  /\ there = {}

Open(c) ==
  /\ outcome[c] = "idle"
  /\ outcome' = [outcome EXCEPT ![c] = "open"]
  /\ UNCHANGED <<here, there>>

\* A copy may still be made, and the original still be taken, by a step that
\* was decided before the crossing started to undo itself.
CopyThere(c) ==
  /\ outcome[c] \in {"open", "undoing"} /\ c \in here
  /\ there' = there \cup {c}
  /\ UNCHANGED <<outcome, here>>

TakeFromHere(c) ==
  /\ outcome[c] = "open" => c \in there
  /\ outcome[c] \in {"open", "undoing"}
  /\ here' = here \ {c}
  /\ UNCHANGED <<outcome, there>>

TakeFromThere(c) ==
  /\ outcome[c] = "undoing"
  /\ there' = there \ {c}
  /\ UNCHANGED <<outcome, here>>

PutBackHere(c) ==
  /\ outcome[c] = "undoing" /\ c \notin there
  /\ here' = here \cup {c}
  /\ UNCHANGED <<outcome, there>>

Moved(c) ==
  /\ outcome[c] = "open" /\ c \in there \ here
  /\ outcome' = [outcome EXCEPT ![c] = "moved"]
  /\ UNCHANGED <<here, there>>

\* Several crossings can be given up at once: those in Undo leave the rest to
\* be undone, those in Stay have nothing to undo.
GiveUp(Undo, Stay) ==
  /\ \A c \in Undo : outcome[c] = "open"
  /\ \A c \in Stay : outcome[c] \in {"open", "undoing"} /\ c \in here \ there
  /\ outcome' = [c \in Crossings |-> IF c \in Stay THEN "stayed"
                                     ELSE IF c \in Undo THEN "undoing"
                                     ELSE outcome[c]]
  /\ UNCHANGED <<here, there>>

MoveNext ==
  \/ \E c \in Crossings :
       \/ Open(c) \/ CopyThere(c) \/ TakeFromHere(c) \/ TakeFromThere(c)
       \/ PutBackHere(c) \/ Moved(c)
  \/ \E Undo, Stay \in SUBSET Crossings : GiveUp(Undo, Stay)

MoveSpec == MoveInit /\ [][MoveNext]_moveVars
=============================================================================
