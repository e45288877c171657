--------------------------- MODULE MCScriptWorld ---------------------------
(* Instances of ScriptWorld for TLC. *)
EXTENDS ScriptWorld, TLC

CONSTANTS u1, u2, v1, v2, s1

ThreeIds == 1 .. 3
TwoActions == 1 .. 2
Stays(state, actions) == [ok |-> TRUE, state |-> state, actions |-> actions]

\* A door opens when it is touched and closes itself; a builder acts when it
\* starts; a handler that fails after it has asked for something; a sensor.
Door == (<<"default", "user">> :> Stays("open", <<>>))
     @@ (<<"default", "touch">> :> Stays("open", <<"move">>))
     @@ (<<"open", "state_entry">> :> Stays("open", <<"timer">>))
     @@ (<<"open", "timer">> :> Stays("default", <<"stop">>))
Builder == (<<"default", "state_entry">> :> Stays("default", <<"scale", "physical">>))
Faulty == (<<"default", "touch">> :> [ok |-> FALSE, state |-> "default", actions |-> <<"text">>])
Sensor == (<<"default", "state_entry">> :> Stays("default", <<"query">>))
SomePrograms == {Door, Builder, Faulty, Sensor}

\* An object of the first user; with a child, next to one that u2 shares.
Thing == [NoEntity EXCEPT !.owner = u1]
Alone == [i \in ThreeIds |-> IF i = 1 THEN Thing ELSE NoEntity]
Paired == [i \in ThreeIds |-> IF i = 1 THEN Thing ELSE
                              IF i = 2 THEN [Thing EXCEPT !.parent = 1, !.link = 2]
                              ELSE [Thing EXCEPT !.owner = u2, !.shared = TRUE, !.body = TRUE]]
SomeScenes == {Alone, Paired}
OnGroundOrTwo == {{1}, {1, 2}}

\* The linkset of a root and two children, that of a root whose first child
\* is another, and that of a root whose identifier is not taken at first.
Chair == [i \in ThreeIds |-> IF i = 1 THEN Thing ELSE [Thing EXCEPT !.parent = 1, !.link = i]]
Stool == (1 :> Thing) @@ (3 :> [Thing EXCEPT !.parent = 1, !.link = 2])
Lamp == (2 :> Thing) @@ (3 :> [Thing EXCEPT !.parent = 2, !.link = 2])
SomeSnapshots == {Chair, Stool, Lamp}

Only(some) == [k \in Bounded |-> IF k \in DOMAIN some THEN some[k] ELSE 0]
SomeBudgets == {
    \* scripts and what can fail
    Only([request |-> 1, touch |-> 1, poll |-> 2, connect |-> 2]),
    Only([request |-> 1, poll |-> 3, connect |-> 3]),
    Only([request |-> 1, poll |-> 2, core |-> 1, connect |-> 2]),
    Only([request |-> 1, touch |-> 1, poll |-> 1, throw |-> 1, connect |-> 1]),
    Only([request |-> 1, touch |-> 1, core |-> 1, time |-> 1, connect |-> 1]),
    Only([request |-> 2, time |-> 1, core |-> 1]),
    Only([request |-> 1, poll |-> 1, world |-> 1, land |-> 1, connect |-> 1]),
    \* the scene
    Only([edit |-> 2, save |-> 1, throw |-> 1]),
    Only([edit |-> 2, import |-> 1]),
    Only([edit |-> 1, save |-> 1, world |-> 1]),
    Only([tick |-> 2, save |-> 1]) }
=============================================================================
