---------------------------- MODULE NodeRegistry ----------------------------
(***************************************************************************)
(* World Nodes registering with the Core.  A World Node connects, gets a   *)
(* new generation, registers its Regions, brings them online and then      *)
(* renews its lease and reports who is present.  The Core runs one thread  *)
(* per connection and one maintenance thread; between them they keep four  *)
(* stores, each with a lock of its own:                                    *)
(*                                                                         *)
(*   world     WorldRegistry    the generation of a node, and its state    *)
(*   session   NodeSessions     the lease of a node                        *)
(*   region    RegionRegistry   who owns a Region, and its state           *)
(*   presence  PresenceStore    where a user is                            *)
(*                                                                         *)
(* A step of this module is one call on one store.  With the registries in *)
(* a database it is one statement: the two registries take no lock there,  *)
(* and other threads come between a SELECT and the UPDATE that relies on   *)
(* it.  Where the UPDATE has the generation in its WHERE, as in            *)
(* mark_offline, the two statements do what one would.  A connection the   *)
(* World Node has left lives on at the Core until its thread notices, so   *)
(* threads of several generations of one node run side by side.            *)
(***************************************************************************)
EXTENDS Naturals, Sequences, FiniteSets

CONSTANTS
    Nodes,      \* World Nodes
    Regions,
    Users,
    Conns,      \* the threads of the Core that serve connections
    None,
    Config,     \* the Regions a World Node is configured with, in order
    Cell,       \* the grid coordinates a Region is configured with
    Database,   \* the registries are in a SQL database, not in files
    MaxFaults,  \* a bound on the time-outs and failures of connections and the
                \* restarts of the Core, taken together
    MaxRestarts,\* a bound on the restarts of the Core
    MaxGen      \* a bound on the generations a World Node connects for

ASSUME NodeRegistryAssumption ==
    /\ Config \in [Nodes -> Seq(Regions)]
    /\ Database \in BOOLEAN
    /\ MaxFaults \in Nat /\ MaxRestarts \in Nat /\ MaxGen \in Nat
    /\ None \notin Nodes \cup Regions \cup Users \cup Conns \cup [node : Nodes, gen : Nat]

VARIABLES
    world, session, region, presence,
    conn,       \* the Core's threads
    current,    \* the connection a World Node is on
    next,       \* how far the World Node is: 0 waits for its generation
    sweep,      \* the maintenance thread's loop over the expired sessions
    faults, restarts

stores == <<world, session, region, presence>>
worldNode == <<current, next>>
bounds == <<faults, restarts>>
vars == <<world, session, region, presence, conn, current, next, sweep, faults, restarts>>

---------------------------------------------------------------------------
(* Messages.  Only the control they carry is kept.                         *)

RegionStates == {"registered", "starting", "online", "stopping", "offline", "error"}

Frame ==
    {f \in [kind : {"none", "lease", "register", "state", "snapshot", "poll"},
            region : Regions \cup {None},
            state : RegionStates \cup {None},
            users : SUBSET Users] :
        /\ f.kind \notin {"none", "lease"} => f.region \in Regions
        /\ f.kind = "state" => f.state \in RegionStates}

Message(kind, r, state, users) ==
    [kind |-> kind, region |-> r, state |-> state, users |-> users]

NoFrame == Message("none", None, None, {})
Lease == Message("lease", None, None, {})
RegisterRegion(r) == Message("register", r, None, {})
SetState(r, state) == Message("state", r, state, {})
Snapshot(r, users) == Message("snapshot", r, None, users)
Poll(r) == Message("poll", r, None, {})   \* for a command of an object crossing

\* What a World Node sends first: for each of its Regions in the order of
\* its configuration, the registration, "starting" and "online".
StartupLength(n) == 3 * Len(Config[n])
Startup(n, i) ==
    LET r == Config[n][(i + 2) \div 3]
    IN  CASE i % 3 = 1 -> RegisterRegion(r)
          [] i % 3 = 2 -> SetState(r, "starting")
          [] i % 3 = 0 -> SetState(r, "online")

ConfiguredRegions(n) == {Config[n][i] : i \in 1..Len(Config[n])}

---------------------------------------------------------------------------
(* State.  pc names what a thread does next.                               *)

Cleanup == {"close", "world", "regions", "presence"}
Statements == {"touched", "owner", "insert", "update", "allowed"}   \* between two of one request
AtWork == {"serving", "touch", "replace"} \cup Statements
Stages == {"free", "register", "write", "open"} \cup AtWork \cup Cleanup

FreeConn == [pc |-> "free", node |-> None, gen |-> 0, frame |-> NoFrame, answer |-> "none"]
NoSession == [gen |-> 0, fresh |-> FALSE]
Unregistered == [node |-> None, gen |-> 0, state |-> "offline"]
Absent == [region |-> None, node |-> None, gen |-> 0]

Conn == [pc : Stages, node : Nodes \cup {None}, gen : Nat, frame : Frame,
         answer : {"none", "ok", "no"}]
Lapsed == [node : Nodes, gen : Nat]   \* a NodeSession, as expired() copies it

TypeOK ==
    /\ world \in [Nodes -> [gen : Nat, online : BOOLEAN]]
    /\ session \in [Nodes -> [gen : Nat, fresh : BOOLEAN]]
    /\ region \in [Regions -> [node : Nodes \cup {None}, gen : Nat, state : RegionStates]]
    /\ presence \in [Users -> [region : Regions \cup {None}, node : Nodes \cup {None}, gen : Nat]]
    /\ conn \in [Conns -> Conn]
    /\ \A c \in Conns : conn[c].node = None <=> conn[c].pc = "free"
    /\ \A c \in Conns : conn[c].pc = "allowed" => conn[c].frame.kind = "state"
    /\ current \in [Nodes -> Conns \cup {None}]
    /\ next \in [Nodes -> Nat]
    /\ sweep \in [at : {"world", "regions", "presence", "close"},
                  of : Lapsed \cup {None}, due : SUBSET Lapsed]
    /\ sweep.at = "world" <=> sweep.of = None
    /\ faults \in 0..MaxFaults
    /\ restarts \in 0..MaxRestarts

Idle == [at |-> "world", of |-> None, due |-> {}]

Init ==
    /\ world = [n \in Nodes |-> [gen |-> 0, online |-> FALSE]]
    /\ session = [n \in Nodes |-> NoSession]
    /\ region = [r \in Regions |-> Unregistered]
    /\ presence = [u \in Users |-> Absent]
    /\ conn = [c \in Conns |-> FreeConn]
    /\ current = [n \in Nodes |-> None]
    /\ next = [n \in Nodes |-> 0]
    /\ sweep = Idle
    /\ faults = 0
    /\ restarts = 0

---------------------------------------------------------------------------
(* The Core's thread of connection c.                                      *)

OnIt(c) == conn[c].node # None /\ current[conn[c].node] = c   \* the World Node is still there

Owns(c, r) == region[r].node = conn[c].node /\ region[r].gen = conn[c].gen

\* The frame is dealt with; an answer reaches a World Node that is still there.
Answer(c, answer, pc) ==
    conn' = [conn EXCEPT ![c] =
        [conn[c] EXCEPT !.frame = NoFrame, !.pc = pc,
                        !.answer = IF OnIt(c) THEN answer ELSE "none"]]

GoOn(c, pc) == conn' = [conn EXCEPT ![c] = [conn[c] EXCEPT !.pc = pc]]

\* The store's row for a registration of generation gen.
Online(n, gen) == world' = [world EXCEPT ![n] = [gen |-> gen, online |-> TRUE]]

Generation(c, gen, pc) ==
    conn' = [conn EXCEPT ![c] = [conn[c] EXCEPT !.gen = gen, !.pc = pc]]

\* Bug: a node that is offline gets its old generation again.
RegisterInFile_SameGeneration(c) ==
    /\ ~Database
    /\ conn[c].pc = "register"
    /\ LET n == conn[c].node
           gen == IF world[n].online \/ world[n].gen = 0 THEN world[n].gen + 1 ELSE world[n].gen
       IN  Online(n, gen) /\ Generation(c, gen, "open")
    /\ UNCHANGED <<session, region, presence, worldNode, sweep, bounds>>

\* register_or_reconnect on a file: one step under the registry's lock.
RegisterInFile(c) ==
    /\ ~Database
    /\ conn[c].pc = "register"
    /\ LET n == conn[c].node
           gen == world[n].gen + 1
       IN  Online(n, gen) /\ Generation(c, gen, "open")
    /\ UNCHANGED <<session, region, presence, worldNode, sweep, bounds>>

\* register_or_reconnect on a database: a SELECT, then an UPDATE or, when
\* there was no row, an INSERT, which throws when there is one by now.
SelectGeneration(c) ==
    /\ Database
    /\ conn[c].pc = "register"
    /\ Generation(c, world[conn[c].node].gen + 1, "write")
    /\ UNCHANGED <<stores, worldNode, sweep, bounds>>

WriteGeneration(c) ==
    /\ Database
    /\ conn[c].pc = "write"
    /\ \/ /\ conn[c].gen > 1 \/ world[conn[c].node].gen = 0
          /\ Online(conn[c].node, conn[c].gen)
          /\ GoOn(c, "open")
       \/ /\ conn[c].gen = 1 /\ world[conn[c].node].gen > 0
          /\ conn' = [conn EXCEPT ![c] = FreeConn]   \* node_id is still empty: no cleanup
          /\ UNCHANGED world
    /\ UNCHANGED <<session, region, presence, worldNode, sweep, bounds>>

OpenSession(c) ==
    /\ conn[c].pc = "open"
    /\ session' = [session EXCEPT ![conn[c].node] = [gen |-> conn[c].gen, fresh |-> TRUE]]
    /\ Answer(c, "ok", "serving")
    /\ UNCHANGED <<world, region, presence, worldNode, sweep, bounds>>

Serves(c, kind) == conn[c].pc = "serving" /\ conn[c].frame.kind = kind

\* A lease: renew the session, then touch the node, each under its own
\* lock.  When either says that the generation is stale the thread ends
\* after its answer, which the World Node does not look into.
Renew(c) ==
    LET n == conn[c].node IN
    /\ Serves(c, "lease")
    /\ \/ /\ session[n].gen = conn[c].gen
          /\ session' = [session EXCEPT ![n] = [gen |-> conn[c].gen, fresh |-> TRUE]]
          /\ GoOn(c, "touch")
       \/ /\ session[n].gen # conn[c].gen
          /\ Answer(c, "ok", "close")
          /\ UNCHANGED session
    /\ UNCHANGED <<world, region, presence, worldNode, sweep, bounds>>

\* Bug: touch does not compare the generation.
TouchInFile_Unguarded(c) ==
    /\ ~Database
    /\ conn[c].pc = "touch"
    /\ Online(conn[c].node, world[conn[c].node].gen)
    /\ Answer(c, "ok", "serving")
    /\ UNCHANGED <<session, region, presence, worldNode, sweep, bounds>>

TouchInFile(c) ==
    LET n == conn[c].node IN
    /\ ~Database
    /\ conn[c].pc = "touch"
    /\ \/ /\ world[n].gen = conn[c].gen
          /\ Online(n, conn[c].gen)
          /\ Answer(c, "ok", "serving")
       \/ /\ world[n].gen # conn[c].gen
          /\ Answer(c, "ok", "close")
          /\ UNCHANGED world
    /\ UNCHANGED <<session, region, presence, worldNode, sweep, bounds>>

\* On a database the generation is read first.  The UPDATE names it again;
\* that it met no row goes unnoticed.
SelectTouch(c) ==
    /\ Database
    /\ conn[c].pc = "touch"
    /\ \/ world[conn[c].node].gen = conn[c].gen /\ GoOn(c, "touched")
       \/ world[conn[c].node].gen # conn[c].gen /\ Answer(c, "ok", "close")
    /\ UNCHANGED <<stores, worldNode, sweep, bounds>>

UpdateTouch(c) ==
    /\ Database
    /\ conn[c].pc = "touched"
    /\ IF world[conn[c].node].gen = conn[c].gen THEN Online(conn[c].node, conn[c].gen) ELSE UNCHANGED world
    /\ Answer(c, "ok", "serving")
    /\ UNCHANGED <<session, region, presence, worldNode, sweep, bounds>>

\* register_region: refused when another Region has the coordinates or
\* another node owns the Region; the generation is not looked at.
CellTaken(r) == \E other \in Regions \ {r} :
                    region[other].node # None /\ Cell[other] = Cell[r]
\* Bug: a Region that is offline may be taken over.
OwnedByOther_Online(r, n) == region[r].node \notin {None, n} /\ region[r].state # "offline"
OwnedByOther(r, n) == region[r].node \notin {None, n}
Registrable(r, n) == ~CellTaken(r) /\ ~OwnedByOther(r, n)

RegisterRow(c) ==
    region' = [region EXCEPT ![conn[c].frame.region] =
                  [node |-> conn[c].node, gen |-> conn[c].gen, state |-> "registered"]]

\* Bug: a Region that is known keeps its state.
RegisterRegionInFile_KeepState(c) ==
    LET r == conn[c].frame.region
        n == conn[c].node
    IN
    /\ ~Database
    /\ Serves(c, "register")
    /\ Registrable(r, n)
    /\ region' = [region EXCEPT ![r] =
                      [node |-> n, gen |-> conn[c].gen,
                       state |-> IF region[r].node = None THEN "registered" ELSE region[r].state]]
    /\ Answer(c, "ok", "serving")
    /\ UNCHANGED <<world, session, presence, worldNode, sweep, bounds>>

RegisterRegionInFile(c) ==
    LET r == conn[c].frame.region IN
    /\ ~Database
    /\ Serves(c, "register")
    /\ \/ /\ Registrable(r, conn[c].node)
          /\ RegisterRow(c)
          /\ Answer(c, "ok", "serving")
       \/ /\ ~Registrable(r, conn[c].node)
          /\ Answer(c, "no", "serving")
          /\ UNCHANGED region
    /\ UNCHANGED <<world, session, presence, worldNode, sweep, bounds>>

\* On a database: a SELECT of the coordinates, one of the owner, and an
\* UPDATE that names the Region only or an INSERT, which throws when the
\* Region or the coordinates have a row by now.
SelectCell(c) ==
    /\ Database
    /\ Serves(c, "register")
    /\ \/ CellTaken(conn[c].frame.region) /\ Answer(c, "no", "serving")
       \/ ~CellTaken(conn[c].frame.region) /\ GoOn(c, "owner")
    /\ UNCHANGED <<stores, worldNode, sweep, bounds>>

SelectOwner(c) ==
    LET r == conn[c].frame.region IN
    /\ Database
    /\ conn[c].pc = "owner"
    /\ \/ OwnedByOther(r, conn[c].node) /\ Answer(c, "no", "serving")
       \/ ~OwnedByOther(r, conn[c].node)
          /\ GoOn(c, IF region[r].node = None THEN "insert" ELSE "update")
    /\ UNCHANGED <<stores, worldNode, sweep, bounds>>

UpdateRegion(c) ==
    /\ Database
    /\ conn[c].pc = "update"
    /\ RegisterRow(c)
    /\ Answer(c, "ok", "serving")
    /\ UNCHANGED <<world, session, presence, worldNode, sweep, bounds>>

InsertRegion(c) ==
    LET r == conn[c].frame.region
        row == region[r].node # None \/ CellTaken(r)
    IN
    /\ Database
    /\ conn[c].pc = "insert"
    /\ \/ ~row /\ RegisterRow(c) /\ Answer(c, "ok", "serving")
       \/ row /\ UNCHANGED region /\ Answer(c, "none", "close")
    /\ UNCHANGED <<world, session, presence, worldNode, sweep, bounds>>

ValidTransition(from, to) ==
    \/ from = to
    \/ to \in {"error", "offline"}
    \/ <<from, to>> \in {<<"registered", "starting">>, <<"offline", "starting">>,
                         <<"starting", "online">>, <<"online", "stopping">>,
                         <<"stopping", "offline">>}

MaySetState(c) ==
    LET r == conn[c].frame.region
    IN  Owns(c, r) /\ ValidTransition(region[r].state, conn[c].frame.state)

WriteState(c) ==
    region' = [region EXCEPT ![conn[c].frame.region] =
                  [region[conn[c].frame.region] EXCEPT !.state = conn[c].frame.state]]

UpdateStateInFile(c) ==
    /\ ~Database
    /\ Serves(c, "state")
    /\ \/ MaySetState(c) /\ WriteState(c) /\ Answer(c, "ok", "serving")
       \/ ~MaySetState(c) /\ UNCHANGED region /\ Answer(c, "no", "serving")
    /\ UNCHANGED <<world, session, presence, worldNode, sweep, bounds>>

\* On a database the owner and the state are read by a SELECT; the UPDATE
\* names the Region only, whoever it belongs to by now.
SelectState(c) ==
    /\ Database
    /\ Serves(c, "state")
    /\ \/ MaySetState(c) /\ GoOn(c, "allowed")
       \/ ~MaySetState(c) /\ Answer(c, "no", "serving")
    /\ UNCHANGED <<stores, worldNode, sweep, bounds>>

UpdateState(c) ==
    /\ Database
    /\ conn[c].pc = "allowed"
    /\ WriteState(c)
    /\ Answer(c, "ok", "serving")
    /\ UNCHANGED <<world, session, presence, worldNode, sweep, bounds>>

\* A snapshot: who owns the Region is read under the registry's lock, the
\* presences are replaced under another one.
CheckSnapshot(c) ==
    /\ Serves(c, "snapshot")
    /\ \/ Owns(c, conn[c].frame.region) /\ GoOn(c, "replace")
       \/ ~Owns(c, conn[c].frame.region) /\ Answer(c, "no", "serving")
    /\ UNCHANGED <<stores, worldNode, sweep, bounds>>

Replace(c) ==
    LET here == [region |-> conn[c].frame.region, node |-> conn[c].node, gen |-> conn[c].gen]
    IN
    /\ conn[c].pc = "replace"
    /\ presence' = [u \in Users |-> IF u \in conn[c].frame.users THEN here
                                    ELSE IF presence[u] = here THEN Absent
                                    ELSE presence[u]]
    /\ Answer(c, "ok", "serving")
    /\ UNCHANGED <<world, session, region, worldNode, sweep, bounds>>

\* A poll for a command of an object crossing is let through for the owner;
\* what it does then, and the result that follows, is in ObjectCrossing.
AcceptPoll(c) ==
    /\ Serves(c, "poll")
    /\ Owns(c, conn[c].frame.region)
    /\ Answer(c, "ok", "serving")
    /\ UNCHANGED <<stores, worldNode, sweep, bounds>>

RefusePoll(c) ==
    /\ Serves(c, "poll")
    /\ ~Owns(c, conn[c].frame.region)
    /\ Answer(c, "no", "serving")
    /\ UNCHANGED <<stores, worldNode, sweep, bounds>>

\* receive_frame throws once the thread sees that the World Node has left;
\* a frame that is still on its way is lost with the connection.
Notice(c) ==
    /\ conn[c].pc = "serving"
    /\ ~OnIt(c)
    /\ Answer(c, "none", "close")
    /\ UNCHANGED <<stores, worldNode, sweep, bounds>>

\* The connection fails and the Core sees it first.
Fail(c) ==
    /\ conn[c].pc = "serving"
    /\ OnIt(c)
    /\ faults + restarts < MaxFaults
    /\ faults' = faults + 1
    /\ Answer(c, "none", "close")
    /\ UNCHANGED <<stores, worldNode, sweep, restarts>>

---------------------------------------------------------------------------
(* What both the end of a connection and the maintenance thread do to the  *)
(* stores for generation gen of node n, each under the store's lock.       *)

CloseSession(n, gen) ==
    session' = [session EXCEPT ![n] = IF session[n].gen = gen THEN NoSession ELSE session[n]]

\* Bug: the generation is not compared.
MarkWorldOffline_Unguarded(n, gen) ==
    world' = [world EXCEPT ![n] = [world[n] EXCEPT !.online = FALSE]]

MarkWorldOffline(n, gen) ==
    world' = [world EXCEPT ![n] =
        IF world[n].gen = gen THEN [gen |-> gen, online |-> FALSE] ELSE world[n]]

\* Bug: only Regions that are online are marked.
MarkRegionsOffline_OnlineOnly(n, gen) ==
    region' = [r \in Regions |->
        IF region[r].node = n /\ region[r].gen = gen /\ region[r].state = "online"
        THEN [region[r] EXCEPT !.state = "offline"] ELSE region[r]]

MarkRegionsOffline(n, gen) ==
    region' = [r \in Regions |->
        IF region[r].node = n /\ region[r].gen = gen
        THEN [region[r] EXCEPT !.state = "offline"] ELSE region[r]]

\* Bug: only in Regions that are still of that generation.
RemovePresences_StillOwned(n, gen) ==
    presence' = [u \in Users |->
        IF /\ presence[u].node = n /\ presence[u].gen = gen
           /\ region[presence[u].region].gen = gen
        THEN Absent ELSE presence[u]]

RemovePresences(n, gen) ==
    presence' = [u \in Users |->
        IF presence[u].node = n /\ presence[u].gen = gen THEN Absent ELSE presence[u]]

\* The end of a thread that has registered a World Node.
EndSession(c) ==
    /\ conn[c].pc = "close"
    /\ CloseSession(conn[c].node, conn[c].gen)
    /\ GoOn(c, "world")
    /\ UNCHANGED <<world, region, presence, worldNode, sweep, bounds>>

EndWorld(c) ==
    /\ conn[c].pc = "world"
    /\ MarkWorldOffline(conn[c].node, conn[c].gen)
    /\ GoOn(c, "regions")
    /\ UNCHANGED <<session, region, presence, worldNode, sweep, bounds>>

EndRegions(c) ==
    /\ conn[c].pc = "regions"
    /\ MarkRegionsOffline(conn[c].node, conn[c].gen)
    /\ GoOn(c, "presence")
    /\ UNCHANGED <<world, session, presence, worldNode, sweep, bounds>>

EndPresence(c) ==
    /\ conn[c].pc = "presence"
    /\ RemovePresences(conn[c].node, conn[c].gen)
    /\ conn' = [conn EXCEPT ![c] = FreeConn]
    /\ UNCHANGED <<world, session, region, worldNode, sweep, bounds>>

---------------------------------------------------------------------------
(* The maintenance thread and time.                                        *)

\* A session is not renewed for lease_timeout.  For one whose World Node is
\* on its connection this takes a stall, which is counted as a fault.
Renewing(n) == current[n] # None /\ conn[current[n]].gen = session[n].gen

LeaseAges(n) ==
    /\ session[n].fresh
    /\ \/ ~Renewing(n) /\ UNCHANGED faults
       \/ Renewing(n) /\ faults + restarts < MaxFaults /\ faults' = faults + 1
    /\ session' = [session EXCEPT ![n] = [session[n] EXCEPT !.fresh = FALSE]]
    /\ UNCHANGED <<world, region, presence, conn, worldNode, sweep, restarts>>

\* expired() copies the sessions that have lapsed; the loop works on the
\* copies and holds no lock between its calls.
Expired == {[node |-> n, gen |-> session[n].gen] :
                n \in {m \in Nodes : session[m].gen # 0 /\ ~session[m].fresh}}

StartSweep ==
    /\ sweep = Idle
    /\ Expired # {}
    /\ sweep' = [Idle EXCEPT !.due = Expired]
    /\ UNCHANGED <<stores, conn, worldNode, bounds>>

SweepWorld(lapsed) ==
    /\ sweep.at = "world" /\ lapsed \in sweep.due
    /\ MarkWorldOffline(lapsed.node, lapsed.gen)
    /\ sweep' = [at |-> "regions", of |-> lapsed, due |-> sweep.due \ {lapsed}]
    /\ UNCHANGED <<session, region, presence, conn, worldNode, bounds>>

SweepRegions ==
    /\ sweep.at = "regions"
    /\ MarkRegionsOffline(sweep.of.node, sweep.of.gen)
    /\ sweep' = [sweep EXCEPT !.at = "presence"]
    /\ UNCHANGED <<world, session, presence, conn, worldNode, bounds>>

SweepPresence ==
    /\ sweep.at = "presence"
    /\ RemovePresences(sweep.of.node, sweep.of.gen)
    /\ sweep' = [sweep EXCEPT !.at = "close"]
    /\ UNCHANGED <<world, session, region, conn, worldNode, bounds>>

\* Bug: the loop's variable keeps the session it has closed.
SweepSession_NoReset ==
    /\ sweep.at = "close"
    /\ CloseSession(sweep.of.node, sweep.of.gen)
    /\ sweep' = [sweep EXCEPT !.at = "world"]
    /\ UNCHANGED <<world, region, presence, conn, worldNode, bounds>>

SweepSession ==
    /\ sweep.at = "close"
    /\ CloseSession(sweep.of.node, sweep.of.gen)
    /\ sweep' = [sweep EXCEPT !.at = "world", !.of = None]
    /\ UNCHANGED <<world, region, presence, conn, worldNode, bounds>>

\* The Core stops and starts again: the threads, the sessions and the
\* presences are gone.  Loading a file marks everything offline; the rows of
\* a database stay as they were.
CoreRestart ==
    /\ restarts < MaxRestarts /\ faults + restarts < MaxFaults
    /\ restarts' = restarts + 1
    /\ conn' = [c \in Conns |-> FreeConn]
    /\ session' = [n \in Nodes |-> NoSession]
    /\ presence' = [u \in Users |-> Absent]
    /\ sweep' = Idle
    /\ IF Database THEN UNCHANGED <<world, region>>
       ELSE /\ world' = [n \in Nodes |-> [world[n] EXCEPT !.online = FALSE]]
            /\ region' = [r \in Regions |-> [region[r] EXCEPT !.state = "offline"]]
    /\ UNCHANGED <<worldNode, faults>>

---------------------------------------------------------------------------
(* The World Node: one loop that sends a message and waits for its answer. *)

Unused(c) == conn[c].pc = "free" /\ \A n \in Nodes : current[n] # c

\* The Core starts a thread for each connection.  They are all alike, so
\* which of the unused ones it is makes no difference.
Connect(n, c) ==
    /\ current[n] = None
    /\ world[n].gen < MaxGen
    /\ Unused(c) /\ c = CHOOSE d \in Conns : Unused(d)
    /\ conn' = [conn EXCEPT ![c] = [FreeConn EXCEPT !.pc = "register", !.node = n]]
    /\ current' = [current EXCEPT ![n] = c]
    /\ next' = [next EXCEPT ![n] = 0]
    /\ UNCHANGED <<stores, sweep, bounds>>

Ready(n) ==
    LET c == current[n] IN
    /\ c # None
    /\ next[n] > 0
    /\ conn[c].frame = NoFrame /\ conn[c].answer = "none"
    /\ conn[c].pc = "serving"

Started(n) == next[n] > StartupLength(n)

Post(n, frame) ==
    /\ conn' = [conn EXCEPT ![current[n]] = [conn[current[n]] EXCEPT !.frame = frame]]
    /\ UNCHANGED <<stores, worldNode, sweep, bounds>>

SendStartup(n) == Ready(n) /\ ~Started(n) /\ Post(n, Startup(n, next[n]))

SendLease(n) == Ready(n) /\ Started(n) /\ Post(n, Lease)

SendSnapshot(n, r, users) ==
    /\ Ready(n) /\ Started(n)
    /\ r \in ConfiguredRegions(n)
    /\ Post(n, Snapshot(r, users))

SendPoll(n, r) ==
    /\ Ready(n) /\ Started(n)
    /\ r \in ConfiguredRegions(n)
    /\ Post(n, Poll(r))

\* An acknowledgement is taken; an error makes the loop throw and reconnect.
Receive(n) ==
    LET c == current[n] IN
    /\ c # None
    /\ \/ /\ conn[c].answer = "ok"
          /\ next' = [next EXCEPT ![n] = IF Started(n) THEN next[n] ELSE next[n] + 1]
          /\ UNCHANGED current
       \/ /\ conn[c].answer = "no"
          /\ current' = [current EXCEPT ![n] = None]
          /\ UNCHANGED next
    /\ conn' = [conn EXCEPT ![c] = [conn[c] EXCEPT !.answer = "none"]]
    /\ UNCHANGED <<stores, sweep, bounds>>

\* The World Node finds that the Core has ended the connection.
Disconnect(n) ==
    /\ current[n] # None
    /\ conn[current[n]].pc \in Cleanup \cup {"free"}
    /\ current' = [current EXCEPT ![n] = None]
    /\ UNCHANGED <<stores, conn, next, sweep, bounds>>

\* It gives up waiting, its connection fails, or it stops: what it has sent
\* may still arrive, and the Core may learn of it late or never.
GiveUp(n) ==
    /\ current[n] # None
    /\ faults + restarts < MaxFaults
    /\ faults' = faults + 1
    /\ current' = [current EXCEPT ![n] = None]
    /\ conn' = [conn EXCEPT ![current[n]] = [conn[current[n]] EXCEPT !.answer = "none"]]
    /\ UNCHANGED <<stores, next, sweep, restarts>>

---------------------------------------------------------------------------
CoreThread(c) ==
    \/ RegisterInFile(c) \/ SelectGeneration(c) \/ WriteGeneration(c) \/ OpenSession(c)
    \/ Renew(c) \/ TouchInFile(c) \/ SelectTouch(c) \/ UpdateTouch(c)
    \/ RegisterRegionInFile(c) \/ SelectCell(c) \/ SelectOwner(c) \/ UpdateRegion(c) \/ InsertRegion(c)
    \/ UpdateStateInFile(c) \/ SelectState(c) \/ UpdateState(c)
    \/ CheckSnapshot(c) \/ Replace(c) \/ AcceptPoll(c) \/ RefusePoll(c)
    \/ EndSession(c) \/ EndWorld(c) \/ EndRegions(c) \/ EndPresence(c)

Maintenance ==
    \/ StartSweep
    \/ \E lapsed \in sweep.due : SweepWorld(lapsed)
    \/ SweepRegions \/ SweepPresence \/ SweepSession

WorldLoop(n) ==
    \/ SendStartup(n) \/ SendLease(n)
    \/ \E r \in Regions : SendPoll(n, r) \/ \E users \in SUBSET Users : SendSnapshot(n, r, users)
    \/ Receive(n) \/ Disconnect(n)

Next ==
    \/ \E c \in Conns : CoreThread(c) \/ Notice(c) \/ Fail(c)
    \/ Maintenance
    \/ \E n \in Nodes : LeaseAges(n) \/ WorldLoop(n) \/ GiveUp(n) \/ \E c \in Conns : Connect(n, c)
    \/ CoreRestart

Spec == Init /\ [][Next]_vars

\* The threads of the Core run and the maintenance loop goes round.  Nothing
\* makes the Core notice that a World Node has left: its socket waits for a
\* frame without a time-out.
CoreRuns ==
    /\ \A c \in Conns : WF_vars(CoreThread(c))
    /\ WF_vars(Maintenance)

\* A World Node that runs reconnects, and each pass of its loop gets to the
\* lease and to the snapshot of every Region when they are due.
WorldRuns ==
    \A n \in Nodes :
        /\ WF_vars(\E c \in Conns : Connect(n, c))
        /\ WF_vars(WorldLoop(n))
        /\ SF_vars(SendLease(n))
        /\ \A r \in Regions : SF_vars(\E users \in SUBSET Users : SendSnapshot(n, r, users))

RunningSpec == Spec /\ CoreRuns

---------------------------------------------------------------------------
(* Properties.                                                             *)

WillMark(c, n, gen, stages) == conn[c].node = n /\ conn[c].gen = gen /\ conn[c].pc \in stages

Before(stage) ==
    {"open", "close"} \cup AtWork \cup
    (CASE stage = "world" -> {"world"}
       [] stage = "regions" -> {"world", "regions"}
       [] stage = "presence" -> {"world", "regions", "presence"})

NodesGuarded ==
    \A n \in Nodes :
        world[n].online => \E c \in Conns : WillMark(c, n, world[n].gen, Before("world"))

RegionsGuarded ==
    \A r \in Regions :
        region[r].state # "offline" =>
            \E c \in Conns : WillMark(c, region[r].node, region[r].gen, Before("regions"))

(* Whatever is shown in a Region has a thread of its generation that has   *)
(* still to remove it, with either storage and over restarts.              *)
PresencesGuarded ==
    \A u \in Users :
        presence[u] # Absent =>
            \E c \in Conns : WillMark(c, presence[u].node, presence[u].gen, Before("presence"))

(* On files, whatever the stores show as up has a thread of that very      *)
(* generation that has still to take it down: no interleaving of threads,  *)
(* late frames, the maintenance loop and restarts leaves an online node, an*)
(* online Region or a presence behind with nobody in charge of it.  (The   *)
(* cleanup of apps/core/main.cpp, with the generation checks of all four   *)
(* stores.)  On a database it is not so: the UPDATE of update_state may    *)
(* set a Region online that has another generation by now                  *)
(* (region_registry.cpp:214), and a restart leaves the rows as they are.   *)
OnlineIsGuarded == NodesGuarded /\ RegionsGuarded /\ PresencesGuarded

(* A node whose session is that of its latest generation is online, unless *)
(* the maintenance thread is just ending this very session: the late       *)
(* cleanup of an older connection never takes the new one's node offline,  *)
(* and no session outlives the marking.  (EndSession comes before EndWorld,*)
(* SweepSession after SweepWorld.)                                         *)
SessionMeansOnline ==
    \A n \in Nodes :
        /\ session[n].gen # 0 /\ session[n].gen = world[n].gen
        /\ sweep.of # [node |-> n, gen |-> world[n].gen]
        => world[n].online

(* No two connections of a World Node are of the same generation: each     *)
(* register_or_reconnect counts up (tests/foundation_tests.cpp), and every *)
(* other guard of the four stores relies on it.                            *)
GenerationsDiffer ==
    \A c, d \in Conns :
        c # d /\ conn[c].node # None /\ conn[c].node = conn[d].node /\ conn[c].gen = conn[d].gen
        => conn[c].gen = 0

(* A user is shown in a Region by the node that owns the Region only,      *)
(* although the owner is checked under the registry's lock and the         *)
(* presences are replaced later under another one, and although two World  *)
(* Nodes may be configured with the same Region.                           *)
PresenceFromOwner ==
    \A u \in Users :
        presence[u] # Absent => region[presence[u].region].node = presence[u].node

\* The lease of the latest generation of node n has run out, and the
\* maintenance thread has not come to it.
Lapses(n) ==
    /\ world[n].gen > 0
    /\ session[n] = [gen |-> world[n].gen, fresh |-> FALSE]
    /\ sweep.of # [node |-> n, gen |-> world[n].gen]

(* When a lease runs out there comes a moment when all Regions of the World*)
(* Node are offline, and one when its presences are gone, unless the lease *)
(* is renewed just in time or the World Node registers anew before - also  *)
(* when it never comes back and the thread of its connection waits for ever*)
(* in its read, and whatever that thread does meanwhile ("When a World Node*)
(* lease expires or disconnects, its Presence entries are removed",        *)
(* docs/PRESENCE-SOCIAL-v1.md:17; node_sessions.cpp: expired, the          *)
(* maintenance loop of apps/core/main.cpp).  It is not said that they stay *)
(* so: a late frame of that connection may bring a Region or a presence    *)
(* back; nor that what a World Node left behind goes when it has registered*)
(* anew.                                                                   *)
LapsedGoesOffline ==
    \A n \in Nodes :
        LET up == \E r \in Regions : /\ region[r].node = n /\ region[r].gen = world[n].gen
                                     /\ region[r].state # "offline"
            shown == \E u \in Users : presence[u].node = n /\ presence[u].gen = world[n].gen
        IN  /\ Lapses(n) /\ up ~> session[n].fresh \/ ~up
            /\ Lapses(n) /\ shown ~> session[n].fresh \/ ~shown

Up(n) ==
    LET c == current[n] IN
    /\ c # None
    /\ world[n] = [gen |-> conn[c].gen, online |-> TRUE]
    /\ session[n].gen = conn[c].gen
    /\ \A r \in ConfiguredRegions(n) :
           region[r] = [node |-> n, gen |-> conn[c].gen, state |-> "online"]

(* After the last fault a World Node that runs comes back for good, with its*)
(* session, its node and all its Regions online under its own generation,  *)
(* although older connections may hang at the Core for ever and their late *)
(* frames may still take a Region back to an older generation.             *)
Recovers == WorldRuns => <>[](\A n \in Nodes : Up(n))

---------------------------------------------------------------------------
(* Why SessionMeansOnline holds on files: an inductive invariant.          *)

Registered(c) == conn[c].pc \notin {"free", "register"}
Closed(c) == conn[c].pc \in Cleanup \ {"close"}
SweepSet == sweep.due \cup ({sweep.of} \ {None})   \* what the loop has still to deal with

\* No generation is ahead of the registry's, and each is one connection's.
GenerationsInv ==
    /\ \A c \in Conns :
          /\ Registered(c) => conn[c].gen \in 1..world[conn[c].node].gen
          /\ ~Registered(c) => conn[c].gen = 0
    /\ \A n \in Nodes : session[n].gen <= world[n].gen
    /\ \A lapsed \in SweepSet : lapsed.gen <= world[lapsed.node].gen
    /\ GenerationsDiffer

\* The session of a connection does not exist before OpenSession nor after
\* EndSession, so nobody marks a node that is just being registered.
OpeningInv ==
    /\ \A c \in Conns : conn[c].pc = "open" =>
          LET n == conn[c].node IN
          /\ session[n].gen # conn[c].gen
          /\ [node |-> n, gen |-> conn[c].gen] \notin SweepSet
          /\ world[n].gen = conn[c].gen => world[n].online
    /\ \A c \in Conns : Closed(c) => session[conn[c].node].gen # conn[c].gen

(* The conjunction is inductive: each step preserves it. *)
SessionInv == GenerationsInv /\ OpeningInv /\ SessionMeansOnline
=============================================================================
