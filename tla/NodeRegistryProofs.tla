------------------------ MODULE NodeRegistryProofs --------------------------
(***************************************************************************)
(* The type invariant and the safety invariants of NodeRegistry hold for   *)
(* every set of World Nodes, Regions, users and connections and every      *)
(* configuration.                                                          *)
(***************************************************************************)
EXTENDS NodeRegistry, TLAPS

(* What the World Node posts while it starts is a frame. *)
LEMMA StartupType ==
  ASSUME NEW n \in Nodes, NEW i \in 1..StartupLength(n)
  PROVE  Startup(n, i) \in Frame
<1> DEFINE k == (i + 2) \div 3
<1>1. Config[n] \in Seq(Regions) /\ Len(Config[n]) \in Nat
  BY NodeRegistryAssumption
<1>2. i \in Nat /\ 1 <= i /\ i <= 3 * Len(Config[n])
  BY <1>1 DEF StartupLength
<1>3. k \in 1..Len(Config[n])
  BY <1>1, <1>2
<1>4. Config[n][k] \in Regions
  BY <1>1, <1>3
<1>5. i % 3 = 1 \/ i % 3 = 2 \/ i % 3 = 0
  BY <1>2
<1> HIDE DEF k
<1>6. /\ RegisterRegion(Config[n][k]) \in Frame
      /\ SetState(Config[n][k], "starting") \in Frame
      /\ SetState(Config[n][k], "online") \in Frame
  BY <1>4 DEF RegisterRegion, SetState, Message, Frame, RegionStates
<1>7. Startup(n, i) \in {RegisterRegion(Config[n][k]), SetState(Config[n][k], "starting"),
                         SetState(Config[n][k], "online")}
  BY <1>5 DEF Startup, k
<1>8. QED BY <1>6, <1>7

(* The record of a thread stays one under every update the threads make. *)
LEMMA ConnUpdates ==
  ASSUME NEW k \in Conn
  PROVE  /\ \A pc \in Stages : [k EXCEPT !.pc = pc] \in Conn
         /\ \A pc \in Stages, gen \in Nat : [k EXCEPT !.gen = gen, !.pc = pc] \in Conn
         /\ \A frame \in Frame : [k EXCEPT !.frame = frame] \in Conn
         /\ \A a \in {"none", "ok", "no"} : [k EXCEPT !.answer = a] \in Conn
         /\ \A pc \in Stages, a \in {"none", "ok", "no"} :
               [k EXCEPT !.frame = NoFrame, !.pc = pc, !.answer = a] \in Conn
<1>1. NoFrame \in Frame
  BY DEF NoFrame, Message, Frame
<1>2. QED BY <1>1 DEF Conn

LEMMA FreeConnType == FreeConn \in Conn
BY DEF FreeConn, NoFrame, Message, Frame, Conn, Stages

LEMMA Frames ==
  /\ NoFrame \in Frame /\ Lease \in Frame
  /\ \A r \in Regions : Poll(r) \in Frame
  /\ \A r \in Regions, users \in SUBSET Users : Snapshot(r, users) \in Frame
  /\ \A n \in Nodes : FreeConn \in Conn /\ [FreeConn EXCEPT !.pc = "register", !.node = n] \in Conn
BY DEF NoFrame, Lease, Poll, Snapshot, Message, Frame, FreeConn, Conn, Stages, Cleanup

(* The conjuncts of TypeOK about the threads. *)
ConnOK ==
    /\ conn \in [Conns -> Conn]
    /\ \A c \in Conns : conn[c].node = None <=> conn[c].pc = "free"
    /\ \A c \in Conns : conn[c].pc = "allowed" => conn[c].frame.kind = "state"

LEMMA ThreadFields ==
  ASSUME ConnOK, NEW c \in Conns, conn[c].pc # "free"
  PROVE  /\ conn[c] \in Conn
         /\ conn[c].node \in Nodes /\ conn[c].gen \in Nat /\ conn[c].frame \in Frame
BY DEF ConnOK, Conn

(* Where a thread goes on, but for the UPDATE of a state.                  *)
Moves == Stages \ {"free", "allowed"}

(* A thread that goes on keeps its node. *)
LEMMA StepsOfThread ==
  ASSUME ConnOK, NEW c \in Conns, conn[c].pc # "free"
  PROVE  /\ \A pc \in Moves, a \in {"none", "ok", "no"} : Answer(c, a, pc) => ConnOK'
         /\ \A pc \in Moves : GoOn(c, pc) => ConnOK'
         /\ \A pc \in Moves, gen \in Nat : Generation(c, gen, pc) => ConnOK'
         /\ conn' = [conn EXCEPT ![c] = FreeConn] => ConnOK'
         /\ conn[c].frame.kind = "state" /\ GoOn(c, "allowed") => ConnOK'
<1>1. conn[c] \in Conn /\ conn[c].node \in Nodes
  BY ThreadFields
<1>2. ASSUME NEW k \in Conn, k.node \in Nodes, k.pc # "free",
             k.pc = "allowed" => k.frame.kind = "state", conn' = [conn EXCEPT ![c] = k]
      PROVE  ConnOK'
  BY <1>2, NodeRegistryAssumption DEF ConnOK
<1>3. ASSUME NEW pc \in Moves, NEW a \in {"none", "ok", "no"}, Answer(c, a, pc)
      PROVE  ConnOK'
  <2> DEFINE b == IF OnIt(c) THEN a ELSE "none"
             k == [conn[c] EXCEPT !.frame = NoFrame, !.pc = pc, !.answer = b]
  <2>1. b \in {"none", "ok", "no"}
    OBVIOUS
  <2>2. conn' = [conn EXCEPT ![c] = k]
    BY <1>3 DEF Answer
  <2> HIDE DEF b
  <2>3. k \in Conn
    BY <1>1, <2>1, ConnUpdates DEF Moves
  <2>4. k.node = conn[c].node /\ k.pc = pc
    BY <1>1 DEF Conn
  <2> HIDE DEF k
  <2>5. QED BY <1>1, <1>2, <2>2, <2>3, <2>4 DEF Moves
<1>4. ASSUME NEW pc \in Moves, GoOn(c, pc)
      PROVE  ConnOK'
  <2> DEFINE k == [conn[c] EXCEPT !.pc = pc]
  <2>1. k \in Conn /\ k.node = conn[c].node /\ k.pc = pc
    BY <1>1, ConnUpdates DEF Conn, Moves
  <2>2. conn' = [conn EXCEPT ![c] = k]
    BY <1>4 DEF GoOn
  <2> HIDE DEF k
  <2>3. QED BY <1>1, <1>2, <2>1, <2>2 DEF Moves
<1>5. ASSUME NEW pc \in Moves, NEW gen \in Nat, Generation(c, gen, pc)
      PROVE  ConnOK'
  <2> DEFINE k == [conn[c] EXCEPT !.gen = gen, !.pc = pc]
  <2>1. k \in Conn /\ k.node = conn[c].node /\ k.pc = pc
    BY <1>1, ConnUpdates DEF Conn, Moves
  <2>2. conn' = [conn EXCEPT ![c] = k]
    BY <1>5 DEF Generation
  <2> HIDE DEF k
  <2>3. QED BY <1>1, <1>2, <2>1, <2>2 DEF Moves
<1>6. conn' = [conn EXCEPT ![c] = FreeConn] => ConnOK'
  BY FreeConnType DEF ConnOK, FreeConn
<1>7. ASSUME conn[c].frame.kind = "state", GoOn(c, "allowed")
      PROVE  ConnOK'
  <2> DEFINE k == [conn[c] EXCEPT !.pc = "allowed"]
  <2>1. "allowed" \in Stages
    BY DEF Stages, AtWork, Statements
  <2>2. k \in Conn /\ k.node = conn[c].node /\ k.pc = "allowed" /\ k.frame = conn[c].frame
    BY <1>1, <2>1, ConnUpdates DEF Conn
  <2>3. conn' = [conn EXCEPT ![c] = k]
    BY <1>7 DEF GoOn
  <2> HIDE DEF k
  <2>4. QED BY <1>1, <1>2, <1>7, <2>2, <2>3
<1>8. QED BY <1>3, <1>4, <1>5, <1>6, <1>7

(* The other conjuncts: the stores, the World Nodes and the loop.          *)
StoresOK ==
    /\ world \in [Nodes -> [gen : Nat, online : BOOLEAN]]
    /\ session \in [Nodes -> [gen : Nat, fresh : BOOLEAN]]
    /\ region \in [Regions -> [node : Nodes \cup {None}, gen : Nat, state : RegionStates]]
    /\ presence \in [Users -> [region : Regions \cup {None}, node : Nodes \cup {None}, gen : Nat]]

LoopsOK ==
    /\ current \in [Nodes -> Conns \cup {None}]
    /\ next \in [Nodes -> Nat]
    /\ sweep \in [at : {"world", "regions", "presence", "close"},
                  of : Lapsed \cup {None}, due : SUBSET Lapsed]
    /\ sweep.at = "world" <=> sweep.of = None
    /\ faults \in 0..MaxFaults
    /\ restarts \in 0..MaxRestarts

LEMMA TypeParts == TypeOK <=> StoresOK /\ ConnOK /\ LoopsOK
BY DEF TypeOK, StoresOK, ConnOK, LoopsOK

LEMMA InitType == Init => TypeOK
<1> SUFFICES ASSUME Init PROVE TypeOK
  OBVIOUS
<1>1. StoresOK
  BY DEF Init, StoresOK, NoSession, Unregistered, Absent, RegionStates
<1>2. ConnOK
  BY FreeConnType DEF Init, ConnOK, FreeConn
<1>3. LoopsOK
  BY NodeRegistryAssumption DEF Init, LoopsOK, Idle
<1>4. QED BY <1>1, <1>2, <1>3, TypeParts

(* What the ends of a session and the maintenance loop do to the stores.   *)
LEMMA MarkingTypes ==
  ASSUME StoresOK, NEW n \in Nodes, NEW gen
  PROVE  /\ CloseSession(n, gen) => session' \in [Nodes -> [gen : Nat, fresh : BOOLEAN]]
         /\ gen \in Nat /\ MarkWorldOffline(n, gen) =>
               world' \in [Nodes -> [gen : Nat, online : BOOLEAN]]
         /\ MarkRegionsOffline(n, gen) =>
               region' \in [Regions -> [node : Nodes \cup {None}, gen : Nat, state : RegionStates]]
         /\ RemovePresences(n, gen) =>
               presence' \in [Users -> [region : Regions \cup {None}, node : Nodes \cup {None},
                                        gen : Nat]]
<1>1. CloseSession(n, gen) => session' \in [Nodes -> [gen : Nat, fresh : BOOLEAN]]
  BY DEF StoresOK, CloseSession, NoSession
<1>2. ASSUME gen \in Nat, MarkWorldOffline(n, gen)
      PROVE  world' \in [Nodes -> [gen : Nat, online : BOOLEAN]]
  BY <1>2 DEF StoresOK, MarkWorldOffline
<1>3. ASSUME MarkRegionsOffline(n, gen)
      PROVE  region' \in [Regions -> [node : Nodes \cup {None}, gen : Nat, state : RegionStates]]
  <2>1. \A x \in [node : Nodes \cup {None}, gen : Nat, state : RegionStates] :
          [x EXCEPT !.state = "offline"]
             \in [node : Nodes \cup {None}, gen : Nat, state : RegionStates]
    BY DEF RegionStates
  <2>2. QED BY <1>3, <2>1 DEF StoresOK, MarkRegionsOffline
<1>4. ASSUME RemovePresences(n, gen)
      PROVE  presence' \in [Users -> [region : Regions \cup {None}, node : Nodes \cup {None},
                                      gen : Nat]]
  <2>1. Absent \in [region : Regions \cup {None}, node : Nodes \cup {None}, gen : Nat]
    BY DEF Absent
  <2>2. QED BY <1>4, <2>1 DEF StoresOK, RemovePresences
<1>5. QED BY <1>1, <1>2, <1>3, <1>4

LEMMA WriteTypes ==
  ASSUME StoresOK, NEW n \in Nodes, NEW gen \in Nat
  PROVE  /\ Online(n, gen) => world' \in [Nodes -> [gen : Nat, online : BOOLEAN]]
         /\ [session EXCEPT ![n] = [gen |-> gen, fresh |-> TRUE]]
               \in [Nodes -> [gen : Nat, fresh : BOOLEAN]]
         /\ [session EXCEPT ![n] = [gen |-> gen, fresh |-> FALSE]]
               \in [Nodes -> [gen : Nat, fresh : BOOLEAN]]
<1>1. Online(n, gen) => world' \in [Nodes -> [gen : Nat, online : BOOLEAN]]
  BY DEF StoresOK, Online
<1>2. ASSUME NEW k \in [gen : Nat, fresh : BOOLEAN]
      PROVE  [session EXCEPT ![n] = k] \in [Nodes -> [gen : Nat, fresh : BOOLEAN]]
  BY DEF StoresOK
<1>3. /\ [gen |-> gen, fresh |-> TRUE] \in [gen : Nat, fresh : BOOLEAN]
      /\ [gen |-> gen, fresh |-> FALSE] \in [gen : Nat, fresh : BOOLEAN]
  OBVIOUS
<1>4. QED BY <1>1, <1>2, <1>3

(* A step of a thread keeps the types. *)
LEMMA ThreadType ==
  ASSUME StoresOK, ConnOK, NEW c \in Conns, conn[c].pc # "free",
         CoreThread(c) \/ Notice(c) \/ Fail(c)
  PROVE  StoresOK' /\ ConnOK'
<1>1. conn[c].node \in Nodes /\ conn[c].gen \in Nat /\ conn[c].frame \in Frame
  BY ThreadFields
<1>2. world[conn[c].node].gen + 1 \in Nat
  BY <1>1 DEF StoresOK
<1>3. \A pc \in Moves, a \in {"none", "ok", "no"} :
         (Answer(c, a, pc) => ConnOK') /\ (GoOn(c, pc) => ConnOK')
  BY StepsOfThread
<1>4. \A pc \in Moves :
         Generation(c, world[conn[c].node].gen + 1, pc) => ConnOK'
  BY <1>2, StepsOfThread
<1>5. conn' = [conn EXCEPT ![c] = FreeConn] => ConnOK'
  BY StepsOfThread
<1> DEFINE n == conn[c].node
<1>6. CASE RegisterInFile(c)
  BY <1>1, <1>2, <1>4, <1>6 DEF RegisterInFile, Online, StoresOK, Moves, Stages, AtWork
<1>7. CASE SelectGeneration(c)
  BY <1>4, <1>7 DEF SelectGeneration, StoresOK, stores, Moves, Stages, AtWork
<1>8. CASE WriteGeneration(c)
  <2>1. ConnOK'
    BY <1>3, <1>5, <1>8 DEF WriteGeneration, Moves, Stages, AtWork
  <2>2. /\ world' = world \/ Online(n, conn[c].gen)
        /\ UNCHANGED <<session, region, presence>>
    BY <1>8 DEF WriteGeneration
  <2>3. StoresOK'
    BY <1>1, <2>2, WriteTypes DEF StoresOK
  <2>4. QED BY <2>1, <2>3
<1>9. CASE OpenSession(c)
  BY <1>1, <1>3, <1>9 DEF OpenSession, StoresOK, Moves, Stages, AtWork
<1>10. CASE Renew(c)
  <2>1. ConnOK'
    BY <1>3, <1>10 DEF Renew, Moves, Stages, AtWork, Cleanup
  <2>2. /\ \/ session' = session
           \/ session' = [session EXCEPT ![n] = [gen |-> conn[c].gen, fresh |-> TRUE]]
        /\ UNCHANGED <<world, region, presence>>
    BY <1>10 DEF Renew
  <2>3. StoresOK'
    <3>1. CASE session' = session
      BY <2>2, <3>1 DEF StoresOK
    <3>2. CASE session' = [session EXCEPT ![n] = [gen |-> conn[c].gen, fresh |-> TRUE]]
      <4>1. session' \in [Nodes -> [gen : Nat, fresh : BOOLEAN]]
        BY <1>1, <3>2, WriteTypes
      <4>2. QED BY <2>2, <4>1 DEF StoresOK
    <3>3. QED BY <2>2, <3>1, <3>2
  <2>4. QED BY <2>1, <2>3
<1>11. CASE TouchInFile(c) \/ SelectTouch(c) \/ UpdateTouch(c)
  <2>1. ConnOK'
    BY <1>3, <1>11 DEF TouchInFile, SelectTouch, UpdateTouch, Moves, Stages, AtWork, Statements, Cleanup
  <2>2. /\ world' = world \/ Online(n, conn[c].gen)
        /\ UNCHANGED <<session, region, presence>>
    BY <1>11 DEF TouchInFile, SelectTouch, UpdateTouch, stores
  <2>3. StoresOK'
    BY <1>1, <2>2, WriteTypes DEF StoresOK
  <2>4. QED BY <2>1, <2>3
<1>12. CASE \/ RegisterRegionInFile(c) \/ SelectCell(c) \/ SelectOwner(c)
            \/ UpdateRegion(c) \/ InsertRegion(c)
  <2>1. ConnOK'
    BY <1>3, <1>12 DEF RegisterRegionInFile, SelectCell, SelectOwner, UpdateRegion, InsertRegion,
       Moves, Stages, AtWork, Statements, Cleanup
  <2>2. /\ region' = region \/ RegisterRow(c)
        /\ UNCHANGED <<world, session, presence>>
    BY <1>12 DEF RegisterRegionInFile, SelectCell, SelectOwner, UpdateRegion, InsertRegion, stores
  <2>3. RegisterRow(c) =>
           region' \in [Regions -> [node : Nodes \cup {None}, gen : Nat, state : RegionStates]]
    <3> DEFINE row == [node |-> conn[c].node, gen |-> conn[c].gen, state |-> "registered"]
    <3>1. row \in [node : Nodes \cup {None}, gen : Nat, state : RegionStates]
      BY <1>1 DEF RegionStates
    <3>2. RegisterRow(c) => region' = [region EXCEPT ![conn[c].frame.region] = row]
      BY DEF RegisterRow
    <3> HIDE DEF row
    <3>3. QED BY <3>1, <3>2 DEF StoresOK
  <2>4. QED BY <2>1, <2>2, <2>3 DEF StoresOK
<1>13. CASE UpdateStateInFile(c) \/ SelectState(c) \/ UpdateState(c)
  <2>1. ConnOK'
    <3>1. CASE SelectState(c) /\ MaySetState(c)
      BY <3>1, StepsOfThread DEF SelectState, Serves
    <3>2. CASE \/ UpdateStateInFile(c) \/ UpdateState(c)
               \/ SelectState(c) /\ ~MaySetState(c)
      BY <1>3, <3>2 DEF UpdateStateInFile, SelectState, UpdateState, Moves, Stages, AtWork
    <3>3. QED BY <1>13, <3>1, <3>2
  <2>2. /\ region' = region \/ (WriteState(c) /\ conn[c].frame.kind = "state")
        /\ UNCHANGED <<world, session, presence>>
    BY <1>13 DEF UpdateStateInFile, SelectState, UpdateState, Serves, stores, ConnOK
  <2>3. conn[c].frame.kind = "state" => conn[c].frame.state \in RegionStates
    BY <1>1 DEF Frame
  <2>4. conn[c].frame.region \in Regions /\ conn[c].frame.state \in RegionStates =>
           [region[conn[c].frame.region] EXCEPT !.state = conn[c].frame.state]
              \in [node : Nodes \cup {None}, gen : Nat, state : RegionStates]
    BY DEF StoresOK
  <2>5. conn[c].frame.kind = "state" => conn[c].frame.region \in Regions
    BY <1>1 DEF Frame
  <2>6. QED BY <2>1, <2>2, <2>3, <2>4, <2>5 DEF WriteState, StoresOK
<1>14. CASE CheckSnapshot(c)
  BY <1>3, <1>14 DEF CheckSnapshot, StoresOK, stores, Moves, Stages, AtWork
<1>15. CASE Replace(c)
  <2>1. conn[c].frame.region \in Regions \cup {None}
    BY <1>1 DEF Frame
  <2>2. QED BY <1>1, <1>3, <1>15, <2>1 DEF Replace, StoresOK, Moves, Stages, AtWork, Absent
<1>16. CASE AcceptPoll(c)
  BY <1>3, <1>16 DEF AcceptPoll, StoresOK, stores, Moves, Stages, AtWork
<1>17. CASE RefusePoll(c)
  BY <1>3, <1>17 DEF RefusePoll, StoresOK, stores, Moves, Stages, AtWork
<1>18. CASE Notice(c)
  BY <1>3, <1>18 DEF Notice, StoresOK, stores, Moves, Stages, AtWork, Cleanup
<1>19. CASE Fail(c)
  BY <1>3, <1>19 DEF Fail, StoresOK, stores, Moves, Stages, AtWork, Cleanup
<1>20. CASE EndSession(c)
  BY <1>1, <1>3, <1>20, MarkingTypes DEF EndSession, StoresOK, Moves, Stages, AtWork, Cleanup
<1>21. CASE EndWorld(c)
  BY <1>1, <1>3, <1>21, MarkingTypes DEF EndWorld, StoresOK, Moves, Stages, AtWork, Cleanup
<1>22. CASE EndRegions(c)
  BY <1>1, <1>3, <1>22, MarkingTypes DEF EndRegions, StoresOK, Moves, Stages, AtWork, Cleanup
<1>23. CASE EndPresence(c)
  BY <1>1, <1>5, <1>23, MarkingTypes DEF EndPresence, StoresOK
<1>24. QED
  BY <1>6, <1>7, <1>8, <1>9, <1>10, <1>11, <1>12, <1>13, <1>14, <1>15, <1>16, <1>17, <1>18,
     <1>19, <1>20, <1>21, <1>22, <1>23 DEF CoreThread

LEMMA StepType == TypeOK /\ [Next]_vars => TypeOK'
<1> SUFFICES ASSUME StoresOK, ConnOK, LoopsOK, [Next]_vars
             PROVE  StoresOK' /\ ConnOK' /\ LoopsOK'
  BY TypeParts, PTL
<1>1. ASSUME NEW c \in Conns, CoreThread(c) \/ Notice(c) \/ Fail(c)
      PROVE  StoresOK' /\ ConnOK' /\ LoopsOK'
  <2>1. conn[c].pc # "free"
    BY <1>1 DEF CoreThread, Notice, Fail, RegisterInFile, SelectGeneration, WriteGeneration,
       OpenSession, Renew, TouchInFile, SelectTouch,
       UpdateTouch, RegisterRegionInFile, SelectCell, SelectOwner, UpdateRegion, InsertRegion,
       UpdateStateInFile, SelectState, UpdateState, CheckSnapshot, Replace, AcceptPoll, RefusePoll,
       EndSession, EndWorld, EndRegions, EndPresence, Serves
  <2>2. StoresOK' /\ ConnOK'
    BY <1>1, <2>1, ThreadType
  <2>3. /\ UNCHANGED <<current, next, sweep, restarts>>
        /\ faults' = faults \/ (faults + restarts < MaxFaults /\ faults' = faults + 1)
    BY <1>1 DEF CoreThread, Notice, Fail, RegisterInFile, SelectGeneration, WriteGeneration,
       OpenSession, Renew, TouchInFile, SelectTouch,
       UpdateTouch, RegisterRegionInFile, SelectCell, SelectOwner, UpdateRegion, InsertRegion,
       UpdateStateInFile, SelectState, UpdateState, CheckSnapshot, Replace, AcceptPoll, RefusePoll,
       EndSession, EndWorld, EndRegions, EndPresence, worldNode, bounds
  <2>4. LoopsOK'
    BY <2>3, NodeRegistryAssumption DEF LoopsOK
  <2>5. QED BY <2>2, <2>4
<1>2. ASSUME NEW n \in Nodes, LeaseAges(n)
      PROVE  StoresOK' /\ ConnOK' /\ LoopsOK'
  <2>1. \A x \in [gen : Nat, fresh : BOOLEAN] :
          [x EXCEPT !.fresh = FALSE] \in [gen : Nat, fresh : BOOLEAN]
    OBVIOUS
  <2>2. session' = [session EXCEPT ![n] = [session[n] EXCEPT !.fresh = FALSE]]
    BY <1>2 DEF LeaseAges
  <2>3. StoresOK'
    BY <1>2, <2>1, <2>2 DEF LeaseAges, StoresOK
  <2>4. ConnOK' /\ LoopsOK'
    BY <1>2, NodeRegistryAssumption DEF LeaseAges, ConnOK, LoopsOK, worldNode
  <2>5. QED BY <2>3, <2>4
<1>3. CASE Maintenance
  <2>1. sweep.at # "world" => sweep.of \in Lapsed /\ sweep.of.node \in Nodes /\ sweep.of.gen \in Nat
    BY DEF LoopsOK, Lapsed
  <2>2. CASE StartSweep
    <3>1. Expired \in SUBSET Lapsed
      BY DEF Expired, Lapsed, StoresOK
    <3>2. QED BY <2>2, <3>1 DEF StartSweep, Idle, StoresOK, ConnOK, LoopsOK, stores, worldNode, bounds
  <2>3. ASSUME NEW lapsed \in sweep.due, SweepWorld(lapsed)
        PROVE  StoresOK' /\ ConnOK' /\ LoopsOK'
    <3>1. lapsed \in Lapsed /\ lapsed.node \in Nodes /\ lapsed.gen \in Nat /\ lapsed # None
      BY NodeRegistryAssumption DEF LoopsOK, Lapsed
    <3>2. StoresOK'
      BY <2>3, <3>1, MarkingTypes DEF SweepWorld, StoresOK
    <3>3. ConnOK' /\ LoopsOK'
      BY <2>3, <3>1 DEF SweepWorld, ConnOK, LoopsOK, worldNode, bounds
    <3>4. QED BY <3>2, <3>3
  <2>4. CASE SweepRegions
    BY <2>1, <2>4, MarkingTypes DEF SweepRegions, StoresOK, ConnOK, LoopsOK, worldNode, bounds
  <2>5. CASE SweepPresence
    BY <2>1, <2>5, MarkingTypes DEF SweepPresence, StoresOK, ConnOK, LoopsOK, worldNode, bounds
  <2>6. CASE SweepSession
    BY <2>1, <2>6, MarkingTypes DEF SweepSession, StoresOK, ConnOK, LoopsOK, worldNode, bounds
  <2>7. QED BY <1>3, <2>2, <2>3, <2>4, <2>5, <2>6 DEF Maintenance
<1>4. CASE CoreRestart
  <2>1. /\ world' \in [Nodes -> [gen : Nat, online : BOOLEAN]]
        /\ region' \in [Regions -> [node : Nodes \cup {None}, gen : Nat, state : RegionStates]]
    <3>1. CASE Database
      BY <1>4, <3>1 DEF CoreRestart, StoresOK
    <3>2. CASE ~Database
      <4>1. \A x \in [node : Nodes \cup {None}, gen : Nat, state : RegionStates] :
              [x EXCEPT !.state = "offline"]
                 \in [node : Nodes \cup {None}, gen : Nat, state : RegionStates]
        BY DEF RegionStates
      <4>2. \A x \in [gen : Nat, online : BOOLEAN] :
              [x EXCEPT !.online = FALSE] \in [gen : Nat, online : BOOLEAN]
        OBVIOUS
      <4>3. region' = [r \in Regions |-> [region[r] EXCEPT !.state = "offline"]]
        BY <1>4, <3>2 DEF CoreRestart
      <4>4. world' = [n \in Nodes |-> [world[n] EXCEPT !.online = FALSE]]
        BY <1>4, <3>2 DEF CoreRestart
      <4>5. QED BY <4>1, <4>2, <4>3, <4>4 DEF StoresOK
    <3>3. QED BY <3>1, <3>2
  <2>2. session' \in [Nodes -> [gen : Nat, fresh : BOOLEAN]]
    BY <1>4 DEF CoreRestart, NoSession
  <2>3. presence' \in [Users -> [region : Regions \cup {None}, node : Nodes \cup {None}, gen : Nat]]
    BY <1>4 DEF CoreRestart, Absent
  <2>4. ConnOK'
    BY <1>4, FreeConnType DEF CoreRestart, ConnOK, FreeConn
  <2>5. LoopsOK'
    BY <1>4, NodeRegistryAssumption DEF CoreRestart, LoopsOK, worldNode, Idle
  <2>6. QED BY <2>1, <2>2, <2>3, <2>4, <2>5 DEF StoresOK
<1>5. ASSUME NEW n \in Nodes, WorldLoop(n) \/ GiveUp(n)
      PROVE  StoresOK' /\ ConnOK' /\ LoopsOK'
  <2> DEFINE c == current[n]
  <2>1. c \in Conns /\ conn[c] \in Conn
    BY <1>5 DEF WorldLoop, GiveUp, SendStartup, SendLease, SendSnapshot, SendPoll, Receive,
       Disconnect, Ready, LoopsOK, ConnOK
  <2>2. ASSUME NEW k \in Conn, k.node = conn[c].node, k.pc = conn[c].pc,
               k.pc = "serving" \/ k.frame = conn[c].frame, conn' = [conn EXCEPT ![c] = k]
        PROVE  ConnOK'
    BY <2>1, <2>2 DEF ConnOK
  <2>3. ASSUME NEW frame \in Frame, Ready(n), Post(n, frame)
        PROVE  StoresOK' /\ ConnOK' /\ LoopsOK'
    <3> DEFINE k == [conn[c] EXCEPT !.frame = frame]
    <3>1. k \in Conn /\ k.node = conn[c].node /\ k.pc = conn[c].pc
      BY <2>1, ConnUpdates DEF Conn
    <3>2. conn' = [conn EXCEPT ![c] = k] /\ conn[c].pc = "serving"
      BY <2>3 DEF Post, Ready
    <3> HIDE DEF k
    <3>3. ConnOK'
      BY <2>2, <3>1, <3>2
    <3>4. QED BY <2>3, <3>3 DEF Post, StoresOK, LoopsOK, stores, worldNode, bounds
  <2>4. CASE SendStartup(n)
    <3>1. next[n] \in 1..StartupLength(n)
      <4>1. next[n] \in Nat /\ Len(Config[n]) \in Nat
        BY NodeRegistryAssumption DEF LoopsOK
      <4>2. QED BY <2>4, <4>1 DEF SendStartup, Ready, Started, StartupLength
    <3>2. QED BY <2>3, <2>4, <3>1, StartupType DEF SendStartup
  <2>5. CASE SendLease(n)
    BY <2>3, <2>5, Frames DEF SendLease
  <2>6. ASSUME NEW r \in Regions, SendPoll(n, r)
        PROVE  StoresOK' /\ ConnOK' /\ LoopsOK'
    BY <2>3, <2>6, Frames DEF SendPoll
  <2>7. ASSUME NEW r \in Regions, NEW users \in SUBSET Users, SendSnapshot(n, r, users)
        PROVE  StoresOK' /\ ConnOK' /\ LoopsOK'
    BY <2>3, <2>7, Frames DEF SendSnapshot
  <2>8. ASSUME conn' = [conn EXCEPT ![c] = [conn[c] EXCEPT !.answer = "none"]]
        PROVE  ConnOK'
    <3> DEFINE k == [conn[c] EXCEPT !.answer = "none"]
    <3>1. /\ k \in Conn /\ k.node = conn[c].node /\ k.pc = conn[c].pc
          /\ k.frame = conn[c].frame
      BY <2>1, ConnUpdates DEF Conn
    <3> HIDE DEF k
    <3>2. conn' = [conn EXCEPT ![c] = k]
      BY <2>8 DEF k
    <3>3. QED BY <2>2, <3>1, <3>2
  <2>9. CASE Receive(n)
    <3>1. ConnOK'
      BY <2>8, <2>9 DEF Receive
    <3>2. next' \in [Nodes -> Nat] /\ current' \in [Nodes -> Conns \cup {None}]
      BY <2>9 DEF Receive, LoopsOK
    <3>3. UNCHANGED <<stores, sweep, bounds>>
      BY <2>9 DEF Receive
    <3>4. QED BY <3>1, <3>2, <3>3 DEF StoresOK, LoopsOK, stores, bounds
  <2>10. CASE Disconnect(n)
    BY <2>10 DEF Disconnect, StoresOK, ConnOK, LoopsOK, stores, bounds
  <2>11. CASE GiveUp(n)
    <3>1. ConnOK'
      BY <2>8, <2>11 DEF GiveUp
    <3>2. UNCHANGED <<stores, next, sweep, restarts>> /\ faults + restarts < MaxFaults
          /\ faults' = faults + 1 /\ current' = [current EXCEPT ![n] = None]
      BY <2>11 DEF GiveUp
    <3>3. LoopsOK'
      BY <3>2, NodeRegistryAssumption DEF LoopsOK
    <3>4. QED BY <3>1, <3>2, <3>3 DEF StoresOK, stores
  <2>12. QED BY <1>5, <2>4, <2>5, <2>6, <2>7, <2>9, <2>10, <2>11 DEF WorldLoop
<1>6. ASSUME NEW n \in Nodes, NEW c \in Conns, Connect(n, c)
      PROVE  StoresOK' /\ ConnOK' /\ LoopsOK'
  <2> DEFINE k == [FreeConn EXCEPT !.pc = "register", !.node = n]
  <2>1. k \in Conn /\ k.node = n /\ k.pc = "register" /\ n # None
    BY Frames, NodeRegistryAssumption DEF FreeConn
  <2> HIDE DEF k
  <2>2. ConnOK'
    BY <1>6, <2>1 DEF Connect, ConnOK, k
  <2>3. QED BY <1>6, <2>2 DEF Connect, StoresOK, LoopsOK, stores, bounds
<1>7. CASE UNCHANGED vars
  BY <1>7 DEF vars, StoresOK, ConnOK, LoopsOK
<1>8. QED BY <1>1, <1>2, <1>3, <1>4, <1>5, <1>6, <1>7 DEF Next

(* Every reachable state has the types TypeOK states, whatever the numbers *)
(* of World Nodes, Regions, connections, failures and restarts.            *)
THEOREM TypeCorrect == Spec => []TypeOK
BY InitType, StepType, PTL DEF Spec


---------------------------------------------------------------------------
(* The guards of the three stores.  A thread leaves the guards of a store  *)
(* with the very step that marks this store for its generation, and what   *)
(* comes up again is brought up by a thread that is still before that step *)
(* - except a Region in a database.                                        *)

Serving == {"open", "close"} \cup AtWork

LEMMA Befores ==
  /\ Before("world") = Serving \cup {"world"}
  /\ Before("regions") = Serving \cup {"world", "regions"}
  /\ Before("presence") = Serving \cup {"world", "regions", "presence"}
BY DEF Before, Serving

(* Thread d goes on being one that will mark the store of this stage.      *)
Keeps(d, stage) ==
    conn[d].pc \in Before(stage) =>
        conn'[d].node = conn[d].node /\ conn'[d].gen = conn[d].gen /\ conn'[d].pc \in Before(stage)

(* An entry that is up after a step has a guard when the step was made by  *)
(* one, or when the step left the entry alone and its guards in place.     *)
LEMMA NodesStep ==
  ASSUME NodesGuarded,
         \A n \in Nodes : world'[n].online =>
            \/ \E c \in Conns : conn'[c].node = n /\ conn'[c].gen = world'[n].gen
                                /\ conn'[c].pc \in Before("world")
            \/ /\ world'[n] = world[n]
               /\ \A d \in Conns : conn[d].node = n /\ conn[d].gen = world[n].gen => Keeps(d, "world")
  PROVE  NodesGuarded'
<1>1. \A n \in Nodes : world'[n].online =>
         \E c \in Conns : conn'[c].node = n /\ conn'[c].gen = world'[n].gen
                          /\ conn'[c].pc \in Before("world")
  BY DEF NodesGuarded, WillMark, Keeps
<1>2. QED BY <1>1 DEF NodesGuarded, WillMark, Before

LEMMA RegionsStep ==
  ASSUME RegionsGuarded,
         \A r \in Regions : region'[r].state # "offline" =>
            \/ \E c \in Conns : conn'[c].node = region'[r].node /\ conn'[c].gen = region'[r].gen
                                /\ conn'[c].pc \in Before("regions")
            \/ /\ region'[r] = region[r]
               /\ \A d \in Conns : conn[d].node = region[r].node /\ conn[d].gen = region[r].gen
                                   => Keeps(d, "regions")
  PROVE  RegionsGuarded'
<1>1. \A r \in Regions : region'[r].state # "offline" =>
         \E c \in Conns : conn'[c].node = region'[r].node /\ conn'[c].gen = region'[r].gen
                          /\ conn'[c].pc \in Before("regions")
  BY DEF RegionsGuarded, WillMark, Keeps
<1>2. QED BY <1>1 DEF RegionsGuarded, WillMark, Before

LEMMA PresencesStep ==
  ASSUME PresencesGuarded,
         \A u \in Users : presence'[u] # Absent =>
            \/ \E c \in Conns : conn'[c].node = presence'[u].node /\ conn'[c].gen = presence'[u].gen
                                /\ conn'[c].pc \in Before("presence")
            \/ /\ presence'[u] = presence[u]
               /\ \A d \in Conns : conn[d].node = presence[u].node /\ conn[d].gen = presence[u].gen
                                   => Keeps(d, "presence")
  PROVE  PresencesGuarded'
<1>1. \A u \in Users : presence'[u] # Absent =>
         \E c \in Conns : conn'[c].node = presence'[u].node /\ conn'[c].gen = presence'[u].gen
                          /\ conn'[c].pc \in Before("presence")
  BY DEF PresencesGuarded, WillMark, Keeps
<1>2. QED BY <1>1 DEF PresencesGuarded, WillMark, Before, Absent

(* What a step keeps: a database need not keep the guards of Regions.      *)
GuardsKept ==
    /\ NodesGuarded => NodesGuarded'
    /\ ~Database /\ RegionsGuarded => RegionsGuarded'
    /\ PresencesGuarded => PresencesGuarded'

(* Steps that leave every guard in place and bring nothing up.             *)
LEMMA LoweringStep ==
  ASSUME \A d \in Conns : Keeps(d, "world") /\ Keeps(d, "regions") /\ Keeps(d, "presence"),
         \A n \in Nodes : world'[n].online => world'[n] = world[n],
         \A r \in Regions : region'[r].state # "offline" => region'[r] = region[r],
         \A u \in Users : presence'[u] # Absent => presence'[u] = presence[u]
  PROVE  GuardsKept
<1>1. NodesGuarded => NodesGuarded'
  BY NodesStep
<1>2. RegionsGuarded => RegionsGuarded'
  BY RegionsStep
<1>3. PresencesGuarded => PresencesGuarded'
  BY PresencesStep
<1>4. QED BY <1>1, <1>2, <1>3 DEF GuardsKept

(* How a step of thread c changes its record.                              *)
LEMMA ThreadRecord ==
  ASSUME ConnOK, NEW c \in Conns
  PROVE  /\ \A a, pc : Answer(c, a, pc) \/ GoOn(c, pc) =>
               /\ conn'[c].node = conn[c].node /\ conn'[c].gen = conn[c].gen /\ conn'[c].pc = pc
               /\ \A d \in Conns \ {c} : conn'[d] = conn[d]
         /\ \A gen, pc : Generation(c, gen, pc) =>
               /\ conn'[c].node = conn[c].node /\ conn'[c].gen = gen /\ conn'[c].pc = pc
               /\ \A d \in Conns \ {c} : conn'[d] = conn[d]
         /\ conn' = [conn EXCEPT ![c] = FreeConn] => \A d \in Conns \ {c} : conn'[d] = conn[d]
<1>1. conn \in [Conns -> Conn] /\ conn[c] \in Conn
  BY DEF ConnOK
<1>2. ASSUME NEW k, conn' = [conn EXCEPT ![c] = k]
      PROVE  conn'[c] = k /\ \A d \in Conns \ {c} : conn'[d] = conn[d]
  BY <1>1, <1>2
<1>3. ASSUME NEW a, NEW pc, Answer(c, a, pc)
      PROVE  /\ conn'[c].node = conn[c].node /\ conn'[c].gen = conn[c].gen /\ conn'[c].pc = pc
             /\ \A d \in Conns \ {c} : conn'[d] = conn[d]
  <2> DEFINE b == IF OnIt(c) THEN a ELSE "none"
             k == [conn[c] EXCEPT !.frame = NoFrame, !.pc = pc, !.answer = b]
  <2>1. conn' = [conn EXCEPT ![c] = k]
    BY <1>3 DEF Answer
  <2> HIDE DEF b
  <2>2. k.node = conn[c].node /\ k.gen = conn[c].gen /\ k.pc = pc
    BY <1>1 DEF Conn
  <2> HIDE DEF k
  <2>3. QED BY <1>2, <2>1, <2>2
<1>4. ASSUME NEW pc, GoOn(c, pc)
      PROVE  /\ conn'[c].node = conn[c].node /\ conn'[c].gen = conn[c].gen /\ conn'[c].pc = pc
             /\ \A d \in Conns \ {c} : conn'[d] = conn[d]
  <2> DEFINE k == [conn[c] EXCEPT !.pc = pc]
  <2>1. conn' = [conn EXCEPT ![c] = k]
    BY <1>4 DEF GoOn
  <2>2. k.node = conn[c].node /\ k.gen = conn[c].gen /\ k.pc = pc
    BY <1>1 DEF Conn
  <2> HIDE DEF k
  <2>3. QED BY <1>2, <2>1, <2>2
<1>5. ASSUME NEW gen, NEW pc, Generation(c, gen, pc)
      PROVE  /\ conn'[c].node = conn[c].node /\ conn'[c].gen = gen /\ conn'[c].pc = pc
             /\ \A d \in Conns \ {c} : conn'[d] = conn[d]
  <2> DEFINE k == [conn[c] EXCEPT !.gen = gen, !.pc = pc]
  <2>1. conn' = [conn EXCEPT ![c] = k]
    BY <1>5 DEF Generation
  <2>2. k.node = conn[c].node /\ k.gen = gen /\ k.pc = pc
    BY <1>1 DEF Conn
  <2> HIDE DEF k
  <2>3. QED BY <1>2, <2>1, <2>2
<1>6. QED BY <1>2, <1>3, <1>4, <1>5

(* The steps of a thread that serves, or has just noticed the end: it stays*)
(* in front of all its marks, and brings up entries of its own only.       *)
ServingStep(c) ==
    \/ OpenSession(c) \/ Renew(c)
    \/ TouchInFile(c) \/ SelectTouch(c) \/ UpdateTouch(c)
    \/ RegisterRegionInFile(c) \/ SelectCell(c) \/ SelectOwner(c) \/ UpdateRegion(c) \/ InsertRegion(c)
    \/ UpdateStateInFile(c) \/ SelectState(c) \/ UpdateState(c)
    \/ CheckSnapshot(c) \/ Replace(c) \/ AcceptPoll(c) \/ RefusePoll(c)
    \/ Notice(c) \/ Fail(c) \/ EndSession(c)

LEMMA ServingConn ==
  ASSUME ConnOK, NEW c \in Conns, ServingStep(c)
  PROVE  /\ conn[c].pc \in Serving
         /\ conn'[c].node = conn[c].node /\ conn'[c].gen = conn[c].gen
         /\ conn'[c].pc \in Serving \cup {"world"}
         /\ \A d \in Conns \ {c} : conn'[d] = conn[d]
<1>1. conn[c].pc \in Serving
  BY DEF ServingStep, OpenSession, Renew, TouchInFile, SelectTouch, UpdateTouch,
     RegisterRegionInFile, SelectCell, SelectOwner, UpdateRegion, InsertRegion,
     UpdateStateInFile, SelectState, UpdateState, CheckSnapshot,
     Replace, AcceptPoll, RefusePoll, Notice, Fail, EndSession, Serves, Serving, AtWork, Statements
<1>2. \E pc \in Serving \cup {"world"}, a \in {"none", "ok", "no"} : Answer(c, a, pc) \/ GoOn(c, pc)
  BY DEF ServingStep, OpenSession, Renew, TouchInFile, SelectTouch, UpdateTouch,
     RegisterRegionInFile, SelectCell, SelectOwner, UpdateRegion, InsertRegion,
     UpdateStateInFile, SelectState, UpdateState, CheckSnapshot,
     Replace, AcceptPoll, RefusePoll, Notice, Fail, EndSession, Serving, AtWork, Statements
<1>3. QED BY <1>1, <1>2, ThreadRecord

LEMMA ServingStores ==
  ASSUME StoresOK, NEW c \in Conns, ServingStep(c)
  PROVE  /\ \A n \in Nodes :
              \/ world'[n] = world[n]
              \/ n = conn[c].node /\ world'[n].gen = conn[c].gen
         /\ \A r \in Regions :
              \/ region'[r] = region[r]
              \/ region'[r].node = conn[c].node /\ region'[r].gen = conn[c].gen
              \/ Database
         /\ \A u \in Users :
              \/ presence'[u] \in {presence[u], Absent}
              \/ presence'[u].node = conn[c].node /\ presence'[u].gen = conn[c].gen
<1>1. world' = world \/ Online(conn[c].node, conn[c].gen)
  BY DEF ServingStep, OpenSession, Renew, TouchInFile, SelectTouch, UpdateTouch,
     RegisterRegionInFile, SelectCell, SelectOwner, UpdateRegion, InsertRegion,
     UpdateStateInFile, SelectState, UpdateState, CheckSnapshot,
     Replace, AcceptPoll, RefusePoll, Notice, Fail, EndSession, stores
<1>2. \/ region' = region \/ RegisterRow(c) \/ Database
      \/ UpdateStateInFile(c) /\ MaySetState(c) /\ WriteState(c)
  BY DEF ServingStep, OpenSession, Renew, TouchInFile, SelectTouch, UpdateTouch,
     RegisterRegionInFile, SelectCell, SelectOwner, UpdateRegion, InsertRegion,
     UpdateStateInFile, SelectState, UpdateState, CheckSnapshot, Replace, AcceptPoll, RefusePoll, Notice, Fail, EndSession, stores
<1>3. presence' = presence \/ Replace(c)
  BY DEF ServingStep, OpenSession, Renew, TouchInFile, SelectTouch, UpdateTouch,
     RegisterRegionInFile, SelectCell, SelectOwner, UpdateRegion, InsertRegion,
     UpdateStateInFile, SelectState, UpdateState, CheckSnapshot,
     AcceptPoll, RefusePoll, Notice, Fail, EndSession, stores
<1>4. world \in [Nodes -> [gen : Nat, online : BOOLEAN]]
  BY DEF StoresOK
<1>5. region \in [Regions -> [node : Nodes \cup {None}, gen : Nat, state : RegionStates]]
  BY DEF StoresOK
<1>6. ASSUME NEW n \in Nodes
      PROVE  world'[n] = world[n] \/ (n = conn[c].node /\ world'[n].gen = conn[c].gen)
  BY <1>1, <1>4 DEF Online
<1>7. ASSUME NEW r \in Regions
      PROVE  \/ region'[r] = region[r]
             \/ region'[r].node = conn[c].node /\ region'[r].gen = conn[c].gen
             \/ Database
  <2> DEFINE f == conn[c].frame
             row == [node |-> conn[c].node, gen |-> conn[c].gen, state |-> "registered"]
             k == [region[f.region] EXCEPT !.state = f.state]
  <2>1. ASSUME RegisterRow(c)
        PROVE  \/ region'[r] = region[r]
               \/ region'[r].node = conn[c].node /\ region'[r].gen = conn[c].gen
    <3>1. region' = [region EXCEPT ![f.region] = row]
      BY <2>1 DEF RegisterRow
    <3>2. row.node = conn[c].node /\ row.gen = conn[c].gen
      OBVIOUS
    <3> HIDE DEF row, f
    <3>3. QED BY <1>5, <3>1, <3>2
  <2>2. ASSUME MaySetState(c), WriteState(c)
        PROVE  \/ region'[r] = region[r]
               \/ region'[r].node = conn[c].node /\ region'[r].gen = conn[c].gen
    <3>1. region' = [region EXCEPT ![f.region] = k] /\ Owns(c, f.region)
      BY <2>2 DEF WriteState, MaySetState
    <3>2. r = f.region => k.node = region[r].node /\ k.gen = region[r].gen
      BY <1>5
    <3> HIDE DEF k, f
    <3>3. QED BY <1>5, <3>1, <3>2 DEF Owns
  <2>3. QED BY <1>2, <2>1, <2>2
<1>8. ASSUME NEW u \in Users
      PROVE  \/ presence'[u] \in {presence[u], Absent}
             \/ presence'[u].node = conn[c].node /\ presence'[u].gen = conn[c].gen
  BY <1>3 DEF Replace
<1>9. QED BY <1>6, <1>7, <1>8

LEMMA ServingGuards ==
  ASSUME StoresOK, ConnOK, NEW c \in Conns, ServingStep(c)
  PROVE  GuardsKept
<1>1. /\ conn'[c].node = conn[c].node /\ conn'[c].gen = conn[c].gen
      /\ conn'[c].pc \in Before("world") /\ conn'[c].pc \in Before("regions")
      /\ conn'[c].pc \in Before("presence")
  BY ServingConn, Befores
<1>2. \A d \in Conns : Keeps(d, "world") /\ Keeps(d, "regions") /\ Keeps(d, "presence")
  BY <1>1, ServingConn DEF Keeps
<1>3. NodesGuarded => NodesGuarded'
  BY <1>1, <1>2, ServingStores, NodesStep DEF GuardsKept
<1>4. ~Database /\ RegionsGuarded => RegionsGuarded'
  BY <1>1, <1>2, ServingStores, RegionsStep
<1>5. PresencesGuarded => PresencesGuarded'
  BY <1>1, <1>2, ServingStores, PresencesStep DEF GuardsKept
<1>6. QED BY <1>3, <1>4, <1>5 DEF GuardsKept

(* A thread that registers is not a guard before, and one of the node it   *)
(* brings online after.                                                    *)
LEMMA RegisteringGuards ==
  ASSUME StoresOK, ConnOK, NEW c \in Conns,
         RegisterInFile(c) \/ SelectGeneration(c) \/ WriteGeneration(c)
  PROVE  GuardsKept
<1>1. conn[c].pc \in {"register", "write"} /\ UNCHANGED <<region, presence>>
  BY DEF RegisterInFile, SelectGeneration, WriteGeneration, stores
<1>2. \A d \in Conns \ {c} : conn'[d] = conn[d]
  BY ThreadRecord DEF RegisterInFile, SelectGeneration, WriteGeneration
<1>3. \A d \in Conns : Keeps(d, "world") /\ Keeps(d, "regions") /\ Keeps(d, "presence")
  BY <1>1, <1>2, Befores DEF Keeps, Serving, AtWork, Statements
<1>4. \/ world' = world
      \/ \E gen \in Nat : /\ Online(conn[c].node, gen)
                          /\ conn'[c].node = conn[c].node /\ conn'[c].gen = gen
                          /\ conn'[c].pc = "open"
  <2>1. conn[c].node \in Nodes /\ conn[c].gen \in Nat
    BY <1>1, ThreadFields
  <2>2. world[conn[c].node].gen + 1 \in Nat
    BY <2>1 DEF StoresOK
  <2>3. CASE RegisterInFile(c)
    BY <2>2, <2>3, ThreadRecord DEF RegisterInFile
  <2>4. CASE SelectGeneration(c)
    BY <2>4 DEF SelectGeneration, stores
  <2>5. CASE WriteGeneration(c)
    BY <2>1, <2>5, ThreadRecord DEF WriteGeneration
  <2>6. QED BY <2>3, <2>4, <2>5
<1>5. ASSUME NEW n \in Nodes, world'[n].online
      PROVE  \/ \E d \in Conns : conn'[d].node = n /\ conn'[d].gen = world'[n].gen
                                 /\ conn'[d].pc \in Before("world")
             \/ world'[n] = world[n]
  <2>1. CASE world' = world
    BY <2>1
  <2>2. ASSUME NEW gen \in Nat, Online(conn[c].node, gen),
               conn'[c].node = conn[c].node, conn'[c].gen = gen, conn'[c].pc = "open"
        PROVE  \/ /\ conn'[c].node = n /\ conn'[c].gen = world'[n].gen
                  /\ conn'[c].pc \in Before("world")
               \/ world'[n] = world[n]
    <3>1. conn'[c].pc \in Before("world")
      BY <2>2, Befores DEF Serving, AtWork, Statements
    <3>2. n = conn[c].node => world'[n].gen = gen
      BY <2>2 DEF Online, StoresOK
    <3>3. n # conn[c].node => world'[n] = world[n]
      BY <2>2 DEF Online, StoresOK
    <3>4. QED BY <2>2, <3>1, <3>2, <3>3
  <2>3. QED BY <1>4, <2>1, <2>2
<1>6. NodesGuarded => NodesGuarded'
  BY <1>3, <1>5, NodesStep DEF GuardsKept
<1>7. RegionsGuarded => RegionsGuarded'
  BY <1>1, <1>3, RegionsStep DEF GuardsKept
<1>8. PresencesGuarded => PresencesGuarded'
  BY <1>1, <1>3, PresencesStep DEF GuardsKept
<1>9. QED BY <1>6, <1>7, <1>8 DEF GuardsKept

(* A thread leaves the guards of a store with the step that marks it.      *)
LEMMA EndingGuards ==
  ASSUME StoresOK, ConnOK, NEW c \in Conns,
         EndWorld(c) \/ EndRegions(c) \/ EndPresence(c)
  PROVE  GuardsKept
<1>1. conn[c].pc \in {"world", "regions", "presence"}
  BY DEF EndWorld, EndRegions, EndPresence
<1>2. conn[c].node \in Nodes /\ conn[c].gen \in Nat
  BY <1>1, ThreadFields
<1>3. \A d \in Conns \ {c} : conn'[d] = conn[d]
  BY ThreadRecord DEF EndWorld, EndRegions, EndPresence
<1>4. CASE EndWorld(c)
  <2>1. conn'[c].node = conn[c].node /\ conn'[c].gen = conn[c].gen /\ conn'[c].pc = "regions"
    BY <1>4, ThreadRecord DEF EndWorld
  <2>2. \A d \in Conns : /\ Keeps(d, "regions") /\ Keeps(d, "presence")
                         /\ d # c => Keeps(d, "world")
    BY <1>3, <2>1, Befores DEF Keeps, Serving, AtWork, Statements
  <2>3. ASSUME NEW n \in Nodes, world'[n].online
        PROVE  world'[n] = world[n] /\ ~(conn[c].node = n /\ conn[c].gen = world[n].gen)
    BY <1>2, <1>4, <2>3 DEF EndWorld, MarkWorldOffline, StoresOK
  <2>4. NodesGuarded => NodesGuarded'
    BY <2>2, <2>3, NodesStep DEF GuardsKept
  <2>5. UNCHANGED <<region, presence>>
    BY <1>4 DEF EndWorld
  <2>6. (RegionsGuarded => RegionsGuarded') /\ (PresencesGuarded => PresencesGuarded')
    BY <2>2, <2>5, RegionsStep, PresencesStep DEF GuardsKept
  <2>7. QED BY <2>4, <2>6 DEF GuardsKept
<1>5. CASE EndRegions(c)
  <2>1. /\ conn[c].pc = "regions"
        /\ conn'[c].node = conn[c].node /\ conn'[c].gen = conn[c].gen /\ conn'[c].pc = "presence"
    BY <1>5, ThreadRecord DEF EndRegions
  <2>2. \A d \in Conns : /\ Keeps(d, "world") /\ Keeps(d, "presence")
                         /\ d # c => Keeps(d, "regions")
    BY <1>3, <2>1, Befores DEF Keeps, Serving, AtWork, Statements
  <2>3. ASSUME NEW r \in Regions, region'[r].state # "offline"
        PROVE  /\ region'[r] = region[r]
               /\ ~(conn[c].node = region[r].node /\ conn[c].gen = region[r].gen)
    <3> DEFINE k == [region[r] EXCEPT !.state = "offline"]
    <3>1. k.state = "offline"
      BY DEF StoresOK
    <3> HIDE DEF k
    <3>2. region'[r] = IF region[r].node = conn[c].node /\ region[r].gen = conn[c].gen
                       THEN k ELSE region[r]
      BY <1>5 DEF EndRegions, MarkRegionsOffline, k
    <3>3. QED BY <2>3, <3>1, <3>2
  <2>4. RegionsGuarded => RegionsGuarded'
    BY <2>2, <2>3, RegionsStep DEF GuardsKept
  <2>5. UNCHANGED <<world, presence>>
    BY <1>5 DEF EndRegions
  <2>6. (NodesGuarded => NodesGuarded') /\ (PresencesGuarded => PresencesGuarded')
    BY <2>2, <2>5, NodesStep, PresencesStep DEF GuardsKept
  <2>7. QED BY <2>4, <2>6 DEF GuardsKept
<1>6. CASE EndPresence(c)
  <2>1. conn[c].pc = "presence"
    BY <1>6 DEF EndPresence
  <2>2. \A d \in Conns : /\ Keeps(d, "world") /\ Keeps(d, "regions")
                         /\ d # c => Keeps(d, "presence")
    BY <1>3, <2>1, Befores DEF Keeps, Serving, AtWork, Statements
  <2>3. ASSUME NEW u \in Users, presence'[u] # Absent
        PROVE  /\ presence'[u] = presence[u]
               /\ ~(conn[c].node = presence[u].node /\ conn[c].gen = presence[u].gen)
    BY <1>6, <2>3 DEF EndPresence, RemovePresences
  <2>4. PresencesGuarded => PresencesGuarded'
    BY <2>2, <2>3, PresencesStep DEF GuardsKept
  <2>5. UNCHANGED <<world, region>>
    BY <1>6 DEF EndPresence
  <2>6. (NodesGuarded => NodesGuarded') /\ (RegionsGuarded => RegionsGuarded')
    BY <2>2, <2>5, NodesStep, RegionsStep DEF GuardsKept
  <2>7. QED BY <2>4, <2>6 DEF GuardsKept
<1>7. QED BY <1>4, <1>5, <1>6

(* The maintenance thread marks what is marked anyway.                     *)
LEMMA SweepGuards ==
  ASSUME StoresOK, LoopsOK, Maintenance
  PROVE  GuardsKept
<1>1. conn' = conn
  BY DEF Maintenance, StartSweep, SweepWorld, SweepRegions, SweepPresence, SweepSession
<1>2. \A d \in Conns : Keeps(d, "world") /\ Keeps(d, "regions") /\ Keeps(d, "presence")
  BY <1>1 DEF Keeps
<1>3. world' = world \/ \E n \in Nodes, gen \in Nat : MarkWorldOffline(n, gen)
  BY DEF Maintenance, StartSweep, SweepWorld, SweepRegions, SweepPresence, SweepSession, stores,
     LoopsOK, Lapsed
<1>4. region' = region \/ \E n, gen : MarkRegionsOffline(n, gen)
  BY DEF Maintenance, StartSweep, SweepWorld, SweepRegions, SweepPresence, SweepSession, stores
<1>5. presence' = presence \/ \E n, gen : RemovePresences(n, gen)
  BY DEF Maintenance, StartSweep, SweepWorld, SweepRegions, SweepPresence, SweepSession, stores
<1>6. \A n \in Nodes : world'[n].online => world'[n] = world[n]
  <2>1. ASSUME NEW m \in Nodes, NEW gen \in Nat, MarkWorldOffline(m, gen)
        PROVE  \A n \in Nodes : world'[n].online => world'[n] = world[n]
    BY <2>1 DEF MarkWorldOffline, StoresOK
  <2>2. QED BY <1>3, <2>1
<1>7. \A r \in Regions : region'[r].state # "offline" => region'[r] = region[r]
  <2>1. ASSUME NEW n, NEW gen, MarkRegionsOffline(n, gen), NEW r \in Regions,
               region'[r].state # "offline"
        PROVE  region'[r] = region[r]
    <3> DEFINE k == [region[r] EXCEPT !.state = "offline"]
    <3>1. k.state = "offline"
      BY DEF StoresOK
    <3> HIDE DEF k
    <3>2. region'[r] = k \/ region'[r] = region[r]
      BY <2>1 DEF MarkRegionsOffline, k
    <3>3. QED BY <2>1, <3>1, <3>2
  <2>2. QED BY <1>4, <2>1
<1>8. \A u \in Users : presence'[u] # Absent => presence'[u] = presence[u]
  <2>1. ASSUME NEW n, NEW gen, RemovePresences(n, gen)
        PROVE  \A u \in Users : presence'[u] # Absent => presence'[u] = presence[u]
    BY <2>1 DEF RemovePresences
  <2>2. QED BY <1>5, <2>1
<1>9. QED BY <1>2, <1>6, <1>7, <1>8, LoweringStep

(* A World Node takes free threads only, and changes no node, generation   *)
(* or stage of another.                                                    *)
LEMMA WorldNodeGuards ==
  ASSUME ConnOK, LoopsOK, NEW n \in Nodes,
         LeaseAges(n) \/ WorldLoop(n) \/ GiveUp(n) \/ \E c \in Conns : Connect(n, c)
  PROVE  GuardsKept
<1>1. UNCHANGED <<world, region, presence>>
  BY DEF LeaseAges, WorldLoop, GiveUp, Connect, SendStartup, SendLease, SendSnapshot, SendPoll,
     Receive, Disconnect, Post, stores
<1>2. CASE conn' = conn
  <2>1. \A d \in Conns : Keeps(d, "world") /\ Keeps(d, "regions") /\ Keeps(d, "presence")
    BY <1>2 DEF Keeps
  <2>2. QED BY <1>1, <2>1, LoweringStep
<1>3. ASSUME NEW c \in Conns, NEW k, conn' = [conn EXCEPT ![c] = k],
             \/ conn[c].pc = "free"
             \/ k.node = conn[c].node /\ k.gen = conn[c].gen /\ k.pc = conn[c].pc
      PROVE  GuardsKept
  <2>1. conn'[c] = k /\ \A d \in Conns \ {c} : conn'[d] = conn[d]
    BY <1>3 DEF ConnOK
  <2>2. \A d \in Conns : Keeps(d, "world") /\ Keeps(d, "regions") /\ Keeps(d, "presence")
    BY <1>3, <2>1, Befores DEF Keeps, Serving, AtWork, Statements
  <2>3. QED BY <1>1, <2>2, LoweringStep
<1>4. ASSUME NEW c \in Conns, NEW a, conn' = [conn EXCEPT ![c] = [conn[c] EXCEPT !.answer = a]]
      PROVE  GuardsKept
  <2> DEFINE k == [conn[c] EXCEPT !.answer = a]
  <2>1. k.node = conn[c].node /\ k.gen = conn[c].gen /\ k.pc = conn[c].pc
    BY DEF ConnOK, Conn
  <2>2. conn' = [conn EXCEPT ![c] = k]
    BY <1>4
  <2> HIDE DEF k
  <2>3. QED BY <1>3, <2>1, <2>2
<1>5. ASSUME NEW frame, Post(n, frame), current[n] \in Conns
      PROVE  GuardsKept
  <2> DEFINE c == current[n]
             k == [conn[c] EXCEPT !.frame = frame]
  <2>1. c \in Conns
    BY <1>5
  <2>2. k.node = conn[c].node /\ k.gen = conn[c].gen /\ k.pc = conn[c].pc
    BY <2>1 DEF ConnOK, Conn
  <2>3. conn' = [conn EXCEPT ![c] = k]
    BY <1>5 DEF Post
  <2> HIDE DEF k, c
  <2>4. QED BY <1>3, <2>1, <2>2, <2>3
<1>6. current[n] # None => current[n] \in Conns
  BY DEF LoopsOK
<1>7. CASE LeaseAges(n) \/ Disconnect(n)
  BY <1>2, <1>7 DEF LeaseAges, Disconnect
<1>8. CASE Receive(n) \/ GiveUp(n)
  BY <1>4, <1>6, <1>8 DEF Receive, GiveUp
<1>9. CASE \/ SendStartup(n) \/ SendLease(n)
           \/ \E r \in Regions : SendPoll(n, r) \/ \E users \in SUBSET Users : SendSnapshot(n, r, users)
  <2>1. current[n] \in Conns /\ \E frame : Post(n, frame)
    BY <1>6, <1>9 DEF SendStartup, SendLease, SendPoll, SendSnapshot, Ready
  <2>2. QED BY <1>5, <2>1
<1>10. CASE \E c \in Conns : Connect(n, c)
  BY <1>3, <1>10 DEF Connect, Unused
<1>11. QED BY <1>7, <1>8, <1>9, <1>10 DEF WorldLoop

(* A restart leaves nothing up on files, and nobody shown in any case.     *)
LEMMA RestartGuards ==
  ASSUME StoresOK, CoreRestart
  PROVE  /\ PresencesGuarded'
         /\ ~Database => NodesGuarded' /\ RegionsGuarded'
<1>1. \A u \in Users : presence'[u] = Absent
  BY DEF CoreRestart
<1>2. PresencesGuarded'
  BY <1>1 DEF PresencesGuarded, Absent
<1>3. ASSUME ~Database PROVE NodesGuarded' /\ RegionsGuarded'
  <2>1. \A n \in Nodes : ~world'[n].online
    BY <1>3 DEF CoreRestart, StoresOK
  <2>2. \A r \in Regions : region'[r].state = "offline"
    BY <1>3 DEF CoreRestart, StoresOK
  <2>3. QED BY <2>1, <2>2 DEF NodesGuarded, RegionsGuarded
<1>4. QED BY <1>2, <1>3

LEMMA InitGuards == Init => NodesGuarded /\ RegionsGuarded /\ PresencesGuarded
BY DEF Init, NodesGuarded, RegionsGuarded, PresencesGuarded, Unregistered

LEMMA StepGuards ==
  ASSUME TypeOK, [Next]_vars
  PROVE  CoreRestart \/ GuardsKept
<1>1. StoresOK /\ ConnOK /\ LoopsOK
  BY TypeParts
<1>2. ASSUME NEW c \in Conns, CoreThread(c) \/ Notice(c) \/ Fail(c)
      PROVE  GuardsKept
  <2>1. \/ ServingStep(c)
        \/ RegisterInFile(c) \/ SelectGeneration(c) \/ WriteGeneration(c)
        \/ EndWorld(c) \/ EndRegions(c) \/ EndPresence(c)
    BY <1>2 DEF CoreThread, ServingStep
  <2>2. QED BY <1>1, <2>1, ServingGuards, RegisteringGuards, EndingGuards
<1>3. CASE Maintenance
  BY <1>1, <1>3, SweepGuards
<1>4. ASSUME NEW n \in Nodes,
             LeaseAges(n) \/ WorldLoop(n) \/ GiveUp(n) \/ \E c \in Conns : Connect(n, c)
      PROVE  GuardsKept
  BY <1>1, <1>4, WorldNodeGuards
<1>5. CASE UNCHANGED vars
  <2>1. \A d \in Conns : Keeps(d, "world") /\ Keeps(d, "regions") /\ Keeps(d, "presence")
    BY <1>5 DEF Keeps, vars
  <2>2. QED BY <1>5, <2>1, LoweringStep DEF vars
<1>6. QED BY <1>2, <1>3, <1>4, <1>5 DEF Next

(* On files no interleaving of the Core's threads, late frames, failures,  *)
(* the maintenance loop and restarts leaves an online World Node, an online*)
(* Region or a presence behind without a thread that has still to take it  *)
(* down.                                                                   *)
THEOREM NothingLeftOnline ==
  ASSUME ~Database
  PROVE  Spec => []OnlineIsGuarded
<1>1. Init => OnlineIsGuarded
  BY InitGuards DEF OnlineIsGuarded
<1>2. TypeOK /\ OnlineIsGuarded /\ [Next]_vars => OnlineIsGuarded'
  <2> SUFFICES ASSUME TypeOK, OnlineIsGuarded, [Next]_vars PROVE OnlineIsGuarded'
    OBVIOUS
  <2>1. StoresOK
    BY TypeParts
  <2>2. CASE CoreRestart
    BY <2>1, <2>2, RestartGuards DEF OnlineIsGuarded
  <2>3. CASE GuardsKept
    BY <2>3 DEF GuardsKept, OnlineIsGuarded
  <2>4. QED BY <2>2, <2>3, StepGuards
<1>3. QED BY <1>1, <1>2, TypeCorrect, PTL DEF Spec

(* With either storage, and over restarts of the Core, nobody stays shown  *)
(* in a Region without a thread of that generation that has still to remove*)
(* the presence.                                                           *)
THEOREM NobodyLeftShown == Spec => []PresencesGuarded
<1>1. Init => PresencesGuarded
  BY InitGuards
<1>2. TypeOK /\ PresencesGuarded /\ [Next]_vars => PresencesGuarded'
  <2> SUFFICES ASSUME TypeOK, PresencesGuarded, [Next]_vars PROVE PresencesGuarded'
    OBVIOUS
  <2>1. StoresOK
    BY TypeParts
  <2>2. QED BY <2>1, StepGuards, RestartGuards DEF GuardsKept
<1>3. QED BY <1>1, <1>2, TypeCorrect, PTL DEF Spec

(* On a database, too, a World Node is online only with a thread of its    *)
(* generation that has still to take it offline, as long as the Core does  *)
(* not restart: a restart leaves the rows as they are.                     *)
THEOREM NoNodeLeftOnline ==
  ASSUME MaxRestarts = 0
  PROVE  Spec => []NodesGuarded
<1>1. Init => NodesGuarded
  BY InitGuards
<1>2. TypeOK /\ NodesGuarded /\ [Next]_vars => NodesGuarded'
  <2> SUFFICES ASSUME TypeOK, NodesGuarded, [Next]_vars PROVE NodesGuarded'
    OBVIOUS
  <2>1. ~CoreRestart
    BY TypeParts DEF CoreRestart, LoopsOK
  <2>2. QED BY <2>1, StepGuards DEF GuardsKept
<1>3. QED BY <1>1, <1>2, TypeCorrect, PTL DEF Spec

---------------------------------------------------------------------------
(* SessionMeansOnline and GenerationsDiffer, for registries on files.      *)
(* SessionInv, of NodeRegistry, is the inductive invariant.                *)


(* The parts of SessionInv. *)
ThreadGens ==
    \A c \in Conns : /\ Registered(c) => conn[c].gen \in 1..world[conn[c].node].gen
                     /\ ~Registered(c) => conn[c].gen = 0
StoreGens ==
    /\ \A n \in Nodes : session[n].gen <= world[n].gen
    /\ \A lapsed \in SweepSet : lapsed.gen <= world[lapsed.node].gen
Opening ==
    \A c \in Conns : conn[c].pc = "open" =>
        /\ session[conn[c].node].gen # conn[c].gen
        /\ [node |-> conn[c].node, gen |-> conn[c].gen] \notin SweepSet
        /\ world[conn[c].node].gen = conn[c].gen => world[conn[c].node].online
Closing ==
    \A c \in Conns : Closed(c) => session[conn[c].node].gen # conn[c].gen

Inv == /\ ThreadGens /\ StoreGens /\ GenerationsDiffer
       /\ Opening /\ Closing /\ SessionMeansOnline

LEMMA InvParts == Inv <=> SessionInv
BY DEF Inv, SessionInv, GenerationsInv, OpeningInv, ThreadGens, StoreGens, Opening, Closing

LEMMA Stage == /\ Serving \cap {"free", "register", "world", "regions", "presence"} = {}
               /\ Cleanup \ {"close"} = {"world", "regions", "presence"}
BY DEF Serving, AtWork, Statements, Cleanup

(* What the parts say of node, gen and pc of a thread only. *)
LEMMA ThreadTypes ==
  ASSUME StoresOK, ConnOK
  PROVE  /\ \A c \in Conns : conn[c].gen \in Nat /\ (conn[c].pc # "free" => conn[c].node \in Nodes)
         /\ \A n \in Nodes : world[n].gen \in Nat /\ session[n].gen \in Nat
BY DEF StoresOK, ConnOK, Conn

LEMMA SweepTypes ==
  ASSUME LoopsOK
  PROVE  \A lapsed \in SweepSet : lapsed.node \in Nodes /\ lapsed.gen \in Nat
BY DEF LoopsOK, SweepSet, Lapsed

(* Steps that register, open, close and mark nothing. *)
LEMMA QuietStep ==
  ASSUME StoresOK, ConnOK, LoopsOK, Inv,
         \A d \in Conns :
            /\ conn'[d].node = conn[d].node /\ conn'[d].gen = conn[d].gen
            /\ \/ conn'[d].pc = conn[d].pc
               \/ conn[d].pc \in Serving \ {"open"} /\ conn'[d].pc \in Serving \ {"open"},
         \A n \in Nodes :
            /\ world'[n].gen = world[n].gen /\ (world[n].online => world'[n].online)
            /\ session'[n].gen = session[n].gen,
         sweep' = sweep
  PROVE  Inv'
<1>1. SweepSet' = SweepSet /\ sweep.of' = sweep.of
  BY DEF SweepSet
<1>2. GenerationsDiffer'
  BY Stage DEF Inv, GenerationsDiffer, Serving
<1>3. ThreadGens'
  BY Stage, ThreadTypes DEF Inv, ThreadGens, Registered
<1>4. StoreGens'
  BY <1>1, ThreadTypes, SweepTypes DEF Inv, StoreGens
<1>5. Opening'
  BY <1>1, Stage, ThreadTypes DEF Inv, Opening
<1>6. Closing'
  BY <1>1, Stage, ThreadTypes DEF Inv, Closing, Closed
<1>7. SessionMeansOnline'
  BY <1>1 DEF Inv, SessionMeansOnline
<1>8. QED BY <1>2, <1>3, <1>4, <1>5, <1>6, <1>7 DEF Inv

LEMMA ServingInv ==
  ASSUME StoresOK, ConnOK, LoopsOK, Inv, NEW c \in Conns, ServingStep(c),
         ~OpenSession(c), ~EndSession(c)
  PROVE  Inv'
<1>1. /\ conn[c].pc \in Serving \ {"open"} /\ conn'[c].pc \in Serving \ {"open"}
      /\ conn'[c].node = conn[c].node /\ conn'[c].gen = conn[c].gen
      /\ \A d \in Conns \ {c} : conn'[d] = conn[d]
  <2>1. conn[c].pc \in Serving \ {"open"}
    BY DEF ServingStep, Renew, TouchInFile, SelectTouch, UpdateTouch,
     RegisterRegionInFile, SelectCell, SelectOwner, UpdateRegion, InsertRegion,
     UpdateStateInFile, SelectState, UpdateState, CheckSnapshot,
       Replace, AcceptPoll, RefusePoll, Notice, Fail, Serves, Serving, AtWork, Statements
  <2>2. \E pc \in Serving \ {"open"}, a \in {"none", "ok", "no"} : Answer(c, a, pc) \/ GoOn(c, pc)
    BY DEF ServingStep, Renew, TouchInFile, SelectTouch, UpdateTouch,
     RegisterRegionInFile, SelectCell, SelectOwner, UpdateRegion, InsertRegion,
     UpdateStateInFile, SelectState, UpdateState, CheckSnapshot,
       Replace, AcceptPoll, RefusePoll, Notice, Fail, Serving, AtWork, Statements
  <2>3. QED BY <2>1, <2>2, ThreadRecord
<1>2. sweep' = sweep
  BY DEF ServingStep, Renew, TouchInFile, SelectTouch, UpdateTouch,
     RegisterRegionInFile, SelectCell, SelectOwner, UpdateRegion, InsertRegion,
     UpdateStateInFile, SelectState, UpdateState, CheckSnapshot,
     Replace, AcceptPoll, RefusePoll, Notice, Fail
<1>3. conn[c].node \in Nodes /\ conn[c].gen \in Nat
  BY <1>1, ThreadFields DEF Serving, AtWork, Statements
<1>4. ASSUME NEW n \in Nodes
      PROVE  world'[n].gen = world[n].gen /\ (world[n].online => world'[n].online)
  <2>1. world' = world \/ (world[conn[c].node].gen = conn[c].gen /\ Online(conn[c].node, conn[c].gen))
    BY DEF ServingStep, Renew, TouchInFile, SelectTouch, UpdateTouch,
     RegisterRegionInFile, SelectCell, SelectOwner, UpdateRegion, InsertRegion,
     UpdateStateInFile, SelectState, UpdateState, CheckSnapshot,
       Replace, AcceptPoll, RefusePoll, Notice, Fail, stores
  <2>2. QED BY <1>3, <2>1 DEF Online, StoresOK
<1>5. ASSUME NEW n \in Nodes
      PROVE  session'[n].gen = session[n].gen
  <2>1. \/ session' = session
        \/ /\ session[conn[c].node].gen = conn[c].gen
           /\ session' = [session EXCEPT ![conn[c].node] = [gen |-> conn[c].gen, fresh |-> TRUE]]
    BY DEF ServingStep, Renew, TouchInFile, SelectTouch, UpdateTouch,
     RegisterRegionInFile, SelectCell, SelectOwner, UpdateRegion, InsertRegion,
     UpdateStateInFile, SelectState, UpdateState, CheckSnapshot,
       Replace, AcceptPoll, RefusePoll, Notice, Fail, stores
  <2>2. QED BY <1>3, <2>1 DEF StoresOK
<1>6. QED BY <1>1, <1>2, <1>4, <1>5, QuietStep

LEMMA WorldNodeInv ==
  ASSUME StoresOK, ConnOK, LoopsOK, Inv, NEW n \in Nodes,
         LeaseAges(n) \/ WorldLoop(n) \/ GiveUp(n)
  PROVE  Inv'
<1>1. world' = world /\ sweep' = sweep
  BY DEF LeaseAges, WorldLoop, GiveUp, SendStartup, SendLease, SendSnapshot, SendPoll,
     Receive, Disconnect, Post, stores
<1>2. ASSUME NEW m \in Nodes
      PROVE  session'[m].gen = session[m].gen
  <2>1. \/ session' = session
        \/ session' = [session EXCEPT ![n] = [session[n] EXCEPT !.fresh = FALSE]]
    BY DEF LeaseAges, WorldLoop, GiveUp, SendStartup, SendLease, SendSnapshot, SendPoll,
       Receive, Disconnect, Post, stores
  <2>2. QED BY <2>1 DEF StoresOK
<1>3. ASSUME NEW d \in Conns
      PROVE  conn'[d].node = conn[d].node /\ conn'[d].gen = conn[d].gen /\ conn'[d].pc = conn[d].pc
  <2> DEFINE c == current[n]
  <2>1. \/ conn' = conn
        \/ c \in Conns /\ \E frame : conn' = [conn EXCEPT ![c] = [conn[c] EXCEPT !.frame = frame]]
        \/ c \in Conns /\ \E a : conn' = [conn EXCEPT ![c] = [conn[c] EXCEPT !.answer = a]]
    BY DEF LeaseAges, WorldLoop, GiveUp, SendStartup, SendLease, SendSnapshot, SendPoll,
       Receive, Disconnect, Post, Ready, LoopsOK
  <2>2. \A k \in Conn : \A frame : /\ [k EXCEPT !.frame = frame].node = k.node
                                   /\ [k EXCEPT !.frame = frame].gen = k.gen
                                   /\ [k EXCEPT !.frame = frame].pc = k.pc
    BY DEF Conn
  <2>3. \A k \in Conn : \A a : /\ [k EXCEPT !.answer = a].node = k.node
                               /\ [k EXCEPT !.answer = a].gen = k.gen
                               /\ [k EXCEPT !.answer = a].pc = k.pc
    BY DEF Conn
  <2>4. conn \in [Conns -> Conn]
    BY DEF ConnOK
  <2> HIDE DEF c
  <2>5. ASSUME NEW k, conn' = [conn EXCEPT ![c] = k], c \in Conns,
               k.node = conn[c].node, k.gen = conn[c].gen, k.pc = conn[c].pc
        PROVE  conn'[d].node = conn[d].node /\ conn'[d].gen = conn[d].gen /\ conn'[d].pc = conn[d].pc
    BY <2>4, <2>5
  <2>6. ASSUME NEW frame, conn' = [conn EXCEPT ![c] = [conn[c] EXCEPT !.frame = frame]], c \in Conns
        PROVE  conn'[d].node = conn[d].node /\ conn'[d].gen = conn[d].gen /\ conn'[d].pc = conn[d].pc
    <3> DEFINE k == [conn[c] EXCEPT !.frame = frame]
    <3>1. k.node = conn[c].node /\ k.gen = conn[c].gen /\ k.pc = conn[c].pc
      BY <2>2, <2>4, <2>6
    <3>2. conn' = [conn EXCEPT ![c] = k]
      BY <2>6
    <3> HIDE DEF k
    <3>3. QED BY <2>5, <2>6, <3>1, <3>2
  <2>7. ASSUME NEW a, conn' = [conn EXCEPT ![c] = [conn[c] EXCEPT !.answer = a]], c \in Conns
        PROVE  conn'[d].node = conn[d].node /\ conn'[d].gen = conn[d].gen /\ conn'[d].pc = conn[d].pc
    <3> DEFINE k == [conn[c] EXCEPT !.answer = a]
    <3>1. k.node = conn[c].node /\ k.gen = conn[c].gen /\ k.pc = conn[c].pc
      BY <2>3, <2>4, <2>7
    <3>2. conn' = [conn EXCEPT ![c] = k]
      BY <2>7
    <3> HIDE DEF k
    <3>3. QED BY <2>5, <2>7, <3>1, <3>2
  <2>8. QED BY <2>1, <2>6, <2>7
<1>4. QED BY <1>1, <1>2, <1>3, QuietStep

(* A registration makes a generation nobody has. *)
LEMMA RegisterInv ==
  ASSUME StoresOK, ConnOK, LoopsOK, Inv, NEW c \in Conns, RegisterInFile(c)
  PROVE  Inv'
<1> DEFINE n == conn[c].node
           gen == world[n].gen + 1
<1>1. conn[c].pc = "register" /\ n \in Nodes /\ gen \in Nat /\ gen > world[n].gen
  BY ThreadTypes DEF RegisterInFile
<1>2. /\ conn'[c].node = n /\ conn'[c].gen = gen /\ conn'[c].pc = "open"
      /\ \A d \in Conns \ {c} : conn'[d] = conn[d]
  BY ThreadRecord DEF RegisterInFile
<1>3. UNCHANGED <<session, sweep>> /\ SweepSet' = SweepSet
  BY DEF RegisterInFile, SweepSet
<1>4. /\ world'[n].gen = gen /\ world'[n].online
      /\ \A m \in Nodes \ {n} : world'[m] = world[m]
  BY <1>1 DEF RegisterInFile, Online, StoresOK
<1> HIDE DEF n, gen
<1>5. \A d \in Conns \ {c} : conn[d].node = n => conn[d].gen < gen
  BY <1>1, ThreadTypes DEF Inv, ThreadGens, n, gen
<1>6. ThreadGens'
  BY <1>1, <1>2, <1>4, ThreadTypes DEF Inv, ThreadGens, Registered
<1>7. StoreGens'
  BY <1>1, <1>3, <1>4, ThreadTypes, SweepTypes DEF Inv, StoreGens
<1>8. GenerationsDiffer'
  BY <1>1, <1>2, <1>5, ThreadTypes DEF Inv, GenerationsDiffer
<1>9. Opening'
  <2>1. session[n].gen < gen /\ [node |-> n, gen |-> gen] \notin SweepSet
    BY <1>1, ThreadTypes, SweepTypes DEF Inv, StoreGens
  <2>2. QED BY <1>1, <1>2, <1>3, <1>4, <1>5, <2>1, ThreadTypes DEF Inv, Opening
<1>10. Closing'
  BY <1>2, <1>3 DEF Inv, Closing, Closed, Cleanup
<1>11. SessionMeansOnline'
  BY <1>1, <1>3, <1>4 DEF Inv, SessionMeansOnline
<1>12. QED BY <1>6, <1>7, <1>8, <1>9, <1>10, <1>11 DEF Inv

(* The session that opens is of the thread's generation, which no other    *)
(* thread and no copy of the maintenance thread has.                       *)
LEMMA OpenInv ==
  ASSUME StoresOK, ConnOK, LoopsOK, Inv, NEW c \in Conns, OpenSession(c)
  PROVE  Inv'
<1> DEFINE n == conn[c].node
           gen == conn[c].gen
<1>1. conn[c].pc = "open" /\ n \in Nodes /\ gen \in 1..world[n].gen
  BY ThreadTypes DEF OpenSession, Inv, ThreadGens, Registered
<1>2. /\ conn'[c].node = n /\ conn'[c].gen = gen /\ conn'[c].pc = "serving"
      /\ \A d \in Conns \ {c} : conn'[d] = conn[d]
  BY ThreadRecord DEF OpenSession
<1>3. UNCHANGED <<world, sweep>> /\ SweepSet' = SweepSet
  BY DEF OpenSession, SweepSet
<1>4. /\ session'[n].gen = gen
      /\ \A m \in Nodes \ {n} : session'[m] = session[m]
  BY <1>1 DEF OpenSession, StoresOK
<1>5. \A d \in Conns \ {c} : conn[d].node = n => conn[d].gen # gen
  BY <1>1, ThreadTypes, NodeRegistryAssumption DEF Inv, GenerationsDiffer, n, gen
<1>6. world[n].gen = gen => world[n].online
  BY <1>1 DEF Inv, Opening
<1> HIDE DEF n, gen
<1>7. ThreadGens'
  BY <1>1, <1>2, <1>3, ThreadTypes DEF Inv, ThreadGens, Registered
<1>8. StoreGens'
  BY <1>1, <1>3, <1>4, ThreadTypes, SweepTypes DEF Inv, StoreGens
<1>9. GenerationsDiffer'
  BY <1>2, <1>5 DEF Inv, GenerationsDiffer, n, gen
<1>10. Opening'
  BY <1>2, <1>3, <1>4, <1>5, ThreadTypes DEF Inv, Opening
<1>11. Closing'
  BY <1>2, <1>3, <1>4, <1>5, ThreadTypes DEF Inv, Closing, Closed, Cleanup
<1>12. SessionMeansOnline'
  BY <1>1, <1>3, <1>4, <1>6 DEF Inv, SessionMeansOnline
<1>13. QED BY <1>7, <1>8, <1>9, <1>10, <1>11, <1>12 DEF Inv

(* Closing a session only takes generations away. *)
LEMMA EndSessionInv ==
  ASSUME StoresOK, ConnOK, LoopsOK, Inv, NEW c \in Conns, EndSession(c)
  PROVE  Inv'
<1> DEFINE n == conn[c].node
           gen == conn[c].gen
<1>1. conn[c].pc = "close" /\ n \in Nodes /\ gen \in 1..world[n].gen
  BY ThreadTypes DEF EndSession, Inv, ThreadGens, Registered
<1>2. /\ conn'[c].node = n /\ conn'[c].gen = gen /\ conn'[c].pc = "world"
      /\ \A d \in Conns \ {c} : conn'[d] = conn[d]
  BY ThreadRecord DEF EndSession
<1>3. UNCHANGED <<world, sweep>> /\ SweepSet' = SweepSet
  BY DEF EndSession, SweepSet
<1>4. /\ session'[n].gen # gen
      /\ \A m \in Nodes : session'[m].gen = session[m].gen \/ session'[m].gen = 0
  BY <1>1 DEF EndSession, CloseSession, StoresOK, NoSession
<1> HIDE DEF n, gen
<1>5. ThreadGens'
  BY <1>1, <1>2, <1>3, ThreadTypes DEF Inv, ThreadGens, Registered
<1>6. StoreGens'
  BY <1>1, <1>3, <1>4, ThreadTypes, SweepTypes DEF Inv, StoreGens
<1>7. GenerationsDiffer'
  BY <1>2 DEF Inv, GenerationsDiffer, n, gen
<1>8. \A d \in Conns : conn[d].pc = "open" \/ Closed(d) => conn[d].gen # 0 /\ conn[d].node \in Nodes
  BY ThreadTypes DEF Inv, ThreadGens, Registered, Closed, Cleanup
<1>9. Opening'
  BY <1>2, <1>3, <1>4, <1>8 DEF Inv, Opening
<1>10. Closing'
  BY <1>2, <1>4, <1>8 DEF Inv, Closing, Closed
<1>11. SessionMeansOnline'
  BY <1>3, <1>4 DEF Inv, SessionMeansOnline
<1>12. QED BY <1>5, <1>6, <1>7, <1>9, <1>10, <1>11 DEF Inv

(* A node that is marked offline has no session of that generation, and no *)
(* thread is about to open one.                                            *)
LEMMA EndWorldInv ==
  ASSUME StoresOK, ConnOK, LoopsOK, Inv, NEW c \in Conns, EndWorld(c)
  PROVE  Inv'
<1> DEFINE n == conn[c].node
           gen == conn[c].gen
<1>1. conn[c].pc = "world" /\ n \in Nodes /\ gen \in 1..world[n].gen
  BY ThreadTypes DEF EndWorld, Inv, ThreadGens, Registered
<1>2. /\ conn'[c].node = n /\ conn'[c].gen = gen /\ conn'[c].pc = "regions"
      /\ \A d \in Conns \ {c} : conn'[d] = conn[d]
  BY ThreadRecord DEF EndWorld
<1>3. UNCHANGED <<session, sweep>> /\ SweepSet' = SweepSet
  BY DEF EndWorld, SweepSet
<1>4. \A m \in Nodes : /\ world'[m].gen = world[m].gen
                       /\ m # n \/ world[m].gen # gen => world'[m] = world[m]
  BY <1>1 DEF EndWorld, MarkWorldOffline, StoresOK
<1>5. session[n].gen # gen
  BY <1>1 DEF Inv, Closing, Closed, Cleanup
<1>6. \A d \in Conns : conn[d].pc = "open" => ~(conn[d].node = n /\ conn[d].gen = gen)
  BY <1>1, ThreadTypes, NodeRegistryAssumption DEF Inv, GenerationsDiffer
<1> HIDE DEF n, gen
<1>7. ThreadGens'
  BY <1>1, <1>2, <1>4, ThreadTypes DEF Inv, ThreadGens, Registered
<1>8. StoreGens'
  BY <1>3, <1>4, ThreadTypes, SweepTypes DEF Inv, StoreGens
<1>9. GenerationsDiffer'
  BY <1>2 DEF Inv, GenerationsDiffer, n, gen
<1>10. Opening'
  BY <1>2, <1>3, <1>4, <1>6, ThreadTypes DEF Inv, Opening
<1>11. Closing'
  BY <1>2, <1>3, <1>5 DEF Inv, Closing, Closed
<1>12. SessionMeansOnline'
  BY <1>3, <1>4, <1>5 DEF Inv, SessionMeansOnline
<1>13. QED BY <1>7, <1>8, <1>9, <1>10, <1>11, <1>12 DEF Inv

LEMMA EndRegionsInv ==
  ASSUME StoresOK, ConnOK, LoopsOK, Inv, NEW c \in Conns, EndRegions(c)
  PROVE  Inv'
<1>1. /\ conn[c].pc = "regions" /\ conn'[c].pc = "presence"
      /\ conn'[c].node = conn[c].node /\ conn'[c].gen = conn[c].gen
      /\ \A d \in Conns \ {c} : conn'[d] = conn[d]
  BY ThreadRecord DEF EndRegions
<1>2. UNCHANGED <<world, session, sweep>> /\ SweepSet' = SweepSet
  BY DEF EndRegions, SweepSet
<1>3. ThreadGens'
  BY <1>1, <1>2, ThreadTypes DEF Inv, ThreadGens, Registered
<1>4. StoreGens' /\ SessionMeansOnline'
  BY <1>2 DEF Inv, StoreGens, SessionMeansOnline
<1>5. GenerationsDiffer'
  BY <1>1 DEF Inv, GenerationsDiffer
<1>6. Opening'
  BY <1>1, <1>2 DEF Inv, Opening
<1>7. Closing'
  BY <1>1, <1>2 DEF Inv, Closing, Closed, Cleanup
<1>8. QED BY <1>3, <1>4, <1>5, <1>6, <1>7 DEF Inv

(* A thread that starts or ends has no generation. *)
LEMMA ResetInv ==
  ASSUME StoresOK, ConnOK, LoopsOK, Inv, NEW c \in Conns, NEW k,
         k.gen = 0, k.pc \in {"free", "register"}, conn' = [conn EXCEPT ![c] = k],
         UNCHANGED <<world, session, sweep>>
  PROVE  Inv'
<1>1. conn'[c] = k /\ \A d \in Conns \ {c} : conn'[d] = conn[d]
  BY DEF ConnOK
<1>2. SweepSet' = SweepSet
  BY DEF SweepSet
<1>3. ThreadGens'
  BY <1>1 DEF Inv, ThreadGens, Registered
<1>4. StoreGens' /\ SessionMeansOnline'
  BY <1>2 DEF Inv, StoreGens, SessionMeansOnline
<1>5. GenerationsDiffer'
  BY <1>1 DEF Inv, GenerationsDiffer
<1>6. Opening' /\ Closing'
  BY <1>1, <1>2 DEF Inv, Opening, Closing, Closed, Cleanup
<1>7. QED BY <1>3, <1>4, <1>5, <1>6 DEF Inv

(* The maintenance thread works on copies of sessions. *)
LEMMA StartSweepInv ==
  ASSUME StoresOK, ConnOK, LoopsOK, Inv, StartSweep
  PROVE  Inv'
<1>1. UNCHANGED <<world, session, conn>> /\ SweepSet' = Expired /\ sweep.of' = None /\ sweep.of = None
  BY DEF StartSweep, stores, SweepSet, Idle
<1>2. \A lapsed \in Expired : lapsed.node \in Nodes /\ lapsed.gen = session[lapsed.node].gen
  BY DEF Expired
<1>3. StoreGens'
  BY <1>1, <1>2 DEF Inv, StoreGens
<1>4. Opening'
  BY <1>1, <1>2 DEF Inv, Opening
<1>5. SessionMeansOnline'
  BY <1>1 DEF Inv, SessionMeansOnline
<1>6. ThreadGens' /\ GenerationsDiffer' /\ Closing'
  BY <1>1 DEF Inv, ThreadGens, Registered, GenerationsDiffer, Closing, Closed
<1>7. QED BY <1>3, <1>4, <1>5, <1>6 DEF Inv

LEMMA SweepWorldInv ==
  ASSUME StoresOK, ConnOK, LoopsOK, Inv, NEW lapsed \in sweep.due, SweepWorld(lapsed)
  PROVE  Inv'
<1> DEFINE n == lapsed.node
           gen == lapsed.gen
<1>1. lapsed \in Lapsed /\ n \in Nodes /\ gen \in Nat /\ lapsed = [node |-> n, gen |-> gen]
  BY DEF LoopsOK, Lapsed
<1>2. lapsed \in SweepSet /\ SweepSet' \subseteq SweepSet /\ sweep'.of = lapsed /\ sweep.of = None
  <2>1. lapsed # None /\ lapsed \in SweepSet
    BY <1>1, NodeRegistryAssumption DEF SweepSet, Lapsed
  <2>2. sweep' = [at |-> "regions", of |-> lapsed, due |-> sweep.due \ {lapsed}]
    BY DEF SweepWorld
  <2>3. sweep.of = None
    BY DEF SweepWorld, LoopsOK
  <2>4. QED BY <2>1, <2>2, <2>3 DEF SweepSet
<1>3. UNCHANGED <<session, conn>>
  BY DEF SweepWorld
<1>4. \A m \in Nodes : /\ world'[m].gen = world[m].gen
                       /\ m # n \/ world[m].gen # gen => world'[m] = world[m]
  BY <1>1 DEF SweepWorld, MarkWorldOffline, StoresOK
<1>5. \A d \in Conns : conn[d].pc = "open" => ~(conn[d].node = n /\ conn[d].gen = gen)
  BY <1>1, <1>2 DEF Inv, Opening
<1> HIDE DEF n, gen
<1>6. StoreGens'
  BY <1>2, <1>3, <1>4, ThreadTypes, SweepTypes DEF Inv, StoreGens
<1>7. Opening'
  BY <1>2, <1>3, <1>4, <1>5, ThreadTypes DEF Inv, Opening
<1>8. SessionMeansOnline'
  <2>1. ASSUME NEW m \in Nodes, session[m].gen # 0, session[m].gen = world'[m].gen,
               lapsed # [node |-> m, gen |-> world'[m].gen]
        PROVE  world'[m].online
    <3>1. m # n \/ world[m].gen # gen
      BY <1>1, <1>4, <2>1
    <3>2. sweep.of # [node |-> m, gen |-> world[m].gen]
      BY <1>2, <1>4, <2>1, ThreadTypes, NodeRegistryAssumption
    <3>3. QED BY <1>4, <2>1, <3>1, <3>2 DEF Inv, SessionMeansOnline
  <2>2. QED BY <1>2, <1>3, <2>1 DEF SessionMeansOnline
<1>9. ThreadGens'
  BY <1>3, <1>4, ThreadTypes DEF Inv, ThreadGens, Registered
<1>10. GenerationsDiffer' /\ Closing'
  BY <1>3 DEF Inv, GenerationsDiffer, Closing, Closed
<1>11. QED BY <1>6, <1>7, <1>8, <1>9, <1>10 DEF Inv

LEMMA SweepNextInv ==
  ASSUME StoresOK, ConnOK, LoopsOK, Inv, SweepRegions \/ SweepPresence
  PROVE  Inv'
<1>1. UNCHANGED <<world, session, conn>> /\ sweep'.of = sweep.of /\ SweepSet' = SweepSet
  BY DEF SweepRegions, SweepPresence, SweepSet, LoopsOK
<1>2. QED BY <1>1 DEF Inv, ThreadGens, Registered, StoreGens, GenerationsDiffer,
     Opening, Closing, Closed, SessionMeansOnline

LEMMA SweepSessionInv ==
  ASSUME StoresOK, ConnOK, LoopsOK, Inv, SweepSession
  PROVE  Inv'
<1> DEFINE n == sweep.of.node
           gen == sweep.of.gen
<1>1. sweep.of = [node |-> n, gen |-> gen] /\ n \in Nodes /\ gen \in Nat
  BY DEF SweepSession, LoopsOK, Lapsed
<1>2. UNCHANGED <<world, conn>> /\ SweepSet' \subseteq SweepSet
  BY DEF SweepSession, SweepSet, LoopsOK
<1>3. \A m \in Nodes : /\ session'[m].gen = session[m].gen \/ session'[m].gen = 0
                       /\ m = n => session'[m].gen # gen \/ session'[m].gen = 0
  BY <1>1 DEF SweepSession, CloseSession, StoresOK, NoSession
<1> HIDE DEF n, gen
<1>4. StoreGens'
  BY <1>2, <1>3, ThreadTypes, SweepTypes DEF Inv, StoreGens
<1>5. \A d \in Conns : conn[d].pc = "open" \/ Closed(d) => conn[d].gen # 0 /\ conn[d].node \in Nodes
  BY ThreadTypes DEF Inv, ThreadGens, Registered, Closed, Cleanup
<1>6. Opening' /\ Closing'
  BY <1>2, <1>3, <1>5 DEF Inv, Opening, Closing, Closed
<1>7. SessionMeansOnline'
  <2>1. ASSUME NEW m \in Nodes, session'[m].gen # 0, session'[m].gen = world[m].gen
        PROVE  world[m].online
    <3>1. session[m].gen = session'[m].gen
      BY <1>3, <2>1
    <3>2. sweep.of # [node |-> m, gen |-> world[m].gen]
      BY <1>1, <1>3, <2>1
    <3>3. QED BY <2>1, <3>1, <3>2 DEF Inv, SessionMeansOnline
  <2>2. QED BY <1>2, <2>1 DEF SessionMeansOnline
<1>8. ThreadGens' /\ GenerationsDiffer'
  BY <1>2 DEF Inv, ThreadGens, Registered, GenerationsDiffer
<1>9. QED BY <1>4, <1>6, <1>7, <1>8 DEF Inv

(* With no thread and no session there is nothing to say. *)
LEMMA EmptyInv ==
  ASSUME \A n \in Nodes : session[n].gen = 0 /\ world[n].gen \in Nat,
         \A c \in Conns : conn[c].gen = 0 /\ conn[c].pc = "free",
         sweep = Idle
  PROVE  Inv
<1>1. SweepSet = {}
  BY DEF SweepSet, Idle
<1>2. QED BY <1>1 DEF Inv, ThreadGens, Registered, StoreGens, GenerationsDiffer,
     Opening, Closing, Closed, Cleanup, SessionMeansOnline

LEMMA StepInv ==
  ASSUME ~Database, TypeOK, TypeOK', Inv, [Next]_vars
  PROVE  Inv'
<1>1. StoresOK /\ ConnOK /\ LoopsOK /\ StoresOK'
  BY TypeParts DEF TypeOK, StoresOK
<1>2. ASSUME NEW c \in Conns, CoreThread(c) \/ Notice(c) \/ Fail(c)
      PROVE  Inv'
  <2>1. \/ ServingStep(c) \/ RegisterInFile(c)
        \/ EndWorld(c) \/ EndRegions(c) \/ EndPresence(c)
    BY <1>2 DEF CoreThread, ServingStep, SelectGeneration, WriteGeneration
  <2>2. CASE ServingStep(c)
    BY <1>1, <2>2, ServingInv, OpenInv, EndSessionInv
  <2>3. CASE EndPresence(c)
    BY <1>1, <2>3, ResetInv DEF EndPresence, FreeConn
  <2>4. QED BY <1>1, <2>1, <2>2, <2>3, RegisterInv, EndWorldInv, EndRegionsInv
<1>3. CASE Maintenance
  BY <1>1, <1>3, StartSweepInv, SweepWorldInv, SweepNextInv, SweepSessionInv DEF Maintenance
<1>4. ASSUME NEW n \in Nodes, LeaseAges(n) \/ WorldLoop(n) \/ GiveUp(n)
      PROVE  Inv'
  BY <1>1, <1>4, WorldNodeInv
<1>5. ASSUME NEW n \in Nodes, NEW c \in Conns, Connect(n, c)
      PROVE  Inv'
  <2> DEFINE k == [FreeConn EXCEPT !.pc = "register", !.node = n]
  <2>1. k.gen = 0 /\ k.pc = "register"
    BY DEF FreeConn
  <2>2. conn' = [conn EXCEPT ![c] = k] /\ UNCHANGED <<world, session, sweep>>
    BY <1>5 DEF Connect, stores
  <2> HIDE DEF k
  <2>3. QED BY <1>1, <2>1, <2>2, ResetInv
<1>6. CASE CoreRestart
  <2>1. /\ \A n \in Nodes : session'[n].gen = 0 /\ world'[n].gen \in Nat
        /\ \A c \in Conns : conn'[c].gen = 0 /\ conn'[c].pc = "free"
        /\ sweep' = Idle
    BY <1>1, <1>6 DEF CoreRestart, NoSession, FreeConn, StoresOK
  <2>2. SweepSet' = {}
    BY <2>1 DEF SweepSet, Idle
  <2>3. QED BY <2>1, <2>2 DEF Inv, ThreadGens, Registered, StoreGens, GenerationsDiffer,
       Opening, Closing, Closed, Cleanup, SessionMeansOnline
<1>7. CASE UNCHANGED vars
  BY <1>7 DEF vars, Inv, ThreadGens, Registered, StoreGens, SweepSet, GenerationsDiffer,
     Opening, Closing, Closed, SessionMeansOnline
<1>8. QED BY <1>2, <1>3, <1>4, <1>5, <1>6, <1>7 DEF Next

LEMMA InvInvariant == ASSUME ~Database PROVE Spec => []Inv
<1>1. Init => Inv
  BY EmptyInv DEF Init, NoSession, FreeConn
<1>2. TypeOK /\ TypeOK' /\ Inv /\ [Next]_vars => Inv'
  BY StepInv
<1>3. QED BY <1>1, <1>2, TypeCorrect, PTL DEF Spec

(* On files no two connections of a World Node get the same generation.    *)
THEOREM EachItsGeneration == ASSUME ~Database PROVE Spec => []GenerationsDiffer
<1>1. Inv => GenerationsDiffer
  BY DEF Inv
<1>2. QED BY <1>1, InvInvariant, PTL

(* On files a World Node with a session of its latest generation is online *)
(* unless the maintenance thread is ending this very session: neither the  *)
(* late cleanup of an older connection nor the expiry of an older lease    *)
(* takes the node of a new connection offline.                             *)
THEOREM SessionIsOnline == ASSUME ~Database PROVE Spec => []SessionMeansOnline
<1>1. Inv => SessionMeansOnline
  BY DEF Inv
<1>2. QED BY <1>1, InvInvariant, PTL

(* On files SessionInv holds in every reachable state.                     *)
THEOREM SessionsInOrder == ASSUME ~Database PROVE Spec => []SessionInv
<1>1. Inv => SessionInv
  BY InvParts
<1>2. QED BY <1>1, InvInvariant, PTL

---------------------------------------------------------------------------
(* PresenceFromOwner.  What was checked under the registry's lock is still *)
(* so when the presences are replaced, and what a SELECT has found when the*)
(* UPDATE is done, as a Region that has an owner keeps it for ever.        *)

OwnerInv ==
    /\ \A c \in Conns :
          /\ conn[c].pc = "replace" => conn[c].frame.region \in Regions
          /\ conn[c].pc \in {"replace", "update"} /\ conn[c].frame.region \in Regions =>
                region[conn[c].frame.region].node = conn[c].node
    /\ \A u \in Users : presence[u] # Absent =>
          /\ presence[u].region \in Regions /\ presence[u].node \in Nodes
          /\ region[presence[u].region].node = presence[u].node

(* A Region that has an owner keeps it. *)
LEMMA OwnersStay ==
  ASSUME TypeOK, OwnerInv, [Next]_vars, NEW r \in Regions, region[r].node # None
  PROVE  region'[r].node = region[r].node
<1>1. StoresOK /\ region \in [Regions -> [node : Nodes \cup {None}, gen : Nat, state : RegionStates]]
  BY TypeParts DEF StoresOK
<1>2. \A state : [region[r] EXCEPT !.state = state].node = region[r].node
  BY <1>1
<1>3. ASSUME NEW n, NEW gen, MarkRegionsOffline(n, gen)
      PROVE  region'[r].node = region[r].node
  BY <1>2, <1>3 DEF MarkRegionsOffline
<1>4. ASSUME NEW c \in Conns, CoreThread(c) \/ Notice(c) \/ Fail(c)
      PROVE  region'[r].node = region[r].node
  <2>1. \/ region' = region
        \/ RegisterRow(c) /\ (~OwnedByOther(conn[c].frame.region, conn[c].node) \/ conn[c].pc = "update")
        \/ WriteState(c)
        \/ EndRegions(c)
    <3>1. CASE \/ RegisterRegionInFile(c) \/ SelectCell(c) \/ SelectOwner(c) \/ UpdateRegion(c)
               \/ InsertRegion(c)
      BY <3>1 DEF RegisterRegionInFile, SelectCell, SelectOwner, UpdateRegion, InsertRegion,
         Registrable, OwnedByOther, stores
    <3>2. CASE UpdateStateInFile(c) \/ SelectState(c) \/ UpdateState(c)
      BY <3>2 DEF UpdateStateInFile, SelectState, UpdateState, stores
    <3>3. QED
      BY <1>4, <3>1, <3>2 DEF CoreThread, Notice, Fail, RegisterInFile, SelectGeneration,
         WriteGeneration, OpenSession, Renew, TouchInFile, SelectTouch, UpdateTouch, CheckSnapshot,
         Replace, AcceptPoll, RefusePoll, EndSession, EndWorld, EndPresence, stores
  <2>2. CASE RegisterRow(c) /\ (~OwnedByOther(conn[c].frame.region, conn[c].node) \/ conn[c].pc = "update")
    <3>1. r = conn[c].frame.region => conn[c].node = region[r].node
      BY <2>2 DEF OwnedByOther, OwnerInv
    <3>2. QED BY <1>1, <2>2, <3>1 DEF RegisterRow
  <2>3. CASE WriteState(c)
    <3> DEFINE f == conn[c].frame
               k == [region[f.region] EXCEPT !.state = f.state]
    <3>1. region' = [region EXCEPT ![f.region] = k]
      BY <2>3 DEF WriteState
    <3>2. r = f.region => k.node = region[r].node
      BY <1>2
    <3> HIDE DEF k, f
    <3>3. QED BY <1>1, <3>1, <3>2
  <2>4. CASE EndRegions(c)
    BY <1>3, <2>4 DEF EndRegions
  <2>5. QED BY <2>1, <2>2, <2>3, <2>4
<1>5. CASE Maintenance
  BY <1>3, <1>5 DEF Maintenance, StartSweep, SweepWorld, SweepRegions, SweepPresence, SweepSession,
     stores
<1>6. CASE CoreRestart
  BY <1>2, <1>6 DEF CoreRestart
<1>7. ASSUME NEW n \in Nodes,
             LeaseAges(n) \/ WorldLoop(n) \/ GiveUp(n) \/ \E c \in Conns : Connect(n, c)
      PROVE  region'[r].node = region[r].node
  BY <1>7 DEF LeaseAges, WorldLoop, GiveUp, Connect, SendStartup, SendLease, SendSnapshot, SendPoll,
     Receive, Disconnect, Post, stores
<1>8. CASE UNCHANGED vars
  BY <1>8 DEF vars
<1>9. QED BY <1>4, <1>5, <1>6, <1>7, <1>8 DEF Next

(* A presence that is new is the one Replace puts in. *)
LEMMA PresencesFrom ==
  ASSUME [Next]_vars, NEW u \in Users
  PROVE  \/ presence'[u] \in {presence[u], Absent}
         \/ \E c \in Conns : /\ conn[c].pc = "replace"
                             /\ presence'[u] = [region |-> conn[c].frame.region,
                                                node |-> conn[c].node, gen |-> conn[c].gen]
<1>1. presence' = presence \/ (\E c \in Conns : Replace(c))
      \/ (\E n, gen : RemovePresences(n, gen)) \/ CoreRestart
  BY DEF Next, vars, CoreThread, Notice, Fail, RegisterInFile, SelectGeneration, WriteGeneration,
     OpenSession, Renew, TouchInFile, SelectTouch, UpdateTouch,
     RegisterRegionInFile, SelectCell, SelectOwner, UpdateRegion, InsertRegion,
     UpdateStateInFile, SelectState, UpdateState, CheckSnapshot, AcceptPoll,
     RefusePoll, EndSession, EndWorld, EndRegions, EndPresence, Maintenance, StartSweep, SweepWorld,
     SweepRegions, SweepPresence, SweepSession, LeaseAges, WorldLoop, GiveUp, Connect, SendStartup,
     SendLease, SendSnapshot, SendPoll, Receive, Disconnect, Post, stores
<1>2. QED BY <1>1 DEF Replace, RemovePresences, CoreRestart

(* A thread replaces or updates for the node it has found to be the owner. *)
LEMMA ThreadFrom ==
  ASSUME ConnOK, LoopsOK, [Next]_vars, NEW d \in Conns
  PROVE  \/ conn'[d].pc \notin {"replace", "update"}
         \/ /\ conn[d].pc \in {"replace", "update"} /\ conn'[d].pc = conn[d].pc
            /\ conn'[d].frame = conn[d].frame /\ conn'[d].node = conn[d].node
         \/ /\ conn[d].pc # "free" /\ region[conn[d].frame.region].node = conn[d].node
            /\ conn'[d].pc = "replace" => conn[d].frame.kind = "snapshot"
            /\ conn'[d].frame = conn[d].frame /\ conn'[d].node = conn[d].node
<1> DEFINE Other == Stages \ {"replace", "update"}
           Kept == \/ conn'[d].pc \notin {"replace", "update"}
                   \/ /\ conn[d].pc \in {"replace", "update"} /\ conn'[d].pc = conn[d].pc
                      /\ conn'[d].frame = conn[d].frame /\ conn'[d].node = conn[d].node
           Found(c, pc) == /\ conn[c].pc # "free" /\ region[conn[c].frame.region].node = conn[c].node
                           /\ pc = "replace" => conn[c].frame.kind = "snapshot"
           Looked == /\ Found(d, conn'[d].pc)
                     /\ conn'[d].frame = conn[d].frame /\ conn'[d].node = conn[d].node
<1>1. conn \in [Conns -> Conn]
  BY DEF ConnOK
<1>2. ASSUME NEW c \in Conns, NEW k, conn' = [conn EXCEPT ![c] = k],
             \/ k.pc \notin {"replace", "update"}
             \/ k.pc = conn[c].pc /\ k.frame = conn[c].frame /\ k.node = conn[c].node
      PROVE  Kept
  BY <1>1, <1>2
<1>3. ASSUME NEW c \in Conns, NEW a, NEW pc \in Other, Answer(c, a, pc)
      PROVE  Kept
  <2> DEFINE b == IF OnIt(c) THEN a ELSE "none"
             k == [conn[c] EXCEPT !.frame = NoFrame, !.pc = pc, !.answer = b]
  <2>1. conn' = [conn EXCEPT ![c] = k]
    BY <1>3 DEF Answer
  <2> HIDE DEF b
  <2>2. k.pc = pc
    BY <1>1 DEF Conn
  <2> HIDE DEF k, Kept
  <2>3. QED BY <1>2, <2>1, <2>2
<1>4. ASSUME NEW c \in Conns, NEW pc, GoOn(c, pc), pc \in Other \/ Found(c, pc)
      PROVE  Kept \/ Looked
  <2> DEFINE k == [conn[c] EXCEPT !.pc = pc]
  <2>1. conn' = [conn EXCEPT ![c] = k]
    BY <1>4 DEF GoOn
  <2>2. k.frame = conn[c].frame /\ k.node = conn[c].node /\ k.pc = pc
    BY <1>1 DEF Conn
  <2> HIDE DEF k
  <2>3. CASE pc \in Other
    BY <1>2, <2>1, <2>2, <2>3
  <2>4. CASE Found(c, pc)
    BY <1>1, <2>1, <2>2, <2>4
  <2>5. QED BY <1>4, <2>3, <2>4
<1>5. ASSUME NEW c \in Conns, NEW gen, NEW pc \in Other, Generation(c, gen, pc)
      PROVE  Kept
  <2> DEFINE k == [conn[c] EXCEPT !.gen = gen, !.pc = pc]
  <2>1. conn' = [conn EXCEPT ![c] = k]
    BY <1>5 DEF Generation
  <2>2. k.pc = pc
    BY <1>1 DEF Conn
  <2> HIDE DEF k, Kept
  <2>3. QED BY <1>2, <2>1, <2>2
<1>6. ASSUME NEW c \in Conns, CoreThread(c) \/ Notice(c) \/ Fail(c)
      PROVE  Kept \/ Looked
  <2>1. \/ \E a : \E pc \in Other : Answer(c, a, pc)
        \/ \E pc : GoOn(c, pc) /\ (pc \in Other \/ Found(c, pc))
        \/ \E gen : \E pc \in Other : Generation(c, gen, pc)
        \/ conn' = [conn EXCEPT ![c] = FreeConn]
    <3>1. CASE CheckSnapshot(c)
      BY <3>1 DEF CheckSnapshot, Serves, Owns, Stages, AtWork
    <3>2. CASE RegisterInFile(c) \/ SelectGeneration(c) \/ WriteGeneration(c) \/ EndPresence(c)
      BY <3>2 DEF RegisterInFile, SelectGeneration, WriteGeneration, EndPresence, Stages
    <3>3. CASE OpenSession(c) \/ Renew(c) \/ TouchInFile(c) \/ SelectTouch(c) \/ UpdateTouch(c)
      BY <3>3 DEF OpenSession, Renew, TouchInFile, SelectTouch, UpdateTouch, Stages, AtWork,
         Statements, Cleanup
    <3>4. CASE \/ RegisterRegionInFile(c) \/ SelectCell(c) \/ UpdateRegion(c) \/ InsertRegion(c)
               \/ UpdateStateInFile(c) \/ SelectState(c) \/ UpdateState(c)
      BY <3>4 DEF RegisterRegionInFile, SelectCell, UpdateRegion, InsertRegion, UpdateStateInFile,
         SelectState, UpdateState, Stages, AtWork, Statements, Cleanup
    <3>5. CASE SelectOwner(c)
      BY <3>5 DEF SelectOwner, OwnedByOther, Stages, AtWork, Statements
    <3>6. CASE \/ Replace(c) \/ AcceptPoll(c) \/ RefusePoll(c) \/ Notice(c) \/ Fail(c)
               \/ EndSession(c) \/ EndWorld(c) \/ EndRegions(c)
      BY <3>6 DEF Replace, AcceptPoll, RefusePoll, Notice, Fail, EndSession, EndWorld, EndRegions,
         Stages, AtWork, Cleanup
    <3>7. QED BY <1>6, <3>1, <3>2, <3>3, <3>4, <3>5, <3>6 DEF CoreThread
  <2>2. FreeConn.pc = "free"
    BY DEF FreeConn
  <2> HIDE DEF Kept, Looked
  <2>3. QED BY <1>2, <1>3, <1>4, <1>5, <2>1, <2>2
<1>7. ASSUME NEW n \in Nodes, Ready(n), current[n] \in Conns, NEW frame, Post(n, frame)
      PROVE  Kept
  <2> DEFINE c == current[n]
             k == [conn[c] EXCEPT !.frame = frame]
  <2>1. conn' = [conn EXCEPT ![c] = k] /\ c \in Conns
    BY <1>7 DEF Post
  <2>2. k.pc = "serving"
    BY <1>1, <1>7 DEF Conn, Ready
  <2> HIDE DEF c, k, Kept
  <2>3. QED BY <1>2, <2>1, <2>2
<1>8. ASSUME NEW c \in Conns, NEW a, conn' = [conn EXCEPT ![c] = [conn[c] EXCEPT !.answer = a]]
      PROVE  Kept
  <2> DEFINE k == [conn[c] EXCEPT !.answer = a]
  <2>1. conn' = [conn EXCEPT ![c] = k]
    BY <1>8
  <2>2. k.frame = conn[c].frame /\ k.node = conn[c].node /\ k.pc = conn[c].pc
    BY <1>1 DEF Conn
  <2> HIDE DEF k, Kept
  <2>3. QED BY <1>2, <2>1, <2>2
<1>9. ASSUME conn' = conn PROVE Kept
  BY <1>9
<1>10. ASSUME NEW n \in Nodes, WorldLoop(n) \/ GiveUp(n)
       PROVE  Kept
  <2>1. current[n] # None => current[n] \in Conns
    BY DEF LoopsOK
  <2>2. CASE \/ SendStartup(n) \/ SendLease(n)
             \/ \E r \in Regions : SendPoll(n, r) \/ \E users \in SUBSET Users : SendSnapshot(n, r, users)
    <3>1. Ready(n) /\ \E frame : Post(n, frame)
      BY <2>2 DEF SendStartup, SendLease, SendPoll, SendSnapshot
    <3>2. current[n] \in Conns
      BY <2>1, <3>1 DEF Ready
    <3> HIDE DEF Kept
    <3>3. QED BY <1>7, <3>1, <3>2
  <2>3. CASE Receive(n) \/ GiveUp(n)
    BY <1>8, <2>1, <2>3 DEF Receive, GiveUp
  <2>4. CASE Disconnect(n)
    BY <1>9, <2>4 DEF Disconnect
  <2> HIDE DEF Kept
  <2>5. QED BY <1>10, <2>2, <2>3, <2>4 DEF WorldLoop
<1>11. ASSUME NEW n \in Nodes, NEW c \in Conns, Connect(n, c)
       PROVE  Kept
  <2> DEFINE k == [FreeConn EXCEPT !.pc = "register", !.node = n]
  <2>1. k.pc = "register"
    BY DEF FreeConn
  <2>2. conn' = [conn EXCEPT ![c] = k]
    BY <1>11 DEF Connect
  <2> HIDE DEF k, Kept
  <2>3. QED BY <1>2, <2>1, <2>2
<1>12. ASSUME CoreRestart PROVE Kept
  BY <1>12 DEF CoreRestart, FreeConn
<1>13. Kept \/ Looked
  <2>1. CASE Maintenance \/ (\E n \in Nodes : LeaseAges(n)) \/ UNCHANGED vars
    BY <1>9, <2>1 DEF Maintenance, StartSweep, SweepWorld, SweepRegions, SweepPresence,
       SweepSession, LeaseAges, vars
  <2> HIDE DEF Kept, Looked
  <2>2. QED BY <1>6, <1>10, <1>11, <1>12, <2>1 DEF Next
<1>14. QED BY <1>13

LEMMA StepOwner == TypeOK /\ OwnerInv /\ [Next]_vars => OwnerInv'
<1> SUFFICES ASSUME TypeOK, OwnerInv, [Next]_vars PROVE OwnerInv'
  OBVIOUS
<1>1. StoresOK /\ ConnOK /\ LoopsOK
  BY TypeParts
<1>2. \A r \in Regions : region[r].node # None => region'[r].node = region[r].node
  BY OwnersStay
<1>3. \A c \in Conns : conn[c].pc # "free" => conn[c].node \in Nodes
  BY <1>1, ThreadFields
<1>4. \A n \in Nodes : n # None
  BY NodeRegistryAssumption
<1>5. \A c \in Conns : conn[c].frame.kind = "snapshot" => conn[c].frame.region \in Regions
  BY <1>1 DEF ConnOK, Conn, Frame
<1>6. ASSUME NEW c \in Conns
      PROVE  /\ conn'[c].pc = "replace" => conn'[c].frame.region \in Regions
             /\ conn'[c].pc \in {"replace", "update"} /\ conn'[c].frame.region \in Regions =>
                   region'[conn'[c].frame.region].node = conn'[c].node
  <2>1. CASE conn'[c].pc \notin {"replace", "update"}
    BY <2>1
  <2>2. CASE /\ conn[c].pc \in {"replace", "update"} /\ conn'[c].pc = conn[c].pc
             /\ conn'[c].frame = conn[c].frame /\ conn'[c].node = conn[c].node
    <3>1. conn[c].node \in Nodes
      BY <1>3, <2>2
    <3>2. QED BY <1>2, <1>4, <2>2, <3>1 DEF OwnerInv
  <2>3. CASE /\ conn[c].pc # "free" /\ region[conn[c].frame.region].node = conn[c].node
             /\ conn'[c].pc = "replace" => conn[c].frame.kind = "snapshot"
             /\ conn'[c].frame = conn[c].frame /\ conn'[c].node = conn[c].node
    BY <1>2, <1>3, <1>4, <1>5, <2>3
  <2>4. QED BY <1>1, <2>1, <2>2, <2>3, ThreadFrom
<1>7. ASSUME NEW u \in Users, presence'[u] # Absent
      PROVE  /\ presence'[u].region \in Regions /\ presence'[u].node \in Nodes
             /\ region'[presence'[u].region].node = presence'[u].node
  <2>1. CASE presence'[u] = presence[u]
    BY <1>2, <1>4, <1>7, <2>1 DEF OwnerInv
  <2>2. ASSUME NEW c \in Conns, conn[c].pc = "replace",
               presence'[u] = [region |-> conn[c].frame.region, node |-> conn[c].node,
                               gen |-> conn[c].gen]
        PROVE  /\ presence'[u].region \in Regions /\ presence'[u].node \in Nodes
               /\ region'[presence'[u].region].node = presence'[u].node
    BY <1>2, <1>3, <1>4, <2>2 DEF OwnerInv
  <2>3. QED BY <1>7, <2>1, <2>2, PresencesFrom
<1>8. QED BY <1>6, <1>7 DEF OwnerInv, Absent

(* A user is shown in a Region only by the World Node that owns it,        *)
(* although the owner was checked under another lock before, and with      *)
(* registries on files and in a database alike.                            *)
THEOREM ShownByOwner == Spec => []PresenceFromOwner
<1>1. Init => OwnerInv
  BY DEF Init, OwnerInv, FreeConn, NoFrame, Message
<1>2. TypeOK /\ OwnerInv /\ [Next]_vars => OwnerInv'
  BY StepOwner
<1>3. OwnerInv => PresenceFromOwner
  BY DEF OwnerInv, PresenceFromOwner
<1>4. QED BY <1>1, <1>2, <1>3, TypeCorrect, PTL DEF Spec

=============================================================================
