---------------------------- MODULE RegionScene ----------------------------
(***************************************************************************)
(* The objects of one Region in a World: what viewers and the Core do to   *)
(* them (src/src/world/region_runtime.cpp, the requests of scene_server    *)
(* .cpp), the events that result, and the saved scene                      *)
(* (region_persistence.cpp).                                               *)
(*                                                                         *)
(* Threads share the RegionRuntime: one for each viewer, the simulation,   *)
(* the one that saves, and the World's main loop (module ScriptWorld).  A  *)
(* function of the runtime holds its mutex throughout and is one step; a   *)
(* request looks at an object in one step and changes it in another.  An   *)
(* import of a linkset is a step for every member.                         *)
(*                                                                         *)
(* Linksets are one level deep: a child names its root in parent.  The     *)
(* place of an object stands for position and rotation, a root takes its   *)
(* children along; look stands for text, shape and material; velocities,   *)
(* constraints and the terrain are not kept.  Avatars are in module        *)
(* RegionEntry.                                                            *)
(***************************************************************************)
EXTENDS Integers, Sequences, SequencesExt

CONSTANTS
    Users, Viewers,     \* viewers are connections; a request says whose
    Ids,                \* identifiers of objects: 1..n, what next_entity_ can count to
    Snapshots,          \* linksets that object crossings bring: functions from some Ids to Entity
    EarlierScenes,      \* what the saved scene may hold at first
    Contacts,           \* sets of one object (on the ground) or two that may touch
    MaxEvents,          \* kMaxSceneEvents
    Budgets             \* bounds: how often the things named in Bounded may happen in a behaviour

Nobody == "nobody"
Bounded == {"edit", "land", "touch", "tick", "save", "import", "request", "poll",
            "time", "connect", "throw", "core", "world"}
ASSUME IdsAssumption == IsFiniteSet(Ids) /\ Ids # {} /\ Ids = 1 .. Cardinality(Ids)
ASSUME MaxEventsAssumption == MaxEvents \in Nat \ {0}
ASSUME BudgetsAssumption == Budgets \subseteq [Bounded -> Nat]

VARIABLES
    region,        \* RegionRuntime
    mayBuild,      \* users whom the parcels let build here (module LandStores)
    request,       \* the request of each viewer that has been allowed and not carried out
    import,        \* import_linkset under way
    sceneFile, savedSequence, saver,
    disturbed,     \* history: roots whose linkset changed before or while it was imported
    budget

Places == 0 .. 1
Looks == 0 .. 1
Entity == [owner: Users \cup {Nobody}, shared: BOOLEAN, parent: Ids \cup {0}, link: Nat,
           body: BOOLEAN, place: Places, scale: Looks, look: Looks]
NoEntity == [owner |-> Nobody, shared |-> FALSE, parent |-> 0, link |-> 1,
             body |-> FALSE, place |-> 0, scale |-> 0, look |-> 0]
Scene == [Ids -> Entity]

(* As the code keeps objects: someone owns each, a root has link number 1, *)
(* a child a larger one and no body.                                       *)
Kempt(entity) ==
    /\ entity.owner = Nobody => entity = NoEntity
    /\ IF entity.parent = 0 THEN entity.link = 1 ELSE entity.link >= 2 /\ ~entity.body

(* A linkset is one level deep and of one owner: the root of a child is    *)
(* there and no child itself, and link numbers differ.  Some roots are     *)
(* excepted.                                                               *)
Flat(entities, excepted) ==
    \A c \in Ids : LET root == entities[c].parent IN
        root \notin excepted \cup {0} =>
            /\ entities[root] # NoEntity /\ entities[root].parent = 0
            /\ entities[root].owner = entities[c].owner
            /\ \A d \in Ids \ {c} : entities[d].parent = root => entities[d].link # entities[c].link

(* The scene was saved by such a World; a linkset was exported by one, and *)
(* import_linkset has checked what it checks of a snapshot alone.          *)
ASSUME UsersAssumption == Nobody \notin Users
ASSUME ScenesAssumption ==
    \A file \in EarlierScenes : /\ file \in Scene /\ Flat(file, {})
                                /\ \A id \in Ids : Kempt(file[id])
ASSUME SnapshotsAssumption ==
    \A members \in Snapshots :
        /\ DOMAIN members \subseteq Ids
        /\ \A m \in DOMAIN members : members[m] \in Entity /\ members[m] # NoEntity /\ Kempt(members[m])
        /\ \E root \in DOMAIN members :
            /\ members[root].parent = 0
            /\ \A m \in DOMAIN members \ {root} :
                /\ members[m].parent = root /\ members[m].owner = members[root].owner
                /\ \A n \in DOMAIN members \ {m} : members[n].link # members[m].link
ASSUME ContactsAssumption == IsFiniteSet(Contacts)

(* The events whose type the World relays to scripts - collisions are with *)
(* objects or with the land - and all the others.                          *)
Relayed == {"touch", "collision_start", "collision", "collision_end", "changed"}
Event == [sequence: Nat, type: Relayed \cup {"scene"}, entity: Ids]

Operations == {"create", "update", "text", "material", "force", "share", "delete", "link", "unlink"}
Request == [op: Operations \cup {"none"}, user: Users \cup {Nobody}, id: Ids, other: Ids]
NoRequest == [op |-> "none", user |-> Nobody, id |-> 1, other |-> 1]

NoImport == [stage |-> "none", members |-> <<>>, todo |-> <<>>, made |-> <<>>]
NoSave == [stage |-> "none", sequence |-> 0, objects |-> [i \in Ids |-> NoEntity]]

Spends(kinds) ==
    /\ \A k \in kinds : budget[k] > 0
    /\ budget' = [k \in Bounded |-> IF k \in kinds THEN budget[k] - 1 ELSE budget[k]]

RegionRuntime == [entities: Scene, next_entity: Nat \ {0}, events: Seq(Event),
                  next_event: Nat \ {0}, active_collisions: SUBSET Contacts]
Import == [stage: {"none", "looking", "restoring", "undoing"}, members: Snapshots \cup {<<>>},
           todo: Seq(Ids), made: Seq(Ids)]
Saver == [stage: {"none", "begun", "taken"}, sequence: Nat, objects: Scene]

SceneTypeOK ==
    /\ region \in RegionRuntime /\ Len(region.events) <= MaxEvents
    /\ mayBuild \subseteq Users
    /\ request \in [Viewers -> Request]
    /\ import \in Import
    /\ sceneFile \in Scene /\ savedSequence \in Nat
    /\ saver \in Saver
    /\ disturbed \subseteq Ids
    /\ budget \in [Bounded -> Nat]

----------------------------------------------------------------------------
(* RegionRuntime: each function takes a runtime and gives the next one.    *)
Exists(s, id) == s.entities[id] # NoEntity
Living(s) == {id \in Ids : Exists(s, id)}
Children(s, id) == {c \in Living(s) : s.entities[c].parent = id}
LinksetMembers(s, id) ==
    LET root == IF s.entities[id].parent = 0 THEN id ELSE s.entities[id].parent
    IN {m \in Living(s) : m = root \/ s.entities[m].parent = root}

(* Each event is a pair of a type and an object.                           *)
\* Mutant: events are never dropped.
AppendEvents_All(s, pairs) ==
    LET new == [i \in DOMAIN pairs |-> [sequence |-> s.next_event + i - 1,
                                        type |-> pairs[i][1], entity |-> pairs[i][2]]]
    IN [s EXCEPT !.events = @ \o new, !.next_event = @ + Len(pairs)]

AppendEvents(s, pairs) ==
    LET new == [i \in DOMAIN pairs |-> [sequence |-> s.next_event + i - 1,
                                        type |-> pairs[i][1], entity |-> pairs[i][2]]]
        all == s.events \o new
        first == IF Len(all) > MaxEvents THEN Len(all) - MaxEvents + 1 ELSE 1
    IN [s EXCEPT !.events = SubSeq(all, first, Len(all)), !.next_event = @ + Len(pairs)]

Ascending(ids) == CHOOSE order \in [1 .. Cardinality(ids) -> ids] :
                    \A i, j \in DOMAIN order : i < j => order[i] < order[j]
Each(type, ids) == LET order == Ascending(ids) IN [i \in DOMAIN order |-> <<type, order[i]>>]
Change(s, id, entity) == [s EXCEPT !.entities[id] = entity]
EventsSince(s, sequence) ==
    LET order == Ascending({i \in DOMAIN s.events : s.events[i].sequence > sequence})
    IN [j \in DOMAIN order |-> s.events[order[j]]]
LatestSequence(s) == s.next_event - 1

SpawnObject(s, owner, physical) ==
    AppendEvents([Change(s, s.next_entity, [NoEntity EXCEPT !.owner = owner, !.body = physical])
                      EXCEPT !.next_entity = @ + 1],
                 <<<<"scene", s.next_entity>>>>)

(* The identifier is free.                                                 *)
Restored(entity) == [entity EXCEPT !.link = IF entity.parent = 0 THEN 1
                                            ELSE IF entity.link < 2 THEN 2 ELSE entity.link,
                                   !.body = entity.body /\ entity.parent = 0]
RestoreObject(s, id, entity) ==
    AppendEvents([Change(s, id, Restored(entity)) EXCEPT !.next_entity = IF id >= @ THEN id + 1 ELSE @],
                 <<<<"scene", id>>>>)

Unlinked(entity) == [entity EXCEPT !.parent = 0, !.link = 1]

RemoveEntity(s, id) ==
    LET freed == IF s.entities[id].parent = 0 THEN Children(s, id) ELSE {}
        left == [s EXCEPT !.entities = [i \in Ids |-> IF i = id THEN NoEntity
                                                      ELSE IF i \in freed THEN Unlinked(s.entities[i])
                                                      ELSE s.entities[i]]]
    IN AppendEvents(left, Each("scene", freed \cup {id}))

UpdateTransform(s, id, place, scale) ==
    LET scaled == scale # s.entities[id].scale
        delta == place - s.entities[id].place
        along == IF s.entities[id].parent = 0 THEN Children(s, id) ELSE {}
        root == IF s.entities[id].parent = 0 THEN id ELSE s.entities[id].parent
        moved == [s EXCEPT !.entities =
                    [i \in Ids |-> IF i = id THEN [s.entities[i] EXCEPT !.place = place,
                                                   !.scale = scale]
                                   ELSE IF i \in along THEN [s.entities[i] EXCEPT !.place = (@ + delta) % 2]
                                   ELSE s.entities[i]]]
    IN AppendEvents(moved, (IF delta = 0 THEN <<>> ELSE Each("scene", along)) \o <<<<"scene", id>>>>
                           \o (IF scaled /\ root \in Living(s) THEN <<<<"changed", root>>>> ELSE <<>>))

CanSetPhysical(s, id, enabled) == Exists(s, id) /\ (enabled => s.entities[id].parent = 0)
SetPhysical(s, id, enabled) ==
    AppendEvents([s EXCEPT !.entities[id].body = enabled], <<<<"scene", id>>>>)

SetFloatingText(s, id) == AppendEvents([s EXCEPT !.entities[id].look = 1 - @], <<<<"scene", id>>>>)

(* Material, buoyancy and shape belong to a body; so do force and impulse, *)
(* which change only its motion; a new velocity is no event.               *)
CanPush(s, id) == Exists(s, id) /\ s.entities[id].body
SetPhysicsMaterial(s, id) == AppendEvents([s EXCEPT !.entities[id].look = 1 - @], <<<<"scene", id>>>>)
ApplyForce(s, id) == AppendEvents(s, <<<<"scene", id>>>>)

\* Mutant: a linkset can be linked under another one.
CanLink_Linksets(s, root, child) ==
    /\ root # child /\ Exists(s, root) /\ Exists(s, child)
    /\ s.entities[root].parent = 0 /\ s.entities[child].parent = 0
    /\ s.entities[root].owner = s.entities[child].owner

CanLink(s, root, child) ==
    /\ root # child /\ Exists(s, root) /\ Exists(s, child)
    /\ s.entities[root].parent = 0 /\ s.entities[child].parent = 0
    /\ s.entities[root].owner = s.entities[child].owner
    /\ Children(s, child) = {}
NextLink(s, root) == Max({2} \cup {s.entities[c].link + 1 : c \in Children(s, root)})
LinkObjects(s, root, child) ==
    LET linked == Change(s, child, [s.entities[child] EXCEPT !.parent = root, !.body = FALSE,
                                                             !.link = NextLink(s, root)])
    IN AppendEvents(linked, <<<<"scene", child>>>> \o Each("changed", LinksetMembers(linked, root)))

UnlinkObject(s, child) ==
    LET left == Change(s, child, Unlinked(s.entities[child]))
        root == s.entities[child].parent
    IN IF root = 0 THEN s
       ELSE AppendEvents(left, <<<<"scene", child>>>>
                               \o Each("changed", {child} \cup {m \in Living(left) :
                                                      m = root \/ left.entities[m].parent = root}))

SetObjectPermissions(s, id) ==
    AppendEvents([s EXCEPT !.entities[id].shared = ~@], <<<<"scene", id>>>>)

InteractObject(s, id) == AppendEvents(s, <<<<"touch", id>>>>)
Chat(s, id) == AppendEvents(s, <<<<"scene", id>>>>)

----------------------------------------------------------------------------
(* Requests of viewers: scene_server looks at the objects and the land,    *)
(* then calls the runtime.                                                 *)
CanModify(entity, user) == entity # NoEntity /\ (entity.owner = user \/ entity.shared)

Allowed(r) ==
    LET entity == region.entities[r.id] IN
    CASE r.op = "create" -> r.user \in mayBuild
      [] r.op = "update" -> CanModify(entity, r.user) /\ r.user \in mayBuild
      [] r.op = "share" -> entity.owner = r.user
      [] r.op = "link" -> CanModify(entity, r.user) /\ CanModify(region.entities[r.other], r.user)
      [] OTHER -> CanModify(entity, r.user)

sceneRest == <<mayBuild, import, sceneFile, savedSequence, saver>>

Ask(v) ==
    /\ request[v] = NoRequest
    /\ Spends({"edit"})
    /\ \E r \in [op: Operations, user: Users, id: Ids, other: Ids] :
        /\ r.op \notin {"link", "create"} => r.other = r.id
        /\ r.op = "create" => r.id = 1 /\ r.other = 1
        /\ Allowed(r)
        /\ request' = [request EXCEPT ![v] = r]
    /\ UNCHANGED <<region, sceneRest, disturbed>>

ImportRoot == IF import.stage = "none" THEN {}
              ELSE {m \in DOMAIN import.members : import.members[m].parent = 0}

(* The objects by which a request may change a linkset.                    *)
Linked(r) ==
    CASE r.op = "create" -> {region.next_entity}
      [] r.op \in {"link", "unlink", "delete"} -> {r.id, r.other, region.entities[r.id].parent}
      [] OTHER -> {}

(* The runtime looks again and refuses what has become impossible.         *)
Possible(r) == CASE r.op = "create" -> TRUE
                 [] r.op = "link" -> CanLink(region, r.id, r.other)
                 [] r.op \in {"force", "material"} -> CanPush(region, r.id)
                 [] OTHER -> Exists(region, r.id)

Results(r) ==
    CASE r.op = "create" -> {SpawnObject(region, r.user, physical) : physical \in BOOLEAN}
      [] r.op = "link" -> {LinkObjects(region, r.id, r.other)}
      [] r.op = "update" -> {UpdateTransform(region, r.id, p, q) : p \in Places, q \in Looks}
      [] r.op = "text" -> {SetFloatingText(region, r.id)}
      [] r.op = "material" -> {SetPhysicsMaterial(region, r.id)}
      [] r.op = "force" -> {ApplyForce(region, r.id), region}
      [] r.op = "share" -> {SetObjectPermissions(region, r.id)}
      [] r.op = "delete" -> {RemoveEntity(region, r.id)}
      [] r.op = "unlink" -> {UnlinkObject(region, r.id)}

Act(v) ==
    LET r == request[v] IN
    /\ r # NoRequest
    /\ r.op = "create" => region.next_entity \in Ids     \* bound
    /\ request' = [request EXCEPT ![v] = NoRequest]
    /\ IF Possible(r) THEN region' \in Results(r) ELSE UNCHANGED region
    /\ disturbed' = disturbed \cup (Linked(r) \cap ImportRoot)
    /\ UNCHANGED <<sceneRest, budget>>

Touch ==
    /\ Spends({"touch"})
    /\ \E id \in Living(region) : region' = InteractObject(region, id)
    /\ UNCHANGED <<request, sceneRest, disturbed>>

LandChanges ==
    /\ Spends({"land"})
    /\ \E u \in Users : mayBuild' = IF u \in mayBuild THEN mayBuild \ {u} ELSE mayBuild \cup {u}
    /\ UNCHANGED <<region, request, import, sceneFile, savedSequence, saver, disturbed>>

----------------------------------------------------------------------------
(* The simulation: physics says who touches whom, and moves bodies.        *)
Simulate ==
    /\ Spends({"tick"})
    /\ \E touching \in SUBSET Contacts, stride \in BOOLEAN :
        LET now == {c \in touching : \A id \in c : CanPush(region, id)}
            before == region.active_collisions
            events(cs, type) ==
                LET order == SetToSeq({p \in cs \X Living(region) : p[2] \in p[1]})
                IN [i \in DOMAIN order |-> <<type, order[i][2]>>]
        IN region' = AppendEvents([region EXCEPT !.active_collisions = now],
                        events(now \ before, "collision_start")
                        \o (IF stride THEN events(now \cap before, "collision") ELSE <<>>)
                        \o events(before \ now, "collision_end"))
    /\ UNCHANGED <<request, sceneRest, disturbed>>

BodyMoves ==
    /\ Spends({"tick"})
    /\ \E id \in Living(region) :
        /\ region.entities[id].body
        /\ region' = UpdateTransform(region, id, 1 - region.entities[id].place,
                                    region.entities[id].scale)
    /\ UNCHANGED <<request, sceneRest, disturbed>>

----------------------------------------------------------------------------
(* RegionPersistence: a thread saves the scene when its events have moved  *)
(* on; it reads the sequence first and takes the objects later.            *)
SaveBegins ==
    /\ saver.stage = "none" /\ LatestSequence(region) # savedSequence
    /\ Spends({"save"})
    /\ saver' = [NoSave EXCEPT !.stage = "begun", !.sequence = LatestSequence(region)]
    /\ UNCHANGED <<region, mayBuild, request, import, sceneFile, savedSequence, disturbed>>

SaveTakes ==
    /\ saver.stage = "begun"
    /\ saver' = [saver EXCEPT !.stage = "taken", !.objects = region.entities]
    /\ UNCHANGED <<region, mayBuild, request, import, sceneFile, savedSequence, disturbed, budget>>

\* Mutant: the sequence is read when the file is written.
SaveEnds_Latest ==
    /\ saver.stage = "taken"
    /\ \/ sceneFile' = saver.objects /\ savedSequence' = LatestSequence(region) /\ UNCHANGED budget
       \/ Spends({"throw"}) /\ UNCHANGED <<sceneFile, savedSequence>>
    /\ saver' = NoSave
    /\ UNCHANGED <<region, mayBuild, request, import, disturbed>>

SaveEnds ==
    /\ saver.stage = "taken"
    /\ \/ sceneFile' = saver.objects /\ savedSequence' = saver.sequence /\ UNCHANGED budget
       \/ Spends({"throw"}) /\ UNCHANGED <<sceneFile, savedSequence>>
    /\ saver' = NoSave
    /\ UNCHANGED <<region, mayBuild, request, import, disturbed>>

EmptyRegion == [entities |-> [i \in Ids |-> NoEntity], next_entity |-> 1, events |-> <<>>,
                next_event |-> 1, active_collisions |-> {}]

(* The objects of the file are restored, one after the other.              *)
Load(file) ==
    LET stored == {id \in Ids : file[id] # NoEntity}
    IN AppendEvents([EmptyRegion EXCEPT !.entities = [id \in Ids |-> IF id \in stored THEN Restored(file[id])
                                                                    ELSE NoEntity],
                                        !.next_entity = Max({0} \cup stored) + 1],
                    Each("scene", stored))

(* The World process ends, with a last save when it is told to stop, and   *)
(* starts again.                                                           *)
SceneRestarts ==
    /\ sceneFile' \in {sceneFile, region.entities}
    /\ region' = Load(sceneFile')
    /\ savedSequence' = LatestSequence(Load(sceneFile'))
    /\ saver' = NoSave /\ import' = NoImport
    /\ request' = [v \in Viewers |-> NoRequest]
    /\ UNCHANGED <<mayBuild, disturbed>>

----------------------------------------------------------------------------
(* import_linkset: it refuses identifiers taken by something else, then    *)
(* restores the members that are not there, the root first.  An            *)
(* identifier that is taken meanwhile makes it remove what it restored,    *)
(* the last first.  What else is linked to the root is not looked at.      *)
Fits(members) ==
    \A m \in DOMAIN members : Exists(region, m) =>
        /\ region.entities[m].owner = members[m].owner
        /\ region.entities[m].parent = members[m].parent
        /\ region.entities[m].link = members[m].link

ImportBegins ==
    /\ import = NoImport
    /\ Spends({"import"})
    /\ \E members \in Snapshots : \E todo \in [1 .. Cardinality(DOMAIN members) -> DOMAIN members] :
        /\ Fits(members)
        /\ \A i, j \in DOMAIN todo : i < j => members[todo[i]].link < members[todo[j]].link
        /\ import' = [stage |-> "looking", members |-> members, todo |-> todo, made |-> <<>>]
        /\ disturbed' = disturbed \cup {root \in DOMAIN members : ~(Children(region, root) \subseteq DOMAIN members)}
    /\ UNCHANGED <<region, mayBuild, request, sceneFile, savedSequence, saver>>

Next_(made) == IF Len(import.todo) = 1 THEN NoImport
               ELSE [import EXCEPT !.stage = "looking", !.todo = Tail(@), !.made = made]

ImportLooks ==
    /\ import.stage = "looking"
    /\ import' = IF Exists(region, Head(import.todo)) THEN Next_(import.made)
                 ELSE [import EXCEPT !.stage = "restoring"]
    /\ UNCHANGED <<region, mayBuild, request, sceneFile, savedSequence, saver, disturbed, budget>>

ImportRestores ==
    LET id == Head(import.todo) IN
    /\ import.stage = "restoring"
    /\ IF Exists(region, id)
       THEN /\ import' = IF import.made = <<>> THEN NoImport ELSE [import EXCEPT !.stage = "undoing"]
            /\ UNCHANGED region
       ELSE /\ import' = Next_(<<id>> \o import.made)
            /\ region' = RestoreObject(region, id, import.members[id])
    /\ UNCHANGED <<mayBuild, request, sceneFile, savedSequence, saver, disturbed, budget>>

ImportUndoes ==
    LET id == Head(import.made) IN
    /\ import.stage = "undoing"
    /\ region' = IF Exists(region, id) THEN RemoveEntity(region, id) ELSE region
    /\ import' = IF Len(import.made) = 1 THEN NoImport ELSE [import EXCEPT !.made = Tail(@)]
    /\ UNCHANGED <<mayBuild, request, sceneFile, savedSequence, saver, disturbed, budget>>

----------------------------------------------------------------------------
SceneInit ==
    /\ sceneFile \in EarlierScenes
    /\ region = Load(sceneFile) /\ savedSequence = LatestSequence(Load(sceneFile))
    /\ saver = NoSave /\ import = NoImport
    /\ request = [v \in Viewers |-> NoRequest]
    /\ mayBuild = Users /\ disturbed = {}

sceneVars == <<region, mayBuild, request, import, sceneFile, savedSequence, saver, disturbed>>

SceneNext ==
    \/ \E v \in Viewers : Ask(v) \/ Act(v)
    \/ Touch \/ LandChanges \/ Simulate \/ BodyMoves
    \/ SaveBegins \/ SaveTakes \/ SaveEnds
    \/ ImportBegins \/ ImportLooks \/ ImportRestores \/ ImportUndoes

----------------------------------------------------------------------------
(* Linksets are flat and their children have no body of their own, while   *)
(* objects are created, linked, unlinked, deleted, imported and loaded     *)
(* again.  An import takes the mutex for each member and does not look at  *)
(* what else is linked to its root: a linkset that was changed while it    *)
(* came in, or since the same import came in before, is excepted           *)
(* (region_runtime.cpp: link_objects, import_linkset).                     *)
LinksetsAreFlat == Flat(region.entities, disturbed) /\ \A id \in Ids : Kempt(region.entities[id])

(* When the saving thread finds nothing to save, the file holds the scene  *)
(* as it is: no change that came while it was writing is forgotten         *)
(* (region_persistence.cpp: save).                                         *)
SavedIsSaved ==
    saver.stage = "none" /\ savedSequence = LatestSequence(region) => sceneFile = region.entities
=============================================================================
