---------------------------- MODULE RegionEntry ----------------------------
(***************************************************************************)
(* How a user gets into a Region and builds there.  The Core checks bans,  *)
(* the estate and the parcel and signs a scene ticket                      *)
(* (admin_http_server.inc, /v1/viewer/...; security/scene_ticket.cpp); the *)
(* viewer shows the ticket to the World, which checks again, from the      *)
(* files the Core writes, and puts an avatar into the scene                *)
(* (src/src/world/scene_server.cpp).  Each connection to the World has a   *)
(* thread; they share one ParcelStore, one ModerationStore and the cache   *)
(* of used tickets, each behind a mutex of its own, and every thread       *)
(* reloads the stores before it asks them: what one thread has read,       *)
(* another may replace before it is used.  On the way into the scene every *)
(* reload, every check and the spawn is a step of its own; elsewhere two   *)
(* operations of a thread on different mutexes are one step where nothing  *)
(* that may come in between touches both.                                  *)
(*                                                                         *)
(* The ticket carries the groups of the user at the time it was signed,    *)
(* and the connection keeps them.  The World reports to the Core who is    *)
(* where; the limit of an estate counts these reports.                     *)
(*                                                                         *)
(* The Region has an open sky: positions are points, and whether the       *)
(* height of a position is exactly zero is all that is kept of it.  Signa- *)
(* tures are taken to be sound, one World serves all Regions, all Regions  *)
(* are online and each other's neighbours (module NodeRegistry), sessions  *)
(* are valid.  Walking, chat and physics change nothing here.              *)
(***************************************************************************)
EXTENDS AvatarCrossing

CONSTANTS
    Tickets, Connections, Objects,
    Centre,          \* the point (128, 128)
    Edge,            \* the point of entry that a handoff chooses
    EarlierScenes,   \* what the saved scene may hold
    Spots            \* <<point, is its height zero>>: where viewers want to be and to build

ASSUME PointsAssumption == {Centre, Edge} \subseteq Points

VARIABLES
    tickets, lapsedTickets,    \* tickets signed, and those past their expiry
    present,                   \* PresenceStore: where the Core believes the users are
    worldParcels, worldBans,   \* the stores of the World, in memory
    used,                      \* the World's cache of used tickets
    conn,                      \* the threads that serve connections; of each request under way
                               \* also, as history, what bans of the user the file has shown since
                               \* it began, and which points it has shown open to the user
    objects, terrain,          \* objects in the scene, points that have been raised
    admitted                   \* history: tickets let through since the World started

coreVars == <<landVars, crossingVars, tickets, lapsedTickets, present>>
worldVars == <<worldParcels, worldBans, used, conn, objects, terrain, admitted>>
vars == <<coreVars, worldVars, counted>>

SceneTicketClaims == [user: Users \cup {Nobody}, region: Regions \cup {Nowhere}, point: Points,
                      ground: BOOLEAN, inGroup: BOOLEAN]
NoTicket == [user |-> Nobody, region |-> Nowhere, point |-> Centre, ground |-> FALSE, inGroup |-> FALSE]

AtWork == {"create", "move", "terraform"}
Joining == {"verified", "bansRead", "landRead", "notBanned", "allowed"}
Connection == [stage: {"none", "in"} \cup Joining \cup AtWork, ticket: Tickets \cup {Nobody},
               at: Points, aim: Points, ground: BOOLEAN, shown: SUBSET SUBSET Bans, open: SUBSET Points]
NoConnection == [stage |-> "none", ticket |-> Nobody, at |-> Centre, aim |-> Centre, ground |-> FALSE,
                 shown |-> {}, open |-> {}]

SceneObject == [owner: Users \cup {Nobody}, region: Regions \cup {Nowhere}, at: Points,
                shared: {"nobody", "group", "everyone"}]
NoObject == [owner |-> Nobody, region |-> Nowhere, at |-> Centre, shared |-> "nobody"]
ASSUME SceneAssumption == EarlierScenes \subseteq [Objects -> SceneObject] /\ Spots \subseteq Points \X BOOLEAN

TypeOK ==
    /\ LandTypeOK /\ CrossingTypeOK
    /\ tickets \in [Tickets -> SceneTicketClaims] /\ lapsedTickets \subseteq Tickets
    /\ present \in [Users -> Regions \cup {Nowhere}]
    /\ worldParcels \in Land /\ worldBans \in BanList
    /\ used \cup admitted \subseteq Tickets
    /\ conn \in [Connections -> Connection]
    /\ objects \in [Objects -> SceneObject] /\ terrain \subseteq Regions \X Points

Init ==
    /\ LandInit /\ CrossingInit
    /\ tickets = [t \in Tickets |-> NoTicket] /\ lapsedTickets = {}
    /\ present = [u \in Users |-> Nowhere]
    /\ worldParcels = parcelsFile /\ worldBans = bansFile
    /\ used = {} /\ admitted = {}
    /\ conn = [c \in Connections |-> NoConnection]
    /\ objects \in EarlierScenes /\ terrain = {}

----------------------------------------------------------------------------
(* The histories.  What a ticket allows, and where, by a list of parcels.  *)
Claims(c) == tickets[conn[c].ticket]

Right(t, stage, land, point) ==
    CASE stage = "terraform" -> CanTerraform(land, t.region, point, t.user, t.inGroup)
      [] stage \in {"create", "move"} -> CanBuild(land, t.region, point, t.user, t.inGroup)
      [] OTHER -> CanEnter(land, t.region, point, t.user, t.inGroup)

OpenPoints(t, stage, land) == {point \in Points : Right(t, stage, land, point)}

(* The bans of a list that name a user, lapsed or not.                     *)
Naming(list, u, region) == {b \in Bans : list[b].user = u /\ list[b].scope \in {Everywhere, region}}

(* Every change of the files counts for the requests that are under way.   *)
Witness ==
    conn' = [c \in Connections |->
                IF conn[c].stage \in {"none", "in"} THEN conn[c]
                ELSE [conn[c] EXCEPT !.shown = @ \cup {Naming(bansFile', Claims(c).user, Claims(c).region)},
                                     !.open = @ \cup OpenPoints(Claims(c), conn[c].stage, parcelsFile')]]

----------------------------------------------------------------------------
(* The Core signs tickets.                                                 *)
RegionCount(r) == Cardinality({u \in Users : present[u] = r})

EstateEntry(u, r) ==
    LET policy == estates.policy[r] IN
    policy.estate # Nobody =>
        /\ policy.public_access \/ CanManage(estates, policy.estate, u)
        /\ present[u] = r \/ RegionCount(r) < policy.max_agents

MayEnter(u, r, point) ==
    /\ ~IsBanned(bans, lapsedBans, u, r)
    /\ EstateEntry(u, r)
    /\ CanEnter(parcels, r, point, u, u \in members)

Issue(t, u, r, point, ground) ==
    /\ tickets[t] = NoTicket
    /\ tickets' = [tickets EXCEPT ![t] = [user |-> u, region |-> r, point |-> point,
                                          ground |-> ground, inGroup |-> u \in members]]

(* POST /v1/viewer/session, bootstrap and teleport: the viewer, a landmark *)
(* or the estate's landing point says where.                               *)
ViewerSession(u, r, point, ground, t) ==
    /\ MayEnter(u, r, point)
    /\ Issue(t, u, r, point, ground)
    /\ Succeeds("ticket")
    /\ UNCHANGED <<landVars, crossingVars, lapsedTickets, present, worldVars>>

(* POST /v1/viewer/handoff: the point is at the edge, the height zero.     *)
Handoff(u, r, t, k) ==
    /\ MayEnter(u, r, Edge)
    /\ Prepared(u, r, k)
    /\ \/ Spends({"crossing", "ticket"}) /\ UNCHANGED thrown
          /\ WriteCrossings
          /\ Issue(t, u, r, Edge, TRUE)
       \/ Throws("crossing") /\ UNCHANGED <<crossingsFile, tickets>>
    /\ UNCHANGED <<landVars, lapsedTickets, present, worldVars>>

LapseTicket(t) ==
    /\ tickets[t] # NoTicket /\ t \notin lapsedTickets
    /\ lapsedTickets' = lapsedTickets \cup {t}
    /\ UNCHANGED <<landVars, counted, crossingVars, tickets, present, worldVars>>

(* The World tells who is in a Region, and the Core believes it.           *)
InScene(u, r) == \E c \in Connections : conn[c].stage \in {"in"} \cup AtWork /\ Claims(c).user = u /\ Claims(c).region = r

ReportPresence(r) ==
    /\ present' = [u \in Users |-> IF InScene(u, r) THEN r ELSE IF present[u] = r THEN Nowhere ELSE present[u]]
    /\ present' # present
    /\ UNCHANGED <<landVars, counted, crossingVars, tickets, lapsedTickets, worldVars>>

CoreRestart ==
    /\ Succeeds("restart")
    /\ LandRestart /\ CrossingRestart
    /\ present' = [u \in Users |-> Nowhere]
    /\ UNCHANGED <<tickets, lapsedTickets, worldVars>>

CoreChange ==
    \/ /\ LandChange /\ Witness
       /\ UNCHANGED <<crossingVars, tickets, lapsedTickets, present, worldParcels, worldBans, used,
                      objects, terrain, admitted>>
    \/ CrossingChange /\ UNCHANGED <<tickets, lapsedTickets, present, worldVars>>

----------------------------------------------------------------------------
(* A connection to the World: SCENE_JOIN.                                  *)
Goes(c, stage) == conn' = [conn EXCEPT ![c].stage = stage]
Ends(c) == conn' = [conn EXCEPT ![c] = NoConnection]
IsIn(c, point) == conn' = [conn EXCEPT ![c] = [NoConnection EXCEPT !.stage = "in", !.ticket = conn[c].ticket, !.at = point]]

JoinStep == UNCHANGED <<coreVars, objects, terrain, counted>>

(* The ticket is verified, its expiry too.                                 *)
Present(c, t) ==
    /\ conn[c].stage = "none"
    /\ tickets[t] # NoTicket /\ t \notin lapsedTickets
    /\ conn' = [conn EXCEPT ![c] =
           [stage |-> "verified", ticket |-> t, at |-> Centre, aim |-> tickets[t].point, ground |-> tickets[t].ground,
            shown |-> {Naming(bansFile, tickets[t].user, tickets[t].region)},
            open |-> OpenPoints(tickets[t], "verified", parcelsFile)]]
    /\ UNCHANGED <<worldParcels, worldBans, used, admitted>> /\ JoinStep

\* Mutant: the cache forgets a ticket when the next one is used.
Consume_ForgetfulCache(c) ==
    LET t == conn[c].ticket IN
    /\ conn[c].stage = "verified"
    /\ IF t \in used
       THEN Ends(c) /\ used' = used \ lapsedTickets /\ UNCHANGED <<admitted, worldBans>>
       ELSE Goes(c, "bansRead") /\ used' = {t} /\ admitted' = admitted \cup {t} /\ worldBans' = bansFile
    /\ UNCHANGED worldParcels /\ JoinStep

(* The cache drops what has expired by now, looks for the ticket, and      *)
(* remembers it; then the bans are read.                                   *)
Consume(c) ==
    LET t == conn[c].ticket  kept == used \ lapsedTickets IN
    /\ conn[c].stage = "verified"
    /\ IF t \in kept
       THEN Ends(c) /\ used' = kept /\ UNCHANGED <<admitted, worldBans>>
       ELSE Goes(c, "bansRead") /\ used' = kept \cup {t} /\ admitted' = admitted \cup {t} /\ worldBans' = bansFile
    /\ UNCHANGED worldParcels /\ JoinStep

\* Mutant: the parcels are those that were read when the World started.
ReloadLand_Not(c) ==
    /\ conn[c].stage = "bansRead"
    /\ Goes(c, "landRead")
    /\ UNCHANGED <<worldParcels, worldBans, used, admitted>> /\ JoinStep

ReloadLand(c) ==
    /\ conn[c].stage = "bansRead"
    /\ worldParcels' = parcelsFile
    /\ Goes(c, "landRead")
    /\ UNCHANGED <<worldBans, used, admitted>> /\ JoinStep

(* spawn_entity: a height of zero stands for the middle of the Region.     *)
Landing(c) == IF conn[c].ground THEN Centre ELSE conn[c].aim

(* Ban, parcel and spawn: each asks what is in memory by then.             *)
CheckBan(c) ==
    /\ conn[c].stage = "landRead"
    /\ IF IsBanned(worldBans, lapsedBans, Claims(c).user, Claims(c).region) THEN Ends(c) ELSE Goes(c, "notBanned")
    /\ UNCHANGED <<worldParcels, worldBans, used, admitted>> /\ JoinStep

CheckLand(c) ==
    /\ conn[c].stage = "notBanned"
    /\ IF Right(Claims(c), "notBanned", worldParcels, conn[c].aim) THEN Goes(c, "allowed") ELSE Ends(c)
    /\ UNCHANGED <<worldParcels, worldBans, used, admitted>> /\ JoinStep

Spawn(c) ==
    /\ conn[c].stage = "allowed"
    /\ IsIn(c, Landing(c))
    /\ UNCHANGED <<worldParcels, worldBans, used, admitted>> /\ JoinStep

(* The connection ends at any time, and its avatar with it.                *)
Leave(c) ==
    /\ conn[c].stage # "none"
    /\ Ends(c)
    /\ UNCHANGED <<worldParcels, worldBans, used, admitted>> /\ JoinStep

----------------------------------------------------------------------------
(* Requests that land policy guards: ENTITY_CREATE, ENTITY_UPDATE and      *)
(* TERRAIN_SET.  They begin with a reload of the parcels.                  *)
SceneStep == UNCHANGED <<coreVars, worldBans, used, admitted>>

Ask(c, kind, point, ground) ==
    /\ conn[c].stage = "in"
    /\ Succeeds("scene")
    /\ conn' = [conn EXCEPT ![c].stage = kind, ![c].aim = point, ![c].ground = ground,
                            ![c].open = OpenPoints(Claims(c), kind, parcelsFile)]
    /\ worldParcels' = parcelsFile
    /\ UNCHANGED <<objects, terrain>> /\ SceneStep

CanModify(c, o) ==
    \/ objects[o].owner = Claims(c).user
    \/ objects[o].shared = "everyone"
    \/ objects[o].shared = "group" /\ Claims(c).inGroup

Create(c, o) ==
    /\ conn[c].stage = "create"
    /\ objects[o] = NoObject
    /\ objects' = [objects EXCEPT ![o] = [owner |-> Claims(c).user, region |-> Claims(c).region,
                                          at |-> Landing(c), shared |-> "nobody"]]
    /\ UNCHANGED terrain

Move(c, o) ==
    /\ conn[c].stage = "move"
    /\ objects[o].region = Claims(c).region
    /\ CanModify(c, o)
    /\ objects' = [objects EXCEPT ![o].at = conn[c].aim]
    /\ UNCHANGED terrain

Terraform(c) ==
    /\ conn[c].stage = "terraform"
    /\ terrain' = terrain \cup {<<Claims(c).region, conn[c].aim>>}
    /\ UNCHANGED objects

(* Then the check, and what it allows.                                     *)
Work(c) ==
    /\ conn[c].stage \in AtWork
    /\ IsIn(c, conn[c].at)
    /\ \/ /\ Right(Claims(c), conn[c].stage, worldParcels, conn[c].aim)
          /\ Terraform(c) \/ \E o \in Objects : Create(c, o) \/ Move(c, o)
       \/ /\ Right(Claims(c), conn[c].stage, worldParcels, conn[c].aim) => conn[c].stage # "terraform"
          /\ UNCHANGED <<objects, terrain>>
    /\ UNCHANGED <<worldParcels, counted>> /\ SceneStep

(* ENTITY_DELETE and ENTITY_PERMISSIONS ask for rights on the object only. *)
Delete(c, o) ==
    /\ objects[o] # NoObject /\ objects[o].region = Claims(c).region
    /\ CanModify(c, o)
    /\ objects' = [objects EXCEPT ![o] = NoObject]

Share(c, o, with) ==
    /\ objects[o].owner = Claims(c).user /\ objects[o].region = Claims(c).region
    /\ with = "group" => Claims(c).inGroup
    /\ objects' = [objects EXCEPT ![o].shared = with]

ObjectRequest(c, o) ==
    /\ conn[c].stage = "in"
    /\ Succeeds("scene")
    /\ Delete(c, o) \/ \E with \in {"nobody", "group", "everyone"} : Share(c, o, with)
    /\ UNCHANGED <<conn, worldParcels, terrain>> /\ SceneStep

(* The World restarts: the cache and the connections are gone, the stores  *)
(* are read from the files, the scene from the last save.                  *)
WorldRestart ==
    /\ Succeeds("restart")
    /\ used' = {} /\ admitted' = {}
    /\ conn' = [c \in Connections |-> NoConnection]
    /\ worldParcels' = parcelsFile /\ worldBans' = bansFile
    /\ UNCHANGED <<coreVars, objects, terrain>>

Next ==
    \/ CoreChange
    \/ \E u \in Users, r \in Regions, t \in Tickets :
          \/ \E spot \in Spots : ViewerSession(u, r, spot[1], spot[2], t)
          \/ \E k \in Crossings : Handoff(u, r, t, k)
    \/ \E t \in Tickets : LapseTicket(t)
    \/ \E r \in Regions : ReportPresence(r)
    \/ CoreRestart
    \/ \E c \in Connections :
          \/ \E t \in Tickets : Present(c, t)
          \/ Consume(c) \/ ReloadLand(c) \/ CheckBan(c) \/ CheckLand(c) \/ Spawn(c) \/ Leave(c)
          \/ \E kind \in AtWork, spot \in Spots : Ask(c, kind, spot[1], spot[2])
          \/ Work(c)
          \/ \E o \in Objects : ObjectRequest(c, o)
    \/ WorldRestart

Spec == Init /\ [][Next]_vars

----------------------------------------------------------------------------
(* What the Core has written reaches the scene.  An avatar appears only if *)
(* at some time since its viewer showed the ticket all bans of the user in *)
(* the file were such as have lapsed by now, and at some time the parcel   *)
(* let the user in; an object is put down or moved and land is raised only *)
(* where the parcel allowed it at some time since the request began.  A    *)
(* ban or a policy that was in the file before is never overlooked,        *)
(* although the threads of the World replace each other's copies of the    *)
(* stores (scene_server.cpp:297).  Where is the place at which avatar or   *)
(* object comes to be, with one exception: of a height of zero only the    *)
(* point that was asked for is said to be open, for the World puts it in   *)
(* the middle of the Region (LandsWhereChecked).  It is not said that the  *)
(* user was free of bans at some time: the World asks the list it has read *)
(* with the time of now, and a ban on it may have lapsed after another was *)
(* written.                                                                *)
FilesReachTheScene ==
    [][\A c \in Connections :
         /\ conn[c].stage = "allowed" /\ conn'[c].stage = "in" =>
                /\ \E known \in conn[c].shown : known \subseteq lapsedBans
                /\ conn[c].aim \in conn[c].open
                /\ ~conn[c].ground => conn'[c].at \in conn[c].open
         /\ conn[c].stage \in AtWork /\ conn'[c].stage = "in" =>
                /\ <<objects, terrain>>' # <<objects, terrain>> => conn[c].aim \in conn[c].open
                /\ \A o \in Objects : objects'[o] # objects[o] /\ (conn[c].stage = "create" => ~conn[c].ground)
                        => objects'[o].at \in conn[c].open
                /\ \A r \in Regions, point \in Points :
                        <<r, point>> \in terrain' \ terrain => r = Claims(c).region /\ point \in conn[c].open]_vars

(* No avatar appears where the parcel has not let its user in since the    *)
(* ticket was shown ("Clients cannot [...] choose an unchecked spawn       *)
(* position", docs/SCENE-PROTOCOL-v0.md:9).  The code says otherwise of a  *)
(* height of zero, which is that of every handoff (region_runtime.cpp:268).*)
LandsWhereChecked ==
    [][\A c \in Connections :
         conn[c].stage = "allowed" /\ conn'[c].stage = "in" => conn'[c].at \in conn[c].open]_vars

(* A ticket lets one connection into the World, however many show it at    *)
(* the same time, until it expires or the World restarts                   *)
(* (docs/SCENE-PROTOCOL-v0.md:7, "nonce replay").  It says nothing of the  *)
(* moment of the expiry: a second connection whose ticket was verified     *)
(* just before it is let in just after (scene_server.cpp:35).              *)
TicketLetsInOnce ==
    [][\A c \in Connections :
         conn[c].stage = "verified" /\ conn'[c].stage = "bansRead" /\ conn[c].ticket \notin lapsedTickets
             => conn[c].ticket \notin admitted]_vars

=============================================================================
