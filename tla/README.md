# OpenGenesisLINK Server: specifications

TLA+ specifications of the OpenGenesisLINK server, the TLC configurations that
model-check them on small instances, and theorems about them whose proofs TLAPS
checks. Every definition is translated from the source; `PROJECT.json` ("map")
names, for each, the lines it stands for. Paths below are those of the repository.

1. [The system](#1-the-system)
2. [What is modelled](#2-what-is-modelled)
3. [ObjectCrossing](#3-objectcrossing)
4. [NodeRegistry](#4-noderegistry)
5. [Budgets, failing writes and restarts](#5-budgets-failing-writes-and-restarts)
6. [EconomyLedger and MarketplacePurchase](#6-economyledger-and-marketplacepurchase)
7. [SocialGroups](#7-socialgroups)
8. [LandStores, AvatarCrossing and RegionEntry](#8-landstores-avatarcrossing-and-regionentry)
9. [Accounts and Federation](#9-accounts-and-federation)
10. [RegionScene and ScriptWorld](#10-regionscene-and-scriptworld)
11. [What is proved](#11-what-is-proved)
12. [Where the code and its documents disagree](#12-where-the-code-and-its-documents-disagree)
13. [What is not modelled](#13-what-is-not-modelled)
14. [Plan](#14-plan)
15. [Running the checks](#15-running-the-checks)

## 1. The system

A grid is one **Core** process and several **World Node** processes.

| process | threads | talks to |
|---|---|---|
| Core (`apps/core/main.cpp`) | one detached thread per control connection; a maintenance thread (1 s); the HTTP server's threads (`src/core/admin_http*.inc`) | World Nodes over OGL1 frames, viewers and owners over HTTP, other grids over OGL-FED and Hypergrid |
| World Node (`apps/world/main.cpp`) | a control loop, a tick thread per Region (`src/world/region_runtime.cpp`), a scene server (`src/world/scene_server.cpp`), a persistence thread | the Core as a client, viewers over the scene protocol |

Inside the Core the state is in *stores*: classes with a mutex and either a file
that is rewritten after every change (`persist_locked`) or SQL tables. No lock is
held across two stores. So the unit of interleaving is **one call on one
store**, and every handler that makes several calls is a protocol of its own. On
a World Node the unit is one call on a `RegionRuntime`, which has a mutex too.

| component | state | operations that change it | interacts with | what makes it correct | where it is hard |
|---|---|---|---|---|---|
| Object crossing store (`core/object_crossing_store.cpp`) | transactions in a file: phase, snapshot, attempts | prepare, record_export/import/remove/cleanup/restore, reject_command, rollback, maintenance | HTTP prepares and rolls back; connection threads poll and record | no object lost or duplicated, phases go forward, every crossing settles | lost results, retries, expiry and rollback during a command, restart on an older file |
| Core connection thread (`apps/core/main.cpp`) | node id, generation, the frame in hand | registration, lease, Region frames, presence, crossings, script events, world actions, cleanup | all stores | what it leaves behind is taken down, for its own generation only | several threads of one World Node, check and use under different locks |
| World registry (`core/world_registry.cpp`) | per node: generation, state, last seen | register_or_reconnect, touch, mark_offline, update_metrics, load | connection threads, maintenance | generations differ; online means somebody is in charge | SELECT then UPDATE, late marks |
| Region registry (`core/region_registry.cpp`) | per Region: owner, generation, state, coordinates | register_region, update_state, mark_node_offline | connection threads, maintenance | one owner per Region and per coordinate; states follow `valid_transition` | late frames of an old generation, contention of two nodes |
| Node sessions (`core/node_sessions.cpp`) | per node: generation, last renewal | open, renew, close, expired | connection threads, maintenance | the lease of a lost node ends, that of a live one does not | expiry while a new connection registers |
| Presence (`core/presence_store.cpp`) | per user: Region, node, generation | replace_region_snapshot, mark_node_offline | connection threads, maintenance | a user is shown by the owner of the Region; presences of lost nodes go | owner checked under another lock |
| Avatar crossings (`core/crossing_store.cpp`) | reservations with deadlines | prepare, reserve, complete, rollback, abort (never called), maintenance | HTTP | one outcome per crossing | viewer, destination and expiry race |
| World action queue (`scripting/world_action_queue.cpp`) | durable actions with leases | enqueue, lease, ack, nack, expiry | script host, connection threads | at least once, in order per Region, bounded | lost acks, lease expiry, limits |
| Script runtime and VM (`scripting/*.cpp`) | scripts, VM states, timers | create, event, timer, rebind_objects | world action queue, crossings | scripts follow their object; budgets hold | rebinding during a crossing |
| Scene of a Region (`world/region_runtime.cpp`) | entities, linksets, avatars, physics | create, edit, link, export/import/remove_linkset, tick | control loop, scene server | a linkset moves as a whole; import is idempotent | edits between export and remove |
| Scene persistence (`world/region_persistence.cpp`) | the saved scene | save, load | World Node start and every save interval | a restart loses nothing acknowledged | a crash between record and save |
| Economy ledger (`core/economy_ledger.cpp`) | balances, transfers, escrows, references | transfer, mint, burn, reserve, commit, release | marketplace, HTTP | money is conserved, a reference is applied once | a failed write between memory and file, repeated references |
| Marketplace (`core/marketplace_store.cpp`, `core/admin_http_platform.inc`) | listings and their reservation | create, reserve, complete, release, cancel | ledger, assets, inventory | a buyer pays if and only if the goods arrive | a saga over four stores without a journal; an exception ends it where it is |
| Identity, sessions, roles (`core/identity_store.cpp`, `session_store.cpp`, `admin_role_store.cpp`) | accounts, bearer sessions, roles | register, verify, issue, revoke, expire | HTTP | a revoked session is refused | expiry against use |
| Assets, inventory (`core/asset_store.cpp`, `inventory_store.cpp`) | blobs, items | put, copy, update permissions, add, move, remove | HTTP, marketplace | permissions only shrink along copies | blob shared by assets |
| Social (`core/friends_store.cpp`, `group_store.cpp`, `group_channel_store.cpp`, `message_store.cpp`, `social_policy_store.cpp`, `notification_store.cpp`) | relations, groups, roles, invitations, messages | request, accept, invite, leave, role changes | HTTP | a group keeps an owner; powers are checked when used | invitation accepted after its inviter lost the power |
| Land, moderation, audit (`core/parcel_store.cpp`, `estate_store.cpp`, `landmark_store.cpp`, `moderation_store.cpp`, `audit_store.cpp`) | parcels, estates, bans, log | create, update, access lists | HTTP, scene tickets | deny overrides allow | few: single-store operations |
| Federation (`src/federation/*.cpp`) | grid identity, trust, travel tokens, replay cache, sessions, grants | issue, accept, revoke, expire | other grids, HTTP | a token is accepted once; revocation cascades | replay window, expiry, several stores per call |
| Hypergrid (`src/compat/hypergrid/*.cpp`) | travel and visitor sessions | verify, logout, come home | OpenSim grids | one identity per session | sessions that collide |
| HTTP front end (`core/admin_http*.inc`) | none of its own | routes, authorisation | all stores | conditions are checked before the call | check and use under different locks |
| Storage (`src/storage/*.cpp`) | pools, migrations | query, transaction | the SQL stores | a transaction is whole | pool exhaustion |
| Physics, meshing, terrain (`src/physics`, `src/meshing`, `world/terrain.cpp`) | bodies, meshes, heights | step, mesh | Region tick | numerical | floating point |
| Transport, security, configuration (`src/network`, `src/protocol`, `src/platform`, `src/security`, `src/config`) | sockets, limits | send, receive, sign | everything | framing is exact | none that is stateful beyond a socket |
| Appearance, voice (`src/avatar`, `src/voice`) | outfit records | set, get | HTTP | revisions grow | few |

`PROJECT.json` lists the same components with their status, and under "hazards"
each hazard at the line where it bites, with the properties that would catch it.

## 2. What is modelled

What an owner would miss most if it failed comes first: an object that crosses a
border, and what the rest of the Core relies on to know which World Node is
speaking. The other modules each take a group of stores together with the
handlers that call several of them.

| module | role |
|---|---|
| `ObjectCrossing` | the transaction store and its file, the Core's handlers, the World Nodes' loops, the scenes, the scripts, the messages between them; all properties |
| `ObjectMove` | the abstract specification: a crossing moves its object or leaves it |
| `ObjectCrossingRefinement` | the refinement mapping, `MoveImplemented` |
| `ObjectCrossingProofs` | theorems |
| `NodeRegistry` | the four stores of registrations, the Core's threads, the maintenance loop, the World Nodes; all properties |
| `NodeRegistryProofs` | theorems |
| `EconomyLedger` | the ledger as a value: conditions and results of its operations |
| `MarketplacePurchase` over `EconomyLedger` | listings, assets, inventory, and the purchase handler over the four stores |
| `MarketplaceProofs` | finite sums, what every operation of the ledger keeps, theorems |
| `SocialGroups` | friends, blocks, messages, one group with roles and invitations |
| `SocialGroupsProofs` | theorems |
| `LandStores` | parcels, bans, estates and the requests that change them |
| `AvatarCrossing` over `LandStores` | the reservations of avatars that change Region |
| `RegionEntry` over both | scene tickets, the joins and the building requests of the World's connections |
| `RegionEntryProofs` | theorems about the three |
| `Accounts` | users, sessions, roles |
| `Federation` over `Accounts` | peers, grants, travel tokens, visiting sessions |
| `FederationProofs` | theorems about both |
| `RegionScene` | the objects of a Region, their linksets and events, the saved scene |
| `ScriptWorld` over `RegionScene` | scripts, the world action queue, the connection between World and Core |
| `RegionSceneProofs` | what each function of the runtime and each step of the scene keeps |
| `ScriptWorldProofs` | theorems about both |
| `MC*` | instances for TLC, one for each `.cfg` prefix |

A module "over" another EXTENDS it: its Next takes the other's steps as
disjuncts, and its restart restarts all stores of the process at once.
`ObjectCrossing` and `NodeRegistry` meet in the poll: NodeRegistry models who may
poll, ObjectCrossing what a poll gives and what follows. ObjectCrossing and
ScriptWorld take from NodeRegistry only that a connection may break at any time,
that a broken one may have messages still being handled, and that generations
differ.

In every module an operator whose name carries a suffix (`Undone_Blind`,
`Touch_Unguarded`, ...) is a *mutant*: the definition that follows it, with a
plausible bug. It is used nowhere; replacing the definition by it makes the
property named in `PROJECT.json` ("mutants") fail in its run, which shows that
the property depends on that line of the code.

## 3. ObjectCrossing

An object (the root of a linkset) crosses from its Region to a neighbour. The
Core keeps the transaction; the World Node of each Region polls for the command
that is due, applies it to its scene and sends a result:

    prepared --export--> exported --import--> imported --remove--> completed
        |                    \                  /
    rolled_back            cleanup_pending --cleanup--> restore_pending --restore--> rolled_back

**State and code.** `store` is `ObjectCrossingStore::crossings_`, `disk` its file;
`scene` holds the entities (each object at its source, each copy at the
destination) with the one attribute `import_linkset` compares and users change,
the group; `link` and `held` are a World Node's connection and the command in its
hand; `msgs` are results on their way to, or inside, a Core handler; `script` and
`scriptDisk` are the bindings `rebind_objects` moves and their file; `deleted` is
history. `created_unix` is an unbounded clock that is only compared. One loop is
modelled per Region; a World Node with several Regions polls for them in turn,
which is one of the interleavings.

**Steps.** The handler of `object_crossing_result` compares the result with the
command due now (`CoreAccept`), then rebinds scripts (`CoreRebind`), then records
(`CoreRecord`, `CoreReject`): three calls under three locks, so three actions,
between which `Rollback` (HTTP), `Maintenance` (expiry and retention), `Prepare`,
other handlers, `Disconnect` and `CoreRestart` run. A command or result may be
lost with its connection, or still be applied or handled after it. With
`DiskMayFail` every `persist_locked` may throw after memory has changed;
`record_export` and `record_import` are caught by the handler, the others end its
thread. The maintenance thread catches nothing, so a throw there is `CoreRestart`.

| property | says |
|---|---|
| `NoLoss` | unless a user deleted it, an object is in its Region, or a copy is at a destination, or a reconciliation that restores it is pending |
| `NeverBackwards` | no step moves a crossing to an earlier phase or out of a terminal one |
| `SourceRemovedAfterImport` | the protocol removes a source only after an import was recorded |
| `BoundOnlyAfterImport` | scripts are bound to a copy only after its import was recorded |
| `CompletedCarriesScript` | a completed crossing has carried its scripts, in memory and in the files, also when writes fail |
| `MoveImplemented` | undisturbed by users, the protocol implements `ObjectMove`: a settled crossing leaves exactly one copy, on the side it says |
| `Settles` | once connections and Core stay up, every crossing ends |

**Runs.**

| run | instance | shows |
|---|---|---|
| `oc_single` | 1 crossing, 2 groups, users, failing writes, 1 late handler, 1 attempt | `TypeOK`, `CompletedCarriesScript` |
| `oc_pair` | 2 crossings of 1 object, users who delete, reliable disk, 2 attempts | `NoLoss`, `BoundOnlyAfterImport`, `SourceRemovedAfterImport`, `NeverBackwards` |
| `oc_settles` | 2 objects at one border, no users, 1 attempt, fair | `MoveImplemented`, `Settles` |
| `oc_blind` | 1 crossing | `NoCopyLeftBehind` is violated, section 12 |

**Bounds.** Two Regions are enough because a crossing has two ends and Regions
only meet through a crossing. Two crossings exhibit what crossings can do to each
other: two for one object (a stale copy, a source that is gone) and two of one
Region in the queue of `command_for_region`. `MaxAttempts` (the configured
`object_max_attempts`) of 1 and 2 covers "the last attempt" and "not yet the
last". `MaxLate` bounds the handlers that still run for a broken connection: it
guards `Connect` only, so it never stops a handler. No run needs deadlock checking
off. `oc_pair` has one group because with two crossings groups do not interact
with loss; the proofs have no such restriction. In `oc_settles` users are off
since a deleted or regrouped object does not have "one copy" (section 12).

**Fairness** (`FairSpec`). Weak fairness, per Region, of connecting, polling,
applying, and of the Core handling that Region's results: the World Node's loop
reconnects for ever, polls every pass and answers what it polled, and the Core has
a thread per connection that does nothing but serve it. Nothing makes a user, an
expiry or a failure happen. `Settles` is conditional on failures ending.

**Abstract specification.** `ObjectMove` knows only whether the object is here
and there, and the outcome announced. Its steps allow a copy to be made or the
original to be taken by a command decided before the crossing began to undo
itself, which is what late commands do; they forbid taking the original while the
crossing is open without a copy, and announcing an outcome that is not so. The
mapping reads `here` and `there` off the scene and the outcome off the phase.

## 4. NodeRegistry

A World Node connects, is given a *generation* by the world registry, opens a
session, registers its Regions (`registered`, `starting`, `online`) and then
renews its lease and reports presence. Everything it writes carries its
generation; every mark is for one generation.

**State and code.** `world`, `session`, `region`, `presence` are the four stores,
each with its own lock. `conn` is a Core thread per connection: `pc` names its
next call, `frame` is the frame in hand or on its way, `answer` the answer the
World Node has not read yet. `current` and `next` are the World Node's loop;
`sweep` is the maintenance thread's loop over *copies* of the lapsed sessions.
A lease has no clock: `LeaseAges` lets one lapse at any time, and for a World Node
that is renewing it the lapse counts as a fault (a stall longer than the timeout).

**Steps.** One action per call on a store; with the registries on a database
(`Database = TRUE`) one action per statement, because there they take no lock:

| call | on files | on a database |
|---|---|---|
| `register_or_reconnect` | `RegisterInFile` | `SelectGeneration`, then `WriteGeneration`, whose INSERT throws when the row is there by then |
| `touch` | `TouchInFile` | `SelectTouch`, `UpdateTouch`, which names the generation again |
| `register_region` | `RegisterRegionInFile` | `SelectCell`, `SelectOwner`, then `UpdateRegion`, which names the Region only, or `InsertRegion`, which throws when Region or coordinates have a row by then |
| `update_state` | `UpdateStateInFile` | `SelectState`, `UpdateState`, which names the Region only |

The marks (`mark_offline`, `mark_node_offline`) have the generation in the WHERE of
their UPDATE; what is selected before only decides whether to send it. A lease is
`Renew` then a touch; a snapshot is `CheckSnapshot` then `Replace`; the end of a
thread is `EndSession`, `EndWorld`, `EndRegions`, `EndPresence`; the maintenance
loop is the same four in its own order, session last. A World Node that gives up
(`GiveUp`) leaves its thread at the Core with a frame that may still be served,
and the Core notices (`Notice`) late or never. `CoreRestart` empties threads,
sessions and presences; loading a file marks all offline, a database keeps rows.

| property | says |
|---|---|
| `OnlineIsGuarded` | on files whatever is online or present has a thread of that generation that has still to take it down |
| `PresencesGuarded` | its part about presences, which holds on a database too |
| `SessionMeansOnline` | a node whose session is of its latest generation is online, unless the maintenance thread is ending this very session |
| `GenerationsDiffer` | no two connections of a node have the same generation |
| `PresenceFromOwner` | a user is shown in a Region only by the node that owns it |
| `Recovers` | after the last fault every node is up for good, with its session and all its Regions, even if old threads hang for ever |
| `LapsedGoesOffline` | when a lease runs out the Regions go offline and the presences go, also when the thread of the connection waits for ever in its read, unless the lease is renewed just in time or the World Node registers anew before |

**Runs.**

| run | instance | shows |
|---|---|---|
| `nr_contended` | database; 2 nodes that want the same Region, 2 Regions with the same coordinates, 1 user, 2 connections, 1 fault, 1 restart | `PresenceFromOwner`, `PresencesGuarded` |
| `nr_recovers` | files; 1 node, 1 Region, 1 user, 3 connections, 1 fault or restart; `RunningSpec` | `TypeOK`, `OnlineIsGuarded`, `SessionMeansOnline`, `GenerationsDiffer`, `LapsedGoesOffline`, `Recovers` |

One fault is few, but all safety properties of the two runs are proved for any
number (section 11).

**Bounds.** `MaxFaults` bounds give-ups, failures and stalls; `MaxRestarts`
restarts. Two connections let an old generation interfere with a new one, three
let two of them; more generations only repeat what a comparison of two tells
apart, and the theorems hold for any number. `MaxGen` guards `Connect` only. In
`nr_recovers` it is 4, which is enough: a World Node that was stopped by it would
not recover. In `nr_contended`, where two nodes that refuse each other reconnect
for ever, it is 2, and since it stops the World Nodes that run says
`CHECK_DEADLOCK FALSE`. The connections of the Core are alike: a new one is any of
the unused ones, so the model takes one of them (`CHOOSE`).

**Fairness.** `CoreRuns`: each thread serves what it has and the maintenance loop
goes round. Nothing makes a thread notice that its World Node has left, since the
Core's sockets have no receive time-out, and nothing makes a lease lapse:
`LapsedGoesOffline` speaks of leases that have. `WorldRuns`: the World Node
reconnects and its loop goes on; strong fairness of the lease and of each
Region's snapshot says that they are sent again and again although each pass
also sends polls, which the loop's timers justify (`apps/world/main.cpp`). Nothing
makes a fault happen.

**What is not promised.** When a World Node registers anew while the thread of its
old connection still waits, the lease of the old generation is never found
expired: what that generation showed in Regions stays until the thread notices
(section 12). `LapsedGoesOffline` excepts this, and does not say that what went
stays away: a late frame of the connection may bring it back, with its thread as
guard. On a database a Region may be left online under a generation without a
thread, hence `PresencesGuarded` there instead of `OnlineIsGuarded`.

## 5. Budgets, failing writes and restarts

Sections 6 to 10 share these conventions.

**A store is a memory and a file.** `persist_locked` writes the whole store to a
new file that replaces the old one. An operation changes memory first; when the
write throws, memory has changed, the file has not, and the exception decides what
else happens: a request of the HTTP server ends with "internal-error", past all
that was to follow; the maintenance thread catches nothing, so there it ends the
Core, which is a restart before the write. A restart reads the files.

**Who runs at the same time.** The HTTP server answers one request after the other
on one thread (`admin_http_server.inc:109`), so requests overlap neither with each
other nor with their own stores; the maintenance thread, connections of World
Nodes and the threads of a World do. A step is a call on one store. Requests that
are refused change nothing and are left out.

**Budgets.** What users, networks and disks may do without limit is limited by
counts: `MaxChanges`, `MaxFailures`, `MaxCrashes`, or a `budget` that Init chooses
from `Budgets`, one record of counts for each kind of input. A run takes several
budgets, each large where another is small, so that the combinations that matter
are all there without their product. A spent budget stops inputs and faults only,
never a step that ends what has begun; the runs with budgets end, and say
`CHECK_DEADLOCK FALSE`. Each budget was chosen such that the mutants of its
properties are found with it, and every disjunct of Next fires in the run.

Users, names, tokens and identifiers that are only compared with each other are
symmetric.

## 6. EconomyLedger and MarketplacePurchase

`EconomyLedger` is the ledger as a value: `balance`, `escrow` and the journal
`entries`, and for each operation of `EconomyLedger` the condition under which the
code carries it out and the ledger it leaves (`CanTransfer`/`Transfer`, mint, burn,
`Reserve` and `CommitEscrow`). `MaxBalance` stands for `INT64_MAX`: the checks for
room are those of the code, against a smaller maximum.

`MarketplacePurchase` holds this value twice, as memory and as file, and beside it
the listings, the assets and the inventory. `request` is the purchase under way;
its `step` names its next call: `ReservePurchase`, `ReserveEscrow` (or
`RefuseEscrow` and `RollbackPurchase`), `Deliver`, `CreateItem`,
`CompletePurchase`, `Commit`. The compensations that the handler has behind the
escrow are left out because no request reaches them; `NothingToCompensate` is the
property that says why.

| property | says |
|---|---|
| `MoneyConserved` | every balance is what the journal says and only mint and burn change the sum, in memory and in the file |
| `PaidIsDelivered` | in the files, whoever is paid has delivered: copy, item and sold listing are there |
| `GoodsArePaidFor` | the copy for a buyer exists only with the buyer's money in escrow or paid |
| `AnsweredIsDurable` | what was answered with success is in the ledger's file for ever |
| `NothingToCompensate` | a purchase that has its escrow finds its listing reserved for it and room for the payment |

`mp_sale`: 3 users, 1 listing, 2 purchases, 3 references, amounts 1 and 2 of at
most 2, two writes that throw, one restart. Two purchases are enough: requests do
not overlap, so the second meets only what the first has left. What the properties
do not say: money reserved for a purchase that an exception or a crash ended stays
reserved, since nothing finds it again.

## 7. SocialGroups

`friends`, `blocked`, `mail` and `group` are four stores of the Core. A block is
two of them: `SetBlocked`, then `DropFriend`, with `blocking` between the two. Two
groups share nothing but the uniqueness of names, so one is modelled. An invitation
keeps its inviter; `AcceptInvite` looks at the inviter's power again. The time of an
invitation runs out at any moment (`Lapse`), and the maintenance thread finds it
later (`PurgeExpiredInvites`), also in the middle of a request.

| property | says |
|---|---|
| `BlockHolds` | after an answered block no request brings a friendship, message or invitation between the two, restarts included |
| `BlockedAreNoFriends` | and no relation between them is left, in memory or in the file, unless a write has thrown |
| `OneOwner` | the group has exactly one owner from its creation on |
| `JoinersAreBacked` | at the moment of joining, the inviter has the power to invite and the invitation is not over |

`sg_social`: 3 users, 2 invitations, 1 message, 5 changing requests, 1 write that
throws, 1 restart. Three users are an owner, an inviter and an invited; five
requests are found, invite, promote, demote or eject, accept.

## 8. LandStores, AvatarCrossing and RegionEntry

How a user gets into a Region, and builds there. The Core checks bans, estate and
parcel and signs a ticket (`ViewerSession`, `Handoff`); the viewer shows it to the
World, which checks again from the files the Core writes. `worldParcels` and
`worldBans` are the World's own copies of the stores, replaced by whichever
connection reloads last. A join is `Present` (signature and expiry), `Consume` (the
cache of used tickets; bans), `ReloadLand`, `CheckBan`, `CheckLand`, `Spawn`; a
building request is `Ask` (reload), then `Work`, in which the check and the change
are one step. Between any two of these other connections, the Core and time go on.
An avatar or a new object with a height of zero (`ground`, which the ticket of every
handoff has) lands in the middle of the Region, `Landing`, wherever it was asked
for; parcels are asked about the place that was asked for.
`AvatarCrossing` is the reservation store with its repeated calls, its expiry and
its retention of a day (`age`).

| property | says |
|---|---|
| `FilesReachTheScene` | an avatar enters only if at some time since its viewer showed the ticket the file held no ban of the user but such as have lapsed by now, and at some time the parcel where it lands let it in; an object or the land changes only where the parcel allowed it at some time since the request began. Of a height of zero it says so only for the point asked for |
| `LandsWhereChecked` | no avatar appears where the parcel did not let it in, whatever its height: violated (section 12) |
| `TicketLetsInOnce` | a ticket that is not at its end lets one connection in, in one run of the World |
| `AnswersStand` | an end or a token the viewer was told of is what memory and file show until they forget the crossing, unless a write has thrown |

`re_entry`: 2 users, 1 Region with 2 points, 1 parcel, 2 bans, 1 estate, 1 crossing,
2 tickets, 2 connections, 2 objects; six budgets. Two points are inside and outside
the parcel, two connections replace each other's copies, two bans of one user may
overlap. A connection's history `shown` holds, for every list of bans the file has
had since the ticket was shown, those of them that name the user; `open` holds the
points that parcels have let the user in at since then.

`re_centre`: the same instance with the inputs of one handoff and a change of
group; it violates `LandsWhereChecked`.

## 9. Accounts and Federation

`Accounts` has users, sessions and roles with their files; `Federation` adds peers
(`trust`, which pins a key), grants (what a destination may read of a user who has
left), foreign sessions (`visits`) and the nonces of travel tokens (`consumed`, in
memory only). `AcceptTravel` takes several steps, `AcceptTravel`, `Consume`,
`CreateVisit`, `Answer`, between which the maintenance thread purges what is past
its time. `RevokePeer` goes through grants, visits and trust in the order of
`runtime.cpp`, and ends where a write throws.

| property | says |
|---|---|
| `RevocationsHold` | what an answer has revoked - session, role, grant, visit, and with a peer all of its own - stays revoked, in memory and file, also when the peer is trusted again; not for a store whose write has thrown |
| `TravelOpensOneSession` | a travel token opens one session in a run of the Core, and never two that are active |

`fs_grid`: 2 users, 2 logins, 1 peer with 2 keys, 1 grant, 2 travel tokens, 2
visits; five budgets of up to 5 requests, a throw and a restart. Two keys tell the
peer trusted again from the peer trusted anew.

## 10. RegionScene and ScriptWorld

`RegionScene` is one `RegionRuntime`: `region` holds its entities, its events (at
most `MaxEvents`) and the next sequence. A request of a viewer is `Ask` (the checks
of `scene_server.cpp`) and then `Act` (the call), because the mutex is released in
between. `import_linkset` takes the mutex per member: `ImportBegins`, then for each
member `ImportLooks` and `ImportRestores`; when an identifier has been taken in the
meantime it takes back what it restored, a member at a time (`ImportUndoes`). Saving is
`SaveBegins` (the sequence), `SaveTakes` (the entities), `SaveEnds` (the write).
Contacts are given, since physics is not modelled: `BodyMoves` moves a body as it
likes and reports any contact in `Contacts`.

`ScriptWorld` adds the Core's side as one record `core`: scripts and queue, each in
memory and in the file. `serving` holds the messages that threads of the Core have
in hand, of this connection and of earlier ones. A thread takes one, finds the
action and looks whether the sender owns the Region (`CoreChecks`); then it leases
(`CoreLeases`), runs the scripts of an event (`CoreRunsScripts`), or gives the result
to the script (`CoreGives`) and takes the action off the queue or puts it back
(`CoreConfirms`): calls under locks of their own, between which the World may connect
anew, leases run out and other threads go on. A request or one script of the
maintenance thread is one step, and so are all scripts of an event; `fuse` says
after how many writes one throws, and what comes after is not done. On the World's
side `conn` is the connection with the answer in hand, `batch` and `cursor` the
events being sent. An action is polled (`Poll`), looked at and applied (`WorldLooks`,
`WorldApplies`: two calls on the runtime), and its result sent. A connection may
break at any time; the World notices when it uses it, and the Core may still serve
the last message of a broken one. What a handler of a script does is
an input, `Programs`: success or failure, next state, actions asked for. The queue
is a set: actions are appended with identifiers that grow and the first that waits
is taken, so their order is that of the identifiers. The scripts of one object run
one after the other, in any order.

| property | says |
|---|---|
| `AppliedWithinAttempts` | an action is applied at most `MaxAttempts` times, whatever breaks, throws or restarts |
| `DoneIsDone` | once a connection that owns the Region has confirmed its success it is not applied again; a connection that was replaced after `CoreChecks` is excepted (section 12) |
| `AcknowledgedIsKept` | an event or answer the Core has acknowledged is in the script's file and stays there |
| `LinksetsAreFlat` | a child's root exists, is a root of the same owner, link numbers differ - except for a root in `disturbed`; children have no body |
| `SavedIsSaved` | when the saving thread has nothing to do, the file holds the scene |

`disturbed` is a history variable. It holds the root of an import that a viewer
created, deleted, linked or unlinked while the import was under way, and the root of
an import that began when objects that are no members of it were linked to that
root (the import comes a second time, after its first result was lost). An import
does not look at either, and TLC finds `LinksetsAreFlat` violated when one of them
is left out: the root of a linkset is gone, is a child itself (section 12),
belongs to the user who was given its identifier, or has two children of one link
number.

`ws_scripts`: 2 users, 2 viewers, 1 script, 3 objects, 2 actions, 4 programs, 3
linksets to import (with the root there or not, with one or two children), 2
attempts, 2 pending actions, 2 events; eleven budgets, of which seven exercise
scripts and failures and four the scene. Two attempts are "not the last" and "the
last"; two events overflow the buffer with the third. That an event runs a script
once is not promised and does not hold: a write that throws, or an answer that is
lost, makes the World send it again.

## 11. What is proved

All theorems are for every value of the constants that satisfies the assumptions
of the module: any sets of Regions, objects, crossings, nodes, users, connections,
listings, invitations, bans, tickets and tokens, any configuration, any bound or
budget. The assumptions stand with the constants and say that names of different
kinds differ, that what an earlier run left has its type, that bounds are numbers;
some say more: `Users` is finite, without which there is no sum of balances; `Sales`,
`Actions` and the `Ids` of objects are numbers, since they are drawn in order, and
they and `Scripts` are finite; an earlier scene and a linkset to import are as a
World saves and exports them (`ScenesAssumption`, `SnapshotsAssumption`: kempt, flat,
what `import_linkset` checks of a snapshot alone). What else is assumed stands in the
theorem.

| module | theorem | assumes | establishes |
|---|---|---|---|
| `ObjectCrossingProofs` | `TypeCorrect` | | `TypeOK` |
| | `LossInvariant`, `ObjectsNotLost` | disk does not fail | `LossInv`, `NoLoss` |
| | `PhasesNeverBackwards`, `RemovedOnlyAfterImport` | disk does not fail | `NeverBackwards`, `SourceRemovedAfterImport` |
| | `ScriptsAreCarried` | | `CompletedCarriesScript` |
| | `BoundAfterImport` | disk does not fail | `BoundOnlyAfterImport` |
| | `CrossingImplementsMove` | disk does not fail, no user edits, one crossing per object | `MoveImplemented` |
| `NodeRegistryProofs` | `TypeCorrect` | | `TypeOK` |
| | `NothingLeftOnline` | files | `OnlineIsGuarded` |
| | `NobodyLeftShown` | | `PresencesGuarded` |
| | `NoNodeLeftOnline` | no restart of the Core | the part of `OnlineIsGuarded` about World Nodes, on a database too |
| | `SessionIsOnline`, `EachItsGeneration`, `SessionsInOrder` | files | `SessionMeansOnline`, `GenerationsDiffer`, `SessionInv` |
| | `ShownByOwner` | | `PresenceFromOwner` |
| `MarketplaceProofs` | `PurchaseInductive` | | `PurchaseInv`, from which the next six |
| | `PurchaseTypeOK`, `MoneyIsConserved`, `PaidGoodsAreDelivered`, `GoodsAreAlwaysPaidFor`, `AnswersAreDurable`, `CompensationsAreUnreachable` | | `TypeOK`, `MoneyConserved`, `PaidIsDelivered`, `GoodsArePaidFor`, `AnsweredIsDurable`, `NothingToCompensate` |
| `SocialGroupsProofs` | `SocialInductive` | | `SocialInv`, from which the next five |
| | `SocialTypeOK`, `BlockedUsersAreNoFriends`, `GroupHasOneOwner`, `BlocksHold`, `JoinersAlwaysBacked` | | `TypeOK`, `BlockedAreNoFriends`, `OneOwner`, `BlockHolds`, `JoinersAreBacked` |
| `FederationProofs` | `FederationInductive` | | `FederationInv`, from which the next three |
| | `FederationTypeOK`, `RevocationsStand`, `TravelOpensOne` | | `TypeOK`, `RevocationsHold`, `TravelOpensOneSession` |
| `RegionEntryProofs` | `EntryInductive` | | `EntryInv`, from which the next four |
| | `EntryTypeOK`, `CrossingAnswersStand`, `FilesReach`, `TicketsLetInOnce` | | `TypeOK`, `AnswersStand`, `FilesReachTheScene`, `TicketLetsInOnce` |
| `ScriptWorldProofs` | `ScriptWorldInvariant` | | `Inv`, from which the next three |
| | `AppliedIsBounded`, `AcknowledgedForGood`, `DoneForGood` | | `AppliedWithinAttempts`, `AcknowledgedIsKept`, `DoneIsDone` |
| | `WorldInvariant` | | `WorldInv`, from which (and `Inv`) the next three |
| | `SceneFileIsCurrent`, `LinksetsStayFlat`, `ScriptWorldTyped` | | `SavedIsSaved`, `LinksetsAreFlat`, `TypeOK` |

The theorems of the last five modules hold with any number of writes that throw and
of restarts; where a property excepts a store whose write has thrown, it says so.
Each of these modules has the same plan: a definition for each part of the
inductive invariant, lemmas for the helpers of the model (what a store is after
one of its operations), a lemma for each action, and the theorems.

**Why no object is lost.** `NoLoss` is not inductive: a remove command in flight
was due once, and may be applied after its crossing has begun to undo itself.
`LossInv` adds what is known of commands and results in flight. Its centre is
`Covers(c)`: crossing c vouches for an absent source because its copy is known to
have arrived (`imported`, `completed`), or because the restore is still to come
(`cleanup_pending`, and `restore_pending` until the restore was applied). A held
remove implies that its crossing covers. Phases only go forward (`Advances`,
`OnwardFacts`), so what a command or result assumed of its crossing still holds
or is superseded by something later. The remove cannot be applied after the
restore of the same crossing because both are applied by the source Region's
loop, one at a time. A failing write breaks this: see section 13.

**Why scripts go with their object.** `CarriedInv`: a crossing whose removal is
being recorded, or was, has its scripts rebound in the *file*, because
`rebind_objects` throws before the handler goes on; and memory has a script at the
source only if the file has, so no restart and no rebinding of another crossing
takes it back. `BoundInv`: with a reliable disk memory and file of the scripts agree,
and what a handler rebinds belongs to a crossing past its import, which `LossInv`
knows of every remove command and result.

**Why a crossing is a move.** `MoveInv` says of a lone crossing what entities there
are in each phase, and what each command and result in flight may still do. With
it each action is a step of `ObjectMove`, or a stutter, under the mapping of
`ObjectCrossingRefinement`.

**Why nothing stays online unattended.** `OnlineIsGuarded` is inductive once types
are known, on files. A thread leaves the guards of a store by the very step that marks this
store for its generation; whatever comes up is brought up by a thread that is
still before that step; the maintenance thread only takes down. Each store is
shown separately (`WorldStep`, `RegionsStep`, `PresencesStep`): after a step an
entry that is up was brought up by a guard, or is as it was with its guards in
place. On a database an UPDATE may set a Region online that belongs to another
generation by then, and a restart forgets the threads and keeps the rows: there
the argument carries presences over everything (`NobodyLeftShown`), and World Nodes,
whose statements all name the generation, over everything but restarts
(`NoNodeLeftOnline`).

**Why a session means online.** Between `register_or_reconnect` and `open`
(`pc = "open"`) no other thread, session or copy of a session has the new
generation, so nothing marks it (`OpeningInv`); a thread marks the node only after
it has closed its session, and the maintenance thread closes the session of the
copy it has marked by. All rests on generations being different
(`GenerationsInv`), which on a database they are not (section 12).

**Why a presence is its owner's.** `register_region` never gives a Region that
has an owner to another node (`OwnersStay`), so what `CheckSnapshot` saw still
holds at `Replace`. The proof needs no assumption on storage.

**Why a purchase is whole.** `LedgerInv` - types, a finite
journal whose commits are of committed escrows, and `Balanced`, for which the
lemmas about sums are needed - is kept by every operation that its condition allows. The library defines a sum by recursion over a `CHOOSE`n element; induction
being out of reach, each lemma takes a smallest set for which it fails
(`SmallestSet`) and refutes it. `MarketplaceProofs` adds the order of the writes:
`Progress` is what each step of the request may rely on, in memory and in the
files, `FilesAreBehind` and `DeliveredFor` what a restart finds.

**Why blocks and groups hold.** `BlocksKept`: a block that was answered, or whose
handler is between its two stores, is in memory and in the file, so every handler
and every restart sees it. `GroupSound` says, of memory and file, that an owner is
unique in a group that exists and that an invitation is well formed; each change
keeps it, whether or not it is written.

**Why a revocation stands.** An identifier that was revoked was drawn before and is
never drawn again; its record, once dead, stays dead or is forgotten, and memory
and file of a store agree until a write of it throws. For travel tokens: a session
of this run exists only for a token whose nonce is remembered or whose time is over
(`TravelInv`), and a request that has consumed its nonce is the only one that may
open a session for it.

**Why nobody gets in who should not.** `Covered` says of every connection between
the check of its ticket and its entry that the copies of the World, whichever
thread read them last, are among what the files have shown since then; so what
`CheckBan` and `CheckLand` find is in `shown` and `open`, and stays there until
`Spawn`. `admitted`
tickets that have not lapsed are in the cache, whatever connections do at the same
time. `Told` relates what the viewer was told of a crossing to its record.
The first formulation of `FilesReachTheScene`, that the file showed the user free
of bans at some time, could not be proved and is false with two bans (section 12);
with one ban no run could show it.

**Why a confirmed action is not applied again.** The Core works on its stores by a
chain of operations, any of which may throw. Each of them `Goes`: both queues stay
sound, nothing that a script was told is forgotten, and the file is as it was or as
memory is. Lemmas about the recursive functions of the model (`AppliedOneByOne`,
`RunOneByOne`, `FollowedTyped`) carry this over to a whole run of a script or of all
scripts of an object. The attempts of an action, in memory and on file, are no fewer
than the times it was applied plus the time it is in the World's hand (`TriesOf`), so
no restart takes a try back. At most one message of the open connection is on its
way or in `serving`, and then the World has nothing in hand (`ConnInv`,
`OwnersHandIsEmpty`): an action that the owner confirms is in nobody's hand and, once
confirmed, in no queue. Of a connection that was replaced since `CoreChecks` this is
not so, hence the exception of `DoneIsDone`; such a confirmation still leaves queue
and attempts sound. A lease may run out while the World has the action in hand; but
the World polls again only when it has let go of it. `KeptSound`: what was
acknowledged, or is about to be (`Told`: `CoreGives` has given it, `CoreConfirms` is to
come), is in memory *and* on file.

**Why the saved scene is the scene.** Every function of the runtime either appends
an event or leaves the objects alone (`Newer`). `SavingInv` says it for the three
steps of a save: what the saver took is what the region holds, if the sequence it
read before is still the last one; and the same of the file and the sequence it
remembers. Were the sequence read after the objects, a change between the two reads
would be taken for saved; the mutant `SaveEnds_Latest` shows it.

**Why linksets stay flat.** `LinksetsAreFlat` is not inductive: a World loads its
file, the file is what a saver took earlier, and an import relies on what it
restored before. `SceneInv` therefore demands `Flat` and `Kempt` objects of the
runtime, the file and the saver (`Tidy`), identifiers below `next_entity` (so a
created object replaces none), and of the import under way `RootSound`: its root is
the next to be restored or is there, a root of its owner, and nothing is linked
to it but members with the link numbers of the snapshot - or it is disturbed. Every
function of the runtime `Works`: it keeps objects tidy and flat, and every
root sound that it does not touch, so only a request that names the root of the
import can break `RootSound`, and this is what makes it disturbed. That the root is
restored first follows from the order of link numbers (`Listed`). `WorldInv` adds
the types of the World's batch, cursor and answer in hand; `ScriptWorld`'s own steps
change the scene by functions of the runtime only, so they keep it by the same
lemmas.

`LossInv`, `CarriedInv`, `BoundInv`, `MoveInv`, `SessionInv`, `PurchaseInv`,
`SocialInv`, `FederationInv`, `EntryInv`, `Inv` and `WorldInv` are inductive
invariants and no property of a run.

**Only model-checked:** `Settles`, `Recovers`, `LapsedGoesOffline`: liveness under fairness is out of TLAPS's reach. Every invariant and every action
property of the passing runs is proved, from the assumptions in the table.

## 12. Where the code and its documents disagree

With a run:

`re_centre` violates `LandsWhereChecked`. A position of height zero is taken for none:
`region_runtime.cpp:268` puts the avatar in the middle of the Region, after
`scene_server.cpp:307` has asked the parcel at the point of the ticket, and a handoff
always has height zero (`admin_http_server.inc:1369`). `docs/SCENE-PROTOCOL-v0.md:9`:
clients cannot choose an unchecked spawn position; `docs/REGION-HANDOFF-v0.md:33`: an
edge-appropriate target spawn.

`oc_blind` violates `NoCopyLeftBehind`. An import rejected
`object_max_attempts` times is rolled back without a cleanup though an earlier
attempt may have succeeded (`object_crossing_store.cpp:440`), while
`docs/OBJECT-CROSSING-v2.md:87` has such a crossing "not blindly declared rolled
back".

Met while modelling, without a run:

| the code | the document |
|---|---|
| a rollback or expiry between `rebind_objects` and `record_remove` (`apps/core/main.cpp:1006`) ends with scripts bound to the deleted copy | `docs/OBJECT-CROSSING-v2.md:71`: until commit the source remains authoritative |
| a group changed since the export makes the restore collide at every retry (`region_runtime.cpp:1468`) | `docs/OBJECT-CROSSING-v2.md:97`: if the source exists, restoration is idempotent |
| a poll is compared with the generation the *Region* was registered with (`apps/core/main.cpp:879`): an old generation is let through between a World Node's registration and its Region's | `docs/OBJECT-CROSSING-v1.md:163`: the node generation is current |
| `open` replaces the session of a lost connection, whose lease is then never found expired (`node_sessions.cpp:3`): its presences stay while the old thread waits | `docs/PRESENCE-SOCIAL-v1.md:17`: removed when a lease expires or disconnects |
| on a database the generation is read and written in two statements (`world_registry.cpp:75`) | `tests/foundation_tests.cpp:79`: generations 1 and 2 |
| `import_linkset` takes the mutex for each member and `restore_object` does not look at the parent (`region_runtime.cpp:1511`): a viewer who links the imported root to another object before its children have come makes it a child with children. `link_objects` refuses this by itself | `docs/OBJECT-RUNTIME-v1.md:16`: nested linkset roots are intentionally not supported |
| nonces of travel tokens are lost with a restart (`replay_cache.cpp:5`) | `docs/OGL-FED-v2.md:122` |
| what a handler asked for before it failed is applied (`script_runtime.cpp:190`) | `docs/SCRIPT-RUNTIME-v1.md:17` |

Behaviour a reader may not expect, which no document rules out:

- a revocation or removal whose write threw is not written when it is asked for
  again, because memory has nothing left to revoke
  (`federation/service_grant_store.cpp:166`, `core/friends_store.cpp:188`); a
  registration whose write threw leaves a user in memory (`identity_store.cpp:158`);
- an ejected member comes back by an older invitation that is still pending and
  backed (`group_store.cpp:354`); officers, who may not set roles, can eject a
  member and invite it as an officer (`group_store.cpp:178`);
- entity ids are used again after a World restarts on an older scene
  (`region_runtime.cpp:257`): a script may find itself on another object; and an
  action confirmed before the next save is not in the scene after a crash;
- an action whose success was reported is applied once more when the World has
  connected anew, the lease has run out and the action is leased to the new
  connection while a thread of the old one is between its look at the owner and its
  `ack` (`apps/core/main.cpp:823` to `864`);
- on a database a Region is selected and updated in two statements, the second
  without owner or generation (`region_registry.cpp:105`, `:214`): a frame of an old
  connection can set a Region of the new one, or one that was just marked offline,
  to "online", with nobody left to take it down;
- an estate's `public_access` and `max_agents` are looked at when a ticket is
  issued only; any manager of an estate may attach any Region (`estate_store.cpp:22`);
  strips between parcels with integer bounds belong to nobody (`parcel_store.cpp:291`);
- a user may enter who was banned at every moment: the World asks the list it has
  read with the time of now (`moderation_store.cpp:206`), so between two bans that
  overlap, the first lapsed and the second not yet read, it finds none;
- with a database the Core writes bans to it while a World reads the file
  (`moderation_store.cpp:114`);
- `dispatch_chat`, `set_state`, `set_chat` and `set_language` of the script runtime,
  `abort` of the avatar crossings and `expire_stale` of the world registry are
  called by nothing.

## 13. What is not modelled

In the models:

- ObjectCrossing moves an object without its children, and RegionScene's import has
  no transaction around it: links changed between export and remove are in neither;
- loss of an object after a *failing* write of the crossing file: with
  `DiskMayFail` a restart may go back behind a recorded rollback, and `NoLoss` does
  not hold; what holds then is `CompletedCarriesScript`;
- a World that restarts on an older scene, seen from the Core: `NoLoss`,
  `DoneIsDone` are about scenes that survive. `SavedIsSaved` says what a saved
  scene holds;
- SQL backends, but for those of the two registries: the stores of sections
  6 to 10 are modelled on files, a single statement taking the place of a write;
- interleavings inside one step: `Work` of RegionEntry checks the parcel and changes
  the scene, `CoreRunsScripts` runs all scripts of an event, as does a request or a
  due timer with its script;
- metrics frames, the `hello` exchange and its HMAC, the World Node's graceful
  shutdown, writes of the registries that fail;
- the clocks: a lease, ticket, session, invitation or crossing lapses at any time
  after it was made, and everybody sees it lapse at once;
- signatures, passwords and ticket secrets are sound; a token is what it claims.

Components without a module, and why: the script engines (compilers and
interpreters of text, sequential), physics and meshing (floating point), Hypergrid
(adapters of other protocols; its session store is a candidate), appearance and
voice (a keyed store and a token request). Of transport, security, configuration
and storage only what the models above use of them: a connection delivers in order
and breaks with what is on its way, a ticket is its claims, a file is replaced as a
whole. `PROJECT.json` says for each component what is left out.

## 14. Plan

Next, in this order:

1. `RegionScene` under `ObjectCrossing`: linksets whose links change during a
   crossing, and World Nodes that restart on an older scene;
2. group channels and notifications, folders and permissions of the inventory, the
   Hypergrid sessions, the SQL transactions of the stores.

## 15. Running the checks

    tlasany NodeRegistry.tla
    tlc -workers 2 -config nr_contended.cfg MCNodeRegistry.tla
    tlapm NodeRegistryProofs.tla

Modules and configurations go together by prefix: `oc_` `MCObjectCrossing`, `nr_`
`MCNodeRegistry`, `mp_` `MCMarketplacePurchase`, `sg_` `MCSocialGroups`, `re_`
`MCRegionEntry`, `fs_` `MCFederation`, `ws_` `MCScriptWorld`. Each run takes from
some seconds to three minutes, each proof module less than three but for
`ScriptWorldProofs`, which takes about eight. `oc_blind` and `re_centre` are
expected to end with a counterexample.
