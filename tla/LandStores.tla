----------------------------- MODULE LandStores -----------------------------
(***************************************************************************)
(* Who may enter a Region and who may build in it: the parcels with their  *)
(* policies and access lists (src/src/core/parcel_store.cpp), the bans     *)
(* (moderation_store.cpp) and the estates (estate_store.cpp), with the     *)
(* requests of the Core that change them.                                  *)
(*                                                                         *)
(* Each store has a memory and a file.  An operation changes memory and    *)
(* writes the whole store to a new file that replaces the old one; when    *)
(* the write throws, memory has changed, the file has not, and the request *)
(* ends with "internal-error".  Requests are served one after the other.   *)
(* The stores are values here, so that a second process that reads the     *)
(* same file - the World - is another copy of the same value.              *)
(*                                                                         *)
(* A Region is a set of points.  Two groups share nothing, so one is       *)
(* modelled; its members are an input (module SocialGroups has the store). *)
(* Names, times, landing points and the estate flags no check reads (fly,  *)
(* scripts, voice, maturity) are left out.                                 *)
(***************************************************************************)
EXTENDS Integers, FiniteSets

CONSTANTS
    Users, Regions, Points,
    Areas,          \* sets of points that a parcel may cover: its rectangle
    Parcels,        \* identifiers of parcels
    Bans,           \* identifiers of bans
    Estates,        \* identifiers of estates
    Policies,       \* the parcel policies that owners set
    Limits,         \* the values of max_agents that estates set
    EarlierFiles,   \* what the files of an earlier run may hold: land and estates
    Budgets         \* bounds: how often the things named in Bounded may happen in a behaviour

Nobody == "nobody"
Everywhere == "everywhere"
Nowhere == "nowhere"
(* Requests that change the land stores and the crossings, tickets signed, *)
(* requests that change the scene, writes that throw, restarts.  The       *)
(* behaviours of each budget are explored; none is taken from two.         *)
Bounded == {"land", "crossing", "ticket", "scene", "throw", "restart"}
ASSUME BudgetsAssumption == Budgets \subseteq [Bounded -> Nat]
ASSUME NamesAssumption == Nobody \notin Users /\ {Everywhere, Nowhere} \cap Regions = {}

VARIABLES
    parcels, parcelsFile,     \* ParcelStore
    bans, bansFile,           \* ModerationStore
    estates, estatesFile,     \* EstateStore
    lapsedBans,               \* bans whose time is over
    members,                  \* members of the group
    thrown,                   \* history: has a write thrown
    budget

landFiles == <<parcelsFile, bansFile, estatesFile>>
landStores == <<parcels, bans, estates>>
landVars == <<landStores, landFiles, lapsedBans, members>>
counted == <<thrown, budget>>

Policy == [group: BOOLEAN, public_entry: BOOLEAN, public_build: BOOLEAN,
           group_build: BOOLEAN, group_terraform: BOOLEAN]
DefaultPolicy == [group |-> FALSE, public_entry |-> TRUE, public_build |-> FALSE,
                  group_build |-> TRUE, group_terraform |-> FALSE]
ASSUME PoliciesAssumption == Policies \subseteq Policy

ParcelInfo == [owner: Users \cup {Nobody}, region: Regions \cup {Nowhere}, area: SUBSET Points,
               policy: Policy, access: [Users -> {"unset", "allow", "deny"}]]
NoParcel == [owner |-> Nobody, region |-> Nowhere, area |-> {}, policy |-> DefaultPolicy,
             access |-> [u \in Users |-> "unset"]]
Land == [Parcels -> ParcelInfo]
NoLand == [p \in Parcels |-> NoParcel]

BanRecord == [user: Users \cup {Nobody}, scope: Regions \cup {Everywhere}]
NoBan == [user |-> Nobody, scope |-> Everywhere]
BanList == [Bans -> BanRecord]

EstateInfo == [owner: Users \cup {Nobody}, managers: SUBSET Users]
NoEstate == [owner |-> Nobody, managers |-> {}]
RegionEstatePolicy == [estate: Estates \cup {Nobody}, public_access: BOOLEAN, max_agents: Limits]
NoPolicy == [estate |-> Nobody, public_access |-> TRUE, max_agents |-> CHOOSE n \in Limits : TRUE]
EstateBook == [estate: [Estates -> EstateInfo], policy: [Regions -> RegionEstatePolicy]]
ASSUME LandAssumption ==
    /\ EarlierFiles \subseteq [land: Land, estates: EstateBook]
    /\ Areas \subseteq SUBSET Points

LandTypeOK ==
    /\ {parcels, parcelsFile} \subseteq Land
    /\ {bans, bansFile} \subseteq BanList
    /\ {estates, estatesFile} \subseteq EstateBook
    /\ lapsedBans \subseteq Bans /\ members \subseteq Users
    /\ thrown \in BOOLEAN /\ budget \in [Bounded -> Nat]

(* The Core starts on the files of an earlier run.                         *)
LandInit ==
    /\ \E earlier \in EarlierFiles : parcelsFile = earlier.land /\ estatesFile = earlier.estates
    /\ parcels = parcelsFile /\ estates = estatesFile
    /\ bansFile = [b \in Bans |-> NoBan] /\ bans = bansFile
    /\ lapsedBans = {} /\ members = Users
    /\ thrown = FALSE /\ budget \in Budgets

----------------------------------------------------------------------------
(* What a copy of the stores answers.                                      *)
Overlap(land, region, area) == \E p \in Parcels : land[p].region = region /\ land[p].area \cap area # {}

At(land, region, point) == {p \in Parcels : land[p].region = region /\ point \in land[p].area}

MemberOf(parcel, inGroup) == parcel.policy.group /\ inGroup

(* The owner, then the access list, then the policy.  Land that belongs to *)
(* no parcel is open.                                                      *)
CanEnter(land, region, point, u, inGroup) ==
    \A p \in At(land, region, point) :
        \/ land[p].owner = u
        \/ IF land[p].access[u] # "unset" THEN land[p].access[u] = "allow"
           ELSE land[p].policy.public_entry \/ MemberOf(land[p], inGroup)

(* The access list says nothing about building.                            *)
CanBuild(land, region, point, u, inGroup) ==
    \A p \in At(land, region, point) :
        \/ land[p].policy.public_build
        \/ land[p].owner = u
        \/ land[p].policy.group_build /\ MemberOf(land[p], inGroup)

CanTerraform(land, region, point, u, inGroup) ==
    \A p \in At(land, region, point) :
        \/ land[p].owner = u
        \/ land[p].policy.group_terraform /\ MemberOf(land[p], inGroup)

IsBanned(list, lapsed, u, region) ==
    \E b \in Bans \ lapsed : list[b].user = u /\ list[b].scope \in {Everywhere, region}

CanManage(book, e, u) == u = book.estate[e].owner \/ u \in book.estate[e].managers

----------------------------------------------------------------------------
(* persist_locked and load of the stores.                                  *)
WriteParcels == parcelsFile' = parcels'
WriteBans    == bansFile' = bans'
WriteEstates == estatesFile' = estates'

ReadParcels == parcels' = parcelsFile
ReadBans    == bans' = bansFile
ReadEstates == estates' = estatesFile

Spends(kinds) ==
    /\ \A k \in kinds : budget[k] > 0
    /\ budget' = [k \in Bounded |-> IF k \in kinds THEN budget[k] - 1 ELSE budget[k]]

Succeeds(kind) == Spends({kind}) /\ UNCHANGED thrown
Throws(kind) == Spends({kind, "throw"}) /\ thrown' = TRUE

ParcelRequest ==
    /\ \/ Succeeds("land") /\ WriteParcels
       \/ Throws("land") /\ UNCHANGED parcelsFile
    /\ UNCHANGED <<bans, bansFile, estates, estatesFile, lapsedBans, members>>

BanRequest ==
    /\ \/ Succeeds("land") /\ WriteBans
       \/ Throws("land") /\ UNCHANGED bansFile
    /\ UNCHANGED <<parcels, parcelsFile, estates, estatesFile, lapsedBans, members>>

EstateRequest ==
    /\ \/ Succeeds("land") /\ WriteEstates
       \/ Throws("land") /\ UNCHANGED estatesFile
    /\ UNCHANGED <<parcels, parcelsFile, bans, bansFile, lapsedBans, members>>

----------------------------------------------------------------------------
(* Parcels.                                                                *)
CreateParcel(u, r, p, area) ==
    /\ area # {}
    /\ ~Overlap(parcels, r, area)
    /\ parcels[p] = NoParcel
    /\ parcels' = [parcels EXCEPT ![p] = [NoParcel EXCEPT !.owner = u, !.region = r, !.area = area]]
    /\ ParcelRequest

(* Only a member may name the group (POST /v1/parcels/policy).             *)
UpdatePolicy(u, p, policy) ==
    /\ parcels[p].owner = u
    /\ policy.group => u \in members
    /\ parcels' = [parcels EXCEPT ![p].policy = policy]
    /\ ParcelRequest

SetAccess(u, p, v, entry) ==
    /\ parcels[p].owner = u
    /\ u # v
    /\ parcels' = [parcels EXCEPT ![p].access[v] = entry]
    /\ ParcelRequest

RemoveAccess(u, p, v) ==
    /\ parcels[p].owner = u
    /\ parcels[p].access[v] # "unset"
    /\ parcels' = [parcels EXCEPT ![p].access[v] = "unset"]
    /\ ParcelRequest

----------------------------------------------------------------------------
(* Bans.                                                                   *)
Ban(u, scope, b) ==
    /\ bans[b] = NoBan /\ b \notin lapsedBans
    /\ bans' = [bans EXCEPT ![b] = [user |-> u, scope |-> scope]]
    /\ BanRequest

Unban(b) ==
    /\ bans[b] # NoBan
    /\ bans' = [bans EXCEPT ![b] = NoBan]
    /\ BanRequest

LapseBan(b) ==
    /\ bans[b] # NoBan /\ b \notin lapsedBans
    /\ lapsedBans' = lapsedBans \cup {b}
    /\ UNCHANGED <<landStores, landFiles, members, counted>>

----------------------------------------------------------------------------
(* Estates.  A manager of any estate may attach any Region to it, also one *)
(* that another estate has: attach_region looks at neither the Region's    *)
(* owner nor its estate.                                                   *)
CreateEstate(u, e) ==
    /\ estates.estate[e] = NoEstate
    /\ estates' = [estates EXCEPT !.estate[e].owner = u]
    /\ EstateRequest

AddManager(u, e, v) ==
    /\ estates.estate[e].owner = u
    /\ estates' = [estates EXCEPT !.estate[e].managers = @ \cup {v}]
    /\ EstateRequest

RemoveManager(u, e, v) ==
    /\ estates.estate[e].owner = u
    /\ estates' = [estates EXCEPT !.estate[e].managers = @ \ {v}]
    /\ EstateRequest

AttachRegion(u, e, r) ==
    /\ CanManage(estates, e, u)
    /\ estates' = [estates EXCEPT !.policy[r].estate = e]
    /\ EstateRequest

UpdateRegionPolicy(u, e, r, public, limit) ==
    /\ CanManage(estates, e, u)
    /\ estates.policy[r].estate = e
    /\ estates' = [estates EXCEPT !.policy[r] = [estate |-> e, public_access |-> public, max_agents |-> limit]]
    /\ EstateRequest

(* Membership of the group changes.                                        *)
Regroup(u) ==
    /\ Succeeds("land")
    /\ members' = IF u \in members THEN members \ {u} ELSE members \cup {u}
    /\ UNCHANGED <<landStores, landFiles, lapsedBans>>

LandChange ==
    \/ \E u \in Users, p \in Parcels :
          \/ \E r \in Regions, area \in Areas : CreateParcel(u, r, p, area)
          \/ \E policy \in Policies : UpdatePolicy(u, p, policy)
          \/ \E v \in Users, entry \in {"allow", "deny"} : SetAccess(u, p, v, entry)
          \/ \E v \in Users : RemoveAccess(u, p, v)
    \/ \E u \in Users, scope \in Regions \cup {Everywhere}, b \in Bans : Ban(u, scope, b)
    \/ \E b \in Bans : Unban(b) \/ LapseBan(b)
    \/ \E u \in Users, e \in Estates :
          \/ CreateEstate(u, e)
          \/ \E v \in Users : AddManager(u, e, v) \/ RemoveManager(u, e, v)
          \/ \E r \in Regions : \/ AttachRegion(u, e, r)
                                \/ \E public \in BOOLEAN, limit \in Limits : UpdateRegionPolicy(u, e, r, public, limit)
    \/ \E u \in Users : Regroup(u)

LandRestart == ReadParcels /\ ReadBans /\ ReadEstates /\ UNCHANGED <<landFiles, lapsedBans, members>>
=============================================================================
