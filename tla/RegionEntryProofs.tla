------------------------- MODULE RegionEntryProofs -------------------------
(***************************************************************************)
(* The invariants of RegionEntry and what its steps promise hold for every *)
(* set of users, Regions, parcels, bans, tickets, connections and          *)
(* crossings and for every number of changes, failed writes and restarts.  *)
(***************************************************************************)
EXTENDS RegionEntry, TLAPS

----------------------------------------------------------------------------
(* The land stores keep their types.                                       *)
LEMMA BudgetTyped ==
  ASSUME budget \in [Bounded -> Nat], NEW kinds, kinds \subseteq Bounded, Spends(kinds)
  PROVE budget' \in [Bounded -> Nat]
<1>1. \A k \in Bounded : (IF k \in kinds THEN budget[k] - 1 ELSE budget[k]) \in Nat
  BY DEF Spends
<1>2. QED BY <1>1 DEF Spends

LEMMA KindsBounded ==
  /\ {"land"} \subseteq Bounded /\ {"crossing"} \subseteq Bounded /\ {"ticket"} \subseteq Bounded
  /\ {"scene"} \subseteq Bounded /\ {"restart"} \subseteq Bounded /\ {"crossing", "ticket"} \subseteq Bounded
  /\ {"land", "throw"} \subseteq Bounded /\ {"crossing", "throw"} \subseteq Bounded
BY DEF Bounded

(* A request that succeeds, or whose write throws, is counted.             *)
LEMMA Counted ==
  ASSUME LandTypeOK, NEW kind \in {"land", "crossing", "ticket", "scene", "restart"}
  PROVE /\ Succeeds(kind) => budget' \in [Bounded -> Nat] /\ thrown' \in BOOLEAN
        /\ kind \in {"land", "crossing"} /\ Throws(kind) => budget' \in [Bounded -> Nat] /\ thrown' \in BOOLEAN
<1>1. budget \in [Bounded -> Nat] /\ thrown \in BOOLEAN
  BY DEF LandTypeOK
<1>2. {kind} \subseteq Bounded /\ (kind \in {"land", "crossing"} => {kind, "throw"} \subseteq Bounded)
  BY DEF Bounded
<1>3. Succeeds(kind) => budget' \in [Bounded -> Nat]
  BY <1>1, <1>2, BudgetTyped DEF Succeeds
<1>4. kind \in {"land", "crossing"} /\ Throws(kind) => budget' \in [Bounded -> Nat]
  BY <1>1, <1>2, BudgetTyped DEF Throws
<1>5. QED BY <1>1, <1>3, <1>4 DEF Succeeds, Throws

LEMMA ParcelRequestTyped ==
  ASSUME LandTypeOK, parcels' \in Land, ParcelRequest
  PROVE LandTypeOK'
<1>1. budget' \in [Bounded -> Nat] /\ thrown' \in BOOLEAN
  BY Counted DEF ParcelRequest
<1>2. parcelsFile' \in Land
  BY DEF LandTypeOK, ParcelRequest, WriteParcels
<1>3. QED BY <1>1, <1>2 DEF LandTypeOK, ParcelRequest

LEMMA BanRequestTyped ==
  ASSUME LandTypeOK, bans' \in BanList, BanRequest
  PROVE LandTypeOK'
<1>1. budget' \in [Bounded -> Nat] /\ thrown' \in BOOLEAN
  BY Counted DEF BanRequest
<1>2. bansFile' \in BanList
  BY DEF LandTypeOK, BanRequest, WriteBans
<1>3. QED BY <1>1, <1>2 DEF LandTypeOK, BanRequest

LEMMA EstateRequestTyped ==
  ASSUME LandTypeOK, estates' \in EstateBook, EstateRequest
  PROVE LandTypeOK'
<1>1. budget' \in [Bounded -> Nat] /\ thrown' \in BOOLEAN
  BY Counted DEF EstateRequest
<1>2. estatesFile' \in EstateBook
  BY DEF LandTypeOK, EstateRequest, WriteEstates
<1>3. QED BY <1>1, <1>2 DEF LandTypeOK, EstateRequest

LEMMA LandChangeTyped ==
  ASSUME LandTypeOK, LandChange
  PROVE LandTypeOK'
<1>0. /\ parcels \in Land /\ bans \in BanList /\ estates \in EstateBook
      /\ estates.estate \in [Estates -> EstateInfo] /\ estates.policy \in [Regions -> RegionEstatePolicy]
  BY DEF LandTypeOK, EstateBook
<1>1. ASSUME NEW u \in Users, NEW p \in Parcels, NEW r \in Regions, NEW area \in Areas, CreateParcel(u, r, p, area)
      PROVE LandTypeOK'
  <2>1. [NoParcel EXCEPT !.owner = u, !.region = r, !.area = area] \in ParcelInfo
    BY LandAssumption DEF NoParcel, ParcelInfo, DefaultPolicy, Policy
  <2>2. parcels' \in Land
    BY <1>0, <1>1, <2>1 DEF CreateParcel, Land
  <2>3. QED BY <1>1, <2>2, ParcelRequestTyped DEF CreateParcel
<1>2. ASSUME NEW u \in Users, NEW p \in Parcels, NEW policy \in Policies, UpdatePolicy(u, p, policy)
      PROVE LandTypeOK'
  <2>1. [parcels[p] EXCEPT !.policy = policy] \in ParcelInfo
    BY <1>0, PoliciesAssumption DEF Land, ParcelInfo
  <2>2. parcels' \in Land
    BY <1>0, <1>2, <2>1 DEF UpdatePolicy, Land
  <2>3. QED BY <1>2, <2>2, ParcelRequestTyped DEF UpdatePolicy
<1>3. ASSUME NEW p \in Parcels, NEW v \in Users, NEW entry \in {"unset", "allow", "deny"},
             parcels' = [parcels EXCEPT ![p].access[v] = entry], ParcelRequest
      PROVE LandTypeOK'
  <2>1. [parcels[p] EXCEPT !.access = [parcels[p].access EXCEPT ![v] = entry]] \in ParcelInfo
    BY <1>0 DEF Land, ParcelInfo
  <2>2. parcels' \in Land
    BY <1>0, <1>3, <2>1 DEF Land
  <2>3. QED BY <1>3, <2>2, ParcelRequestTyped
<1>4. ASSUME NEW u \in Users, NEW scope \in Regions \cup {Everywhere}, NEW b \in Bans, Ban(u, scope, b)
      PROVE LandTypeOK'
  <2>1. bans' \in BanList
    BY <1>0, <1>4 DEF Ban, BanList, BanRecord
  <2>2. QED BY <1>4, <2>1, BanRequestTyped DEF Ban
<1>5. ASSUME NEW b \in Bans, Unban(b)
      PROVE LandTypeOK'
  <2>1. bans' \in BanList
    BY <1>0, <1>5 DEF Unban, BanList, BanRecord, NoBan
  <2>2. QED BY <1>5, <2>1, BanRequestTyped DEF Unban
<1>6. ASSUME NEW b \in Bans, LapseBan(b)
      PROVE LandTypeOK'
  BY <1>6 DEF LandTypeOK, LapseBan, landStores, landFiles, counted
<1>7. ASSUME NEW e \in Estates, NEW info \in EstateInfo,
             estates' = [estates EXCEPT !.estate = [estates.estate EXCEPT ![e] = info]], EstateRequest
      PROVE LandTypeOK'
  <2>1. estates' \in EstateBook
    BY <1>0, <1>7 DEF EstateBook
  <2>2. QED BY <1>7, <2>1, EstateRequestTyped
<1>8. ASSUME NEW r \in Regions, NEW policy \in RegionEstatePolicy,
             estates' = [estates EXCEPT !.policy = [estates.policy EXCEPT ![r] = policy]], EstateRequest
      PROVE LandTypeOK'
  <2>1. estates' \in EstateBook
    BY <1>0, <1>8 DEF EstateBook
  <2>2. QED BY <1>8, <2>1, EstateRequestTyped
<1>9. ASSUME NEW u \in Users, NEW e \in Estates, CreateEstate(u, e)
      PROVE LandTypeOK'
  <2>1. [estates.estate[e] EXCEPT !.owner = u] \in EstateInfo
    BY <1>0 DEF EstateInfo
  <2>2. QED BY <1>7, <1>9, <2>1 DEF CreateEstate
<1>10. ASSUME NEW u \in Users, NEW e \in Estates, NEW v \in Users, AddManager(u, e, v) \/ RemoveManager(u, e, v)
       PROVE LandTypeOK'
  <2>1. /\ [estates.estate[e] EXCEPT !.managers = estates.estate[e].managers \cup {v}] \in EstateInfo
        /\ [estates.estate[e] EXCEPT !.managers = estates.estate[e].managers \ {v}] \in EstateInfo
    BY <1>0 DEF EstateInfo
  <2>2. QED BY <1>7, <1>10, <2>1 DEF AddManager, RemoveManager
<1>11. ASSUME NEW u \in Users, NEW e \in Estates, NEW r \in Regions, AttachRegion(u, e, r)
       PROVE LandTypeOK'
  <2>1. [estates.policy[r] EXCEPT !.estate = e] \in RegionEstatePolicy
    BY <1>0 DEF RegionEstatePolicy
  <2>2. QED BY <1>8, <1>11, <2>1 DEF AttachRegion
<1>12. ASSUME NEW u \in Users, NEW e \in Estates, NEW r \in Regions, NEW public \in BOOLEAN, NEW limit \in Limits,
              UpdateRegionPolicy(u, e, r, public, limit)
       PROVE LandTypeOK'
  <2>1. [estate |-> e, public_access |-> public, max_agents |-> limit] \in RegionEstatePolicy
    BY DEF RegionEstatePolicy
  <2>2. QED BY <1>8, <1>12, <2>1 DEF UpdateRegionPolicy
<1>13. ASSUME NEW u \in Users, Regroup(u)
       PROVE LandTypeOK'
  <2>1. budget' \in [Bounded -> Nat] /\ thrown' \in BOOLEAN
    BY <1>13, Counted DEF Regroup
  <2>2. members' \subseteq Users
    BY <1>13 DEF Regroup, LandTypeOK
  <2>3. QED BY <1>13, <2>1, <2>2 DEF LandTypeOK, Regroup, landStores, landFiles
<1>14. ASSUME NEW u \in Users, NEW p \in Parcels, NEW v \in Users,
              (\E entry \in {"allow", "deny"} : SetAccess(u, p, v, entry)) \/ RemoveAccess(u, p, v)
       PROVE LandTypeOK'
  <2>1. CASE \E entry \in {"allow", "deny"} : SetAccess(u, p, v, entry)
    BY <1>3, <2>1 DEF SetAccess
  <2>2. CASE RemoveAccess(u, p, v)
    BY <1>3, <2>2 DEF RemoveAccess
  <2>3. QED BY <1>14, <2>1, <2>2
<1>15. QED
  BY <1>1, <1>2, <1>4, <1>5, <1>6, <1>9, <1>10, <1>11, <1>12, <1>13, <1>14 DEF LandChange

LEMMA LandKeepsTypes ==
  ASSUME LandTypeOK, UNCHANGED landVars, budget' \in [Bounded -> Nat], thrown' \in BOOLEAN
  PROVE LandTypeOK'
BY DEF LandTypeOK, landVars, landStores, landFiles

----------------------------------------------------------------------------
(* The crossings keep their types, and while no write has thrown:          *)
(* what the viewer was told of a crossing is what memory and file show.    *)
Told(k) ==
    /\ k \notin spent => crossings[k].state = "none" /\ held[k] = {}
    /\ crossings[k].state = "prepared" => held[k] = {}
    /\ crossings[k].state = "reserved" => held[k] = {crossings[k].token}
    /\ crossings[k].state \in Open \/ k \notin spent => \A s \in Ended : <<k, s>> \notin answered
    /\ \A s \in Ended : <<k, s>> \in answered =>
           crossings[k].state = s \/ (crossings[k].state = "none" /\ age[k] = "aged")

AnswersInv ==
    ~thrown => crossingsFile = crossings /\ \A k \in Crossings : Told(k)

CrossingsInv == CrossingTypeOK /\ AnswersInv

LEMMA CrossingTyped ==
  ASSUME CrossingTypeOK
  PROVE /\ crossings \in [Crossings -> RegionCrossing] /\ crossingsFile \in [Crossings -> RegionCrossing]
        /\ spent \subseteq Crossings /\ age \in [Crossings -> {"young", "lapsed", "aged"}]
        /\ drawn \in [Crossings -> Nat] /\ held \in [Crossings -> SUBSET Nat]
        /\ answered \subseteq Crossings \X Ended
BY DEF CrossingTypeOK

LEMMA RolledBackTyped ==
  ASSUME NEW c \in RegionCrossing
  PROVE RolledBack(c) \in RegionCrossing /\ (c.state \notin Open => RolledBack(c) = c)
        /\ (c.state \in Open => RolledBack(c).state = "rolled_back")
BY DEF RolledBack, RegionCrossing, CrossingState, Open

(* One crossing is changed by a request, and what it tells fits what the   *)
(* crossing becomes.                                                       *)
Tells(k) ==
    /\ held' \in [Crossings -> SUBSET Nat] /\ answered' \subseteq Crossings \X Ended
    /\ \A j \in Crossings : j # k => held'[j] = held[j]
    /\ \A j \in Crossings, s \in Ended : j # k => (<<j, s>> \in answered' <=> <<j, s>> \in answered)
    /\ ~thrown => Told(k)'

LEMMA RequestKept ==
  ASSUME CrossingsInv, NEW k \in Crossings, NEW new \in RegionCrossing,
         crossings' = [crossings EXCEPT ![k] = new],
         drawn' \in [Crossings -> Nat], UNCHANGED <<spent, age>>,
         \/ Succeeds("crossing") /\ WriteCrossings /\ Tells(k)
         \/ Throws("crossing") /\ UNCHANGED <<crossingsFile, held, answered>>
  PROVE CrossingsInv'
<1>0. /\ crossings \in [Crossings -> RegionCrossing] /\ crossingsFile \in [Crossings -> RegionCrossing]
      /\ spent \subseteq Crossings /\ age \in [Crossings -> {"young", "lapsed", "aged"}]
      /\ held \in [Crossings -> SUBSET Nat] /\ answered \subseteq Crossings \X Ended
  BY CrossingTyped DEF CrossingsInv
<1>1. crossings' \in [Crossings -> RegionCrossing]
  BY <1>0
<1>2. CASE Succeeds("crossing") /\ WriteCrossings /\ Tells(k)
  <2>1. thrown' = thrown /\ crossingsFile' = crossings'
    BY <1>2 DEF Succeeds, WriteCrossings
  <2>2. CrossingTypeOK'
    BY <1>0, <1>1, <1>2, <2>1 DEF CrossingTypeOK, Tells
  <2>3. ASSUME ~thrown, NEW j \in Crossings, j # k
        PROVE Told(j)'
    <3>1. Told(j)
      BY <2>3 DEF CrossingsInv, AnswersInv
    <3>2. /\ crossings'[j] = crossings[j] /\ held'[j] = held[j]
          /\ \A s \in Ended : <<j, s>> \in answered' <=> <<j, s>> \in answered
      BY <1>0, <1>2, <2>3 DEF Tells
    <3>3. QED BY <3>1, <3>2 DEF Told
  <2>4. AnswersInv'
    BY <1>2, <2>1, <2>3 DEF AnswersInv, Tells
  <2>5. QED BY <2>2, <2>4 DEF CrossingsInv
<1>3. CASE Throws("crossing") /\ UNCHANGED <<crossingsFile, held, answered>>
  <2>1. CrossingTypeOK'
    BY <1>0, <1>1, <1>3 DEF CrossingTypeOK
  <2>2. QED BY <1>3, <2>1 DEF CrossingsInv, AnswersInv, Throws
<1>4. QED BY <1>2, <1>3

(* A crossing that is bound to a user has been drawn.                      *)
LEMMA ToldOf ==
  ASSUME CrossingsInv, ~thrown, NEW k \in Crossings
  PROVE Told(k) /\ crossingsFile = crossings
BY DEF CrossingsInv, AnswersInv

(* Rolled back in memory: what fits an open crossing with no answer fits   *)
(* its rollback, answered or not.                                          *)
LEMMA RollingBack ==
  ASSUME CrossingsInv, NEW k \in Crossings,
         crossings' = [crossings EXCEPT ![k] = RolledBack(@)],
         UNCHANGED <<drawn, spent, age>>,
         \/ /\ Succeeds("crossing") /\ WriteCrossings /\ UNCHANGED held
            /\ \/ UNCHANGED answered
               \/ crossings[k].state \in Open /\ answered' = answered \cup {<<k, "rolled_back">>}
         \/ Throws("crossing") /\ UNCHANGED <<crossingsFile, held, answered>>
  PROVE CrossingsInv'
<1>0. /\ crossings \in [Crossings -> RegionCrossing] /\ held \in [Crossings -> SUBSET Nat]
      /\ drawn \in [Crossings -> Nat] /\ answered \subseteq Crossings \X Ended
  BY CrossingTyped DEF CrossingsInv
<1>1. RolledBack(crossings[k]) \in RegionCrossing
  BY <1>0, RolledBackTyped
<1>2. crossings'[k] = RolledBack(crossings[k])
  BY <1>0
<1>3. /\ crossings[k].state \notin Open => crossings'[k] = crossings[k]
      /\ crossings[k].state \in Open => crossings'[k].state = "rolled_back"
  BY <1>0, <1>2, RolledBackTyped
<1>4. ASSUME ~thrown, UNCHANGED held,
             \/ UNCHANGED answered
             \/ crossings[k].state \in Open /\ answered' = answered \cup {<<k, "rolled_back">>}
      PROVE Told(k)'
  <2>1. Told(k)
    BY <1>4, ToldOf
  <2>2. CASE crossings[k].state \notin Open
    BY <1>3, <1>4, <2>1, <2>2 DEF Told
  <2>3. CASE crossings[k].state \in Open
    <3>1. k \in spent /\ \A s \in Ended : <<k, s>> \notin answered
      BY <2>1, <2>3 DEF Told, Open
    <3>2. \A s \in Ended : <<k, s>> \in answered' => s = "rolled_back"
      BY <1>4, <3>1
    <3>3. QED BY <1>3, <2>3, <3>1, <3>2 DEF Told, Open
  <2>4. QED BY <2>2, <2>3
<1>5. ASSUME UNCHANGED held,
             \/ UNCHANGED answered
             \/ crossings[k].state \in Open /\ answered' = answered \cup {<<k, "rolled_back">>}
      PROVE Tells(k)
  <2>1. answered' \subseteq Crossings \X Ended
    BY <1>0, <1>5 DEF Ended
  <2>2. \A j \in Crossings, s \in Ended : j # k => (<<j, s>> \in answered' <=> <<j, s>> \in answered)
    BY <1>5
  <2>3. QED BY <1>0, <1>4, <1>5, <2>1, <2>2 DEF Tells
<1>6. QED BY <1>0, <1>1, <1>5, RequestKept

LEMMA ReserveKept ==
  ASSUME CrossingsInv, NEW u \in Users, NEW to \in Regions, NEW k \in Crossings, Reserve(u, to, k)
  PROVE CrossingsInv'
<1>0. /\ crossings \in [Crossings -> RegionCrossing] /\ held \in [Crossings -> SUBSET Nat]
      /\ drawn \in [Crossings -> Nat] /\ answered \subseteq Crossings \X Ended
  BY CrossingTyped DEF CrossingsInv
<1>1. drawn' \in [Crossings -> Nat] /\ drawn'[k] \in Nat
  BY <1>0 DEF Reserve
<1>2. [crossings[k] EXCEPT !.state = "reserved", !.token = drawn'[k]] \in RegionCrossing
  BY <1>0, <1>1 DEF RegionCrossing, CrossingState
<1>3. /\ crossings' = [crossings EXCEPT ![k] = [crossings[k] EXCEPT !.state = "reserved", !.token = drawn'[k]]]
      /\ crossings'[k].state = "reserved" /\ crossings'[k].token = drawn'[k]
  BY <1>0, <1>2 DEF Reserve, RegionCrossing
<1>4. ASSUME held' = [held EXCEPT ![k] = @ \cup {drawn'[k]}], UNCHANGED answered, UNCHANGED <<spent, age>>
      PROVE Tells(k)
  <2>1. held' \in [Crossings -> SUBSET Nat] /\ \A j \in Crossings : j # k => held'[j] = held[j]
    BY <1>0, <1>1, <1>4
  <2>2. held'[k] = held[k] \cup {drawn'[k]}
    BY <1>0, <1>4
  <2>3. ASSUME ~thrown
        PROVE Told(k)'
    <3>1. Told(k) /\ crossings[k].state = "prepared"
      BY <2>3, ToldOf DEF Reserve
    <3>2. k \in spent /\ held[k] = {} /\ \A s \in Ended : <<k, s>> \notin answered
      BY <3>1 DEF Told, Open
    <3>3. QED BY <1>3, <1>4, <2>2, <3>2 DEF Told, Open
  <2>4. QED BY <1>0, <1>4, <2>1, <2>3 DEF Tells
<1>5. QED BY <1>1, <1>2, <1>3, <1>4, RequestKept DEF Reserve, CrossingRequest

LEMMA CompleteKept ==
  ASSUME CrossingsInv, NEW u \in Users, NEW to \in Regions, NEW k \in Crossings, NEW token \in held[k],
         Complete(u, to, k, token)
  PROVE CrossingsInv'
<1>0. /\ crossings \in [Crossings -> RegionCrossing] /\ held \in [Crossings -> SUBSET Nat]
      /\ drawn \in [Crossings -> Nat] /\ answered \subseteq Crossings \X Ended
  BY CrossingTyped DEF CrossingsInv
<1>1. [crossings[k] EXCEPT !.state = "completed"] \in RegionCrossing
  BY <1>0 DEF RegionCrossing, CrossingState
<1>2. crossings' = [crossings EXCEPT ![k] = [crossings[k] EXCEPT !.state = "completed"]]
      /\ crossings'[k].state = "completed"
  BY <1>0, <1>1 DEF Complete, RegionCrossing
<1>3. ASSUME answered' = answered \cup {<<k, "completed">>}, UNCHANGED held, UNCHANGED <<spent, age>>
      PROVE Tells(k)
  <2>1. answered' \subseteq Crossings \X Ended
    BY <1>0, <1>3 DEF Ended
  <2>2. \A j \in Crossings, s \in Ended : j # k => (<<j, s>> \in answered' <=> <<j, s>> \in answered)
    BY <1>3
  <2>3. ASSUME ~thrown
        PROVE Told(k)'
    <3>1. Told(k) /\ crossings[k].state = "reserved"
      BY <2>3, ToldOf DEF Complete
    <3>2. k \in spent /\ \A s \in Ended : <<k, s>> \notin answered
      BY <3>1 DEF Told, Open
    <3>3. \A s \in Ended : <<k, s>> \in answered' => s = "completed"
      BY <1>3, <3>2
    <3>4. QED BY <1>2, <1>3, <3>2, <3>3 DEF Told, Open
  <2>4. QED BY <1>0, <1>3, <2>1, <2>2, <2>3 DEF Tells
<1>4. QED BY <1>0, <1>1, <1>2, <1>3, RequestKept DEF Complete, CrossingRequest

(* What is answered from memory is, as long as no write has thrown, what   *)
(* was answered before or what has no answer yet.                          *)
LEMMA AgainKept ==
  ASSUME CrossingsInv, NEW u \in Users, NEW k \in Crossings,
         (\E to \in Regions : ReserveAgain(u, to, k)) \/ RollbackAgain(u, k)
  PROVE CrossingsInv'
<1>0. /\ crossings \in [Crossings -> RegionCrossing] /\ held \in [Crossings -> SUBSET Nat]
      /\ drawn \in [Crossings -> Nat] /\ answered \subseteq Crossings \X Ended
  BY CrossingTyped DEF CrossingsInv
<1>1. CASE \E to \in Regions : ReserveAgain(u, to, k)
  <2>1. /\ crossings[k].state = "reserved" /\ crossings[k].token \notin held[k]
        /\ held' = [held EXCEPT ![k] = @ \cup {crossings[k].token}]
        /\ UNCHANGED <<thrown, crossings, crossingsFile, spent, age, drawn, answered>>
    BY <1>1 DEF ReserveAgain, counted
  <2>2. thrown
    BY <2>1, ToldOf DEF Told
  <2>3. held' \in [Crossings -> SUBSET Nat]
    BY <1>0, <2>1 DEF RegionCrossing
  <2>4. QED BY <2>1, <2>2, <2>3 DEF CrossingsInv, CrossingTypeOK, AnswersInv
<1>2. CASE RollbackAgain(u, k)
  <2>1. /\ crossings[k].state = "rolled_back"
        /\ answered' = answered \cup {<<k, "rolled_back">>}
        /\ UNCHANGED <<thrown, crossings, crossingsFile, spent, age, drawn, held>>
    BY <1>2 DEF RollbackAgain, counted
  <2>2. answered' \subseteq Crossings \X Ended
    BY <1>0, <2>1 DEF Ended
  <2>3. CrossingTypeOK'
    BY <2>1, <2>2 DEF CrossingsInv, CrossingTypeOK
  <2>4. ASSUME ~thrown, NEW j \in Crossings
        PROVE Told(j)'
    <3>1. Told(j) /\ Told(k)
      BY <2>4, ToldOf
    <3>2. CASE j = k
      <4>1. k \in spent /\ \A s \in Ended : <<k, s>> \in answered => s = "rolled_back"
        BY <2>1, <3>1 DEF Told
      <4>2. \A s \in Ended : <<k, s>> \in answered' => s = "rolled_back"
        BY <2>1, <4>1
      <4>3. QED BY <2>1, <3>2, <4>1, <4>2 DEF Told, Open
    <3>3. CASE j # k
      <4>1. \A s \in Ended : <<j, s>> \in answered' <=> <<j, s>> \in answered
        BY <2>1, <3>3
      <4>2. QED BY <2>1, <3>1, <4>1 DEF Told
    <3>4. QED BY <3>2, <3>3
  <2>5. QED BY <2>1, <2>3, <2>4 DEF CrossingsInv, AnswersInv
<1>3. QED BY <1>1, <1>2

(* Time passes, the maintenance thread and a restart.                      *)
LEMMA AgesKept ==
  ASSUME CrossingsInv, NEW k \in Crossings, Lapse(k) \/ ADay(k)
  PROVE CrossingsInv'
<1>0. age \in [Crossings -> {"young", "lapsed", "aged"}]
  BY CrossingTyped DEF CrossingsInv
<1>1. UNCHANGED <<thrown, crossings, crossingsFile, spent, drawn, held, answered>>
  BY DEF Lapse, ADay, counted
<1>2. /\ age' \in [Crossings -> {"young", "lapsed", "aged"}]
      /\ \A j \in Crossings : age[j] = "aged" => age'[j] = "aged"
  BY <1>0 DEF Lapse, ADay
<1>3. CrossingTypeOK'
  BY <1>1, <1>2 DEF CrossingsInv, CrossingTypeOK
<1>4. ASSUME ~thrown, NEW j \in Crossings
      PROVE Told(j)'
  BY <1>1, <1>2, <1>4, ToldOf DEF Told
<1>5. QED BY <1>1, <1>3, <1>4 DEF CrossingsInv, AnswersInv

LEMMA PurgeKept ==
  ASSUME CrossingsInv, PurgeExpired
  PROVE CrossingsInv'
<1>0. crossings \in [Crossings -> RegionCrossing]
  BY CrossingTyped DEF CrossingsInv
<1>1. /\ \A k \in Crossings : crossings'[k] = Purged(k)
      /\ crossings' = [k \in Crossings |-> Purged(k)] /\ crossingsFile' = crossings'
      /\ UNCHANGED <<thrown, spent, age, drawn, held, answered>>
  BY DEF PurgeExpired, WriteCrossings, counted
<1>2. ASSUME NEW k \in Crossings
      PROVE /\ Purged(k) \in RegionCrossing
            /\ \/ Purged(k) = NoCrossing /\ age[k] = "aged" /\ crossings[k].state \in Ended
               \/ Purged(k) = RolledBack(crossings[k])
               \/ Purged(k) = crossings[k]
  <2>1. RolledBack(crossings[k]) \in RegionCrossing /\ crossings[k] \in RegionCrossing
    BY <1>0, RolledBackTyped
  <2>2. NoCrossing \in RegionCrossing
    BY DEF NoCrossing, RegionCrossing, CrossingState
  <2>3. QED BY <2>1, <2>2 DEF Purged
<1>3. CrossingTypeOK'
  BY <1>1, <1>2 DEF CrossingsInv, CrossingTypeOK
<1>4. ASSUME ~thrown, NEW k \in Crossings
      PROVE Told(k)'
  <2>1. Told(k) /\ crossings[k] \in RegionCrossing
    BY <1>0, <1>4, ToldOf
  <2>2. CASE crossings'[k] = NoCrossing /\ age[k] = "aged" /\ crossings[k].state \in Ended
    BY <1>1, <2>1, <2>2 DEF Told, NoCrossing, Open, Ended
  <2>3. CASE crossings'[k] = RolledBack(crossings[k])
    <3>1. /\ crossings[k].state \notin Open => crossings'[k] = crossings[k]
          /\ crossings[k].state \in Open => crossings'[k].state = "rolled_back"
      BY <2>1, <2>3, RolledBackTyped
    <3>2. CASE crossings[k].state \notin Open
      BY <1>1, <2>1, <3>1, <3>2 DEF Told
    <3>3. CASE crossings[k].state \in Open
      BY <1>1, <2>1, <3>1, <3>3 DEF Told, Open
    <3>4. QED BY <3>2, <3>3
  <2>4. CASE crossings'[k] = crossings[k]
    BY <1>1, <2>1, <2>4 DEF Told
  <2>5. QED BY <1>1, <1>2, <2>2, <2>3, <2>4
<1>5. QED BY <1>1, <1>3, <1>4 DEF CrossingsInv, AnswersInv

LEMMA RestartKept ==
  ASSUME CrossingsInv, CrossingRestart, UNCHANGED thrown
  PROVE CrossingsInv'
<1>0. /\ crossingsFile \in [Crossings -> RegionCrossing]
      /\ age \in [Crossings -> {"young", "lapsed", "aged"}]
  BY CrossingTyped DEF CrossingsInv
<1>1. /\ crossings' = crossingsFile
      /\ UNCHANGED <<crossingsFile, spent, drawn, held, answered>>
      /\ age' \in [Crossings -> {"young", "lapsed", "aged"}]
      /\ \A k \in Crossings : age[k] = "aged" /\ crossingsFile[k].state \notin Open => age'[k] = "aged"
  BY <1>0 DEF CrossingRestart, ReadCrossings
<1>2. CrossingTypeOK'
  BY <1>0, <1>1 DEF CrossingsInv, CrossingTypeOK
<1>3. ASSUME ~thrown, NEW k \in Crossings
      PROVE Told(k)'
  <2>1. Told(k) /\ crossingsFile = crossings
    BY <1>3, ToldOf
  <2>2. QED BY <1>1, <2>1 DEF Told, Open
<1>4. AnswersInv'
  <2>1. ~thrown => crossingsFile = crossings
    BY ToldOf DEF CrossingsInv, AnswersInv
  <2>2. QED BY <1>1, <1>3, <2>1 DEF AnswersInv
<1>5. QED BY <1>2, <1>4 DEF CrossingsInv

LEMMA PreparedKept ==
  ASSUME CrossingsInv, NEW u \in Users, NEW r \in Regions, NEW k \in Crossings, Prepared(u, r, k),
         (UNCHANGED thrown /\ WriteCrossings) \/ (thrown' = TRUE /\ UNCHANGED crossingsFile)
  PROVE CrossingsInv'
<1>0. /\ crossings \in [Crossings -> RegionCrossing] /\ crossingsFile \in [Crossings -> RegionCrossing]
      /\ spent \subseteq Crossings
  BY CrossingTyped DEF CrossingsInv
<1>1. [state |-> "prepared", user |-> u, to |-> r, token |-> 0] \in RegionCrossing
  BY DEF RegionCrossing, CrossingState
<1>2. /\ crossings' \in [Crossings -> RegionCrossing] /\ crossings'[k].state = "prepared"
      /\ \A j \in Crossings : j # k => crossings'[j] = crossings[j]
      /\ spent' = spent \cup {k} /\ spent' \subseteq Crossings
      /\ UNCHANGED <<age, drawn, held, answered>> /\ k \notin spent
  BY <1>0, <1>1 DEF Prepared
<1>3. CrossingTypeOK'
  BY <1>0, <1>2 DEF CrossingsInv, CrossingTypeOK, WriteCrossings
<1>4. ASSUME ~thrown, NEW j \in Crossings
      PROVE Told(j)'
  <2>1. CASE j = k
    BY <1>2, <1>4, <2>1, ToldOf DEF Told, Open, Ended
  <2>2. CASE j # k
    BY <1>2, <1>4, <2>2, ToldOf DEF Told
  <2>3. QED BY <2>1, <2>2
<1>5. QED BY <1>3, <1>4 DEF CrossingsInv, AnswersInv, WriteCrossings

LEMMA CrossingChangeKept ==
  ASSUME CrossingsInv, CrossingChange
  PROVE CrossingsInv'
<1>0. crossings \in [Crossings -> RegionCrossing]
  BY CrossingTyped DEF CrossingsInv
<1>1. ASSUME NEW u \in Users, NEW to \in Regions, NEW k \in Crossings, TooLate(u, to, k)
      PROVE CrossingsInv'
  BY <1>1, RollingBack DEF TooLate, CrossingRequest, NoAnswer
<1>2. ASSUME NEW u \in Users, NEW k \in Crossings, Rollback(u, k)
      PROVE CrossingsInv'
  BY <1>2, RollingBack DEF Rollback, CrossingRequest
<1>3. QED
  BY <1>1, <1>2, ReserveKept, CompleteKept, AgainKept, AgesKept, PurgeKept DEF CrossingChange

LEMMA CrossingsUntouched ==
  ASSUME CrossingsInv, UNCHANGED crossingVars, thrown' = thrown \/ thrown' = TRUE
  PROVE CrossingsInv'
BY DEF CrossingsInv, CrossingTypeOK, AnswersInv, Told, crossingVars

(* Nothing that happens to crossings touches the land, and it is counted.  *)
LEMMA CrossingChangeApart ==
  ASSUME LandTypeOK, CrossingChange
  PROVE LandTypeOK' /\ UNCHANGED landVars
<1> DEFINE Apart == UNCHANGED landVars /\ (UNCHANGED counted \/ Succeeds("crossing") \/ Throws("crossing"))
<1>1. ASSUME NEW u \in Users, NEW k \in Crossings, NEW to \in Regions,
             TooLate(u, to, k) \/ Reserve(u, to, k) \/ \E token \in held[k] : Complete(u, to, k, token)
      PROVE Apart
  BY <1>1 DEF TooLate, Reserve, Complete, CrossingRequest
<1>2. ASSUME NEW u \in Users, NEW k \in Crossings,
             Rollback(u, k) \/ RollbackAgain(u, k) \/ \E to \in Regions : ReserveAgain(u, to, k)
      PROVE Apart
  BY <1>2 DEF Rollback, RollbackAgain, ReserveAgain, CrossingRequest
<1>3. ASSUME PurgeExpired \/ \E k \in Crossings : Lapse(k) \/ ADay(k)
      PROVE Apart
  BY <1>3 DEF PurgeExpired, Lapse, ADay
<1>4. Apart
  BY <1>1, <1>2, <1>3 DEF CrossingChange
<1>5. budget' \in [Bounded -> Nat] /\ thrown' \in BOOLEAN
  BY <1>4, Counted DEF LandTypeOK, counted
<1>6. QED BY <1>4, <1>5, LandKeepsTypes

----------------------------------------------------------------------------
(* The World.  Up to the spawn the question is the same: may it come in?   *)
LEMMA JoiningAsks ==
  ASSUME NEW t, NEW land, NEW stage \in Joining, NEW other \in Joining
  PROVE OpenPoints(t, stage, land) = OpenPoints(t, other, land)
BY DEF OpenPoints, Right, Joining

(* What the request n of a ticket t under way has seen covers what the     *)
(* files show, and from where the World has read its copies also these:    *)
(* whichever thread replaces them, it replaces them by what is covered.    *)
(* What a check has found stays.                                           *)
Covered(n, t, banned, worldBanned, lapsed, land, worldLand) ==
    /\ n.stage \in Joining => Naming(banned, t.user, t.region) \in n.shown
    /\ n.stage \in {"bansRead", "landRead"} => Naming(worldBanned, t.user, t.region) \in n.shown
    /\ n.stage \in {"notBanned", "allowed"} => \E known \in n.shown : known \subseteq lapsed
    /\ n.stage \in Joining \cup AtWork => OpenPoints(t, n.stage, land) \subseteq n.open
    /\ n.stage \in {"landRead", "notBanned"} \cup AtWork => OpenPoints(t, n.stage, worldLand) \subseteq n.open
    /\ n.stage = "allowed" => n.aim \in n.open

Signed(n) == n.stage # "none" => n.ticket \in Tickets /\ tickets[n.ticket] # NoTicket

SceneTypeOK ==
    /\ tickets \in [Tickets -> SceneTicketClaims] /\ lapsedTickets \subseteq Tickets
    /\ present \in [Users -> Regions \cup {Nowhere}]
    /\ worldParcels \in Land /\ worldBans \in BanList
    /\ used \cup admitted \subseteq Tickets
    /\ conn \in [Connections -> Connection]
    /\ objects \in [Objects -> SceneObject] /\ terrain \subseteq Regions \X Points

TicketsName == \A t \in Tickets : tickets[t] # NoTicket => tickets[t].region \in Regions

(* The cache knows whatever was let in on a ticket that may still be shown.*)
SceneInv ==
    /\ SceneTypeOK /\ TicketsName
    /\ \A c \in Connections :
          /\ Signed(conn[c])
          /\ Covered(conn[c], Claims(c), bansFile, worldBans, lapsedBans, parcelsFile, worldParcels)
    /\ admitted \ lapsedTickets \subseteq used

EntryInv == LandTypeOK /\ CrossingsInv /\ SceneInv

LEMMA ConnectionsTyped ==
  ASSUME SceneInv
  PROVE /\ conn \in [Connections -> Connection] /\ tickets \in [Tickets -> SceneTicketClaims]
        /\ \A c \in Connections :
              /\ Signed(conn[c])
              /\ Covered(conn[c], Claims(c), bansFile, worldBans, lapsedBans, parcelsFile, worldParcels)
BY DEF SceneInv, SceneTypeOK

LEMMA NamingTyped ==
  ASSUME NEW list, NEW u, NEW region
  PROVE Naming(list, u, region) \in SUBSET Bans
BY DEF Naming

LEMMA NoConnectionTyped ==
  NoConnection \in Connection /\ NoConnection.stage = "none"
BY PointsAssumption DEF NoConnection, Connection

(* A step of one connection.                                               *)
LEMMA WorldStep ==
  ASSUME LandTypeOK, SceneInv, NEW c \in Connections, NEW n \in Connection,
         conn' = [conn EXCEPT ![c] = n],
         UNCHANGED <<tickets, lapsedTickets, present, parcelsFile, bansFile, lapsedBans>>,
         worldBans' \in {worldBans, bansFile}, worldParcels' \in {worldParcels, parcelsFile},
         used' \cup admitted' \subseteq Tickets, admitted' \ lapsedTickets \subseteq used',
         objects' \in [Objects -> SceneObject], terrain' \subseteq Regions \X Points,
         Signed(n),
         Covered(n, tickets[n.ticket], bansFile, worldBans', lapsedBans, parcelsFile, worldParcels')
  PROVE SceneInv'
<1>0. conn \in [Connections -> Connection]
  BY ConnectionsTyped
<1>1. parcelsFile \in Land /\ bansFile \in BanList
  BY DEF LandTypeOK
<1>2. conn' \in [Connections -> Connection] /\ conn'[c] = n
      /\ \A d \in Connections : d # c => conn'[d] = conn[d]
  BY <1>0
<1>3. SceneTypeOK'
  BY <1>1, <1>2 DEF SceneInv, SceneTypeOK
<1>4. ASSUME NEW d \in Connections
      PROVE Signed(conn[d])' /\ Covered(conn[d], Claims(d), bansFile, worldBans, lapsedBans, parcelsFile, worldParcels)'
  <2>1. CASE d = c
    BY <1>2, <2>1 DEF Signed, Claims
  <2>2. CASE d # c
    <3>1. /\ Signed(conn[d])
          /\ Covered(conn[d], Claims(d), bansFile, worldBans, lapsedBans, parcelsFile, worldParcels)
      BY ConnectionsTyped
    <3>2. Covered(conn[d], Claims(d), bansFile, worldBans', lapsedBans, parcelsFile, worldParcels')
      BY <3>1 DEF Covered, Joining, AtWork
    <3>3. conn'[d] = conn[d] /\ Claims(d)' = Claims(d)
      BY <1>2, <2>2 DEF Claims
    <3>4. QED BY <3>1, <3>2, <3>3 DEF Signed
  <2>3. QED BY <2>1, <2>2
<1>5. QED BY <1>3, <1>4 DEF SceneInv, TicketsName

(* A step of the Core that leaves the files as they are: a ticket that is  *)
(* shown is not signed again.                                              *)
LEMMA CoreStep ==
  ASSUME SceneInv, UNCHANGED <<parcelsFile, bansFile, lapsedBans, worldVars>>,
         tickets' \in [Tickets -> SceneTicketClaims],
         \A t \in Tickets : tickets[t] # NoTicket => tickets'[t] = tickets[t],
         \A t \in Tickets : tickets'[t] # tickets[t] => tickets'[t].region \in Regions,
         lapsedTickets \subseteq lapsedTickets', lapsedTickets' \subseteq Tickets,
         present' \in [Users -> Regions \cup {Nowhere}]
  PROVE SceneInv'
<1>1. UNCHANGED <<conn, worldParcels, worldBans, used, objects, terrain, admitted>>
  BY DEF worldVars
<1>2. SceneTypeOK'
  BY <1>1 DEF SceneInv, SceneTypeOK
<1>3. ASSUME NEW c \in Connections
      PROVE Signed(conn[c])' /\ Covered(conn[c], Claims(c), bansFile, worldBans, lapsedBans, parcelsFile, worldParcels)'
  <2>1. /\ Signed(conn[c])
        /\ Covered(conn[c], Claims(c), bansFile, worldBans, lapsedBans, parcelsFile, worldParcels)
    BY ConnectionsTyped
  <2>2. CASE conn[c].stage = "none"
    BY <1>1, <2>2 DEF Signed, Covered, Joining, AtWork
  <2>3. CASE conn[c].stage # "none"
    <3>1. conn[c].ticket \in Tickets /\ tickets[conn[c].ticket] # NoTicket
      BY <2>1, <2>3 DEF Signed
    <3>2. Claims(c)' = Claims(c)
      BY <1>1, <3>1 DEF Claims
    <3>3. QED BY <1>1, <2>1, <3>1, <3>2 DEF Signed
  <2>4. QED BY <2>2, <2>3
<1>4. TicketsName'
  BY DEF SceneInv, TicketsName
<1>5. QED BY <1>1, <1>2, <1>3, <1>4 DEF SceneInv

(* A change of the files: the histories take it in.                        *)
LEMMA LandChangeSeen ==
  ASSUME SceneInv, Witness, lapsedBans \subseteq lapsedBans',
         UNCHANGED <<tickets, lapsedTickets, present, worldParcels, worldBans, used, objects, terrain, admitted>>
  PROVE SceneInv'
<1>0. conn \in [Connections -> Connection]
  BY ConnectionsTyped
<1>1. ASSUME NEW c \in Connections
      PROVE /\ conn'[c] \in Connection
            /\ Signed(conn[c])'
            /\ Covered(conn[c], Claims(c), bansFile, worldBans, lapsedBans, parcelsFile, worldParcels)'
  <2>1. /\ Signed(conn[c])
        /\ Covered(conn[c], Claims(c), bansFile, worldBans, lapsedBans, parcelsFile, worldParcels)
    BY ConnectionsTyped
  <2>2. CASE conn[c].stage \in {"none", "in"}
    <3>1. conn'[c] = conn[c]
      BY <2>2 DEF Witness
    <3>2. QED BY <1>0, <2>1, <2>2, <3>1 DEF Signed, Covered, Joining, AtWork
  <2>3. CASE conn[c].stage \notin {"none", "in"}
    <3> DEFINE names == Naming(bansFile', Claims(c).user, Claims(c).region)
               places == OpenPoints(Claims(c), conn[c].stage, parcelsFile')
    <3>1. conn'[c] = [conn[c] EXCEPT !.shown = conn[c].shown \cup {names}, !.open = conn[c].open \cup places]
      BY <2>3 DEF Witness
    <3>2. names \in SUBSET Bans /\ places \subseteq Points
      BY NamingTyped DEF OpenPoints
    <3> HIDE DEF names, places
    <3>3. /\ conn'[c] \in Connection
          /\ conn'[c].stage = conn[c].stage /\ conn'[c].ticket = conn[c].ticket /\ conn'[c].aim = conn[c].aim
          /\ conn'[c].shown = conn[c].shown \cup {names} /\ conn'[c].open = conn[c].open \cup places
      <4>1. PICK open \in SUBSET Points : open = conn[c].open \cup places
        <5>1. conn[c].open \in SUBSET Points
          BY <1>0 DEF Connection
        <5>2. QED BY <3>2, <5>1
      <4>2. PICK shown \in SUBSET SUBSET Bans : shown = conn[c].shown \cup {names}
        <5>1. conn[c].shown \in SUBSET SUBSET Bans
          BY <1>0 DEF Connection
        <5>2. QED BY <3>2, <5>1
      <4>3. conn'[c] = [conn[c] EXCEPT !.shown = shown, !.open = open] /\ conn[c] \in Connection
        BY <1>0, <3>1, <4>1, <4>2
      <4>4. /\ conn'[c] \in Connection
            /\ conn'[c].stage = conn[c].stage /\ conn'[c].ticket = conn[c].ticket /\ conn'[c].aim = conn[c].aim
            /\ conn'[c].shown = shown /\ conn'[c].open = open
        BY <4>3 DEF Connection
      <4>5. QED BY <4>1, <4>2, <4>4
    <3>4. Claims(c)' = Claims(c)
      BY <3>3 DEF Claims
    <3>5. Signed(conn[c])'
      BY <2>1, <3>3 DEF Signed
    <3>6. Covered(conn'[c], Claims(c), bansFile', worldBans, lapsedBans', parcelsFile', worldParcels)
      <4>1. names \in conn'[c].shown /\ conn[c].shown \subseteq conn'[c].shown
            /\ places \subseteq conn'[c].open /\ conn[c].open \subseteq conn'[c].open
        BY <3>3
      <4>2. conn[c].stage \in {"notBanned", "allowed"} => \E known \in conn'[c].shown : known \subseteq lapsedBans'
        BY <2>1, <4>1 DEF Covered
      <4>3. conn[c].stage = "allowed" => conn[c].aim \in conn'[c].open
        BY <2>1, <4>1 DEF Covered
      <4>4. conn[c].stage \in {"landRead", "notBanned"} \cup AtWork
                => OpenPoints(Claims(c), conn[c].stage, worldParcels) \subseteq conn'[c].open
        BY <2>1, <4>1 DEF Covered
      <4>5. conn[c].stage \in {"bansRead", "landRead"}
                => Naming(worldBans, Claims(c).user, Claims(c).region) \in conn'[c].shown
        BY <2>1, <4>1 DEF Covered
      <4>6. QED BY <3>3, <4>1, <4>2, <4>3, <4>4, <4>5 DEF Covered, names, places
    <3>7. QED BY <3>3, <3>4, <3>5, <3>6
  <2>4. QED BY <2>2, <2>3
<1>2. conn' \in [Connections -> Connection]
  BY <1>1 DEF Witness
<1>3. SceneTypeOK'
  BY <1>2 DEF SceneInv, SceneTypeOK
<1>4. QED BY <1>1, <1>3 DEF SceneInv, TicketsName

----------------------------------------------------------------------------
(* The Core signs tickets and learns who is present.                       *)
LEMMA IssueKept ==
  ASSUME SceneInv, NEW t \in Tickets, NEW u \in Users, NEW r \in Regions, NEW point \in Points, NEW ground \in BOOLEAN,
         Issue(t, u, r, point, ground),
         UNCHANGED <<parcelsFile, bansFile, lapsedBans, lapsedTickets, present, worldVars>>
  PROVE SceneInv'
<1>1. [user |-> u, region |-> r, point |-> point, ground |-> ground, inGroup |-> u \in members] \in SceneTicketClaims
  BY DEF SceneTicketClaims
<1>2. /\ tickets' \in [Tickets -> SceneTicketClaims]
      /\ \A s \in Tickets : tickets[s] # NoTicket => tickets'[s] = tickets[s]
      /\ \A s \in Tickets : tickets'[s] # tickets[s] => tickets'[s].region \in Regions
  BY <1>1, ConnectionsTyped DEF Issue
<1>3. lapsedTickets \subseteq Tickets /\ present \in [Users -> Regions \cup {Nowhere}]
  BY DEF SceneInv, SceneTypeOK
<1>4. QED BY <1>2, <1>3, CoreStep

LEMMA CoreSceneKept ==
  ASSUME SceneInv, UNCHANGED <<parcelsFile, bansFile, lapsedBans, tickets, worldVars>>,
         lapsedTickets \subseteq lapsedTickets', lapsedTickets' \subseteq Tickets,
         present' \in [Users -> Regions \cup {Nowhere}]
  PROVE SceneInv'
BY CoreStep, ConnectionsTyped

LEMMA FilesOf ==
  /\ UNCHANGED landVars => UNCHANGED <<parcelsFile, bansFile, lapsedBans>>
  /\ UNCHANGED coreVars => UNCHANGED <<landVars, crossingVars, tickets, lapsedTickets, present,
                                    parcelsFile, bansFile, lapsedBans>>
BY DEF landVars, landFiles, coreVars

----------------------------------------------------------------------------
(* The steps of a connection.                                              *)
LEMMA ConnectionsKept ==
  ASSUME LandTypeOK, SceneInv, UNCHANGED coreVars, NEW c \in Connections, NEW n \in Connection,
         conn' = [conn EXCEPT ![c] = n],
         worldBans' \in {worldBans, bansFile}, worldParcels' \in {worldParcels, parcelsFile},
         used' \cup admitted' \subseteq Tickets, admitted' \ lapsedTickets \subseteq used',
         objects' \in [Objects -> SceneObject], terrain' \subseteq Regions \X Points,
         Signed(n),
         Covered(n, tickets[n.ticket], bansFile, worldBans', lapsedBans, parcelsFile, worldParcels')
  PROVE SceneInv'
BY FilesOf, WorldStep

LEMMA SceneTyped ==
  ASSUME SceneInv
  PROVE /\ used \cup admitted \subseteq Tickets /\ admitted \ lapsedTickets \subseteq used
        /\ objects \in [Objects -> SceneObject] /\ terrain \subseteq Regions \X Points
BY DEF SceneInv, SceneTypeOK

LEMMA GoneKept ==
  ASSUME LandTypeOK, SceneInv, UNCHANGED coreVars, NEW c \in Connections, Ends(c),
         UNCHANGED <<worldParcels, worldBans, admitted, objects, terrain>>,
         used' \subseteq used, used \ lapsedTickets \subseteq used'
  PROVE SceneInv'
<1>1. NoConnection \in Connection /\ NoConnection.stage = "none"
  BY NoConnectionTyped
<1>2. Signed(NoConnection) /\ Covered(NoConnection, tickets[NoConnection.ticket], bansFile, worldBans', lapsedBans, parcelsFile, worldParcels')
  BY <1>1 DEF Signed, Covered, Joining, AtWork
<1>3. used' \cup admitted' \subseteq Tickets /\ admitted' \ lapsedTickets \subseteq used'
  BY SceneTyped
<1>4. QED BY <1>1, <1>2, <1>3, SceneTyped, ConnectionsKept DEF Ends

(* Whoever is in has nothing under way.                                    *)
LEMMA InKept ==
  ASSUME LandTypeOK, SceneInv, UNCHANGED coreVars, NEW c \in Connections, NEW point \in Points,
         conn[c].stage # "none", IsIn(c, point),
         UNCHANGED <<worldParcels, worldBans, used, admitted>>,
         objects' \in [Objects -> SceneObject], terrain' \subseteq Regions \X Points
  PROVE SceneInv'
<1> DEFINE n == [NoConnection EXCEPT !.stage = "in", !.ticket = conn[c].ticket, !.at = point]
<1>1. conn[c].ticket \in Tickets /\ tickets[conn[c].ticket] # NoTicket
  BY ConnectionsTyped DEF Signed
<1>2. n \in Connection /\ n.stage = "in" /\ n.ticket = conn[c].ticket
  BY <1>1, PointsAssumption DEF NoConnection, Connection
<1>3. conn' = [conn EXCEPT ![c] = n]
  BY DEF IsIn
<1> HIDE DEF n
<1>4. Signed(n) /\ Covered(n, tickets[n.ticket], bansFile, worldBans', lapsedBans, parcelsFile, worldParcels')
  BY <1>1, <1>2 DEF Signed, Covered, Joining, AtWork
<1>5. QED BY <1>2, <1>3, <1>4, SceneTyped, ConnectionsKept

LEMMA PresentKept ==
  ASSUME LandTypeOK, SceneInv, NEW c \in Connections, NEW t \in Tickets, Present(c, t)
  PROVE SceneInv'
<1> DEFINE names == Naming(bansFile, tickets[t].user, tickets[t].region)
           places == OpenPoints(tickets[t], "verified", parcelsFile)
           n == [stage |-> "verified", ticket |-> t, at |-> Centre, aim |-> tickets[t].point, ground |-> tickets[t].ground,
                 shown |-> {names}, open |-> places]
<1>1. names \in SUBSET Bans /\ places \in SUBSET Points
  BY NamingTyped DEF OpenPoints
<1>2. tickets[t] \in SceneTicketClaims /\ tickets[t] # NoTicket
  BY ConnectionsTyped DEF Present
<1>3. conn' = [conn EXCEPT ![c] = n]
  BY DEF Present
<1> HIDE DEF names, places
<1>4. /\ n.stage = "verified" /\ n.ticket = t /\ n.aim = tickets[t].point
      /\ n.shown = {names} /\ n.open = places
  OBVIOUS
<1>5. n \in Connection
  BY <1>1, <1>2, PointsAssumption DEF Connection, SceneTicketClaims, Joining
<1> HIDE DEF n
<1>6. Signed(n)
  BY <1>2, <1>4 DEF Signed
<1>7. Covered(n, tickets[n.ticket], bansFile, worldBans', lapsedBans, parcelsFile, worldParcels')
  BY <1>4 DEF Covered, AtWork, names, places
<1>8. UNCHANGED <<coreVars, worldParcels, worldBans, used, admitted, objects, terrain>>
  BY DEF Present, JoinStep
<1>9. QED BY <1>3, <1>5, <1>6, <1>7, <1>8, SceneTyped, ConnectionsKept

(* A connection goes on from one stage of joining to the next.             *)
LEMMA StageKept ==
  ASSUME LandTypeOK, SceneInv, UNCHANGED <<coreVars, objects, terrain>>, NEW c \in Connections, NEW stage \in Joining,
         conn[c].stage \in Joining, Goes(c, stage),
         worldBans' \in {worldBans, bansFile}, worldParcels' \in {worldParcels, parcelsFile},
         used' \cup admitted' \subseteq Tickets, admitted' \ lapsedTickets \subseteq used',
         \/ conn[c].stage = "verified" /\ stage = "bansRead" /\ worldBans' = bansFile
         \/ conn[c].stage = "bansRead" /\ stage = "landRead" /\ worldParcels' = parcelsFile
         \/ /\ conn[c].stage = "landRead" /\ stage = "notBanned" /\ worldParcels' = worldParcels
            /\ \E known \in conn[c].shown : known \subseteq lapsedBans
         \/ conn[c].stage = "notBanned" /\ stage = "allowed" /\ conn[c].aim \in conn[c].open
  PROVE SceneInv'
<1> DEFINE n == [conn[c] EXCEPT !.stage = stage]
<1>0. conn[c] \in Connection /\ conn' = [conn EXCEPT ![c] = n]
  BY ConnectionsTyped DEF Goes
<1>1. /\ n \in Connection /\ n.stage = stage /\ n.ticket = conn[c].ticket /\ n.aim = conn[c].aim
      /\ n.shown = conn[c].shown /\ n.open = conn[c].open
  BY <1>0 DEF Connection
<1> HIDE DEF n
<1>2. Signed(conn[c]) /\ Covered(conn[c], Claims(c), bansFile, worldBans, lapsedBans, parcelsFile, worldParcels)
  BY ConnectionsTyped
<1>3. Signed(n)
  BY <1>1, <1>2 DEF Signed, Joining
<1>4. \A land : OpenPoints(Claims(c), n.stage, land) = OpenPoints(Claims(c), conn[c].stage, land)
  BY <1>1, JoiningAsks
<1>5. Covered(n, Claims(c), bansFile, worldBans', lapsedBans, parcelsFile, worldParcels')
  BY <1>1, <1>2, <1>4 DEF Covered, Joining, AtWork
<1>6. tickets[n.ticket] = Claims(c)
  BY <1>1 DEF Claims
<1>7. QED BY <1>0, <1>1, <1>3, <1>5, <1>6, SceneTyped, ConnectionsKept

LEMMA ConsumeKept ==
  ASSUME LandTypeOK, SceneInv, NEW c \in Connections, Consume(c)
  PROVE SceneInv'
<1> DEFINE t == conn[c].ticket
           kept == used \ lapsedTickets
<1>1. /\ conn[c].stage = "verified" /\ t \in Tickets
      /\ UNCHANGED <<coreVars, objects, terrain, worldParcels>>
  BY ConnectionsTyped DEF Consume, JoinStep, Signed
<1>2. CASE t \in kept
  <2>1. Ends(c) /\ used' = kept /\ UNCHANGED <<admitted, worldBans>>
    BY <1>2 DEF Consume
  <2>2. QED BY <1>1, <2>1, GoneKept
<1>3. CASE t \notin kept
  <2>1. Goes(c, "bansRead") /\ used' = kept \cup {t} /\ admitted' = admitted \cup {t} /\ worldBans' = bansFile
    BY <1>3 DEF Consume
  <2>2. used' \cup admitted' \subseteq Tickets /\ admitted' \ lapsedTickets \subseteq used'
    BY <1>1, <2>1, SceneTyped
  <2>3. "verified" \in Joining /\ "bansRead" \in Joining
    BY DEF Joining
  <2>4. QED BY <1>1, <2>1, <2>2, <2>3, StageKept
<1>4. QED BY <1>2, <1>3

LEMMA ReloadLandKept ==
  ASSUME LandTypeOK, SceneInv, NEW c \in Connections, ReloadLand(c)
  PROVE SceneInv'
<1>1. /\ conn[c].stage = "bansRead" /\ worldParcels' = parcelsFile /\ Goes(c, "landRead")
      /\ UNCHANGED <<coreVars, objects, terrain, worldBans, used, admitted>>
  BY DEF ReloadLand, JoinStep
<1>2. "bansRead" \in Joining /\ "landRead" \in Joining
  BY DEF Joining
<1>3. QED BY <1>1, <1>2, SceneTyped, StageKept

LEMMA LandingTyped ==
  ASSUME SceneInv, NEW c \in Connections
  PROVE Landing(c) \in Points /\ conn[c].at \in Points /\ conn[c].aim \in Points
BY ConnectionsTyped, PointsAssumption DEF Landing, Connection

(* Who passes the check of the bans has been seen without one that runs,   *)
(* who passes that of the land has been seen where it was open.            *)
LEMMA BansPassed ==
  ASSUME SceneInv, NEW c \in Connections, conn[c].stage = "landRead",
         ~IsBanned(worldBans, lapsedBans, Claims(c).user, Claims(c).region)
  PROVE \E known \in conn[c].shown : known \subseteq lapsedBans
<1>1. Covered(conn[c], Claims(c), bansFile, worldBans, lapsedBans, parcelsFile, worldParcels)
  BY ConnectionsTyped
<1>2. Naming(worldBans, Claims(c).user, Claims(c).region) \subseteq lapsedBans
  BY DEF IsBanned, Naming
<1>3. QED BY <1>1, <1>2 DEF Covered

LEMMA LandPassed ==
  ASSUME SceneInv, NEW c \in Connections, conn[c].stage \in {"landRead", "notBanned"} \cup AtWork,
         Right(Claims(c), conn[c].stage, worldParcels, conn[c].aim)
  PROVE conn[c].aim \in conn[c].open
<1>1. Covered(conn[c], Claims(c), bansFile, worldBans, lapsedBans, parcelsFile, worldParcels)
  BY ConnectionsTyped
<1>2. conn[c].aim \in OpenPoints(Claims(c), conn[c].stage, worldParcels)
  BY LandingTyped DEF OpenPoints
<1>3. QED BY <1>1, <1>2 DEF Covered

LEMMA CheckBanKept ==
  ASSUME LandTypeOK, SceneInv, NEW c \in Connections, CheckBan(c)
  PROVE SceneInv'
<1>1. /\ conn[c].stage = "landRead"
      /\ UNCHANGED <<coreVars, worldParcels, worldBans, used, admitted, objects, terrain>>
  BY DEF CheckBan, JoinStep
<1>2. CASE ~IsBanned(worldBans, lapsedBans, Claims(c).user, Claims(c).region) /\ Goes(c, "notBanned")
  BY <1>1, <1>2, BansPassed, SceneTyped, StageKept DEF Joining
<1>3. CASE Ends(c)
  BY <1>1, <1>3, GoneKept
<1>4. QED BY <1>2, <1>3 DEF CheckBan

LEMMA CheckLandKept ==
  ASSUME LandTypeOK, SceneInv, NEW c \in Connections, CheckLand(c)
  PROVE SceneInv'
<1>1. /\ conn[c].stage = "notBanned"
      /\ UNCHANGED <<coreVars, worldParcels, worldBans, used, admitted, objects, terrain>>
  BY DEF CheckLand, JoinStep
<1>2. CASE Right(Claims(c), "notBanned", worldParcels, conn[c].aim) /\ Goes(c, "allowed")
  BY <1>1, <1>2, LandPassed, SceneTyped, StageKept DEF Joining
<1>3. CASE Ends(c)
  BY <1>1, <1>3, GoneKept
<1>4. QED BY <1>2, <1>3 DEF CheckLand

LEMMA SpawnKept ==
  ASSUME LandTypeOK, SceneInv, NEW c \in Connections, Spawn(c)
  PROVE SceneInv'
<1>1. /\ conn[c].stage # "none" /\ IsIn(c, Landing(c))
      /\ UNCHANGED <<coreVars, worldParcels, worldBans, used, admitted, objects, terrain>>
  BY DEF Spawn, JoinStep
<1>2. QED BY <1>1, LandingTyped, SceneTyped, InKept

LEMMA LeaveKept ==
  ASSUME LandTypeOK, SceneInv, NEW c \in Connections, Leave(c)
  PROVE SceneInv'
BY GoneKept DEF Leave, JoinStep

LEMMA AskKept ==
  ASSUME LandTypeOK, SceneInv, NEW c \in Connections, NEW kind \in AtWork, NEW point \in Points, NEW ground \in BOOLEAN,
         Ask(c, kind, point, ground)
  PROVE SceneInv'
<1> DEFINE places == OpenPoints(Claims(c), kind, parcelsFile)
           n == [conn[c] EXCEPT !.stage = kind, !.aim = point, !.ground = ground, !.open = places]
<1>0. conn[c] \in Connection /\ places \in SUBSET Points
  BY ConnectionsTyped DEF OpenPoints
<1>1. conn' = [conn EXCEPT ![c] = n]
  BY DEF Ask
<1> HIDE DEF places
<1>2. /\ n \in Connection /\ n.stage = kind /\ n.ticket = conn[c].ticket /\ n.aim = point /\ n.open = places
  BY <1>0 DEF Connection
<1> HIDE DEF n
<1>3. Signed(n)
  BY <1>2, ConnectionsTyped DEF Signed, Ask
<1>4. worldParcels' = parcelsFile /\ UNCHANGED <<coreVars, objects, terrain, worldBans, used, admitted>>
  BY DEF Ask, SceneStep
<1>5. Covered(n, Claims(c), bansFile, worldBans', lapsedBans, parcelsFile, worldParcels')
  BY <1>2, <1>4 DEF Covered, Joining, AtWork, places
<1>6. tickets[n.ticket] = Claims(c)
  BY <1>2 DEF Claims
<1>7. QED BY <1>1, <1>2, <1>3, <1>4, <1>5, <1>6, SceneTyped, ConnectionsKept

(* The objects that requests leave are objects.                            *)
LEMMA ObjectsTyped ==
  ASSUME SceneInv, NEW c \in Connections, conn[c].stage # "none", NEW o \in Objects,
         \/ Create(c, o) \/ Move(c, o) \/ Delete(c, o)
         \/ \E with \in {"nobody", "group", "everyone"} : Share(c, o, with)
  PROVE objects' \in [Objects -> SceneObject]
<1>1. objects \in [Objects -> SceneObject]
  BY SceneTyped
<1>2. Claims(c) \in SceneTicketClaims
  BY ConnectionsTyped DEF Signed, Claims
<1>3. CASE Create(c, o)
  BY <1>1, <1>2, <1>3, LandingTyped DEF Create, SceneObject, SceneTicketClaims
<1>4. CASE Move(c, o)
  BY <1>1, <1>4, LandingTyped DEF Move, SceneObject
<1>5. CASE Delete(c, o)
  BY <1>1, <1>5, PointsAssumption DEF Delete, SceneObject, NoObject
<1>6. CASE \E with \in {"nobody", "group", "everyone"} : Share(c, o, with)
  BY <1>1, <1>6 DEF Share, SceneObject
<1>7. QED BY <1>3, <1>4, <1>5, <1>6

LEMMA WorkKept ==
  ASSUME LandTypeOK, SceneInv, NEW c \in Connections, Work(c)
  PROVE SceneInv'
<1>1. /\ conn[c].stage \in AtWork /\ IsIn(c, conn[c].at)
      /\ UNCHANGED <<coreVars, worldParcels, worldBans, used, admitted>>
      /\ Terraform(c) \/ (\E o \in Objects : Create(c, o) \/ Move(c, o)) \/ UNCHANGED <<objects, terrain>>
  BY DEF Work, SceneStep
<1>2. conn[c].stage # "none" /\ Claims(c) \in SceneTicketClaims
  BY <1>1, ConnectionsTyped DEF AtWork, Signed, Claims
<1>3. objects' \in [Objects -> SceneObject]
  BY <1>1, <1>2, ObjectsTyped, SceneTyped DEF Terraform
<1>4. terrain' \subseteq Regions \X Points
  <2>1. CASE Terraform(c)
    <3>1. Claims(c).region \in Regions
      BY <1>2, ConnectionsTyped DEF SceneInv, TicketsName, Signed, Claims
    <3>2. QED BY <2>1, <3>1, LandingTyped, SceneTyped DEF Terraform
  <2>2. QED BY <1>1, <2>1, SceneTyped DEF Create, Move
<1>5. QED BY <1>1, <1>2, <1>3, <1>4, LandingTyped, InKept

LEMMA ObjectRequestKept ==
  ASSUME LandTypeOK, SceneInv, NEW c \in Connections, NEW o \in Objects, ObjectRequest(c, o)
  PROVE SceneInv'
<1>1. /\ conn[c].stage = "in"
      /\ UNCHANGED <<conn, coreVars, worldParcels, worldBans, used, admitted, terrain>>
      /\ Delete(c, o) \/ \E with \in {"nobody", "group", "everyone"} : Share(c, o, with)
  BY DEF ObjectRequest, SceneStep
<1>2. objects' \in [Objects -> SceneObject]
  BY <1>1, ObjectsTyped
<1>3. Signed(conn[c]) /\ Covered(conn[c], Claims(c), bansFile, worldBans, lapsedBans, parcelsFile, worldParcels)
  BY ConnectionsTyped
<1>4. conn' = [conn EXCEPT ![c] = conn[c]] /\ conn[c] \in Connection
  BY <1>1, ConnectionsTyped
<1>5. tickets[conn[c].ticket] = Claims(c)
  BY DEF Claims
<1>6. QED BY <1>1, <1>2, <1>3, <1>4, <1>5, SceneTyped, ConnectionsKept

LEMMA WorldRestartKept ==
  ASSUME LandTypeOK, SceneInv, WorldRestart
  PROVE SceneInv'
<1>1. /\ used' = {} /\ admitted' = {} /\ conn' = [c \in Connections |-> NoConnection]
      /\ worldParcels' = parcelsFile /\ worldBans' = bansFile
      /\ UNCHANGED <<tickets, lapsedTickets, present, objects, terrain>>
  BY DEF WorldRestart, coreVars
<1>2. parcelsFile \in Land /\ bansFile \in BanList
  BY DEF LandTypeOK
<1>3. conn' \in [Connections -> Connection]
  BY <1>1, NoConnectionTyped
<1>4. \A c \in Connections : conn'[c].stage = "none"
  BY <1>1, NoConnectionTyped
<1>5. SceneTypeOK'
  BY <1>1, <1>2, <1>3 DEF SceneInv, SceneTypeOK
<1>6. QED BY <1>1, <1>4, <1>5 DEF SceneInv, TicketsName, Signed, Covered, Joining, AtWork

----------------------------------------------------------------------------
(* The whole.                                                              *)
LEMMA EntryInit ==
  ASSUME Init
  PROVE EntryInv
<1>1. LandTypeOK
  <2>1. PICK earlier \in EarlierFiles : parcelsFile = earlier.land /\ estatesFile = earlier.estates
    BY DEF Init, LandInit
  <2>2. parcelsFile \in Land /\ estatesFile \in EstateBook
    BY <2>1, LandAssumption
  <2>3. bansFile \in BanList
    BY DEF Init, LandInit, BanList, BanRecord, NoBan
  <2>4. budget \in [Bounded -> Nat]
    BY BudgetsAssumption DEF Init, LandInit
  <2>5. QED BY <2>2, <2>3, <2>4 DEF Init, LandInit, LandTypeOK
<1>2. CrossingsInv
  <2>1. NoCrossing \in RegionCrossing /\ NoCrossing.state = "none"
    BY DEF NoCrossing, RegionCrossing, CrossingState
  <2>2. CrossingTypeOK
    BY <2>1 DEF Init, CrossingInit, CrossingTypeOK
  <2>3. \A k \in Crossings : Told(k)
    BY <2>1 DEF Init, CrossingInit, Told, Open
  <2>4. QED BY <2>2, <2>3 DEF Init, CrossingInit, CrossingsInv, AnswersInv
<1>3. SceneInv
  <2>1. NoTicket \in SceneTicketClaims
    BY PointsAssumption DEF NoTicket, SceneTicketClaims
  <2>2. conn \in [Connections -> Connection] /\ \A c \in Connections : conn[c].stage = "none"
    BY NoConnectionTyped DEF Init
  <2>3. SceneTypeOK
    BY <1>1, <2>1, <2>2, SceneAssumption DEF Init, SceneTypeOK, LandTypeOK
  <2>4. TicketsName
    BY DEF Init, TicketsName
  <2>5. QED BY <2>2, <2>3, <2>4 DEF Init, SceneInv, Signed, Covered, Joining, AtWork
<1>4. QED BY <1>1, <1>2, <1>3 DEF EntryInv

(* A step of the World leaves land and crossings alone.                    *)
LEMMA WorldOnly ==
  ASSUME EntryInv, UNCHANGED coreVars, SceneInv',
         UNCHANGED counted \/ Succeeds("scene") \/ Succeeds("restart")
  PROVE EntryInv'
<1>1. budget' \in [Bounded -> Nat] /\ thrown' \in BOOLEAN
  BY Counted DEF EntryInv, LandTypeOK, counted
<1>2. LandTypeOK'
  BY <1>1, FilesOf, LandKeepsTypes DEF EntryInv
<1>3. thrown' = thrown
  BY DEF counted, Succeeds
<1>4. CrossingsInv'
  BY <1>3, FilesOf, CrossingsUntouched DEF EntryInv
<1>5. QED BY <1>2, <1>4 DEF EntryInv

LEMMA CoreKept ==
  ASSUME EntryInv, CoreChange
  PROVE EntryInv'
<1>1. CASE LandChange /\ Witness
           /\ UNCHANGED <<crossingVars, tickets, lapsedTickets, present, worldParcels, worldBans, used,
                          objects, terrain, admitted>>
  <2>0. lapsedBans \subseteq lapsedBans'
    BY <1>1 DEF LandChange, CreateParcel, UpdatePolicy, SetAccess, RemoveAccess, Ban, Unban, LapseBan, CreateEstate,
                AddManager, RemoveManager, AttachRegion, UpdateRegionPolicy, Regroup, ParcelRequest, BanRequest,
                EstateRequest
  <2>1. LandTypeOK' /\ SceneInv'
    BY <1>1, <2>0, LandChangeTyped, LandChangeSeen DEF EntryInv
  <2>2. thrown' = thrown \/ thrown' = TRUE
    BY <1>1 DEF LandChange, CreateParcel, UpdatePolicy, SetAccess, RemoveAccess, Ban, Unban, LapseBan, CreateEstate,
                AddManager, RemoveManager, AttachRegion, UpdateRegionPolicy, Regroup, ParcelRequest, BanRequest,
                EstateRequest, Succeeds, Throws, counted
  <2>3. CrossingsInv'
    BY <1>1, <2>2, CrossingsUntouched DEF EntryInv
  <2>4. QED BY <2>1, <2>3 DEF EntryInv
<1>2. CASE CrossingChange /\ UNCHANGED <<tickets, lapsedTickets, present, worldVars>>
  <2>1. LandTypeOK' /\ UNCHANGED landVars
    BY <1>2, CrossingChangeApart DEF EntryInv
  <2>2. SceneInv'
    BY <1>2, <2>1, FilesOf, CoreSceneKept DEF EntryInv, SceneInv, SceneTypeOK
  <2>3. CrossingsInv'
    BY <1>2, CrossingChangeKept DEF EntryInv
  <2>4. QED BY <2>1, <2>2, <2>3 DEF EntryInv
<1>3. QED BY <1>1, <1>2 DEF CoreChange

LEMMA TicketsKept ==
  ASSUME EntryInv, NEW u \in Users, NEW r \in Regions, NEW t \in Tickets,
         (\E spot \in Spots : ViewerSession(u, r, spot[1], spot[2], t)) \/ (\E k \in Crossings : Handoff(u, r, t, k))
  PROVE EntryInv'
<1>1. CASE \E spot \in Spots : ViewerSession(u, r, spot[1], spot[2], t)
  <2>1. PICK spot \in Spots : ViewerSession(u, r, spot[1], spot[2], t)
    BY <1>1
  <2>2. spot[1] \in Points /\ spot[2] \in BOOLEAN
    BY SceneAssumption
  <2>3. /\ Issue(t, u, r, spot[1], spot[2]) /\ Succeeds("ticket")
        /\ UNCHANGED <<landVars, crossingVars, lapsedTickets, present, worldVars>>
    BY <2>1 DEF ViewerSession
  <2>4. SceneInv'
    BY <2>2, <2>3, FilesOf, IssueKept DEF EntryInv
  <2>5. LandTypeOK'
    BY <2>3, Counted, LandKeepsTypes DEF EntryInv
  <2>6. CrossingsInv'
    BY <2>3, CrossingsUntouched DEF EntryInv, Succeeds
  <2>7. QED BY <2>4, <2>5, <2>6 DEF EntryInv
<1>2. CASE \E k \in Crossings : Handoff(u, r, t, k)
  <2>1. PICK k \in Crossings : Handoff(u, r, t, k)
    BY <1>2
  <2>2. Prepared(u, r, k) /\ UNCHANGED <<landVars, lapsedTickets, present, worldVars>>
    BY <2>1 DEF Handoff
  <2>3. CASE Spends({"crossing", "ticket"}) /\ UNCHANGED thrown /\ WriteCrossings /\ Issue(t, u, r, Edge, TRUE)
    <3>1. SceneInv'
      BY <2>2, <2>3, FilesOf, IssueKept, PointsAssumption DEF EntryInv
    <3>2. budget' \in [Bounded -> Nat] /\ thrown' \in BOOLEAN
      BY <2>3, KindsBounded, BudgetTyped DEF EntryInv, LandTypeOK
    <3>3. LandTypeOK' /\ CrossingsInv'
      BY <2>2, <2>3, <3>2, LandKeepsTypes, PreparedKept DEF EntryInv
    <3>4. QED BY <3>1, <3>3 DEF EntryInv
  <2>4. CASE Throws("crossing") /\ UNCHANGED <<crossingsFile, tickets>>
    <3>1. SceneInv'
      BY <2>2, <2>4, FilesOf, CoreSceneKept DEF EntryInv, SceneInv, SceneTypeOK
    <3>2. LandTypeOK'
      BY <2>2, <2>4, Counted, LandKeepsTypes DEF EntryInv
    <3>3. CrossingsInv'
      BY <2>2, <2>4, PreparedKept DEF EntryInv, Throws
    <3>4. QED BY <3>1, <3>2, <3>3 DEF EntryInv
  <2>5. QED BY <2>1, <2>3, <2>4 DEF Handoff
<1>3. QED BY <1>1, <1>2

LEMMA ReportsKept ==
  ASSUME EntryInv, (\E t \in Tickets : LapseTicket(t)) \/ (\E r \in Regions : ReportPresence(r))
  PROVE EntryInv'
<1> DEFINE Reported ==
               /\ UNCHANGED <<landVars, counted, crossingVars, tickets, worldVars>>
               /\ lapsedTickets \subseteq lapsedTickets' /\ lapsedTickets' \subseteq Tickets
               /\ present' \in [Users -> Regions \cup {Nowhere}]
<1>1. Reported
  <2>1. lapsedTickets \subseteq Tickets /\ present \in [Users -> Regions \cup {Nowhere}]
    BY DEF EntryInv, SceneInv, SceneTypeOK
  <2>2. ASSUME NEW t \in Tickets, LapseTicket(t)
        PROVE Reported
    BY <2>1, <2>2 DEF LapseTicket
  <2>3. ASSUME NEW r \in Regions, ReportPresence(r)
        PROVE Reported
    BY <2>1, <2>3 DEF ReportPresence
  <2>4. QED BY <2>2, <2>3
<1>2. QED
  BY <1>1, FilesOf, CoreSceneKept, LandKeepsTypes, CrossingsUntouched DEF EntryInv, LandTypeOK, counted

LEMMA CoreRestartKept ==
  ASSUME EntryInv, CoreRestart
  PROVE EntryInv'
<1>1. /\ Succeeds("restart") /\ LandRestart /\ CrossingRestart
      /\ present' = [u \in Users |-> Nowhere]
      /\ UNCHANGED <<tickets, lapsedTickets, worldVars>>
  BY DEF CoreRestart
<1>2. LandTypeOK'
  <2>1. budget' \in [Bounded -> Nat] /\ thrown' \in BOOLEAN
    BY <1>1, Counted DEF EntryInv
  <2>2. QED BY <1>1, <2>1 DEF EntryInv, LandTypeOK, LandRestart, ReadParcels, ReadBans, ReadEstates, landFiles
<1>3. CrossingsInv'
  BY <1>1, RestartKept DEF EntryInv, Succeeds
<1>4. UNCHANGED <<parcelsFile, bansFile, lapsedBans>>
  BY <1>1 DEF LandRestart, landFiles
<1>5. present' \in [Users -> Regions \cup {Nowhere}]
  BY <1>1
<1>6. SceneInv'
  BY <1>1, <1>4, <1>5, CoreSceneKept DEF EntryInv, SceneInv, SceneTypeOK
<1>7. QED BY <1>2, <1>3, <1>6 DEF EntryInv

LEMMA ConnectionKept ==
  ASSUME EntryInv, NEW c \in Connections,
         \/ \E t \in Tickets : Present(c, t)
         \/ Consume(c) \/ ReloadLand(c) \/ CheckBan(c) \/ CheckLand(c) \/ Spawn(c) \/ Leave(c) \/ Work(c)
         \/ \E kind \in AtWork, spot \in Spots : Ask(c, kind, spot[1], spot[2])
         \/ \E o \in Objects : ObjectRequest(c, o)
  PROVE EntryInv'
<1>0. LandTypeOK /\ SceneInv
  BY DEF EntryInv
<1>1. ASSUME NEW t \in Tickets, Present(c, t)
      PROVE EntryInv'
  BY <1>0, <1>1, PresentKept, WorldOnly DEF Present, JoinStep
<1>2. ASSUME Consume(c) \/ ReloadLand(c) \/ CheckBan(c) \/ CheckLand(c) \/ Spawn(c) \/ Leave(c)
      PROVE EntryInv'
  <2>1. SceneInv'
    BY <1>0, <1>2, ConsumeKept, ReloadLandKept, CheckBanKept, CheckLandKept, SpawnKept, LeaveKept
  <2>2. UNCHANGED <<coreVars, counted>>
    BY <1>2 DEF Consume, ReloadLand, CheckBan, CheckLand, Spawn, Leave, JoinStep
  <2>3. QED BY <2>1, <2>2, WorldOnly
<1>3. ASSUME Work(c)
      PROVE EntryInv'
  BY <1>0, <1>3, WorkKept, WorldOnly DEF Work, SceneStep
<1>4. ASSUME NEW kind \in AtWork, NEW spot \in Spots, Ask(c, kind, spot[1], spot[2])
      PROVE EntryInv'
  <2>1. spot[1] \in Points /\ spot[2] \in BOOLEAN
    BY SceneAssumption
  <2>2. SceneInv'
    BY <1>0, <1>4, <2>1, AskKept
  <2>3. QED BY <1>4, <2>2, WorldOnly DEF Ask, SceneStep
<1>5. ASSUME NEW o \in Objects, ObjectRequest(c, o)
      PROVE EntryInv'
  BY <1>0, <1>5, ObjectRequestKept, WorldOnly DEF ObjectRequest, SceneStep
<1>6. QED BY <1>1, <1>2, <1>3, <1>4, <1>5

LEMMA EntryNext ==
  ASSUME EntryInv, [Next]_vars
  PROVE EntryInv'
<1>1. CASE WorldRestart
  BY <1>1, WorldRestartKept, WorldOnly DEF EntryInv, WorldRestart
<1>2. CASE UNCHANGED vars
  <2>1. UNCHANGED <<coreVars, worldVars, counted, parcelsFile, bansFile, lapsedBans>>
    BY <1>2, FilesOf DEF vars
  <2>2. SceneInv'
    BY <2>1, FilesOf, CoreSceneKept DEF EntryInv, SceneInv, SceneTypeOK
  <2>3. QED BY <2>1, <2>2, WorldOnly
<1>3. CASE Next
  BY <1>1, <1>3, CoreKept, TicketsKept, ReportsKept, CoreRestartKept, ConnectionKept DEF Next
<1>4. QED BY <1>2, <1>3

(* Files, copies of files, tickets, connections and crossings stand        *)
(* together in every state, as EntryInv says: what the files show of a     *)
(* request under way, its history has, and so has what the World has read. *)
THEOREM EntryInductive == Spec => []EntryInv
<1>1. Init => EntryInv
  BY EntryInit
<1>2. EntryInv /\ [Next]_vars => EntryInv'
  BY EntryNext
<1>3. QED BY <1>1, <1>2, PTL DEF Spec

(* The variables have their types.                                         *)
THEOREM EntryTypeOK == Spec => []TypeOK
<1>1. EntryInv => TypeOK
  BY DEF EntryInv, CrossingsInv, SceneInv, SceneTypeOK, TypeOK
<1>2. QED BY <1>1, EntryInductive, PTL

(* What the viewer was told of a crossing stands as long as no write of a  *)
(* store has thrown, in memory and in the file, whatever viewer, expiry,   *)
(* maintenance and restarts do (crossing_store.cpp).                       *)
THEOREM CrossingAnswersStand == Spec => []AnswersStand
<1>1. EntryInv => AnswersStand
  BY DEF EntryInv, CrossingsInv, AnswersInv, Told, AnswersStand
<1>2. QED BY <1>1, EntryInductive, PTL

(* A connection that moves on was at the step before: only Consume lets it *)
(* pass the cache, only Spawn and Work put it into the scene.              *)
LEMMA WhoMoves ==
  ASSUME EntryInv, [Next]_vars, NEW c \in Connections
  PROVE /\ conn[c].stage = "verified" /\ conn'[c].stage = "bansRead" => Consume(c)
        /\ conn[c].stage = "allowed" /\ conn'[c].stage = "in" => Spawn(c)
        /\ conn[c].stage \in AtWork /\ conn'[c].stage = "in" => Work(c)
<1> DEFINE Still == conn'[c].stage = conn[c].stage
           Goal == /\ conn[c].stage = "verified" /\ conn'[c].stage = "bansRead" => Consume(c)
                   /\ conn[c].stage = "allowed" /\ conn'[c].stage = "in" => Spawn(c)
                   /\ conn[c].stage \in AtWork /\ conn'[c].stage = "in" => Work(c)
<1>0. conn \in [Connections -> Connection] /\ "verified" \notin AtWork /\ "allowed" \notin AtWork /\ "in" \notin AtWork
  BY ConnectionsTyped DEF EntryInv, AtWork
<1>1. Still => Goal
  BY <1>0
<1>2. ASSUME NEW d \in Connections,
             \/ \E t \in Tickets : Present(d, t)
             \/ Consume(d) \/ ReloadLand(d) \/ CheckBan(d) \/ CheckLand(d) \/ Spawn(d) \/ Leave(d) \/ Work(d)
             \/ \E kind \in AtWork, spot \in Spots : Ask(d, kind, spot[1], spot[2])
             \/ \E o \in Objects : ObjectRequest(d, o)
      PROVE Goal
  <2>1. CASE d # c
    <3>1. \E n : conn' = [conn EXCEPT ![d] = n]
      BY <1>0, <1>2, ZenonT(60) DEF Present, Consume, ReloadLand, CheckBan, CheckLand, Spawn,
                               Leave, Work, Ask, ObjectRequest, Goes, Ends, IsIn
    <3>2. QED BY <1>0, <1>1, <2>1, <3>1
  <2>2. CASE d = c
    <3>1. conn[c] \in Connection
      BY <1>0
    <3>2. ASSUME NEW t \in Tickets, Present(c, t)
          PROVE Goal
      BY <1>0, <3>2 DEF Present, AtWork
    <3>3. ASSUME ReloadLand(c) \/ \E kind \in AtWork, spot \in Spots : Ask(c, kind, spot[1], spot[2])
          PROVE Goal
      BY <1>0, <3>3 DEF ReloadLand, Ask, Goes, AtWork
    <3>4. ASSUME Leave(c) \/ \E o \in Objects : ObjectRequest(c, o)
          PROVE Goal
      BY <1>0, <1>1, <3>4, NoConnectionTyped DEF Leave, Ends, ObjectRequest
    <3>5. ASSUME Consume(c)
          PROVE Goal
      BY <1>0, <3>5 DEF Consume
    <3>6. ASSUME CheckBan(c) \/ CheckLand(c)
          PROVE Goal
      BY <1>0, <3>6, NoConnectionTyped DEF CheckBan, CheckLand, Goes, Ends, AtWork
    <3>9. ASSUME Spawn(c)
          PROVE Goal
      BY <1>0, <3>9 DEF Spawn
    <3>7. ASSUME Work(c)
          PROVE Goal
      BY <1>0, <3>7 DEF Work
    <3>8. QED BY <1>2, <2>2, <3>2, <3>3, <3>4, <3>5, <3>6, <3>7, <3>9
  <2>3. QED BY <2>1, <2>2
<1>3. CASE WorldRestart
  BY <1>0, <1>3, NoConnectionTyped DEF WorldRestart
<1>4. CASE LandChange /\ Witness
  <2>1. Still
    BY <1>0, <1>4 DEF Witness, Connection
  <2>2. QED BY <1>1, <2>1
<1>5. CASE UNCHANGED conn
  BY <1>1, <1>5
<1>6. CASE \/ CrossingChange /\ UNCHANGED <<tickets, lapsedTickets, present, worldVars>>
           \/ \E u \in Users, r \in Regions, t \in Tickets :
                 \/ \E spot \in Spots : ViewerSession(u, r, spot[1], spot[2], t)
                 \/ \E k \in Crossings : Handoff(u, r, t, k)
           \/ \E t \in Tickets : LapseTicket(t)
           \/ \E r \in Regions : ReportPresence(r)
           \/ CoreRestart
           \/ UNCHANGED vars
  <2>1. UNCHANGED conn
    BY <1>6 DEF ViewerSession, Handoff, LapseTicket, ReportPresence, CoreRestart, vars, worldVars
  <2>2. QED BY <1>5, <2>1
<1>7. QED BY <1>2, <1>3, <1>4, <1>6 DEF Next, CoreChange

(* What the Core has written reaches the scene: nobody appears, builds or  *)
(* raises land against bans and parcels that the files have shown all the  *)
(* time since the ticket was shown or the request began, however many      *)
(* threads replace the copies of the stores (scene_server.cpp:297).        *)
(* Where is the place of the avatar or object, unless its height is zero.  *)
THEOREM FilesReach == Spec => FilesReachTheScene
<1> DEFINE Entering(c) == /\ \E known \in conn[c].shown : known \subseteq lapsedBans
                          /\ conn[c].aim \in conn[c].open
                          /\ ~conn[c].ground => conn'[c].at \in conn[c].open
           Working(c) ==
               /\ <<objects, terrain>>' # <<objects, terrain>> => conn[c].aim \in conn[c].open
               /\ \A o \in Objects : objects'[o] # objects[o] /\ (conn[c].stage = "create" => ~conn[c].ground)
                       => objects'[o].at \in conn[c].open
               /\ \A r \in Regions, point \in Points :
                       <<r, point>> \in terrain' \ terrain => r = Claims(c).region /\ point \in conn[c].open
<1>1. ASSUME EntryInv, [Next]_vars, NEW c \in Connections,
             conn[c].stage = "allowed", conn'[c].stage = "in"
      PROVE Entering(c)
  <2>1. Spawn(c)
    BY <1>1, WhoMoves
  <2>2. Covered(conn[c], Claims(c), bansFile, worldBans, lapsedBans, parcelsFile, worldParcels)
    BY <1>1, ConnectionsTyped DEF EntryInv
  <2>3. conn'[c].at = Landing(c)
    BY <1>1, <2>1, ConnectionsTyped DEF Spawn, IsIn, NoConnection, EntryInv
  <2>4. QED BY <1>1, <2>2, <2>3 DEF Covered, Landing
<1>2. ASSUME EntryInv, [Next]_vars, NEW c \in Connections,
             conn[c].stage \in AtWork, conn'[c].stage = "in"
      PROVE Working(c)
  <2>1. Work(c) /\ SceneInv
    BY <1>2, WhoMoves DEF EntryInv
  <2>2. CASE UNCHANGED <<objects, terrain>>
    BY <2>2
  <2>3. CASE /\ Right(Claims(c), conn[c].stage, worldParcels, conn[c].aim)
             /\ Terraform(c) \/ \E o \in Objects : Create(c, o) \/ Move(c, o)
    <3>1. conn[c].aim \in conn[c].open
      BY <1>2, <2>1, <2>3, LandPassed
    <3>2. CASE Terraform(c)
      BY <3>1, <3>2 DEF Terraform
    <3>3. ASSUME NEW o \in Objects, Create(c, o) \/ Move(c, o)
          PROVE Working(c)
      <4>1. /\ terrain' = terrain /\ \A p \in Objects : p # o => objects'[p] = objects[p]
            /\ objects'[o].at = conn[c].aim \/ (conn[c].stage = "create" /\ objects'[o].at = Landing(c))
        <5>1. objects \in [Objects -> SceneObject]
          BY <2>1, SceneTyped
        <5>2. CASE Create(c, o)
          BY <5>1, <5>2 DEF Create
        <5>3. CASE Move(c, o)
          BY <5>1, <5>3 DEF Move, SceneObject
        <5>4. QED BY <3>3, <5>2, <5>3
      <4>2. QED BY <3>1, <4>1 DEF Landing
    <3>4. QED BY <2>3, <3>2, <3>3
  <2>4. QED BY <2>1, <2>2, <2>3 DEF Work
<1>3. EntryInv /\ [Next]_vars =>
        [\A c \in Connections :
           /\ conn[c].stage = "allowed" /\ conn'[c].stage = "in" => Entering(c)
           /\ conn[c].stage \in AtWork /\ conn'[c].stage = "in" => Working(c)]_vars
  BY <1>1, <1>2
<1>4. QED BY <1>3, EntryInductive, PTL DEF Spec, FilesReachTheScene

(* A ticket lets one connection into the World until it expires or the     *)
(* World restarts, however many show it at the same time                   *)
(* (docs/SCENE-PROTOCOL-v0.md:7).                                          *)
THEOREM TicketsLetInOnce == Spec => TicketLetsInOnce
<1>1. ASSUME EntryInv, [Next]_vars, NEW c \in Connections,
             conn[c].stage = "verified", conn'[c].stage = "bansRead", conn[c].ticket \notin lapsedTickets
      PROVE conn[c].ticket \notin admitted
  <2>1. Consume(c)
    BY <1>1, WhoMoves
  <2>2. conn[c].ticket \notin used \ lapsedTickets
    BY <1>1, <2>1, NoConnectionTyped, ConnectionsTyped DEF Consume, Ends, EntryInv
  <2>3. QED BY <1>1, <2>2, SceneTyped DEF EntryInv
<1>2. EntryInv /\ [Next]_vars =>
        [\A c \in Connections :
           conn[c].stage = "verified" /\ conn'[c].stage = "bansRead" /\ conn[c].ticket \notin lapsedTickets
               => conn[c].ticket \notin admitted]_vars
  BY <1>1
<1>3. QED BY <1>2, EntryInductive, PTL DEF Spec, TicketLetsInOnce
=============================================================================
