-------------------------- MODULE FederationProofs --------------------------
(***************************************************************************)
(* The invariants of Federation hold for every set of users, logins,       *)
(* peers, keys, grants, travel tokens and foreign sessions, for whatever   *)
(* an earlier run left in the identity file and for every budget.          *)
(***************************************************************************)
EXTENDS Federation, TLAPS

(* Login sessions: what was logged out was drawn, so its token is never    *)
(* drawn again.                                                            *)
SessionsInv ==
    /\ {sessions, sessionsFile} \subseteq [Logins -> Users \cup {Nobody}]
    /\ lapsedLogins \subseteq Logins /\ held \subseteq Logins /\ drawn \subseteq Users \cup Logins
    /\ held \subseteq drawn /\ revoked \cap Logins \subseteq drawn
    /\ "sessions" \notin thrown => \A k \in revoked \cap Logins : Nobody = sessions[k] /\ Nobody = sessionsFile[k]

RolesInv ==
    /\ {roles, rolesFile} \subseteq [Users -> Role]
    /\ "roles" \notin thrown => \A u \in revoked \cap Users : "none" = roles[u] /\ "none" = rolesFile[u]

(* Grants: a revoked one is known to be revoked or its time is over, so    *)
(* its identifier is not granted again.                                    *)
GrantsInv ==
    /\ {grants, grantsFile} \subseteq [Grants -> FederationServiceGrant]
    /\ lapsedTravel \subseteq Travels \cup Grants
    /\ \A g \in Grants, table \in {grants, grantsFile} : table[g].state # "none" => table[g].subject \in Users
    /\ "grants" \notin thrown =>
           /\ grantsFile = grants
           /\ \A g \in revoked \cap Grants : /\ grants[g].state # "live"
                                             /\ grants[g] # NoGrant \/ g \in lapsedTravel

VisitsInv ==
    /\ {visits, visitsFile} \subseteq [Visits -> ForeignSession]
    /\ "visits" \notin thrown =>
           /\ visitsFile = visits
           /\ \A v \in revoked \cap Visits : visits[v].state \notin {"none", "active"}

(* Foreign sessions: of this run there is one for a travel token only when *)
(* its nonce is remembered or its time is over.                            *)
VisitsSound(table) ==
    /\ \A v \in Visits : /\ table[v].state = "none" <=> table[v].travel = Nobody
                         /\ table[v].run <= run
    /\ \A v, w \in Visits :
           v # w /\ table[v].state # "none" /\ table[v].travel = table[w].travel =>
               /\ table[v].run # table[w].run
               /\ ~(table[v].state = "active" /\ table[w].state = "active")

OpenedNow(t) == \E v \in Visits : visits[v].travel = t /\ visits[v].run = run

TravelInv ==
    /\ VisitsSound(visits) /\ VisitsSound(visitsFile)
    /\ run \in Nat /\ consumed \subseteq Travels
    /\ request \in [stage: {"idle", "verified", "consumed", "created"}, travel: Travels \cup {Nobody},
                    visit: Visits \cup {Nobody}]
    /\ \A t \in Travels : OpenedNow(t) => t \in consumed \cup lapsedTravel
    /\ request.stage # "idle" => request.travel \in Travels
    /\ request.stage = "consumed" => /\ request.travel \in consumed \cup lapsedTravel
                                     /\ request.travel \in lapsedTravel \/ ~OpenedNow(request.travel)
    /\ request.stage = "created" => request.visit \in Visits

BaseInv ==
    /\ {identities, identitiesFile} \subseteq [Users -> Names \cup {NoName}]
    /\ {trust, trustFile} \subseteq [Peers -> FederationPeer]
    /\ avatars \subseteq Users
    /\ budget \in [Bounded -> Nat]

FederationInv == SessionsInv /\ RolesInv /\ GrantsInv /\ VisitsInv /\ TravelInv /\ BaseInv

----------------------------------------------------------------------------
(* Parts a step leaves alone.                                              *)
LEMMA CurrentTyped ==
  ASSUME NEW table \in [Logins -> Users \cup {Nobody}]
  PROVE /\ Current(table) \in [Logins -> Users \cup {Nobody}]
        /\ \A k \in Logins : Current(table)[k] = Nobody \/ Current(table)[k] = table[k]
BY DEF Current

LEMMA SpendsTyped ==
  ASSUME budget \in [Bounded -> Nat], NEW kinds \in SUBSET Bounded, Spends(kinds)
  PROVE budget' \in [Bounded -> Nat]
<1>1. \A k \in Bounded : (IF k \in kinds THEN budget[k] - 1 ELSE budget[k]) \in Nat
  BY DEF Spends
<1>2. QED BY <1>1 DEF Spends

(* Sessions: only those whose time is over are dropped.                    *)
SessionsDrop ==
    /\ sessions' = sessions \/ sessions' = Current(sessions)
    /\ sessionsFile' = sessionsFile
    /\ lapsedLogins' = lapsedLogins /\ held' = held /\ drawn' = drawn

LEMMA SessionsKept ==
  ASSUME SessionsInv, SessionsDrop, revoked' \cap Logins \subseteq revoked, thrown \subseteq thrown'
  PROVE SessionsInv'
<1>1. /\ sessions' \in [Logins -> Users \cup {Nobody}]
      /\ \A k \in Logins : sessions'[k] = Nobody \/ sessions'[k] = sessions[k]
  BY CurrentTyped DEF SessionsInv, SessionsDrop
<1>2. QED BY <1>1 DEF SessionsInv, SessionsDrop

LEMMA RolesKept ==
  ASSUME RolesInv, UNCHANGED <<roles, rolesFile>>,
         revoked' \cap Users \subseteq revoked, thrown \subseteq thrown'
  PROVE RolesInv'
BY DEF RolesInv

LEMMA GrantsKept ==
  ASSUME GrantsInv, UNCHANGED <<grants, grantsFile>>, lapsedTravel \subseteq lapsedTravel',
         lapsedTravel' \subseteq Travels \cup Grants,
         revoked' \cap Grants \subseteq revoked, thrown \subseteq thrown'
  PROVE GrantsInv'
BY DEF GrantsInv

LEMMA VisitsKept ==
  ASSUME VisitsInv, UNCHANGED <<visits, visitsFile>>,
         revoked' \cap Visits \subseteq revoked, thrown \subseteq thrown'
  PROVE VisitsInv'
BY DEF VisitsInv

LEMMA TravelKept ==
  ASSUME TravelInv, UNCHANGED <<visits, visitsFile, consumed, request, run>>,
         lapsedTravel \subseteq lapsedTravel'
  PROVE TravelInv'
<1>1. VisitsSound(visits)' /\ VisitsSound(visitsFile)'
  BY DEF TravelInv, VisitsSound
<1>2. QED BY <1>1 DEF TravelInv, OpenedNow

(* Requests about accounts leave travel alone.                             *)
LEMMA AccountsSide ==
  ASSUME FederationInv, UNCHANGED travelVars, SessionsInv', RolesInv',
         {identities', identitiesFile'} \subseteq [Users -> Names \cup {NoName}],
         budget' \in [Bounded -> Nat],
         revoked' \cap (Grants \cup Visits) \subseteq revoked, thrown \subseteq thrown'
  PROVE FederationInv'
<1>1. UNCHANGED <<trust, grants, visits, trustFile, grantsFile, visitsFile, consumed, lapsedTravel,
                  avatars, request, run>>
  BY DEF travelVars, travelFiles
<1>2. GrantsInv'
  BY <1>1, GrantsKept DEF FederationInv, GrantsInv
<1>3. VisitsInv'
  BY <1>1, VisitsKept DEF FederationInv
<1>4. TravelInv'
  BY <1>1, TravelKept DEF FederationInv
<1>5. BaseInv'
  BY <1>1 DEF FederationInv, BaseInv
<1>6. QED BY <1>2, <1>3, <1>4, <1>5 DEF FederationInv

(* Requests about travel drop old login sessions at most.                  *)
AccountsIdle ==
    SessionsDrop /\ UNCHANGED <<identities, identitiesFile, roles, rolesFile>>

LEMMA TravelSide ==
  ASSUME FederationInv, AccountsIdle, GrantsInv', VisitsInv', TravelInv',
         {trust', trustFile'} \subseteq [Peers -> FederationPeer], avatars' \subseteq Users,
         budget' \in [Bounded -> Nat],
         revoked' \cap (Users \cup Logins) \subseteq revoked, thrown \subseteq thrown'
  PROVE FederationInv'
<1>1. SessionsInv'
  BY SessionsKept DEF FederationInv, AccountsIdle
<1>2. RolesInv'
  BY RolesKept DEF FederationInv, AccountsIdle
<1>3. BaseInv'
  BY DEF FederationInv, BaseInv, AccountsIdle
<1>4. QED BY <1>1, <1>2, <1>3 DEF FederationInv

(* What AdminAllowed and the other looks at a session do to the sessions.  *)
LEMMA LooksDrop ==
  ASSUME AccountsStay,
         \/ \E minimum \in Role : AdminAllowed(minimum)
         \/ \E k \in Logins, u \in Users \cup {Nobody} : Asks(k, u)
         \/ UNCHANGED sessions
  PROVE AccountsIdle
BY DEF AccountsStay, AdminAllowed, Asks, AccountsIdle, SessionsDrop, accountFiles

----------------------------------------------------------------------------
(* Accounts.                                                               *)
LEMMA BudgetAfter ==
  ASSUME BaseInv,
         \/ \E kind \in Bounded : Succeeds(kind)
         \/ \E kind \in Bounded : \E store : Throws(kind, store)
         \/ Spends({"throw"})
         \/ budget' = budget
  PROVE budget' \in [Bounded -> Nat]
<1>1. budget \in [Bounded -> Nat]
  BY DEF BaseInv
<1>2. ASSUME NEW kind \in Bounded, Spends({kind})
      PROVE budget' \in [Bounded -> Nat]
  BY <1>1, <1>2, SpendsTyped
<1>3. ASSUME NEW kind \in Bounded, Spends({kind, "throw"})
      PROVE budget' \in [Bounded -> Nat]
  <2>1. {kind, "throw"} \in SUBSET Bounded
    BY DEF Bounded
  <2>2. QED BY <1>1, <1>3, <2>1, SpendsTyped
<1>4. "throw" \in Bounded
  BY DEF Bounded
<1>5. QED BY <1>1, <1>2, <1>3, <1>4 DEF Succeeds, Throws

(* A new session under a token that was never drawn.                       *)
LEMMA NewSession ==
  ASSUME SessionsInv, NEW u \in Users, NEW k \in Logins, CreateSession(u, k),
         drawn \cup {k} \subseteq drawn', drawn' \subseteq Users \cup Logins,
         lapsedLogins' = lapsedLogins
  PROVE /\ SessionsInv' /\ revoked' = revoked /\ thrown \subseteq thrown'
<1>1. k \notin drawn /\ sessions' = [Current(sessions) EXCEPT ![k] = u]
  BY DEF CreateSession
<1>2. /\ sessions' \in [Logins -> Users \cup {Nobody}]
      /\ \A j \in Logins \ {k} : sessions'[j] = Nobody \/ sessions'[j] = sessions[j]
  BY <1>1, CurrentTyped DEF SessionsInv
<1>3. /\ revoked' = revoked /\ thrown \subseteq thrown'
      /\ \/ sessionsFile' = sessions' /\ held' = held \cup {k}
         \/ sessionsFile' = sessionsFile /\ held' = held
  BY DEF CreateSession, Succeeds, Throws, WriteSessions
<1>4. \A j \in revoked \cap Logins : j # k
  BY <1>1 DEF SessionsInv
<1>5. QED BY <1>2, <1>3, <1>4 DEF SessionsInv

LEMMA LoginKeeps ==
  ASSUME FederationInv, NEW u \in Users, NEW k \in Logins, Login(u, k), UNCHANGED travelVars
  PROVE FederationInv'
<1>1. /\ CreateSession(u, k) /\ drawn' = drawn \cup {k}
      /\ UNCHANGED <<identities, identitiesFile, roles, rolesFile, lapsedLogins>>
  BY DEF Login
<1>2. SessionsInv' /\ revoked' = revoked /\ thrown \subseteq thrown'
  <2>1. drawn' \subseteq Users \cup Logins
    BY <1>1 DEF FederationInv, SessionsInv
  <2>2. QED BY <1>1, <2>1, NewSession DEF FederationInv
<1>3. RolesInv'
  BY <1>1, <1>2, RolesKept DEF FederationInv
<1>4. budget' \in [Bounded -> Nat]
  <2>1. "account" \in Bounded
    BY DEF Bounded
  <2>2. Succeeds("account") \/ Throws("account", "sessions")
    BY <1>1 DEF CreateSession
  <2>3. QED BY <2>1, <2>2, BudgetAfter DEF FederationInv
<1>5. QED BY <1>1, <1>2, <1>3, <1>4, AccountsSide DEF FederationInv, BaseInv

LEMMA RegisterKeeps ==
  ASSUME FederationInv, NEW u \in Users, NEW name \in Names, NEW k \in Logins,
         Register(u, name, k), UNCHANGED travelVars
  PROVE FederationInv'
<1>1. /\ UNCHANGED <<roles, rolesFile, lapsedLogins>>
      /\ identities' = [identities EXCEPT ![u] = name]
      /\ identitiesFile' = identitiesFile \/ identitiesFile' = identities'
  BY DEF Register, NewUser, WriteIdentities
<1>2. {identities', identitiesFile'} \subseteq [Users -> Names \cup {NoName}]
  BY <1>1 DEF FederationInv, BaseInv
<1>3. SessionsInv' /\ revoked' = revoked /\ thrown \subseteq thrown' /\ budget' \in [Bounded -> Nat]
  <2>0. "account" \in Bounded
    BY DEF Bounded
  <2>1. CASE CreateSession(u, k) /\ drawn' = drawn \cup {u, k}
    <3>1. drawn' \subseteq Users \cup Logins /\ drawn \cup {k} \subseteq drawn'
      BY <2>1 DEF FederationInv, SessionsInv
    <3>2. Succeeds("account") \/ Throws("account", "sessions")
      BY <2>1 DEF CreateSession
    <3>3. budget' \in [Bounded -> Nat]
      BY <2>0, <3>2, BudgetAfter DEF FederationInv
    <3>4. QED BY <1>1, <2>1, <3>1, <3>3, NewSession DEF FederationInv
  <2>2. CASE /\ Throws("account", "identities") /\ drawn' = drawn \cup {u}
             /\ UNCHANGED <<sessions, sessionsFile, held>>
    <3>1. revoked' = revoked /\ thrown \subseteq thrown'
      BY <2>2 DEF Throws
    <3>2. SessionsInv'
      BY <1>1, <2>2, <3>1 DEF FederationInv, SessionsInv
    <3>3. budget' \in [Bounded -> Nat]
      BY <2>0, <2>2, BudgetAfter DEF FederationInv
    <3>4. QED BY <3>1, <3>2, <3>3
  <2>3. QED BY <2>1, <2>2 DEF Register
<1>4. RolesInv'
  BY <1>1, <1>3, RolesKept DEF FederationInv
<1>5. QED BY <1>2, <1>3, <1>4, AccountsSide DEF FederationInv

LEMMA MeKeeps ==
  ASSUME FederationInv, Me, UNCHANGED travelVars
  PROVE FederationInv'
<1>1. /\ SessionsDrop /\ UNCHANGED <<identities, identitiesFile, roles, rolesFile, revoked, thrown, budget>>
  BY DEF Me, SessionsDrop, accountFiles, histories
<1>2. SessionsInv' /\ RolesInv'
  BY <1>1, SessionsKept, RolesKept DEF FederationInv
<1>3. QED BY <1>1, <1>2, AccountsSide DEF FederationInv, BaseInv

LEMMA LogoutKeeps ==
  ASSUME FederationInv, NEW k \in Logins, Logout(k), UNCHANGED travelVars
  PROVE FederationInv'
<1>1. /\ k \in held /\ sessions' = [sessions EXCEPT ![k] = Nobody]
      /\ UNCHANGED <<identities, identitiesFile, roles, rolesFile, lapsedLogins, drawn, held>>
      /\ \/ Succeeds("account") /\ sessionsFile' = sessions' /\ revoked' = revoked \cup {k}
         \/ Throws("account", "sessions") /\ sessionsFile' = sessionsFile
  BY DEF Logout, WriteSessions
<1>2. /\ thrown \subseteq thrown'
      /\ \/ sessionsFile' = sessions' /\ revoked' = revoked \cup {k}
         \/ sessionsFile' = sessionsFile /\ revoked' = revoked
  BY <1>1 DEF Succeeds, Throws
<1>3. SessionsInv'
  <2>1. /\ sessions' \in [Logins -> Users \cup {Nobody}] /\ sessions'[k] = Nobody
        /\ \A j \in Logins \ {k} : sessions'[j] = sessions[j]
    BY <1>1 DEF FederationInv, SessionsInv
  <2>2. QED BY <1>1, <1>2, <2>1 DEF FederationInv, SessionsInv
<1>4. RolesInv' /\ revoked' \cap (Grants \cup Visits) \subseteq revoked
  <2>1. k \notin Users /\ k \notin Grants \cup Visits
    BY IdentifiersAssumption
  <2>2. revoked' \cap Users \subseteq revoked
    BY <1>2, <2>1
  <2>3. QED BY <1>1, <1>2, <2>1, <2>2, RolesKept DEF FederationInv
<1>5. budget' \in [Bounded -> Nat]
  <2>1. "account" \in Bounded
    BY DEF Bounded
  <2>2. QED BY <1>1, <2>1, BudgetAfter DEF FederationInv
<1>6. QED BY <1>1, <1>2, <1>3, <1>4, <1>5, AccountsSide DEF FederationInv, BaseInv

LEMMA AccountTimeKeeps ==
  ASSUME FederationInv, AccountTime, UNCHANGED travelVars
  PROVE FederationInv'
<1>1. UNCHANGED <<identities, identitiesFile, roles, rolesFile, drawn, held, revoked, thrown, budget>>
  BY DEF AccountTime, PurgeSessions, LapseLogin, accountFiles, histories
<1>2. CASE PurgeSessions
  <2>1. sessions' = Current(sessions) /\ sessionsFile' = sessions' /\ lapsedLogins' = lapsedLogins
    BY <1>2 DEF PurgeSessions, WriteSessions
  <2>2. /\ sessions' \in [Logins -> Users \cup {Nobody}]
        /\ \A k \in Logins : sessions'[k] = Nobody \/ sessions'[k] = sessions[k]
    BY <2>1, CurrentTyped DEF FederationInv, SessionsInv
  <2>3. SessionsInv'
    BY <1>1, <2>1, <2>2 DEF FederationInv, SessionsInv
  <2>4. QED BY <1>1, <2>3, RolesKept, AccountsSide DEF FederationInv, BaseInv
<1>3. CASE \E k \in Logins : LapseLogin(k)
  <2>1. UNCHANGED <<sessions, sessionsFile>> /\ lapsedLogins' \subseteq Logins
    BY <1>3 DEF LapseLogin, accountFiles, FederationInv, SessionsInv
  <2>2. SessionsInv'
    BY <1>1, <2>1 DEF FederationInv, SessionsInv
  <2>3. QED BY <1>1, <2>2, RolesKept, AccountsSide DEF FederationInv, BaseInv
<1>4. QED BY <1>2, <1>3 DEF AccountTime

LEMMA RoleRequestKeeps ==
  ASSUME FederationInv, UNCHANGED travelVars, NEW u \in Users, NEW role \in Role,
         roles' = [roles EXCEPT ![u] = role],
         IF role = "none" THEN RoleRequest(revoked' = revoked \cup {u})
                          ELSE RoleRequest(revoked' = revoked \ {u})
  PROVE FederationInv'
<1>1. /\ AdminAllowed("administrator")
      /\ UNCHANGED <<identities, identitiesFile, sessionsFile, lapsedLogins, drawn, held>>
      /\ \/ /\ Succeeds("account") /\ rolesFile' = roles'
            /\ revoked' = IF role = "none" THEN revoked \cup {u} ELSE revoked \ {u}
         \/ Throws("account", "roles") /\ rolesFile' = rolesFile
  BY DEF RoleRequest, WriteRoles
<1>2. /\ thrown \subseteq thrown'
      /\ \/ rolesFile' = roles' /\ revoked' = IF role = "none" THEN revoked \cup {u} ELSE revoked \ {u}
         \/ rolesFile' = rolesFile /\ revoked' = revoked /\ "roles" \in thrown'
  BY <1>1 DEF Succeeds, Throws
<1>3. RolesInv'
  <2>1. /\ roles' \in [Users -> Role] /\ roles'[u] = role
        /\ \A w \in Users \ {u} : roles'[w] = roles[w]
    BY DEF FederationInv, RolesInv
  <2>2. QED BY <1>2, <2>1 DEF FederationInv, RolesInv
<1>4. /\ revoked' \cap Logins \subseteq revoked
      /\ revoked' \cap (Grants \cup Visits) \subseteq revoked
  BY <1>2, IdentifiersAssumption
<1>5. SessionsDrop
  BY <1>1 DEF AdminAllowed, Asks, SessionsDrop
<1>6. SessionsInv'
  BY <1>2, <1>4, <1>5, SessionsKept DEF FederationInv
<1>7. budget' \in [Bounded -> Nat]
  <2>1. "account" \in Bounded
    BY DEF Bounded
  <2>2. QED BY <1>1, <2>1, BudgetAfter DEF FederationInv
<1>8. QED BY <1>1, <1>2, <1>3, <1>4, <1>6, <1>7, AccountsSide DEF FederationInv, BaseInv

LEMMA AccountRequestKeeps ==
  ASSUME FederationInv, AccountRequest, UNCHANGED travelVars
  PROVE FederationInv'
<1>1. CASE \E u \in Users : RevokeRole(u) \/ \E role \in Role \ {"none"} : GrantRole(u, role)
  <2>1. "none" \in Role
    BY DEF Role
  <2>2. QED BY <1>1, <2>1, RoleRequestKeeps DEF RevokeRole, GrantRole
<1>2. QED BY <1>1, LoginKeeps, RegisterKeeps, LogoutKeeps, MeKeeps DEF AccountRequest

----------------------------------------------------------------------------
(* Trust and grants.                                                       *)
LEMMA FoundTyped ==
  ASSUME FederationInv
  PROVE /\ trust \in [Peers -> FederationPeer] /\ trustFile \in [Peers -> FederationPeer]
        /\ avatars \subseteq Users /\ budget \in [Bounded -> Nat]
BY DEF FederationInv, BaseInv

LEMMA TravelKinds == {"account", "travel", "restart"} \subseteq Bounded /\ {"operator", "administrator"} \subseteq Role
BY DEF Bounded, Role

LEMMA TrustPeerKeeps ==
  ASSUME FederationInv, NEW p \in Peers, NEW key \in Keys, TrustPeer(p, key)
  PROVE FederationInv'
<1>1. /\ AdminAllowed("administrator") /\ AccountsStay
      /\ trust' = [trust EXCEPT ![p] = [state |-> "trusted", key |-> key]]
      /\ UNCHANGED <<grants, grantsFile, lapsedTravel, avatars, run, visits, visitsFile, consumed, request>>
      /\ \/ Succeeds("travel") /\ trustFile' = trust' /\ revoked' = revoked
         \/ Throws("travel", "trust") /\ trustFile' = trustFile
  BY DEF TrustPeer, Pins, WriteTrust, Visitless
<1>2. revoked' = revoked /\ thrown \subseteq thrown' /\ {trustFile'} \subseteq {trustFile, trust'}
  BY <1>1 DEF Succeeds, Throws
<1>3. [state |-> "trusted", key |-> key] \in FederationPeer
  BY DEF FederationPeer
<1>4. trust' \in [Peers -> FederationPeer] /\ trustFile' \in [Peers -> FederationPeer]
  BY <1>1, <1>2, <1>3, FoundTyped
<1>5. budget' \in [Bounded -> Nat]
  BY <1>1, TravelKinds, BudgetAfter DEF FederationInv
<1>6. AccountsIdle
  BY <1>1, TravelKinds, LooksDrop
<1>7. GrantsInv' /\ VisitsInv' /\ TravelInv'
  <2>1. lapsedTravel' \subseteq Travels \cup Grants
    BY <1>1 DEF FederationInv, GrantsInv
  <2>2. QED BY <1>1, <1>2, <2>1, GrantsKept, VisitsKept, TravelKept DEF FederationInv
<1>8. QED BY <1>1, <1>2, <1>4, <1>5, <1>6, <1>7, FoundTyped, TravelSide

(* The grants for a peer are revoked, in memory at least.                  *)
GrantsFall(p) ==
    /\ grants' = [g \in Grants |-> IF g \in GrantsOf(p) THEN [grants[g] EXCEPT !.state = "revoked"] ELSE grants[g]]
    /\ \/ grantsFile' = grants'
       \/ grantsFile' = grantsFile /\ (GrantsOf(p) = {} \/ "grants" \in thrown')

LEMMA GrantsFallKeeps ==
  ASSUME GrantsInv, NEW p \in Peers, GrantsFall(p), lapsedTravel' = lapsedTravel, thrown \subseteq thrown',
         revoked' \cap Grants \subseteq revoked \cup {g \in Grants : grants[g].audience = p}
  PROVE GrantsInv'
<1>1. grants \in [Grants -> FederationServiceGrant]
  BY DEF GrantsInv
<1>2. \A g \in Grants : /\ grants'[g] \in FederationServiceGrant
                        /\ grants'[g].audience = grants[g].audience /\ grants'[g].subject = grants[g].subject
                        /\ grants'[g].state = IF g \in GrantsOf(p) THEN "revoked" ELSE grants[g].state
                        /\ g \notin GrantsOf(p) => grants'[g] = grants[g]
  <2>1. TAKE g \in Grants
  <2>2. grants[g] \in FederationServiceGrant
    BY <1>1
  <2>3. grants'[g] = IF g \in GrantsOf(p) THEN [grants[g] EXCEPT !.state = "revoked"] ELSE grants[g]
    BY DEF GrantsFall
  <2>4. QED BY <2>2, <2>3 DEF FederationServiceGrant
<1>3. grants' \in [Grants -> FederationServiceGrant]
  BY <1>2 DEF GrantsFall
<1>4. GrantsOf(p) = {} => grants' = grants
  BY <1>1, <1>2, <1>3
<1>5. \A g \in Grants : g \in GrantsOf(p) <=> grants[g].state = "live" /\ grants[g].audience = p
  BY DEF GrantsOf
<1>6. p # Nobody
  BY IdentifiersAssumption
<1>7. /\ grantsFile' \in [Grants -> FederationServiceGrant]
      /\ "grants" \notin thrown' => grantsFile' = grants' /\ "grants" \notin thrown
  BY <1>3, <1>4 DEF GrantsInv, GrantsFall
<1>8. \A g \in Grants, table \in {grants', grantsFile'} : table[g].state # "none" => table[g].subject \in Users
  <2>1. ASSUME NEW g \in Grants, grants'[g].state # "none"
        PROVE grants'[g].subject \in Users
    <3>1. grants[g].state # "none"
      BY <1>2, <1>5, <2>1
    <3>2. QED BY <1>2, <3>1 DEF GrantsInv
  <2>2. ASSUME NEW g \in Grants, grantsFile'[g].state # "none"
        PROVE grantsFile'[g].subject \in Users
    <3>1. CASE grantsFile' = grants'
      BY <2>1, <2>2, <3>1
    <3>2. CASE grantsFile' = grantsFile
      BY <2>2, <3>2 DEF GrantsInv
    <3>3. QED BY <3>1, <3>2 DEF GrantsFall
  <2>3. QED BY <2>1, <2>2
<1>9. ASSUME "grants" \notin thrown', NEW g \in revoked' \cap Grants
      PROVE grants'[g].state # "live" /\ (grants'[g] # NoGrant \/ g \in lapsedTravel')
  <2>1. CASE grants[g].audience = p
    BY <1>2, <1>5, <1>6, <2>1 DEF NoGrant
  <2>2. CASE grants[g].audience # p
    BY <1>2, <1>5, <1>7, <1>9, <2>2 DEF GrantsInv
  <2>3. QED BY <2>1, <2>2
<1>10. lapsedTravel' \subseteq Travels \cup Grants
  BY DEF GrantsInv
<1>11. QED BY <1>3, <1>7, <1>8, <1>9, <1>10 DEF GrantsInv

(* Foreign sessions come to an end; what is new in the history has ended.  *)
VisitsFall(which, state) ==
    /\ which \subseteq {v \in Visits : visits[v].state = "active"}
    /\ state \in {"logged_out", "expired"}
    /\ visits' = Ended(visits, which, state)
    /\ \/ visitsFile' = visits'
       \/ visitsFile' = visitsFile /\ (which = {} \/ "visits" \in thrown')

LEMMA EndedFacts ==
  ASSUME VisitsInv, NEW which, NEW state, VisitsFall(which, state)
  PROVE /\ visits' \in [Visits -> ForeignSession] /\ visitsFile' \in [Visits -> ForeignSession]
        /\ \A v \in Visits : /\ visits'[v].travel = visits[v].travel /\ visits'[v].run = visits[v].run
                             /\ visits'[v].state = IF v \in which THEN state ELSE visits[v].state
        /\ which = {} => visits' = visits
<1>1. visits \in [Visits -> ForeignSession]
  BY DEF VisitsInv
<1>2. \A v \in Visits : /\ visits'[v] \in ForeignSession
                        /\ visits'[v].travel = visits[v].travel /\ visits'[v].run = visits[v].run
                        /\ visits'[v].state = IF v \in which THEN state ELSE visits[v].state
                        /\ v \notin which => visits'[v] = visits[v]
  <2>1. TAKE v \in Visits
  <2>2. visits[v] \in ForeignSession
    BY <1>1
  <2>3. visits'[v] = IF v \in which THEN [visits[v] EXCEPT !.state = state] ELSE visits[v]
    BY DEF VisitsFall, Ended
  <2>4. state \in {"logged_out", "expired"}
    BY DEF VisitsFall
  <2>5. QED BY <2>2, <2>3, <2>4 DEF ForeignSession
<1>3. visits' \in [Visits -> ForeignSession]
  BY <1>2 DEF VisitsFall, Ended
<1>4. QED BY <1>1, <1>2, <1>3 DEF VisitsInv, VisitsFall

LEMMA VisitsFallKeeps ==
  ASSUME VisitsInv, NEW which, NEW state, VisitsFall(which, state), thrown \subseteq thrown',
         \A v \in revoked' \cap Visits : v \in revoked \/ (visits[v].state # "none" /\ (visits[v].state = "active" => v \in which))
  PROVE VisitsInv'
<1>1. "visits" \notin thrown' => visitsFile' = visits' /\ "visits" \notin thrown
  BY EndedFacts DEF VisitsInv, VisitsFall
<1>2. ASSUME "visits" \notin thrown', NEW v \in revoked' \cap Visits
      PROVE visits'[v].state \notin {"none", "active"}
  BY <1>1, <1>2, EndedFacts DEF VisitsInv, VisitsFall
<1>3. QED BY <1>1, <1>2, EndedFacts DEF VisitsInv

LEMMA TravelFallKeeps ==
  ASSUME TravelInv, VisitsInv, NEW which, NEW state, VisitsFall(which, state),
         UNCHANGED <<consumed, lapsedTravel, run>>, request' = request \/ request' = Idle
  PROVE TravelInv'
<1>1. \A v \in Visits : /\ visits'[v].travel = visits[v].travel /\ visits'[v].run = visits[v].run
                        /\ visits'[v].state = IF v \in which THEN state ELSE visits[v].state
  BY EndedFacts
<1>2. \A v \in Visits : /\ visits'[v].state = "none" <=> visits[v].state = "none"
                        /\ visits'[v].state = "active" => visits[v].state = "active"
  BY <1>1 DEF VisitsFall
<1>3. VisitsSound(visits)'
  BY <1>1, <1>2 DEF TravelInv, VisitsSound
<1>4. VisitsSound(visitsFile)'
  <2>1. CASE visitsFile' = visits'
    BY <1>3, <2>1 DEF VisitsSound
  <2>2. CASE visitsFile' = visitsFile
    BY <2>2 DEF TravelInv, VisitsSound
  <2>3. QED BY <2>1, <2>2 DEF VisitsFall
<1>5. \A t : OpenedNow(t)' <=> OpenedNow(t)
  BY <1>1 DEF OpenedNow
<1>6. Idle \in [stage: {"idle", "verified", "consumed", "created"}, travel: Travels \cup {Nobody},
                visit: Visits \cup {Nobody}] /\ Idle.stage = "idle"
  BY DEF Idle
<1>7. QED BY <1>3, <1>4, <1>5, <1>6 DEF TravelInv

LEMMA RevokePeerKeeps ==
  ASSUME FederationInv, NEW p \in Peers, RevokePeer(p)
  PROVE FederationInv'
<1>1. /\ AdminAllowed("administrator") /\ AccountsStay
      /\ trust' = [trust EXCEPT ![p].state = "revoked"]
      /\ UNCHANGED <<lapsedTravel, consumed, avatars, request, run>>
  BY DEF RevokePeer, TrustEnds
<1>2. /\ trust' \in [Peers -> FederationPeer] /\ trustFile' \in [Peers -> FederationPeer]
  <2>1. trust[p] \in FederationPeer
    BY FoundTyped
  <2>2. [trust[p] EXCEPT !.state = "revoked"] \in FederationPeer
    BY <2>1 DEF FederationPeer
  <2>3. trust' \in [Peers -> FederationPeer]
    BY <1>1, <2>2, FoundTyped
  <2>4. trustFile' = trustFile \/ trustFile' = trust'
    BY DEF RevokePeer, WriteTrust, travelFiles
  <2>5. QED BY <2>3, <2>4, FoundTyped
<1>3. (\E store : Throws("travel", store)) \/ Succeeds("travel")
  BY DEF RevokePeer
<1>4. budget' \in [Bounded -> Nat] /\ thrown \subseteq thrown'
  <2>1. budget' \in [Bounded -> Nat]
    BY <1>3, TravelKinds, BudgetAfter DEF FederationInv
  <2>2. QED BY <1>3, <2>1 DEF Succeeds, Throws
<1>5. AccountsIdle
  BY <1>1, TravelKinds, LooksDrop
<1>6. \/ /\ UNCHANGED <<grants, grantsFile, visits, visitsFile>> /\ revoked' = revoked
      \/ /\ GrantsFall(p) /\ UNCHANGED <<visits, visitsFile>> /\ revoked' = revoked
      \/ /\ GrantsFall(p) /\ VisitsFall(VisitsOf(p), "logged_out")
         /\ \/ revoked' = revoked
            \/ revoked' = revoked \cup {g \in Grants : grants[g].audience = p}
                                  \cup {v \in Visits : visits[v].state # "none" /\ Issuer(visits[v].travel) = p}
  <2>1. GrantsGo(p) => GrantsFall(p)
    BY DEF GrantsGo, GrantsFall, WriteGrants
  <2>2. VisitsOf(p) \subseteq {v \in Visits : visits[v].state = "active"}
    BY DEF VisitsOf
  <2>3. ASSUME GrantsGo(p), visits' = Ended(visits, VisitsOf(p), "logged_out"),
               Throws("travel", "visits"), visitsFile' = visitsFile
        PROVE GrantsFall(p) /\ VisitsFall(VisitsOf(p), "logged_out") /\ revoked' = revoked
    BY <2>1, <2>2, <2>3 DEF VisitsFall, Throws
  <2>4. VisitsEnd(p) => VisitsFall(VisitsOf(p), "logged_out")
    BY <2>2 DEF VisitsEnd, VisitsFall, WriteVisits
  <2>5. ASSUME Throws("travel", "grants"), UNCHANGED <<grantsFile, visits, visitsFile>>,
               grants' = [g \in Grants |-> IF g \in GrantsOf(p) THEN [grants[g] EXCEPT !.state = "revoked"] ELSE grants[g]]
        PROVE GrantsFall(p) /\ UNCHANGED <<visits, visitsFile>> /\ revoked' = revoked
    BY <2>5 DEF GrantsFall, Throws
  <2>6. ASSUME Throws("travel", "trust"), UNCHANGED <<travelFiles, grants, visits>>
        PROVE UNCHANGED <<grants, grantsFile, visits, visitsFile>> /\ revoked' = revoked
    BY <2>6 DEF Throws, travelFiles
  <2>7. QED BY <2>1, <2>3, <2>4, <2>5, <2>6 DEF RevokePeer
<1>7. /\ revoked' \cap (Users \cup Logins) \subseteq revoked
      /\ revoked' \cap Grants \subseteq revoked \cup {g \in Grants : grants[g].audience = p}
  BY <1>6, IdentifiersAssumption
<1>8. GrantsInv'
  <2>1. CASE UNCHANGED <<grants, grantsFile>> /\ revoked' = revoked
    <3>1. lapsedTravel' \subseteq Travels \cup Grants
      BY <1>1 DEF FederationInv, GrantsInv
    <3>2. QED BY <1>1, <1>4, <2>1, <3>1, GrantsKept DEF FederationInv
  <2>2. CASE GrantsFall(p)
    BY <1>1, <1>4, <1>7, <2>2, GrantsFallKeeps DEF FederationInv
  <2>3. QED BY <1>6, <2>1, <2>2
<1>9. VisitsInv' /\ TravelInv'
  <2>1. CASE UNCHANGED <<visits, visitsFile>> /\ revoked' = revoked
    BY <1>1, <1>4, <2>1, VisitsKept, TravelKept DEF FederationInv
  <2>2. CASE /\ VisitsFall(VisitsOf(p), "logged_out")
             /\ \/ revoked' = revoked
                \/ revoked' = revoked \cup {g \in Grants : grants[g].audience = p}
                                      \cup {v \in Visits : visits[v].state # "none" /\ Issuer(visits[v].travel) = p}
    <3>1. ASSUME NEW v \in revoked' \cap Visits, v \notin revoked
          PROVE visits[v].state # "none" /\ (visits[v].state = "active" => v \in VisitsOf(p))
      BY <2>2, <3>1, IdentifiersAssumption DEF VisitsOf
    <3>2. QED BY <1>1, <1>4, <2>2, <3>1, VisitsFallKeeps, TravelFallKeeps DEF FederationInv
  <2>3. QED BY <1>6, <2>1, <2>2
<1>10. QED BY <1>1, <1>2, <1>4, <1>5, <1>7, <1>8, <1>9, FoundTyped, TravelSide

(* A grant that had not been given before.                                 *)
LEMMA IssueTravelKeeps ==
  ASSUME FederationInv, NEW k \in Logins, NEW u \in Users, NEW p \in Peers, NEW g \in Grants,
         IssueTravel(k, u, p, g)
  PROVE FederationInv'
<1>1. /\ Asks(k, u) /\ AccountsStay
      /\ grants[g] = NoGrant /\ g \notin lapsedTravel
      /\ grants' = [grants EXCEPT ![g] = [state |-> "live", audience |-> p, subject |-> u]]
      /\ \/ Succeeds("travel") /\ grantsFile' = grants' /\ revoked' = revoked
         \/ Throws("travel", "grants") /\ grantsFile' = grantsFile
      /\ UNCHANGED <<trust, trustFile, lapsedTravel, avatars, run, visits, visitsFile, consumed, request>>
  BY DEF IssueTravel, Departs, Granted, WriteGrants, Visitless
<1>2. /\ revoked' = revoked /\ thrown \subseteq thrown'
      /\ \/ grantsFile' = grants'
         \/ grantsFile' = grantsFile /\ "grants" \in thrown'
  BY <1>1 DEF Succeeds, Throws
<1>3. budget' \in [Bounded -> Nat]
  BY <1>1, TravelKinds, BudgetAfter DEF FederationInv
<1>4. AccountsIdle
  BY <1>1, LooksDrop
<1>5. GrantsInv'
  <2>1. [state |-> "live", audience |-> p, subject |-> u] \in FederationServiceGrant
    BY DEF FederationServiceGrant
  <2>2. /\ grants' \in [Grants -> FederationServiceGrant]
        /\ grants'[g].subject = u
        /\ \A h \in Grants \ {g} : grants'[h] = grants[h]
    BY <1>1, <2>1 DEF FederationInv, GrantsInv
  <2>3. \A h \in Grants : grants'[h].state # "none" => grants'[h].subject \in Users
    BY <2>2 DEF FederationInv, GrantsInv
  <2>4. \A h \in Grants : grantsFile'[h].state # "none" => grantsFile'[h].subject \in Users
    <3>1. CASE grantsFile' = grants'
      BY <2>3, <3>1
    <3>2. CASE grantsFile' = grantsFile
      BY <3>2 DEF FederationInv, GrantsInv
    <3>3. QED BY <1>2, <3>1, <3>2
  <2>5. "grants" \notin thrown' => g \notin revoked
    BY <1>1, <1>2 DEF FederationInv, GrantsInv, NoGrant
  <2>6. ASSUME "grants" \notin thrown', NEW h \in revoked' \cap Grants
        PROVE grants'[h].state # "live" /\ (grants'[h] # NoGrant \/ h \in lapsedTravel')
    BY <1>1, <1>2, <2>2, <2>5, <2>6 DEF FederationInv, GrantsInv
  <2>7. grantsFile' \in [Grants -> FederationServiceGrant] /\ lapsedTravel' \subseteq Travels \cup Grants
    BY <1>1, <1>2, <2>2 DEF FederationInv, GrantsInv
  <2>8. QED BY <1>2, <2>2, <2>3, <2>4, <2>6, <2>7 DEF GrantsInv
<1>6. VisitsInv' /\ TravelInv'
  BY <1>1, <1>2, VisitsKept, TravelKept DEF FederationInv
<1>7. QED BY <1>1, <1>2, <1>3, <1>4, <1>5, <1>6, FoundTyped, TravelSide

LEMMA FederationServiceKeeps ==
  ASSUME FederationInv, NEW g \in Grants, FederationService(g)
  PROVE FederationInv'
<1>1. /\ grants[g].state = "live"
      /\ avatars' = avatars \cup {grants[g].subject}
      /\ UNCHANGED <<accountVars, histories, trust, trustFile, grants, grantsFile, lapsedTravel, run>>
      /\ UNCHANGED <<visits, visitsFile, consumed, request>>
  BY DEF FederationService, Authorizes, Live, Visitless
<1>2. avatars' \subseteq Users
  BY <1>1, FoundTyped DEF FederationInv, GrantsInv
<1>3. AccountsIdle /\ UNCHANGED <<revoked, thrown, budget>>
  BY <1>1 DEF AccountsIdle, SessionsDrop, accountVars, accountFiles, histories
<1>4. GrantsInv' /\ VisitsInv' /\ TravelInv'
  <2>1. lapsedTravel' \subseteq Travels \cup Grants
    BY <1>1 DEF FederationInv, GrantsInv
  <2>2. QED BY <1>1, <1>3, <2>1, GrantsKept, VisitsKept, TravelKept DEF FederationInv
<1>5. QED BY <1>1, <1>2, <1>3, <1>4, FoundTyped, TravelSide

LEMMA RevokeServiceGrantKeeps ==
  ASSUME FederationInv, NEW g \in Grants, RevokeServiceGrant(g)
  PROVE FederationInv'
<1>1. /\ AdminAllowed("operator") \/ \E k \in Logins : Asks(k, grants[g].subject)
      /\ AccountsStay
      /\ grants[g].state = "live"
      /\ grants' = [grants EXCEPT ![g].state = "revoked"]
      /\ \/ Succeeds("travel") /\ grantsFile' = grants' /\ revoked' = revoked \cup {g}
         \/ Throws("travel", "grants") /\ grantsFile' = grantsFile
      /\ UNCHANGED <<trust, trustFile, lapsedTravel, avatars, run, visits, visitsFile, consumed, request>>
  BY DEF RevokeServiceGrant, WriteGrants, Visitless
<1>2. /\ thrown \subseteq thrown'
      /\ \/ grantsFile' = grants' /\ revoked' = revoked \cup {g}
         \/ grantsFile' = grantsFile /\ "grants" \in thrown' /\ revoked' = revoked
  BY <1>1 DEF Succeeds, Throws
<1>3. budget' \in [Bounded -> Nat]
  BY <1>1, TravelKinds, BudgetAfter DEF FederationInv
<1>4. AccountsIdle
  <2>1. grants[g].subject \in Users \cup {Nobody}
    BY <1>1 DEF FederationInv, GrantsInv
  <2>2. QED BY <1>1, <2>1, TravelKinds, LooksDrop
<1>5. GrantsInv'
  <2>1. grants[g] \in FederationServiceGrant
    BY DEF FederationInv, GrantsInv
  <2>2. /\ [grants[g] EXCEPT !.state = "revoked"] \in FederationServiceGrant
        /\ [grants[g] EXCEPT !.state = "revoked"].state = "revoked"
        /\ [grants[g] EXCEPT !.state = "revoked"].subject = grants[g].subject
    BY <2>1 DEF FederationServiceGrant
  <2>3. /\ grants' \in [Grants -> FederationServiceGrant]
        /\ grants'[g].state = "revoked" /\ grants'[g].subject = grants[g].subject
        /\ \A h \in Grants \ {g} : grants'[h] = grants[h]
    BY <1>1, <2>2 DEF FederationInv, GrantsInv
  <2>4. \A h \in Grants : grants'[h].state # "none" => grants'[h].subject \in Users
    <3>1. grants[g].subject \in Users
      BY <1>1 DEF FederationInv, GrantsInv
    <3>2. QED BY <2>3, <3>1 DEF FederationInv, GrantsInv
  <2>5. \A h \in Grants : grantsFile'[h].state # "none" => grantsFile'[h].subject \in Users
    <3>1. CASE grantsFile' = grants'
      BY <2>4, <3>1
    <3>2. CASE grantsFile' = grantsFile
      BY <3>2 DEF FederationInv, GrantsInv
    <3>3. QED BY <1>2, <3>1, <3>2
  <2>6. ASSUME "grants" \notin thrown', NEW h \in revoked' \cap Grants
        PROVE grants'[h].state # "live" /\ (grants'[h] # NoGrant \/ h \in lapsedTravel')
    <3>1. CASE h = g
      BY <2>3, <3>1 DEF NoGrant
    <3>2. CASE h # g
      BY <1>1, <1>2, <2>3, <2>6, <3>2 DEF FederationInv, GrantsInv
    <3>3. QED BY <3>1, <3>2
  <2>7. grantsFile' \in [Grants -> FederationServiceGrant] /\ lapsedTravel' \subseteq Travels \cup Grants
    BY <1>1, <1>2, <2>3 DEF FederationInv, GrantsInv
  <2>8. QED BY <1>2, <2>3, <2>4, <2>5, <2>6, <2>7 DEF GrantsInv
<1>6. revoked' \cap (Users \cup Logins) \subseteq revoked /\ revoked' \cap Visits \subseteq revoked
  BY <1>2, IdentifiersAssumption
<1>7. VisitsInv' /\ TravelInv'
  BY <1>1, <1>2, <1>6, VisitsKept, TravelKept DEF FederationInv
<1>8. QED BY <1>1, <1>2, <1>3, <1>4, <1>5, <1>6, <1>7, FoundTyped, TravelSide

----------------------------------------------------------------------------
(* Visitors.                                                               *)
LEMMA AcceptSide ==
  ASSUME FederationInv, AcceptStep, VisitsInv', TravelInv', budget' \in [Bounded -> Nat],
         revoked' = revoked, thrown \subseteq thrown'
  PROVE FederationInv'
<1>1. /\ AccountsIdle
      /\ UNCHANGED <<trust, trustFile, grants, grantsFile, lapsedTravel, avatars>>
  BY DEF AcceptStep, AccountsIdle, SessionsDrop, accountVars, accountFiles
<1>2. lapsedTravel' \subseteq Travels \cup Grants
  BY <1>1 DEF FederationInv, GrantsInv
<1>3. GrantsInv'
  BY <1>1, <1>2, GrantsKept DEF FederationInv
<1>4. QED BY <1>1, <1>3, FoundTyped, TravelSide

LEMMA RequestTyped ==
  /\ \A stage \in {"idle", "verified", "consumed", "created"}, t \in Travels \cup {Nobody}, v \in Visits \cup {Nobody} :
         /\ [stage |-> stage, travel |-> t, visit |-> v] \in
                [stage: {"idle", "verified", "consumed", "created"}, travel: Travels \cup {Nobody}, visit: Visits \cup {Nobody}]
         /\ [stage |-> stage, travel |-> t, visit |-> v].stage = stage
         /\ [stage |-> stage, travel |-> t, visit |-> v].travel = t
         /\ [stage |-> stage, travel |-> t, visit |-> v].visit = v
  /\ Idle.stage = "idle"
  /\ Idle \in [stage: {"idle", "verified", "consumed", "created"}, travel: Travels \cup {Nobody}, visit: Visits \cup {Nobody}]
BY DEF Idle

LEMMA AcceptTravelKeeps ==
  ASSUME FederationInv, NEW t \in Travels, AcceptTravel(t)
  PROVE FederationInv'
<1>1. /\ Succeeds("travel") /\ AcceptStep
      /\ request' = [stage |-> "verified", travel |-> t, visit |-> Nobody]
      /\ UNCHANGED <<revoked, visits, visitsFile, consumed>>
  BY DEF AcceptTravel, Goes
<1>2. UNCHANGED <<lapsedTravel, run, thrown>>
  BY <1>1 DEF AcceptStep, Succeeds
<1>3. VisitsInv'
  BY <1>1, <1>2, VisitsKept DEF FederationInv
<1>4. TravelInv'
  <2>1. VisitsSound(visits)' /\ VisitsSound(visitsFile)'
    BY <1>1, <1>2 DEF FederationInv, TravelInv, VisitsSound
  <2>2. \A s : OpenedNow(s)' <=> OpenedNow(s)
    BY <1>1, <1>2 DEF OpenedNow
  <2>3. QED BY <1>1, <1>2, <2>1, <2>2, RequestTyped DEF FederationInv, TravelInv
<1>5. budget' \in [Bounded -> Nat]
  BY <1>1, TravelKinds, BudgetAfter DEF FederationInv
<1>6. QED BY <1>1, <1>2, <1>3, <1>4, <1>5, AcceptSide

(* The nonce is used up: no session of this run stands for the token.      *)
LEMMA ConsumeKeeps ==
  ASSUME FederationInv, Consume
  PROVE FederationInv'
<1>1. /\ request.stage = "verified" /\ consumed' = consumed \cup {request.travel}
      /\ \/ request' = Idle
         \/ /\ request.travel \notin consumed
            /\ request' = [stage |-> "consumed", travel |-> request.travel, visit |-> Nobody]
      /\ UNCHANGED <<visits, visitsFile>> /\ AcceptStep
  BY DEF Consume, Goes
<1>2. UNCHANGED <<lapsedTravel, run, revoked, thrown, budget>>
  BY DEF Consume, AcceptStep, histories
<1>3. VisitsInv'
  BY <1>1, <1>2, VisitsKept DEF FederationInv
<1>4. TravelInv'
  <2>1. VisitsSound(visits)' /\ VisitsSound(visitsFile)'
    BY <1>1, <1>2 DEF FederationInv, TravelInv, VisitsSound
  <2>2. \A s : OpenedNow(s)' <=> OpenedNow(s)
    BY <1>1, <1>2 DEF OpenedNow
  <2>3. request.travel \in Travels /\ consumed' \subseteq Travels
    BY <1>1 DEF FederationInv, TravelInv
  <2>4. CASE request' = Idle
    BY <1>1, <1>2, <2>1, <2>2, <2>3, <2>4, RequestTyped DEF FederationInv, TravelInv
  <2>5. CASE /\ request.travel \notin consumed
             /\ request' = [stage |-> "consumed", travel |-> request.travel, visit |-> Nobody]
    <3>1. request'.stage = "consumed" /\ request'.travel = request.travel
      BY <2>3, <2>5, RequestTyped
    <3>2. request' \in [stage: {"idle", "verified", "consumed", "created"}, travel: Travels \cup {Nobody},
                        visit: Visits \cup {Nobody}]
      BY <2>3, <2>5, RequestTyped
    <3>3. request.travel \in lapsedTravel \/ ~OpenedNow(request.travel)
      BY <2>3, <2>5 DEF FederationInv, TravelInv
    <3>4. QED BY <1>1, <1>2, <2>1, <2>2, <2>3, <3>1, <3>2, <3>3 DEF FederationInv, TravelInv
  <2>6. QED BY <1>1, <2>4, <2>5
<1>5. QED BY <1>1, <1>2, <1>3, <1>4, AcceptSide DEF FederationInv, BaseInv

(* A new foreign session: others that stand for the token are of earlier   *)
(* runs and have ended.                                                    *)
LEMMA CreateVisitKeeps ==
  ASSUME FederationInv, NEW v \in Visits, CreateVisit(v)
  PROVE FederationInv'
<1> DEFINE t == request.travel
<1> DEFINE earlier == {w \in Visits : visits[w].state = "active" /\ visits[w].travel = t}
<1>1. request.stage = "consumed" /\ visits[v] = NoVisit /\ UNCHANGED consumed /\ AcceptStep
  BY DEF CreateVisit
<1>2. UNCHANGED <<lapsedTravel, run>>
  BY <1>1 DEF AcceptStep
<1>3. t \in Travels /\ t # Nobody /\ t \in consumed \cup lapsedTravel
  BY <1>1, IdentifiersAssumption DEF FederationInv, TravelInv
<1>4. CASE t \in lapsedTravel /\ request' = Idle /\ UNCHANGED <<visits, visitsFile, histories>>
  <2>1. UNCHANGED <<revoked, thrown, budget>>
    BY <1>4 DEF histories
  <2>2. VisitsInv'
    BY <1>4, <2>1, VisitsKept DEF FederationInv
  <2>3. VisitsSound(visits)' /\ VisitsSound(visitsFile)'
    BY <1>2, <1>4 DEF FederationInv, TravelInv, VisitsSound
  <2>4. \A s : OpenedNow(s)' <=> OpenedNow(s)
    BY <1>2, <1>4 DEF OpenedNow
  <2>5. TravelInv'
    BY <1>1, <1>2, <1>4, <2>3, <2>4, RequestTyped DEF FederationInv, TravelInv
  <2>6. QED BY <1>1, <2>1, <2>2, <2>5, AcceptSide DEF FederationInv, BaseInv
<1>5. CASE /\ t \notin lapsedTravel /\ visits' = Arrived(v, t)
           /\ \/ Goes("created", t, v) /\ WriteVisits /\ UNCHANGED histories
              \/ /\ Spends({"throw"}) /\ thrown' = thrown \cup {"visits"}
                 /\ request' = Idle /\ UNCHANGED <<visitsFile, revoked>>
  <2>1. /\ revoked' = revoked /\ thrown \subseteq thrown'
        /\ \/ visitsFile' = visits' /\ request' = [stage |-> "created", travel |-> t, visit |-> v]
           \/ visitsFile' = visitsFile /\ request' = Idle /\ "visits" \in thrown'
    BY <1>5 DEF Goes, WriteVisits, histories
  <2>2. budget' \in [Bounded -> Nat]
    BY <1>5, BudgetAfter DEF FederationInv, histories
  <2>3. visits \in [Visits -> ForeignSession] /\ run \in Nat
    BY DEF FederationInv, VisitsInv, TravelInv
  <2>4. /\ visits' \in [Visits -> ForeignSession]
        /\ visits'[v].state = "active" /\ visits'[v].travel = t /\ visits'[v].run = run
        /\ \A w \in Visits \ {v} : /\ visits'[w].travel = visits[w].travel /\ visits'[w].run = visits[w].run
                                   /\ visits'[w].state = IF w \in earlier THEN "logged_out" ELSE visits[w].state
    <3> DEFINE ended == Ended(visits, earlier, "logged_out")
    <3> DEFINE row == [state |-> "active", travel |-> t, run |-> run]
    <3>1. \A w \in Visits : /\ ended[w] \in ForeignSession
                            /\ ended[w].travel = visits[w].travel /\ ended[w].run = visits[w].run
                            /\ ended[w].state = IF w \in earlier THEN "logged_out" ELSE visits[w].state
      <4>1. TAKE w \in Visits
      <4>2. visits[w] \in ForeignSession
        BY <2>3
      <4>3. ended[w] = IF w \in earlier THEN [visits[w] EXCEPT !.state = "logged_out"] ELSE visits[w]
        BY DEF Ended
      <4> HIDE DEF earlier, ended
      <4>4. QED BY <4>2, <4>3 DEF ForeignSession
    <3>2. ended \in [Visits -> ForeignSession]
      <4>1. ended = [w \in Visits |-> ended[w]]
        BY DEF Ended
      <4> HIDE DEF ended
      <4>2. QED BY <3>1, <4>1
    <3>3. row \in ForeignSession /\ row.state = "active" /\ row.travel = t /\ row.run = run
      BY <1>3, <2>3 DEF ForeignSession
    <3>4. visits' = [ended EXCEPT ![v] = row]
      BY <1>5 DEF Arrived
    <3> HIDE DEF ended, row, earlier
    <3>5. QED BY <3>1, <3>2, <3>3, <3>4
  <2>5. visits[v].state = "none" /\ visits[v].travel = Nobody
    BY <1>1 DEF NoVisit
  <2>6. VisitsInv'
    <3>1. visitsFile' \in [Visits -> ForeignSession]
      BY <2>1, <2>4 DEF FederationInv, VisitsInv
    <3>2. ASSUME "visits" \notin thrown', NEW w \in revoked' \cap Visits
          PROVE visits'[w].state \notin {"none", "active"}
      <4>1. visits[w].state \notin {"none", "active"}
        BY <2>1, <3>2 DEF FederationInv, VisitsInv
      <4>2. w # v
        BY <2>5, <4>1
      <4> HIDE DEF earlier
      <4>3. QED BY <2>4, <4>1, <4>2
    <3>3. "visits" \notin thrown' => visitsFile' = visits'
      BY <2>1
    <3>4. QED BY <2>4, <3>1, <3>2, <3>3 DEF VisitsInv
  <2>7. ~OpenedNow(t)
    BY <1>1, <1>5 DEF FederationInv, TravelInv
  <2>8. \A w \in Visits : visits[w].travel = t => visits[w].run # run
    BY <2>7 DEF OpenedNow
  <2>9. \A w \in Visits \ {v} : /\ visits'[w].state = "none" <=> visits[w].state = "none"
                                /\ visits'[w].state = "active" => visits[w].state = "active" /\ visits[w].travel # t
    BY <2>4
  <2>10. \A w \in Visits : /\ visits[w].state = "none" <=> visits[w].travel = Nobody
                           /\ visits[w].run <= run
    BY DEF FederationInv, TravelInv, VisitsSound
  <2> HIDE DEF t, earlier
  <2>11. VisitsSound(visits)'
    <3>1. \A w \in Visits : /\ visits'[w].state = "none" <=> visits'[w].travel = Nobody
                            /\ visits'[w].run <= run'
      BY <1>2, <1>3, <2>3, <2>4, <2>9, <2>10
    <3>2. ASSUME NEW w \in Visits, NEW x \in Visits, w # x, visits'[w].state # "none", visits'[w].travel = visits'[x].travel
          PROVE visits'[w].run # visits'[x].run /\ ~(visits'[w].state = "active" /\ visits'[x].state = "active")
      <4>1. CASE w = v
        BY <2>4, <2>8, <2>9, <3>2, <4>1
      <4>2. CASE x = v
        BY <2>4, <2>8, <2>9, <3>2, <4>2
      <4>3. CASE w # v /\ x # v
        <5>1. visits[w].state # "none" /\ visits[w].travel = visits[x].travel
          BY <2>4, <2>9, <3>2, <4>3
        <5>2. visits[w].run # visits[x].run /\ ~(visits[w].state = "active" /\ visits[x].state = "active")
          BY <3>2, <5>1 DEF FederationInv, TravelInv, VisitsSound
        <5>3. QED BY <2>4, <2>9, <4>3, <5>2
      <4>4. QED BY <4>1, <4>2, <4>3
    <3>3. QED BY <3>1, <3>2 DEF VisitsSound
  <2>12. VisitsSound(visitsFile)'
    <3>1. CASE visitsFile' = visits'
      BY <2>11, <3>1 DEF VisitsSound
    <3>2. CASE visitsFile' = visitsFile
      BY <1>2, <3>2 DEF FederationInv, TravelInv, VisitsSound
    <3>3. QED BY <2>1, <3>1, <3>2
  <2>13. ASSUME NEW s \in Travels, OpenedNow(s)'
         PROVE s \in consumed' \cup lapsedTravel'
    <3>1. CASE s = t
      BY <1>1, <1>2, <1>3, <3>1
    <3>2. CASE s # t
      <4>1. OpenedNow(s)
        BY <1>2, <2>4, <2>13, <3>2 DEF OpenedNow
      <4>2. QED BY <1>1, <1>2, <4>1 DEF FederationInv, TravelInv
    <3>3. QED BY <3>1, <3>2
  <2>14. /\ request' \in [stage: {"idle", "verified", "consumed", "created"}, travel: Travels \cup {Nobody},
                          visit: Visits \cup {Nobody}]
         /\ request'.stage # "consumed"
         /\ request'.stage # "idle" => request'.travel \in Travels
         /\ request'.stage = "created" => request'.visit \in Visits
    BY <1>3, <2>1, RequestTyped
  <2>15. TravelInv'
    BY <1>1, <1>2, <2>11, <2>12, <2>13, <2>14 DEF FederationInv, TravelInv
  <2>16. QED BY <1>1, <2>1, <2>2, <2>6, <2>15, AcceptSide
<1>6. QED BY <1>4, <1>5 DEF CreateVisit

LEMMA AnswerKeeps ==
  ASSUME FederationInv, Answer
  PROVE FederationInv'
<1>1. request' = Idle /\ UNCHANGED consumed /\ AcceptStep /\ request.visit \in Visits
  BY DEF Answer, FederationInv, TravelInv
<1>2. UNCHANGED <<lapsedTravel, run>>
  BY <1>1 DEF AcceptStep
<1>3. revoked' = revoked /\ thrown \subseteq thrown' /\ (budget' = budget \/ Spends({"throw"}))
  BY DEF Answer, histories
<1>4. budget' \in [Bounded -> Nat]
  BY <1>3, BudgetAfter DEF FederationInv
<1>5. CASE UNCHANGED <<visits, visitsFile>>
  <2>1. VisitsInv'
    BY <1>3, <1>5, VisitsKept DEF FederationInv
  <2>2. VisitsSound(visits)' /\ VisitsSound(visitsFile)'
    BY <1>2, <1>5 DEF FederationInv, TravelInv, VisitsSound
  <2>3. \A s : OpenedNow(s)' <=> OpenedNow(s)
    BY <1>2, <1>5 DEF OpenedNow
  <2>4. TravelInv'
    BY <1>1, <1>2, <2>2, <2>3, RequestTyped DEF FederationInv, TravelInv
  <2>5. QED BY <1>1, <1>3, <1>4, <2>1, <2>4, AcceptSide
<1>6. CASE VisitsFall({request.visit}, "logged_out")
  <2>1. VisitsInv'
    BY <1>3, <1>6, VisitsFallKeeps DEF FederationInv
  <2>2. TravelInv'
    BY <1>1, <1>2, <1>6, TravelFallKeeps DEF FederationInv
  <2>3. QED BY <1>1, <1>3, <1>4, <2>1, <2>2, AcceptSide
<1>7. UNCHANGED <<visits, visitsFile>> \/ VisitsFall({request.visit}, "logged_out")
  <2>1. LogsOut(request.visit) => UNCHANGED <<visits, visitsFile>> \/ VisitsFall({request.visit}, "logged_out")
    BY <1>1 DEF LogsOut, WriteVisits, VisitsFall
  <2>2. ASSUME visits[request.visit].state = "active", visits' = Ended(visits, {request.visit}, "logged_out"),
               thrown' = thrown \cup {"visits"}, visitsFile' = visitsFile
        PROVE VisitsFall({request.visit}, "logged_out")
    BY <1>1, <2>2 DEF VisitsFall
  <2>3. QED BY <2>1, <2>2 DEF Answer
<1>8. QED BY <1>5, <1>6, <1>7

LEMMA LogoutVisitKeeps ==
  ASSUME FederationInv, NEW v \in Visits, LogoutVisit(v)
  PROVE FederationInv'
<1>1. /\ AdminAllowed("operator") /\ AccountsStay
      /\ visits[v].state = "active" /\ visits' = Ended(visits, {v}, "logged_out")
      /\ \/ Succeeds("travel") /\ visitsFile' = visits' /\ revoked' = revoked \cup {v}
         \/ Throws("travel", "visits") /\ visitsFile' = visitsFile
      /\ UNCHANGED <<trust, trustFile, grants, grantsFile, lapsedTravel, consumed, avatars, request, run>>
  BY DEF LogoutVisit, WriteVisits
<1>2. /\ thrown \subseteq thrown'
      /\ \/ visitsFile' = visits' /\ revoked' = revoked \cup {v}
         \/ visitsFile' = visitsFile /\ "visits" \in thrown' /\ revoked' = revoked
  BY <1>1 DEF Succeeds, Throws
<1>3. budget' \in [Bounded -> Nat]
  BY <1>1, TravelKinds, BudgetAfter DEF FederationInv
<1>4. AccountsIdle
  BY <1>1, TravelKinds, LooksDrop
<1>5. revoked' \cap (Users \cup Logins) \subseteq revoked /\ revoked' \cap Grants \subseteq revoked
  BY <1>2, IdentifiersAssumption
<1>6. VisitsFall({v}, "logged_out")
  BY <1>1, <1>2 DEF VisitsFall
<1>7. VisitsInv'
  BY <1>1, <1>2, <1>6, VisitsFallKeeps DEF FederationInv
<1>8. TravelInv'
  BY <1>1, <1>6, TravelFallKeeps DEF FederationInv
<1>9. GrantsInv'
  <2>1. lapsedTravel' \subseteq Travels \cup Grants
    BY <1>1 DEF FederationInv, GrantsInv
  <2>2. QED BY <1>1, <1>2, <1>5, <2>1, GrantsKept DEF FederationInv
<1>10. QED BY <1>1, <1>2, <1>3, <1>4, <1>5, <1>7, <1>8, <1>9, FoundTyped, TravelSide

----------------------------------------------------------------------------
(* Time, the maintenance thread and a restart.                             *)
LEMMA LapseKeeps ==
  ASSUME FederationInv, NEW x \in Travels \cup Grants, Lapse(x)
  PROVE FederationInv'
<1>1. /\ lapsedTravel' = lapsedTravel \cup {x}
      /\ UNCHANGED <<grants, grantsFile, visits, visitsFile, consumed, request, run, trust, trustFile, avatars>>
      /\ AccountsIdle /\ UNCHANGED <<revoked, thrown, budget>>
  BY DEF Lapse, travelFiles, accountVars, accountFiles, histories, AccountsIdle, SessionsDrop
<1>2. lapsedTravel' \subseteq Travels \cup Grants
  BY <1>1 DEF FederationInv, GrantsInv
<1>3. GrantsInv' /\ VisitsInv' /\ TravelInv'
  BY <1>1, <1>2, GrantsKept, VisitsKept, TravelKept DEF FederationInv
<1>4. QED BY <1>1, <1>3, FoundTyped, TravelSide

LEMMA MaintenanceKeeps ==
  ASSUME FederationInv, PurgeReplay \/ PurgeVisits \/ PurgeGrants
  PROVE FederationInv'
<1>1. /\ UNCHANGED <<lapsedTravel, request, run, trust, trustFile, avatars>>
      /\ AccountsIdle /\ UNCHANGED <<revoked, thrown, budget>>
  BY DEF PurgeReplay, PurgeVisits, PurgeGrants, MaintenanceStep, accountVars, accountFiles, histories,
         AccountsIdle, SessionsDrop
<1>2. lapsedTravel' \subseteq Travels \cup Grants
  BY <1>1 DEF FederationInv, GrantsInv
<1>3. CASE PurgeReplay
  <2>1. consumed' = consumed \ lapsedTravel /\ UNCHANGED <<grants, grantsFile, visits, visitsFile>>
    BY <1>3 DEF PurgeReplay
  <2>2. VisitsSound(visits)' /\ VisitsSound(visitsFile)'
    BY <1>1, <2>1 DEF FederationInv, TravelInv, VisitsSound
  <2>3. \A s : OpenedNow(s)' <=> OpenedNow(s)
    BY <1>1, <2>1 DEF OpenedNow
  <2>4. TravelInv'
    BY <1>1, <2>1, <2>2, <2>3 DEF FederationInv, TravelInv
  <2>5. GrantsInv' /\ VisitsInv'
    BY <1>1, <1>2, <2>1, GrantsKept, VisitsKept DEF FederationInv
  <2>6. QED BY <1>1, <2>4, <2>5, FoundTyped, TravelSide
<1>4. CASE PurgeVisits
  <2> DEFINE over == {v \in Visits : visits[v].state = "active" /\ visits[v].travel \in lapsedTravel}
  <2>1. VisitsFall(over, "expired") /\ UNCHANGED <<grants, grantsFile, consumed>>
    BY <1>4 DEF PurgeVisits, VisitsFall, WriteVisits
  <2> HIDE DEF over
  <2>2. VisitsInv'
    BY <1>1, <2>1, VisitsFallKeeps DEF FederationInv
  <2>3. TravelInv'
    BY <1>1, <2>1, TravelFallKeeps DEF FederationInv
  <2>4. GrantsInv'
    BY <1>1, <1>2, <2>1, GrantsKept DEF FederationInv
  <2>5. QED BY <1>1, <2>2, <2>3, <2>4, FoundTyped, TravelSide
<1>5. CASE PurgeGrants
  <2>1. /\ grants' = [g \in Grants |-> IF g \in lapsedTravel THEN NoGrant ELSE grants[g]]
        /\ grantsFile' = grants' /\ UNCHANGED <<visits, visitsFile, consumed>>
    BY <1>5 DEF PurgeGrants, WriteGrants
  <2>2. NoGrant \in FederationServiceGrant /\ NoGrant.state = "none"
    BY DEF NoGrant, FederationServiceGrant
  <2>3. grants' \in [Grants -> FederationServiceGrant]
    BY <2>1, <2>2 DEF FederationInv, GrantsInv
  <2>4. \A g \in Grants : grants'[g].state # "none" => grants'[g].subject \in Users
    BY <2>1, <2>2 DEF FederationInv, GrantsInv
  <2>5. ASSUME "grants" \notin thrown', NEW g \in revoked' \cap Grants
        PROVE grants'[g].state # "live" /\ (grants'[g] # NoGrant \/ g \in lapsedTravel')
    BY <1>1, <2>1, <2>2, <2>5 DEF FederationInv, GrantsInv
  <2>6. GrantsInv'
    BY <1>2, <2>1, <2>3, <2>4, <2>5 DEF GrantsInv
  <2>7. VisitsInv' /\ TravelInv'
    BY <1>1, <2>1, VisitsKept, TravelKept DEF FederationInv
  <2>8. QED BY <1>1, <2>6, <2>7, FoundTyped, TravelSide
<1>6. QED BY <1>3, <1>4, <1>5

(* The Core comes back on its files; no session is of its new run yet.     *)
LEMMA RestartKeeps ==
  ASSUME FederationInv, Restart
  PROVE FederationInv'
<1>1. /\ Succeeds("restart") /\ UNCHANGED <<revoked, thrown>>
      /\ identities' = identitiesFile /\ sessions' = Current(sessionsFile) /\ roles' = rolesFile
      /\ UNCHANGED <<identitiesFile, sessionsFile, rolesFile, lapsedLogins, drawn, held>>
      /\ trust' = trustFile /\ grants' = grantsFile /\ visits' = visitsFile
      /\ consumed' = {} /\ request' = Idle /\ run' = run + 1
      /\ UNCHANGED <<trustFile, grantsFile, visitsFile, lapsedTravel, avatars>>
  BY DEF Restart, AccountsRestart, ReadIdentities, ReadSessions, ReadRoles, ReadTrust, ReadGrants, ReadVisits,
         accountFiles, travelFiles, Succeeds
<1>2. SessionsInv'
  <2>1. /\ sessions' \in [Logins -> Users \cup {Nobody}]
        /\ \A k \in Logins : sessions'[k] = Nobody \/ sessions'[k] = sessionsFile[k]
    BY <1>1, CurrentTyped DEF FederationInv, SessionsInv
  <2>2. QED BY <1>1, <2>1 DEF FederationInv, SessionsInv
<1>3. RolesInv'
  BY <1>1 DEF FederationInv, RolesInv
<1>4. GrantsInv'
  <2>1. /\ {grants', grantsFile'} \subseteq [Grants -> FederationServiceGrant]
        /\ lapsedTravel' \subseteq Travels \cup Grants
    BY <1>1 DEF FederationInv, GrantsInv
  <2>2. \A g \in Grants, table \in {grants', grantsFile'} : table[g].state # "none" => table[g].subject \in Users
    BY <1>1 DEF FederationInv, GrantsInv
  <2>3. "grants" \notin thrown => grants' = grants
    BY <1>1 DEF FederationInv, GrantsInv
  <2>4. ASSUME "grants" \notin thrown', NEW g \in revoked' \cap Grants
        PROVE grants'[g].state # "live" /\ (grants'[g] # NoGrant \/ g \in lapsedTravel')
    BY <1>1, <2>3, <2>4 DEF FederationInv, GrantsInv
  <2>5. QED BY <1>1, <2>1, <2>2, <2>4 DEF GrantsInv
<1>5. VisitsInv'
  BY <1>1 DEF FederationInv, VisitsInv
<1>6. TravelInv'
  <2>1. run \in Nat /\ run' \in Nat
    BY <1>1 DEF FederationInv, TravelInv
  <2>2. \A v \in Visits : visitsFile[v].run \in Nat /\ visitsFile[v].run <= run
    BY DEF FederationInv, VisitsInv, TravelInv, VisitsSound, ForeignSession
  <2>3. \A v \in Visits : visitsFile[v].run <= run + 1 /\ visitsFile[v].run # run + 1
    BY <2>1, <2>2
  <2>4. VisitsSound(visits)' /\ VisitsSound(visitsFile)'
    BY <1>1, <2>3 DEF FederationInv, TravelInv, VisitsSound
  <2>5. \A s : ~OpenedNow(s)'
    BY <1>1, <2>3 DEF OpenedNow
  <2>6. QED BY <1>1, <2>1, <2>4, <2>5, RequestTyped DEF TravelInv
<1>7. budget' \in [Bounded -> Nat]
  BY <1>1, TravelKinds, BudgetAfter DEF FederationInv
<1>8. BaseInv'
  BY <1>1, <1>7 DEF FederationInv, BaseInv
<1>9. QED BY <1>2, <1>3, <1>4, <1>5, <1>6, <1>8 DEF FederationInv

----------------------------------------------------------------------------
LEMMA InitFederation == Init => FederationInv
<1> SUFFICES ASSUME Init PROVE FederationInv
  OBVIOUS
<1> USE DEF Init, AccountsInit
<1>1. SessionsInv
  BY DEF SessionsInv
<1>2. RolesInv
  <2>1. "none" \in Role
    BY DEF Role
  <2>2. QED BY <2>1 DEF RolesInv
<1>3. GrantsInv
  <2>1. NoGrant \in FederationServiceGrant /\ NoGrant.state = "none"
    BY DEF NoGrant, FederationServiceGrant
  <2>2. QED BY <2>1 DEF GrantsInv
<1>4. VisitsInv
  <2>1. NoVisit \in ForeignSession
    BY DEF NoVisit, ForeignSession
  <2>2. QED BY <2>1 DEF VisitsInv
<1>5. TravelInv
  <2>1. NoVisit.state = "none" /\ NoVisit.travel = Nobody /\ NoVisit.run = 0
    BY DEF NoVisit
  <2>2. VisitsSound(visits) /\ VisitsSound(visitsFile)
    BY <2>1 DEF VisitsSound
  <2>3. \A t \in Travels : ~OpenedNow(t)
    BY <2>1, IdentifiersAssumption DEF OpenedNow
  <2>4. QED BY <2>2, <2>3, RequestTyped DEF TravelInv
<1>6. BaseInv
  <2>1. UnknownPeer \in FederationPeer
    BY KeysAssumption DEF UnknownPeer, FederationPeer
  <2>2. budget \in [Bounded -> Nat]
    BY AccountBudgetsAssumption
  <2>3. identities \in [Users -> Names \cup {NoName}]
    BY EarlierIdentitiesAssumption
  <2>4. QED BY <2>1, <2>2, <2>3 DEF BaseInv
<1>7. QED BY <1>1, <1>2, <1>3, <1>4, <1>5, <1>6 DEF FederationInv

LEMMA NextFederation == FederationInv /\ [Next]_vars => FederationInv'
<1> SUFFICES ASSUME FederationInv, [Next]_vars PROVE FederationInv'
  OBVIOUS
<1>1. CASE AccountRequest /\ UNCHANGED travelVars
  BY <1>1, AccountRequestKeeps
<1>2. CASE \E p \in Peers : RevokePeer(p) \/ \E key \in Keys : TrustPeer(p, key)
  BY <1>2, RevokePeerKeeps, TrustPeerKeeps
<1>3. CASE \E k \in Logins, u \in Users, p \in Peers, g \in Grants : IssueTravel(k, u, p, g)
  BY <1>3, IssueTravelKeeps
<1>4. CASE \E g \in Grants : FederationService(g) \/ RevokeServiceGrant(g)
  BY <1>4, FederationServiceKeeps, RevokeServiceGrantKeeps
<1>5. CASE \E t \in Travels : AcceptTravel(t)
  BY <1>5, AcceptTravelKeeps
<1>6. CASE \E v \in Visits : LogoutVisit(v) \/ CreateVisit(v)
  BY <1>6, LogoutVisitKeeps, CreateVisitKeeps
<1>7. CASE Consume \/ Answer
  BY <1>7, ConsumeKeeps, AnswerKeeps
<1>8. CASE AccountTime /\ UNCHANGED travelVars
  BY <1>8, AccountTimeKeeps
<1>9. CASE \E x \in Travels \cup Grants : Lapse(x)
  BY <1>9, LapseKeeps
<1>10. CASE PurgeReplay \/ PurgeVisits \/ PurgeGrants
  BY <1>10, MaintenanceKeeps
<1>11. CASE Restart
  BY <1>11, RestartKeeps
<1>12. CASE UNCHANGED vars
  <2>1. /\ UNCHANGED <<grants, grantsFile, visits, visitsFile, consumed, lapsedTravel, request, run, trust, trustFile,
                       avatars, revoked, thrown, budget>>
        /\ AccountsIdle
    BY <1>12 DEF vars, travelVars, travelFiles, accountVars, accountFiles, histories, AccountsIdle, SessionsDrop
  <2>2. lapsedTravel' \subseteq Travels \cup Grants
    BY <2>1 DEF FederationInv, GrantsInv
  <2>3. GrantsInv' /\ VisitsInv' /\ TravelInv'
    BY <2>1, <2>2, GrantsKept, VisitsKept, TravelKept DEF FederationInv
  <2>4. QED BY <2>1, <2>3, FoundTyped, TravelSide
<1>13. QED
  BY <1>1, <1>2, <1>3, <1>4, <1>5, <1>6, <1>7, <1>8, <1>9, <1>10, <1>11, <1>12 DEF Next

(* The inductive invariant of accounts and federation holds.               *)
THEOREM FederationInductive == Spec => []FederationInv
BY InitFederation, NextFederation, PTL DEF Spec

(* Every store, the file of every store and the travel request under way   *)
(* have their types, across failed writes, maintenance and restarts.       *)
THEOREM FederationTypeOK == Spec => []TypeOK
<1>1. FederationInv => TypeOK
  BY DEF FederationInv, TypeOK, AccountsTypeOK, SessionsInv, RolesInv, GrantsInv, VisitsInv, TravelInv, BaseInv
<1>2. QED BY <1>1, FederationInductive, PTL

(* What an answer has revoked stays revoked: no later request, no expiry,  *)
(* no maintenance and no restart on the files brings a login session, a    *)
(* role, a grant or a foreign session back, unless the write of its store  *)
(* has thrown.                                                             *)
THEOREM RevocationsStand == Spec => []RevocationsHold
<1>1. FederationInv => RevocationsHold
  <2> SUFFICES ASSUME FederationInv PROVE RevocationsHold
    OBVIOUS
  <2>1. "sessions" \notin thrown => \A k \in revoked \cap Logins : Nobody = sessions[k] /\ Nobody = sessionsFile[k]
    BY DEF FederationInv, SessionsInv
  <2>2. "roles" \notin thrown => \A u \in revoked \cap Users : "none" = roles[u] /\ "none" = rolesFile[u]
    BY DEF FederationInv, RolesInv
  <2>3. "grants" \notin thrown => \A g \in revoked \cap Grants : "live" \notin {grants[g].state, grantsFile[g].state}
    BY DEF FederationInv, GrantsInv
  <2>4. "visits" \notin thrown => \A v \in revoked \cap Visits : "active" \notin {visits[v].state, visitsFile[v].state}
    BY DEF FederationInv, VisitsInv
  <2>5. QED BY <2>1, <2>2, <2>3, <2>4 DEF RevocationsHold
<1>2. QED BY <1>1, FederationInductive, PTL

(* A travel token opens one foreign session in one run of the Core: the    *)
(* nonce is remembered until the token's time is over, and the store looks *)
(* at that time again when it creates the session.                         *)
THEOREM TravelOpensOne == Spec => []TravelOpensOneSession
<1>1. FederationInv => TravelOpensOneSession
  BY DEF FederationInv, TravelInv, VisitsSound, TravelOpensOneSession
<1>2. QED BY <1>1, FederationInductive, PTL
=============================================================================
