----------------------------- MODULE Federation -----------------------------
(***************************************************************************)
(* Travel between this grid and grids that it trusts: src/src/federation/  *)
(* (trust_store, session_store, service_grant_store, replay_cache,         *)
(* runtime, travel_token) and /v1/federation/... of admin_http_server.inc. *)
(*                                                                         *)
(* A user of ours who leaves gets a travel token and with it a grant by    *)
(* which the destination reads the user's profile, inventory and so on     *)
(* from us.  A visitor shows a travel token that its home grid has signed  *)
(* and gets a foreign session and a scene ticket; that takes the handler   *)
(* several steps, and the maintenance thread, which forgets what has       *)
(* expired, may run in between.                                            *)
(*                                                                         *)
(* A travel token of a visitor stands for the session it names, which the  *)
(* home grid draws for it; it may be shown as often as one likes.  Signa-  *)
(* tures are taken to be sound: a token is one of the key that signed it.  *)
(* Whether the destination Region is online and open is the matter of      *)
(* other modules; here it may always be either.  Grants carry the default  *)
(* capabilities.  A grant expires before a day after its revocation.       *)
(***************************************************************************)
EXTENDS Accounts

CONSTANTS
    Peers, Keys,
    Grants,              \* identifiers of grants
    Travels,             \* travel tokens of visitors
    Issuer(_), Signer(_),  \* who issued a travel token, and the key that signed it
    Visits               \* identifiers of foreign sessions

(* Users, logins, grants and foreign sessions have identifiers of their    *)
(* own: the histories tell them apart.                                     *)
ASSUME IdentifiersAssumption ==
    /\ Users \cap (Logins \cup Grants \cup Visits) = {}
    /\ Logins \cap (Grants \cup Visits) = {} /\ Grants \cap Visits = {}
    /\ Nobody \notin Peers \cup Travels \cup Visits
ASSUME KeysAssumption == Keys # {}

VARIABLES
    trust, trustFile,      \* FederationTrustStore
    grants, grantsFile,    \* FederationServiceGrantStore
    visits, visitsFile,    \* FederationSessionStore
    consumed,              \* TravelReplayCache
    lapsedTravel,          \* grants and travel tokens whose time is over
    avatars,               \* users with an appearance record
    request,               \* the travel/accept request under way
    run                    \* how often the Core has been restarted

travelFiles == <<trustFile, grantsFile, visitsFile>>
travelVars == <<trust, grants, visits, travelFiles, consumed, lapsedTravel, avatars, request, run>>
vars == <<accountVars, histories, travelVars>>

FederationPeer == [state: {"unknown", "trusted", "revoked"}, key: Keys]
UnknownPeer == [state |-> "unknown", key |-> CHOOSE key \in Keys : TRUE]
FederationServiceGrant == [state: {"none", "live", "revoked"}, audience: Peers \cup {Nobody}, subject: Users \cup {Nobody}]
NoGrant == [state |-> "none", audience |-> Nobody, subject |-> Nobody]
ForeignSession == [state: {"none", "active", "logged_out", "expired"}, travel: Travels \cup {Nobody},
                   run: Nat]  \* history: the run of the Core that created it
NoVisit == [state |-> "none", travel |-> Nobody, run |-> 0]
Idle == [stage |-> "idle", travel |-> Nobody, visit |-> Nobody]

TypeOK ==
    /\ AccountsTypeOK
    /\ {trust, trustFile} \subseteq [Peers -> FederationPeer]
    /\ {grants, grantsFile} \subseteq [Grants -> FederationServiceGrant]
    /\ {visits, visitsFile} \subseteq [Visits -> ForeignSession]
    /\ consumed \subseteq Travels /\ lapsedTravel \subseteq Travels \cup Grants
    /\ avatars \subseteq Users
    /\ request \in [stage: {"idle", "verified", "consumed", "created"}, travel: Travels \cup {Nobody},
                    visit: Visits \cup {Nobody}]
    /\ run \in Nat

Init ==
    /\ AccountsInit
    /\ trust = [p \in Peers |-> UnknownPeer] /\ trustFile = trust
    /\ grants = [g \in Grants |-> NoGrant] /\ grantsFile = grants
    /\ visits = [v \in Visits |-> NoVisit] /\ visitsFile = visits
    /\ consumed = {} /\ lapsedTravel = {} /\ avatars = {}
    /\ request = Idle /\ run = 0

----------------------------------------------------------------------------
(* persist_locked and load.                                                *)
WriteTrust  == trustFile' = trust'
WriteGrants == grantsFile' = grants'
WriteVisits == visitsFile' = visits'

ReadTrust  == trust' = trustFile
ReadGrants == grants' = grantsFile
ReadVisits == visits' = visitsFile

Trusted(p) == trust[p].state = "trusted"

GrantsOf(p) == {g \in Grants : grants[g].state = "live" /\ grants[g].audience = p}
VisitsOf(p) == {v \in Visits : visits[v].state = "active" /\ Issuer(visits[v].travel) = p}
Ended(table, which, state) == [v \in Visits |-> IF v \in which THEN [table[v] EXCEPT !.state = state] ELSE table[v]]

(* Requests of users keep the sessions up to date, nothing else.           *)
AccountsStay == UNCHANGED <<identities, roles, accountFiles, lapsedLogins, drawn, held>>
Visitless == UNCHANGED <<visits, visitsFile, consumed, request>>

----------------------------------------------------------------------------
(* Trust.  The key of a grid that is trusted is not replaced.              *)
Pins(p, key) ==
    /\ Trusted(p) => trust[p].key = key
    /\ trust' = [trust EXCEPT ![p] = [state |-> "trusted", key |-> key]]

TrustPeer(p, key) ==
    /\ AdminAllowed("administrator")
    /\ Pins(p, key)
    /\ \/ Succeeds("travel") /\ WriteTrust /\ UNCHANGED revoked
       \/ Throws("travel", "trust") /\ UNCHANGED trustFile
    /\ UNCHANGED <<grants, grantsFile, lapsedTravel, avatars, run>> /\ AccountsStay /\ Visitless

\* Mutant: the grants are left alone, for nobody honours them while the peer is revoked.
GrantsGo_Not(p) == UNCHANGED <<grants, grantsFile>>

(* revoke_audience: it writes if it has revoked a grant.                   *)
GrantsGo(p) ==
    /\ grants' = [g \in Grants |-> IF g \in GrantsOf(p) THEN [grants[g] EXCEPT !.state = "revoked"] ELSE grants[g]]
    /\ IF GrantsOf(p) = {} THEN UNCHANGED grantsFile ELSE WriteGrants

\* Mutant: the sessions get a state that the files do not know.
VisitsEnd_Closed(p) ==
    /\ visits' = Ended(visits, VisitsOf(p), "closed")
    /\ IF VisitsOf(p) = {} THEN UNCHANGED visitsFile ELSE WriteVisits

(* logout_issuer: likewise.                                                *)
VisitsEnd(p) ==
    /\ visits' = Ended(visits, VisitsOf(p), "logged_out")
    /\ IF VisitsOf(p) = {} THEN UNCHANGED visitsFile ELSE WriteVisits

(* The three stores are changed one after the other.  When the write of    *)
(* one throws the later ones are left alone; asked again, the earlier ones *)
(* have nothing to revoke and do not write.                                *)
TrustEnds(p) == trust[p].state # "unknown" /\ trust' = [trust EXCEPT ![p].state = "revoked"]

RevokePeer(p) ==
    /\ AdminAllowed("administrator")
    /\ TrustEnds(p)
    /\ \/ Throws("travel", "trust") /\ UNCHANGED <<travelFiles, grants, visits>>
       \/ /\ WriteTrust
          /\ GrantsOf(p) # {}
          /\ grants' = [g \in Grants |-> IF g \in GrantsOf(p) THEN [grants[g] EXCEPT !.state = "revoked"] ELSE grants[g]]
          /\ Throws("travel", "grants") /\ UNCHANGED <<grantsFile, visits, visitsFile>>
       \/ /\ WriteTrust /\ GrantsGo(p)
          /\ VisitsOf(p) # {}
          /\ visits' = Ended(visits, VisitsOf(p), "logged_out")
          /\ Throws("travel", "visits") /\ UNCHANGED visitsFile
       \/ /\ WriteTrust /\ GrantsGo(p) /\ VisitsEnd(p)
          /\ Succeeds("travel")
          /\ revoked' = revoked \cup {g \in Grants : grants[g].audience = p}
                                \cup {v \in Visits : visits[v].state # "none" /\ Issuer(visits[v].travel) = p}
    /\ UNCHANGED <<lapsedTravel, consumed, avatars, request, run>> /\ AccountsStay

----------------------------------------------------------------------------
(* Users of ours who travel.  The signed token leaves with the answer.     *)
Granted(g, u, p) ==
    /\ grants[g] = NoGrant /\ g \notin lapsedTravel
    /\ grants' = [grants EXCEPT ![g] = [state |-> "live", audience |-> p, subject |-> u]]

Departs(u, p, g) ==
    /\ Trusted(p)
    /\ Granted(g, u, p)
    /\ \/ Succeeds("travel") /\ WriteGrants /\ UNCHANGED revoked
       \/ Throws("travel", "grants") /\ UNCHANGED grantsFile

IssueTravel(k, u, p, g) ==
    /\ Asks(k, u)
    /\ Departs(u, p, g)
    /\ UNCHANGED <<trust, trustFile, lapsedTravel, avatars, run>> /\ AccountsStay /\ Visitless

Live(g) == grants[g].state = "live" /\ g \notin lapsedTravel
Authorizes(g) == Live(g) /\ Trusted(grants[g].audience)

(* The services read; the profile and the appearance also make the record  *)
(* of a user who has none.  Its write is taken to succeed.                 *)
FederationService(g) ==
    /\ Authorizes(g)
    /\ identities[grants[g].subject] # NoName
    /\ avatars' = avatars \cup {grants[g].subject}
    /\ avatars' # avatars
    /\ UNCHANGED <<accountVars, histories, trust, trustFile, grants, grantsFile, lapsedTravel, run>> /\ Visitless

(* By the subject of the grant or by an operator.                          *)
RevokeServiceGrant(g) ==
    /\ AdminAllowed("operator") \/ \E k \in Logins : Asks(k, grants[g].subject)
    /\ grants[g].state = "live"
    /\ grants' = [grants EXCEPT ![g].state = "revoked"]
    /\ \/ Succeeds("travel") /\ WriteGrants /\ revoked' = revoked \cup {g}
       \/ Throws("travel", "grants") /\ UNCHANGED grantsFile
    /\ UNCHANGED <<trust, trustFile, lapsedTravel, avatars, run>> /\ AccountsStay /\ Visitless

----------------------------------------------------------------------------
(* Visitors: travel/accept.  A step that fails ends the request.           *)
AcceptStep == UNCHANGED <<accountVars, trust, trustFile, grants, grantsFile, lapsedTravel, avatars, run>>
Goes(stage, travel, visit) == request' = [stage |-> stage, travel |-> travel, visit |-> visit]

Verifies(t) == trust[Issuer(t)].key = Signer(t) /\ t \notin lapsedTravel

AcceptTravel(t) ==
    /\ request = Idle
    /\ Trusted(Issuer(t)) /\ Verifies(t)
    /\ Succeeds("travel")
    /\ Goes("verified", t, Nobody)
    /\ UNCHANGED <<revoked, visits, visitsFile, consumed>> /\ AcceptStep

Consume ==
    /\ request.stage = "verified"
    /\ consumed' = consumed \cup {request.travel}
    /\ IF request.travel \in consumed THEN request' = Idle ELSE Goes("consumed", request.travel, Nobody)
    /\ UNCHANGED <<visits, visitsFile, histories>> /\ AcceptStep

(* create: the session takes the place of an earlier one of the same       *)
(* travel.                                                                 *)
Arrived(v, t) ==
    [Ended(visits, {w \in Visits : visits[w].state = "active" /\ visits[w].travel = t}, "logged_out")
        EXCEPT ![v] = [state |-> "active", travel |-> t, run |-> run]]

\* Mutant: that the token is still good was verified before.
CreateVisit_Trusting(v) ==
    LET t == request.travel IN
    /\ request.stage = "consumed"
    /\ visits[v] = NoVisit
    /\ visits' = Arrived(v, t)
    /\ \/ Goes("created", t, v) /\ WriteVisits /\ UNCHANGED histories
       \/ Spends({"throw"}) /\ thrown' = thrown \cup {"visits"} /\ request' = Idle /\ UNCHANGED <<visitsFile, revoked>>
    /\ UNCHANGED consumed /\ AcceptStep

CreateVisit(v) ==
    LET t == request.travel IN
    /\ request.stage = "consumed"
    /\ visits[v] = NoVisit
    /\ \/ /\ t \in lapsedTravel
          /\ request' = Idle /\ UNCHANGED <<visits, visitsFile, histories>>
       \/ /\ t \notin lapsedTravel
          /\ visits' = Arrived(v, t)
          /\ \/ Goes("created", t, v) /\ WriteVisits /\ UNCHANGED histories
             \/ /\ Spends({"throw"}) /\ thrown' = thrown \cup {"visits"}
                /\ request' = Idle /\ UNCHANGED <<visitsFile, revoked>>
    /\ UNCHANGED consumed /\ AcceptStep

(* logout: of a session that is active, and only then it writes.           *)
LogsOut(v) ==
    /\ visits' = IF visits[v].state = "active" THEN Ended(visits, {v}, "logged_out") ELSE visits
    /\ IF visits[v].state = "active" THEN WriteVisits ELSE UNCHANGED visitsFile

(* The visitor gets a scene ticket, or, when the Region is not to be       *)
(* entered, the session ends.                                              *)
Answer ==
    /\ request.stage = "created"
    /\ request' = Idle
    /\ \/ UNCHANGED <<visits, visitsFile, histories>>
       \/ LogsOut(request.visit) /\ UNCHANGED histories
       \/ /\ visits[request.visit].state = "active"
          /\ visits' = Ended(visits, {request.visit}, "logged_out")
          /\ Spends({"throw"}) /\ thrown' = thrown \cup {"visits"} /\ UNCHANGED <<visitsFile, revoked>>
    /\ UNCHANGED consumed /\ AcceptStep

LogoutVisit(v) ==
    /\ AdminAllowed("operator")
    /\ visits[v].state = "active"
    /\ visits' = Ended(visits, {v}, "logged_out")
    /\ \/ Succeeds("travel") /\ WriteVisits /\ revoked' = revoked \cup {v}
       \/ Throws("travel", "visits") /\ UNCHANGED visitsFile
    /\ UNCHANGED <<trust, trustFile, grants, grantsFile, lapsedTravel, consumed, avatars, request, run>> /\ AccountsStay

----------------------------------------------------------------------------
(* Time and the maintenance thread, which may run between the steps of a   *)
(* request.  A write of its that throws ends the Core: a restart before    *)
(* the write.                                                              *)
Lapse(x) ==
    /\ x \notin lapsedTravel
    /\ x \in Grants => grants[x] # NoGrant
    /\ lapsedTravel' = lapsedTravel \cup {x}
    /\ UNCHANGED <<accountVars, histories, trust, grants, visits, travelFiles, consumed, avatars, request, run>>

MaintenanceStep == UNCHANGED <<accountVars, histories, trust, trustFile, lapsedTravel, avatars, request, run>>

PurgeReplay ==
    /\ consumed \cap lapsedTravel # {}
    /\ consumed' = consumed \ lapsedTravel
    /\ UNCHANGED <<grants, grantsFile, visits, visitsFile>> /\ MaintenanceStep

PurgeVisits ==
    LET over == {v \in Visits : visits[v].state = "active" /\ visits[v].travel \in lapsedTravel} IN
    /\ over # {}
    /\ visits' = Ended(visits, over, "expired") /\ WriteVisits
    /\ UNCHANGED <<grants, grantsFile, consumed>> /\ MaintenanceStep

PurgeGrants ==
    /\ \E g \in Grants \cap lapsedTravel : grants[g] # NoGrant
    /\ grants' = [g \in Grants |-> IF g \in lapsedTravel THEN NoGrant ELSE grants[g]] /\ WriteGrants
    /\ UNCHANGED <<visits, visitsFile, consumed>> /\ MaintenanceStep

(* Nonces that were consumed are in memory only.                           *)
Restart ==
    /\ Succeeds("restart") /\ UNCHANGED revoked
    /\ AccountsRestart
    /\ ReadTrust /\ ReadGrants /\ ReadVisits
    /\ consumed' = {} /\ request' = Idle /\ run' = run + 1
    /\ UNCHANGED <<travelFiles, lapsedTravel, avatars>>

Next ==
    \/ /\ request = Idle
       /\ \/ AccountRequest /\ UNCHANGED travelVars
          \/ \E p \in Peers : RevokePeer(p) \/ \E key \in Keys : TrustPeer(p, key)
          \/ \E k \in Logins, u \in Users, p \in Peers, g \in Grants : IssueTravel(k, u, p, g)
          \/ \E g \in Grants : FederationService(g) \/ RevokeServiceGrant(g)
          \/ \E t \in Travels : AcceptTravel(t)
          \/ \E v \in Visits : LogoutVisit(v)
    \/ Consume
    \/ \E v \in Visits : CreateVisit(v)
    \/ Answer
    \/ AccountTime /\ UNCHANGED travelVars
    \/ \E x \in Travels \cup Grants : Lapse(x)
    \/ PurgeReplay \/ PurgeVisits \/ PurgeGrants
    \/ Restart

Spec == Init /\ [][Next]_vars

----------------------------------------------------------------------------
(* What an answer has revoked stays revoked, in memory and for whoever     *)
(* restarts the Core on the files: a session that was logged out, a role,  *)
(* a grant, a foreign session - and with a peer all its grants and         *)
(* sessions, also after the peer is trusted again, with the old key or a   *)
(* new one (docs/OGL-FED-v2.md:296, "Peer revocation also revokes all      *)
(* outstanding grants for that audience").  A store whose write has thrown *)
(* promises nothing: asked again, it finds nothing to revoke and does not  *)
(* write (federation/service_grant_store.cpp:166,                          *)
(* core/session_store.cpp:158).                                            *)
RevocationsHold ==
    /\ "sessions" \notin thrown => \A k \in revoked \cap Logins : Nobody = sessions[k] /\ Nobody = sessionsFile[k]
    /\ "roles" \notin thrown => \A u \in revoked \cap Users : "none" = roles[u] /\ "none" = rolesFile[u]
    /\ "grants" \notin thrown => \A g \in revoked \cap Grants : "live" \notin {grants[g].state, grantsFile[g].state}
    /\ "visits" \notin thrown => \A v \in revoked \cap Visits : "active" \notin {visits[v].state, visitsFile[v].state}

(* A travel token opens one foreign session, although maintenance forgets  *)
(* what has expired between the steps of the request that shows it a       *)
(* second time.  Only a restart of the Core, which forgets every nonce     *)
(* (replay_cache.cpp:5), lets a token open a second session; and then the  *)
(* first has ended, in memory and in the file.                             *)
TravelOpensOneSession ==
    \A v, w \in Visits, table \in {visits, visitsFile} :
        v # w /\ table[v].state # "none" /\ table[v].travel = table[w].travel =>
            /\ table[v].run # table[w].run
            /\ ~(table[v].state = "active" /\ table[w].state = "active")
=============================================================================
