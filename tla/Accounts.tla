------------------------------ MODULE Accounts ------------------------------
(***************************************************************************)
(* Who is who at the Core: registered users (src/src/core/                 *)
(* identity_store.cpp), the sessions they log in to (session_store.cpp)    *)
(* and the roles that let some of them administer the grid                 *)
(* (admin_role_store.cpp), with the requests /v1/auth/... and              *)
(* /v1/admin/roles/... of admin_http_server.inc.                           *)
(*                                                                         *)
(* Each store has a memory and a file (with a database, one statement      *)
(* takes the place of both).  An operation changes memory and then         *)
(* replaces the file; when the write throws, memory has changed, the file  *)
(* has not, and the client is told of an internal error.  Requests are     *)
(* served one after the other.                                             *)
(*                                                                         *)
(* Passwords are right, names are valid.  The rate limiter only refuses    *)
(* requests, and a refused request changes nothing here.  Whoever has the  *)
(* API key administers the grid without a session.                         *)
(***************************************************************************)
EXTENDS Integers, FiniteSets

CONSTANTS
    Users,               \* identifiers of users
    Names,               \* names they log in with
    Logins,              \* tokens of sessions
    EarlierIdentities,   \* what the identity file of an earlier run may hold
    Budgets              \* bounds: how often the things named in Bounded may happen

Nobody == "nobody"
NoName == "no name"
(* Requests to register, log in or out and about roles, requests of the    *)
(* federation, writes that throw, restarts.                                *)
Bounded == {"account", "travel", "throw", "restart"}
ASSUME AccountsAssumption == Nobody \notin Users /\ NoName \notin Names
ASSUME EarlierIdentitiesAssumption == EarlierIdentities \subseteq [Users -> Names \cup {NoName}]
ASSUME AccountBudgetsAssumption == Budgets \subseteq [Bounded -> Nat]

VARIABLES
    identities, identitiesFile,    \* IdentityStore
    sessions, sessionsFile,        \* SessionStore
    roles, rolesFile,              \* AdminRoleStore
    lapsedLogins,                  \* sessions whose time is over
    drawn,                         \* identifiers and tokens that have been drawn
    held,                          \* tokens that clients were given
    revoked,                       \* history: what an answer said to be revoked or logged out
    thrown,                        \* history: the stores whose write has thrown
    budget

accountFiles == <<identitiesFile, sessionsFile, rolesFile>>
accountVars == <<identities, sessions, roles, accountFiles, lapsedLogins, drawn, held>>
histories == <<revoked, thrown, budget>>

Role == {"none", "moderator", "operator", "administrator"}
Level(role) == CASE role = "moderator" -> 1 [] role = "operator" -> 2 [] role = "administrator" -> 3 [] OTHER -> 0

AccountsTypeOK ==
    /\ {identities, identitiesFile} \subseteq [Users -> Names \cup {NoName}]
    /\ {sessions, sessionsFile} \subseteq [Logins -> Users \cup {Nobody}]
    /\ {roles, rolesFile} \subseteq [Users -> Role]
    /\ lapsedLogins \subseteq Logins /\ held \subseteq Logins
    /\ drawn \subseteq Users \cup Logins
    /\ budget \in [Bounded -> Nat]

AccountsInit ==
    /\ identitiesFile \in EarlierIdentities /\ identities = identitiesFile
    /\ sessions = [k \in Logins |-> Nobody] /\ sessionsFile = sessions
    /\ roles = [u \in Users |-> "none"] /\ rolesFile = roles
    /\ lapsedLogins = {} /\ held = {} /\ revoked = {} /\ thrown = {}
    /\ drawn = {u \in Users : identities[u] # NoName}
    /\ budget \in Budgets

----------------------------------------------------------------------------
(* persist_locked and load.                                                *)
WriteIdentities == identitiesFile' = identities'
WriteSessions   == sessionsFile' = sessions'
WriteRoles      == rolesFile' = roles'

ReadIdentities == identities' = identitiesFile
ReadRoles      == roles' = rolesFile

(* purge_expired_locked.  Every look at the sessions drops from memory     *)
(* those whose time is over; only some write.                              *)
Current(table) == [k \in Logins |-> IF k \in lapsedLogins THEN Nobody ELSE table[k]]
ReadSessions == sessions' = Current(sessionsFile)

Spends(kinds) ==
    /\ \A k \in kinds : budget[k] > 0
    /\ budget' = [k \in Bounded |-> IF k \in kinds THEN budget[k] - 1 ELSE budget[k]]

Succeeds(kind) == Spends({kind}) /\ UNCHANGED thrown
Throws(kind, store) == Spends({kind, "throw"}) /\ thrown' = thrown \cup {store} /\ UNCHANGED revoked

----------------------------------------------------------------------------
(* What a request finds out about its client.  The look at its session     *)
(* drops old sessions from memory.                                         *)
Asks(k, u) ==
    /\ k \in held /\ k \notin lapsedLogins
    /\ sessions[k] = u /\ u # Nobody /\ identities[u] # NoName
    /\ sessions' = Current(sessions)

HasRole(u, minimum) == Level(roles[u]) >= Level(minimum)

AdminAllowed(minimum) ==
    \/ UNCHANGED sessions
    \/ \E k \in Logins, u \in Users : Asks(k, u) /\ HasRole(u, minimum)

CreateSession(u, k) ==
    /\ k \notin drawn
    /\ sessions' = [Current(sessions) EXCEPT ![k] = u]
    /\ \/ Succeeds("account") /\ WriteSessions /\ held' = held \cup {k} /\ UNCHANGED revoked
       \/ Throws("account", "sessions") /\ UNCHANGED <<sessionsFile, held>>

(* register_user. *)
NewUser(u, name) ==
    /\ u \notin drawn
    /\ \A v \in Users : identities[v] # name
    /\ identities' = [identities EXCEPT ![u] = name]

Register(u, name, k) ==
    /\ NewUser(u, name)
    /\ \/ /\ Throws("account", "identities")
          /\ drawn' = drawn \cup {u}
          /\ UNCHANGED <<identitiesFile, sessions, sessionsFile, held>>
       \/ /\ WriteIdentities
          /\ CreateSession(u, k)
          /\ drawn' = drawn \cup {u, k}
    /\ UNCHANGED <<roles, rolesFile, lapsedLogins>>

Login(u, k) ==
    /\ identities[u] # NoName
    /\ CreateSession(u, k)
    /\ drawn' = drawn \cup {k}
    /\ UNCHANGED <<identities, identitiesFile, roles, rolesFile, lapsedLogins>>

(* Whatever the answer is, the look at the session has dropped old ones.   *)
Me ==
    /\ sessions' = Current(sessions) /\ sessions' # sessions
    /\ UNCHANGED <<identities, roles, accountFiles, lapsedLogins, drawn, held, histories>>

(* Asked again after a write that threw, it answers that there is no such  *)
(* session and does not write.                                             *)
Logout(k) ==
    /\ k \in held /\ sessions[k] # Nobody
    /\ sessions' = [sessions EXCEPT ![k] = Nobody]
    /\ \/ Succeeds("account") /\ WriteSessions /\ revoked' = revoked \cup {k}
       \/ Throws("account", "sessions") /\ UNCHANGED sessionsFile
    /\ UNCHANGED <<identities, identitiesFile, roles, rolesFile, lapsedLogins, drawn, held>>

(* The maintenance thread.                                                 *)
PurgeSessions ==
    /\ sessions' = Current(sessions) /\ sessions' # sessions
    /\ WriteSessions
    /\ UNCHANGED <<identities, identitiesFile, roles, rolesFile, lapsedLogins, drawn, held, histories>>

LapseLogin(k) ==
    /\ k \in drawn \cap Logins /\ k \notin lapsedLogins
    /\ lapsedLogins' = lapsedLogins \cup {k}
    /\ UNCHANGED <<identities, sessions, roles, accountFiles, drawn, held, histories>>

RoleRequest(answer) ==
    /\ AdminAllowed("administrator")
    /\ \/ Succeeds("account") /\ WriteRoles /\ answer
       \/ Throws("account", "roles") /\ UNCHANGED rolesFile
    /\ UNCHANGED <<identities, identitiesFile, sessionsFile, lapsedLogins, drawn, held>>

GrantRole(u, role) ==
    /\ identities[u] # NoName
    /\ roles' = [roles EXCEPT ![u] = role]
    /\ RoleRequest(revoked' = revoked \ {u})

RevokeRole(u) ==
    /\ roles[u] # "none"
    /\ roles' = [roles EXCEPT ![u] = "none"]
    /\ RoleRequest(revoked' = revoked \cup {u})

AccountRequest ==
    \/ \E u \in Users, k \in Logins :
          Login(u, k) \/ \E name \in Names : Register(u, name, k)
    \/ \E k \in Logins : Logout(k)
    \/ Me
    \/ \E u \in Users : RevokeRole(u) \/ \E role \in Role \ {"none"} : GrantRole(u, role)

AccountTime == PurgeSessions \/ \E k \in Logins : LapseLogin(k)

AccountsRestart ==
    /\ ReadIdentities /\ ReadSessions /\ ReadRoles
    /\ UNCHANGED <<accountFiles, lapsedLogins, drawn, held>>
=============================================================================
