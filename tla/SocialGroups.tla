---------------------------- MODULE SocialGroups ----------------------------
(***************************************************************************)
(* Friends, blocks, direct messages and one group, as the Core keeps them  *)
(* (src/src/core/: friends_store.cpp, social_policy_store.cpp,             *)
(* message_store.cpp, group_store.cpp) and as the requests of              *)
(* admin_http_server.inc and admin_http_platform.inc use them.             *)
(*                                                                         *)
(* Each store has a memory and a file of its own.  An operation changes    *)
(* memory first and writes the whole store to a new file that replaces the *)
(* old one; when that write throws, memory has changed and the file has    *)
(* not, and the request ends with "internal-error".  Requests are served   *)
(* one after the other by one thread; the maintenance thread expires       *)
(* invitations in between.  Refused requests change nothing.               *)
(*                                                                         *)
(* Two groups share nothing but the uniqueness of their names, so one is   *)
(* modelled.  Left out: notifications, the audit log, texts, mutes (they   *)
(* only silence a notification), friend flags and secrets, and the         *)
(* Hypergrid calls on the friends store.                                   *)
(***************************************************************************)
EXTENDS Integers, FiniteSets

CONSTANTS
    Users,
    Invites,        \* identifiers of invitations
    Messages,       \* identifiers of direct messages
    MaxChanges,     \* bound: requests that change a store
    MaxFailures,    \* bound: writes that throw
    MaxCrashes      \* bound: restarts of the Core

Nobody == "nobody"
ASSUME NobodyAssumption == Nobody \notin Users
ASSUME BoundsAssumption == {MaxChanges, MaxFailures, MaxCrashes} \subseteq Nat

VARIABLES
    friends, friendsFile,     \* FriendsStore: a relation for each pair of users
    blocked, blockedFile,     \* SocialPolicyStore: <<u, v>> when u blocks v
    mail, mailFile,           \* MessageStore
    group, groupFile,         \* GroupStore: the roles and invitations of the group
    lapsed,                   \* invitations whose time is over
    blocking,                 \* the block request between its two stores, if any
    promised,                 \* history: blocks answered with success and not lifted since
    changes, failures, crashes

stores  == <<friends, blocked, mail, group>>
files   == <<friendsFile, blockedFile, mailFile, groupFile>>
bounds  == <<changes, failures, crashes>>
vars    == <<stores, files, lapsed, blocking, promised, bounds>>

Pairs == {{u, v} : u, v \in Users} \ {{u} : u \in Users}
FriendRelation == [status: {"none", "pending", "accepted"}, requested_by: Users \cup {Nobody}]
NoRelation == [status |-> "none", requested_by |-> Nobody]

GroupInviteState == {"none", "pending", "accepted", "revoked", "expired"}
Role == {"none", "member", "officer", "owner"}
GroupInvite == [state: GroupInviteState, user: Users \cup {Nobody},
                by: Users \cup {Nobody}, role: Role]
NoInvite == [state |-> "none", user |-> Nobody, by |-> Nobody, role |-> "none"]
GroupState == [role: [Users -> Role], invite: [Invites -> GroupInvite]]

DirectMessage == [sender: Users \cup {Nobody}, recipient: Users \cup {Nobody}, read: BOOLEAN]
NoMessage == [sender |-> Nobody, recipient |-> Nobody, read |-> FALSE]
Unblocking == <<Nobody, Nobody>>

TypeOK ==
    /\ {friends, friendsFile} \subseteq [Pairs -> FriendRelation]
    /\ blocked \cup blockedFile \cup promised \subseteq Users \X Users
    /\ {mail, mailFile} \subseteq [Messages -> DirectMessage]
    /\ {group, groupFile} \subseteq GroupState
    /\ lapsed \subseteq Invites
    /\ blocking \in (Users \X Users) \cup {Unblocking}
    /\ changes \in 0 .. MaxChanges /\ failures \in 0 .. MaxFailures /\ crashes \in 0 .. MaxCrashes

Init ==
    /\ friends = [p \in Pairs |-> NoRelation] /\ friendsFile = friends
    /\ blocked = {} /\ blockedFile = {}
    /\ mail = [m \in Messages |-> NoMessage] /\ mailFile = mail
    /\ group = [role |-> [u \in Users |-> "none"], invite |-> [i \in Invites |-> NoInvite]]
    /\ groupFile = group
    /\ lapsed = {} /\ blocking = Unblocking /\ promised = {}
    /\ changes = 0 /\ failures = 0 /\ crashes = 0

----------------------------------------------------------------------------
(* persist_locked and load of the four stores.                             *)
WriteFriends == friendsFile' = friends'
WritePolicy  == blockedFile' = blocked'
WriteMail    == mailFile' = mail'
WriteGroup   == groupFile' = group'

ReadFriends == friends' = friendsFile
ReadPolicy  == blocked' = blockedFile
ReadMail    == mail' = mailFile
ReadGroup   == group' = groupFile

Throws == failures < MaxFailures /\ failures' = failures + 1 /\ UNCHANGED files

(* A request begins: one is served at a time.                              *)
Begins == /\ blocking = Unblocking
          /\ changes < MaxChanges
          /\ changes' = changes + 1
          /\ UNCHANGED <<lapsed, crashes>>

Unshaken == UNCHANGED <<blocking, promised>>

FriendsRequest ==
    /\ Begins /\ Unshaken
    /\ \/ WriteFriends /\ UNCHANGED <<blockedFile, mailFile, groupFile, failures>>
       \/ Throws
    /\ UNCHANGED <<blocked, mail, group>>

MailRequest ==
    /\ Begins /\ Unshaken
    /\ \/ WriteMail /\ UNCHANGED <<friendsFile, blockedFile, groupFile, failures>>
       \/ Throws
    /\ UNCHANGED <<friends, blocked, group>>

GroupRequest ==
    /\ Begins /\ Unshaken
    /\ \/ WriteGroup /\ UNCHANGED <<friendsFile, blockedFile, mailFile, failures>>
       \/ Throws
    /\ UNCHANGED <<friends, blocked, mail>>

----------------------------------------------------------------------------
(* Friends and messages.                                                   *)
Blocks(u, v) == <<u, v>> \in blocked
Strangers(u, v) == Blocks(u, v) \/ Blocks(v, u)
AreFriends(u, v) == friends[{u, v}].status = "accepted"

Requested(u, v) ==
    /\ friends[{u, v}].status = "none"
    /\ friends' = [friends EXCEPT ![{u, v}] = [status |-> "pending", requested_by |-> u]]

FriendRequest(u, v) == u # v /\ ~Strangers(u, v) /\ Requested(u, v) /\ FriendsRequest

Accepted(u, v) ==
    /\ friends[{u, v}].status = "pending"
    /\ friends[{u, v}].requested_by # u
    /\ friends' = [friends EXCEPT ![{u, v}].status = "accepted"]

\* Mutant: only a block of the one who accepts is looked at.
Accept_OwnBlockOnly(u, v) == u # v /\ ~Blocks(u, v) /\ Accepted(u, v) /\ FriendsRequest

Accept(u, v) == u # v /\ ~Strangers(u, v) /\ Accepted(u, v) /\ FriendsRequest

Removed(u, v) ==
    /\ friends[{u, v}].status # "none"
    /\ friends' = [friends EXCEPT ![{u, v}] = NoRelation]

RemoveFriend(u, v) == u # v /\ Removed(u, v) /\ FriendsRequest

Sent(u, v, m) ==
    /\ mail[m] = NoMessage
    /\ mail' = [mail EXCEPT ![m] = [sender |-> u, recipient |-> v, read |-> FALSE]]

Send(u, v, m) == u # v /\ ~Strangers(u, v) /\ AreFriends(u, v) /\ Sent(u, v, m) /\ MailRequest

MarkRead(u, m) ==
    /\ mail[m].recipient = u
    /\ ~mail[m].read
    /\ mail' = [mail EXCEPT ![m].read = TRUE]
    /\ MailRequest

(* POST /v1/social/block is two stores: the policy is set, then the        *)
(* relation removed.  A policy whose write throws ends the request before  *)
(* the second.                                                             *)
BlockSet(u, v) == blocked' = blocked \cup {<<u, v>>}

SetBlocked(u, v) ==
    /\ u # v
    /\ Begins
    /\ BlockSet(u, v)
    /\ \/ /\ WritePolicy
          /\ blocking' = <<u, v>>
          /\ UNCHANGED <<friendsFile, mailFile, groupFile, failures>>
       \/ Throws /\ UNCHANGED blocking
    /\ UNCHANGED <<friends, mail, group, promised>>

Answered(u, v) == blocking' = Unblocking /\ promised' = promised \cup {<<u, v>>}

\* Mutant: a pending request is left where it is.
DropFriend_AcceptedOnly(u, v) ==
    /\ blocking = <<u, v>>
    /\ IF ~AreFriends(u, v)
       THEN Answered(u, v) /\ UNCHANGED <<friends, files, failures>>
       ELSE /\ Removed(u, v)
            /\ \/ WriteFriends /\ Answered(u, v) /\ UNCHANGED <<blockedFile, mailFile, groupFile, failures>>
               \/ Throws /\ blocking' = Unblocking /\ UNCHANGED promised
    /\ UNCHANGED <<blocked, mail, group, lapsed, changes, crashes>>

(* FriendsStore::remove writes only when it finds a relation in memory.    *)
DropFriend(u, v) ==
    /\ blocking = <<u, v>>
    /\ IF friends[{u, v}].status = "none"
       THEN Answered(u, v) /\ UNCHANGED <<friends, files, failures>>
       ELSE /\ Removed(u, v)
            /\ \/ WriteFriends /\ Answered(u, v) /\ UNCHANGED <<blockedFile, mailFile, groupFile, failures>>
               \/ Throws /\ blocking' = Unblocking /\ UNCHANGED promised
    /\ UNCHANGED <<blocked, mail, group, lapsed, changes, crashes>>

Unblock(u, v) ==
    /\ u # v
    /\ Begins
    /\ Blocks(u, v)
    /\ blocked' = blocked \ {<<u, v>>}
    /\ promised' = promised \ {<<u, v>>}
    /\ \/ WritePolicy /\ UNCHANGED <<friendsFile, mailFile, groupFile, failures>>
       \/ Throws
    /\ UNCHANGED <<friends, mail, group, blocking>>

----------------------------------------------------------------------------
(* The group.  Of the seven powers of role_powers the ones that guard      *)
(* membership.                                                             *)
Exists == \E u \in Users : group.role[u] = "owner"
MayInvite == {u \in Users : group.role[u] \in {"owner", "officer"}}
MayEject  == MayInvite
MaySetRoles == {u \in Users : group.role[u] = "owner"}
\* Mutant: any text is taken for a role.
ValidRole_Any == {"member", "officer", "founder"}

ValidRole == {"member", "officer"}

CreateGroup(u) ==
    /\ ~Exists
    /\ group' = [group EXCEPT !.role[u] = "owner"]

AddMember(actor, u, role) ==
    /\ actor \in MayInvite
    /\ group.role[u] = "none"
    /\ group' = [group EXCEPT !.role[u] = role]

\* Mutant: a member may leave even when it is the owner.
RemoveMember_OwnerLeaves(actor, u) ==
    /\ group.role[u] # "none"
    /\ actor = u \/ (actor \in MayEject /\ group.role[u] # "owner")
    /\ group' = [group EXCEPT !.role[u] = "none"]

RemoveMember(actor, u) ==
    /\ group.role[u] \notin {"none", "owner"}
    /\ actor = u \/ actor \in MayEject
    /\ group' = [group EXCEPT !.role[u] = "none"]

SetRole(actor, u, role) ==
    /\ actor \in MaySetRoles
    /\ group.role[u] \notin {"none", "owner"}
    /\ group' = [group EXCEPT !.role[u] = role]

MembershipRequest(actor, u) ==
    /\ \/ RemoveMember(actor, u)
       \/ \E role \in ValidRole : AddMember(actor, u, role) \/ SetRole(actor, u, role)
       \/ actor = u /\ CreateGroup(u)
    /\ GroupRequest

Pending(i) == group.invite[i].state = "pending"

Invite(actor, u, role, i) ==
    /\ actor \in MayInvite
    /\ group.role[u] = "none"
    /\ \A j \in Invites \ lapsed : ~(Pending(j) /\ group.invite[j].user = u)
    /\ group.invite[i].state = "none"
    /\ group' = [group EXCEPT !.invite[i] = [state |-> "pending", user |-> u, by |-> actor, role |-> role]]

InviteRequest(actor, u, role, i) ==
    /\ ~Strangers(actor, u)
    /\ Invite(actor, u, role, i)
    /\ GroupRequest

Resolved(i, state) == group' = [group EXCEPT !.invite[i].state = state]

Joined(i) == group' = [group EXCEPT !.role[group.invite[i].user] = group.invite[i].role,
                                    !.invite[i].state = "accepted"]

\* Mutant: the inviter's power is not looked at again.
AcceptInvite_Trusting(i) ==
    /\ Pending(i) /\ i \notin lapsed
    /\ Exists
    /\ IF group.role[group.invite[i].user] = "none" THEN Joined(i) ELSE Resolved(i, "accepted")

(* The invited user accepts.  An invitation of somebody who has become a   *)
(* member otherwise is closed and the request refused.                     *)
AcceptInvite(i) ==
    /\ Pending(i) /\ i \notin lapsed
    /\ Exists
    /\ group.invite[i].by \in MayInvite
    /\ IF group.role[group.invite[i].user] = "none" THEN Joined(i) ELSE Resolved(i, "accepted")

AcceptTooLate(i) == Pending(i) /\ i \in lapsed /\ Resolved(i, "expired")

RevokeInvite(actor, i) ==
    /\ Pending(i)
    /\ actor = group.invite[i].by \/ actor \in MayInvite
    /\ Resolved(i, "revoked")

AnswerRequest(actor, i) ==
    /\ \/ actor = group.invite[i].user /\ (AcceptInvite(i) \/ AcceptTooLate(i))
       \/ RevokeInvite(actor, i)
    /\ GroupRequest

Lapse(i) ==
    /\ Pending(i) /\ i \notin lapsed
    /\ lapsed' = lapsed \cup {i}
    /\ UNCHANGED <<stores, files, blocking, promised, bounds>>

(* The maintenance thread, also in the middle of a request.  A write of    *)
(* its that throws ends the Core: that is a Restart before the write.      *)
PurgeExpiredInvites ==
    LET expired == {i \in lapsed : Pending(i)} IN
    /\ expired # {}
    /\ group' = [group EXCEPT !.invite =
                    [i \in Invites |-> IF i \in expired THEN [group.invite[i] EXCEPT !.state = "expired"]
                                                        ELSE group.invite[i]]]
    /\ WriteGroup
    /\ UNCHANGED <<friends, blocked, mail, friendsFile, blockedFile, mailFile, lapsed, blocking, promised, bounds>>

----------------------------------------------------------------------------
Restart ==
    /\ crashes < MaxCrashes
    /\ crashes' = crashes + 1
    /\ ReadFriends /\ ReadPolicy /\ ReadMail /\ ReadGroup
    /\ blocking' = Unblocking
    /\ UNCHANGED <<files, lapsed, promised, changes, failures>>

Next ==
    \/ \E u, v \in Users : \/ FriendRequest(u, v) \/ Accept(u, v) \/ RemoveFriend(u, v)
                           \/ SetBlocked(u, v) \/ DropFriend(u, v) \/ Unblock(u, v)
                           \/ MembershipRequest(u, v)
    \/ \E u, v \in Users, m \in Messages : Send(u, v, m)
    \/ \E u \in Users, m \in Messages : MarkRead(u, m)
    \/ \E actor, u \in Users, role \in ValidRole, i \in Invites : InviteRequest(actor, u, role, i)
    \/ \E actor \in Users, i \in Invites : AnswerRequest(actor, i)
    \/ \E i \in Invites : Lapse(i)
    \/ PurgeExpiredInvites
    \/ Restart

Spec == Init /\ [][Next]_vars

----------------------------------------------------------------------------
(* A block that was answered holds until it is lifted: from then on no     *)
(* request makes the two friends, brings a request or a message from one   *)
(* to the other, or lets one invite the other to the group - not even      *)
(* after a restart (the checks of both directions in every handler).       *)
Together(u, v) ==
    \/ friends'[{u, v}] # friends[{u, v}] /\ friends'[{u, v}] # NoRelation
    \/ \E m \in Messages : mail'[m] # mail[m] /\ {mail'[m].sender, mail'[m].recipient} = {u, v} /\ ~mail'[m].read
    \/ \E i \in Invites : ~Pending(i) /\ group'.invite[i].state = "pending"
                          /\ {group'.invite[i].user, group'.invite[i].by} = {u, v}
BlockHolds == [][crashes' = crashes => \A pair \in promised : ~Together(pair[1], pair[2])]_vars

(* Two users of whom one blocks the other are not friends, and have no     *)
(* request open, once the block was answered: neither in memory nor in the *)
(* file a restart would read - as long as no write of the friends store    *)
(* has thrown (admin_http_platform.inc:234).  With such a write it does    *)
(* not hold: a removal that threw is not written again by the block.       *)
BlockedAreNoFriends ==
    failures = 0 => \A pair \in promised :
        LET p == {pair[1], pair[2]} IN friends[p] = NoRelation /\ friendsFile[p] = NoRelation

(* The group has exactly one owner from its creation on, in memory and in  *)
(* the file, whoever leaves, is ejected, promoted or demoted, and whatever *)
(* invitation is accepted late (group_store.cpp).                          *)
OneOwner ==
    \A g \in {group, groupFile} :
        (\E u \in Users : g.role[u] # "none") => Cardinality({u \in Users : g.role[u] = "owner"}) = 1

(* Nobody joins by an invitation that nobody with the power to invite      *)
(* stands behind at that moment: inviters who left, were ejected or        *)
(* demoted since do not count, nor does an invitation whose time is over   *)
(* (docs/PLATFORM-SERVICES-15.0.md:161, group_store.cpp:354).              *)
JoinersAreBacked ==
    [][\A i \in Invites :
         (Pending(i) /\ group'.invite[i].state = "accepted" /\ crashes' = crashes) =>
             group.invite[i].by \in MayInvite /\ i \notin lapsed]_vars
=============================================================================
