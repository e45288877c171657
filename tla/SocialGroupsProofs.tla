------------------------- MODULE SocialGroupsProofs -------------------------
(***************************************************************************)
(* The invariants and action properties of SocialGroups hold for every set *)
(* of users, invitations and messages and for every number of changes,     *)
(* failed writes and restarts.                                             *)
(***************************************************************************)
EXTENDS SocialGroups, FiniteSetTheorems, TLAPS

(* A group as every operation leaves it: one owner as soon as there is     *)
(* anybody, and no invitation to become the owner.                         *)
Owned(g) ==
    \/ \A u \in Users : g.role[u] = "none"
    \/ \E o \in Users : g.role[o] = "owner" /\ \A u \in Users : g.role[u] = "owner" => u = o

InvitesPlain(g) ==
    \A i \in Invites : g.invite[i].state # "none" =>
        /\ g.invite[i].user \in Users /\ g.invite[i].by \in Users
        /\ g.invite[i].role \in ValidRole

GroupSound(g) == g \in GroupState /\ Owned(g) /\ InvitesPlain(g)

(* A block that was promised is in memory and in the file, and the block   *)
(* that is being answered too.                                             *)
BlocksKept ==
    /\ \A pair \in promised : pair[1] # pair[2] /\ pair \in blocked /\ pair \in blockedFile
    /\ blocking # Unblocking =>
           blocking[1] # blocking[2] /\ blocking \in blocked /\ blocking \in blockedFile

(* What is no relation asks for nothing.                                   *)
RelationsPlain(f) == \A p \in Pairs : f[p].status = "none" => f[p] = NoRelation

SocialInv ==
    /\ TypeOK
    /\ RelationsPlain(friends) /\ RelationsPlain(friendsFile)
    /\ GroupSound(group) /\ GroupSound(groupFile)
    /\ BlocksKept
    /\ failures = 0 => friendsFile = friends
    /\ BlockedAreNoFriends

LEMMA SocialTyped ==
  ASSUME TypeOK
  PROVE /\ friends \in [Pairs -> FriendRelation] /\ friendsFile \in [Pairs -> FriendRelation]
        /\ mail \in [Messages -> DirectMessage] /\ mailFile \in [Messages -> DirectMessage]
        /\ group \in GroupState /\ groupFile \in GroupState
        /\ group.role \in [Users -> Role] /\ group.invite \in [Invites -> GroupInvite]
<1>1. group \in GroupState
  BY DEF TypeOK
<1>2. QED BY <1>1 DEF TypeOK, GroupState

LEMMA PairsOfTwo ==
  ASSUME NEW u \in Users, NEW v \in Users, u # v
  PROVE {u, v} \in Pairs
<1>1. {u, v} \notin {{w} : w \in Users}
  OBVIOUS
<1>2. QED BY <1>1 DEF Pairs

----------------------------------------------------------------------------
(* The operations of the group: what they leave is sound, an invitation    *)
(* comes from somebody who is on speaking terms with the invited, and who  *)
(* joins by one is backed by somebody who may invite.                      *)
InvitesAreWelcome ==
    \A i \in Invites : ~Pending(i) /\ group'.invite[i].state = "pending" =>
        ~Strangers(group'.invite[i].by, group'.invite[i].user)

JoinsAreBacked ==
    \A i \in Invites : Pending(i) /\ group'.invite[i].state = "accepted" =>
        group.invite[i].by \in MayInvite /\ i \notin lapsed

GroupStep == GroupSound(group') /\ InvitesAreWelcome /\ JoinsAreBacked

(* Roles change one at a time.                                             *)
LEMMA RoleStep ==
  ASSUME TypeOK, GroupSound(group), NEW u \in Users, NEW role \in Role,
         group' = [group EXCEPT !.role[u] = role],
         \/ role = "owner" /\ \A w \in Users : group.role[w] = "none"
         \/ role \in ValidRole \cup {"none"} /\ group.role[u] # "owner"
            /\ \E w \in Users : group.role[w] = "owner"
  PROVE GroupStep
<1>1. /\ group'.role = [group.role EXCEPT ![u] = role] /\ group'.invite = group.invite
      /\ group' \in GroupState
  BY SocialTyped DEF GroupState
<1>2. /\ group'.role[u] = role
      /\ \A w \in Users \ {u} : group'.role[w] = group.role[w]
  BY <1>1, SocialTyped
<1>3. Owned(group')
  BY <1>2 DEF Owned, GroupSound, ValidRole
<1>4. InvitesPlain(group')
  BY <1>1 DEF InvitesPlain, GroupSound
<1>5. InvitesAreWelcome /\ JoinsAreBacked
  BY <1>1 DEF InvitesAreWelcome, JoinsAreBacked, Pending
<1>6. QED BY <1>1, <1>3, <1>4, <1>5 DEF GroupStep, GroupSound

(* Somebody with a power means there is an owner.                          *)
LEMMA PowerMeansOwner ==
  ASSUME GroupSound(group), NEW u \in Users, group.role[u] # "none"
  PROVE \E w \in Users : group.role[w] = "owner"
BY DEF GroupSound, Owned

LEMMA MembershipStep ==
  ASSUME TypeOK, GroupSound(group), NEW actor \in Users, NEW u \in Users,
         MembershipRequest(actor, u)
  PROVE GroupStep
<1>0. group.role \in [Users -> Role]
  BY SocialTyped
<1>1. CASE RemoveMember(actor, u)
  <2>1. \E w \in Users : group.role[w] = "owner"
    BY <1>1, PowerMeansOwner DEF RemoveMember
  <2>2. QED BY <1>1, <2>1, RoleStep DEF RemoveMember, Role
<1>2. ASSUME NEW role \in ValidRole, AddMember(actor, u, role)
      PROVE GroupStep
  <2>1. \E w \in Users : group.role[w] = "owner"
    BY <1>2, PowerMeansOwner DEF AddMember, MayInvite
  <2>2. QED BY <1>2, <2>1, RoleStep DEF AddMember, ValidRole, Role
<1>3. ASSUME NEW role \in ValidRole, SetRole(actor, u, role)
      PROVE GroupStep
  <2>1. \E w \in Users : group.role[w] = "owner"
    BY <1>3 DEF SetRole, MaySetRoles
  <2>2. QED BY <1>3, <2>1, RoleStep DEF SetRole, ValidRole, Role
<1>4. CASE CreateGroup(u)
  <2>1. \A w \in Users : group.role[w] = "none"
    BY <1>4, PowerMeansOwner DEF CreateGroup, Exists
  <2>2. QED BY <1>4, <2>1, RoleStep DEF CreateGroup, Role
<1>5. QED BY <1>1, <1>2, <1>3, <1>4 DEF MembershipRequest

(* Invitations change one at a time.                                       *)
LEMMA InviteStep ==
  ASSUME TypeOK, GroupSound(group), NEW i \in Invites, NEW x \in GroupInvite,
         group' \in GroupState, group'.role = group.role,
         group'.invite = [group.invite EXCEPT ![i] = x],
         x.user \in Users /\ x.by \in Users /\ x.role \in ValidRole,
         x.state = "pending" => ~Strangers(x.by, x.user),
         Pending(i) /\ x.state = "accepted" => group.invite[i].by \in MayInvite /\ i \notin lapsed
  PROVE GroupStep
<1>1. /\ group'.invite[i] = x
      /\ \A j \in Invites \ {i} : group'.invite[j] = group.invite[j]
  BY SocialTyped
<1>2. Owned(group')
  BY DEF Owned, GroupSound
<1>3. InvitesPlain(group')
  BY <1>1 DEF InvitesPlain, GroupSound
<1>4. InvitesAreWelcome /\ JoinsAreBacked
  BY <1>1 DEF InvitesAreWelcome, JoinsAreBacked, Pending
<1>5. QED BY <1>2, <1>3, <1>4 DEF GroupStep, GroupSound

LEMMA InviteRequestStep ==
  ASSUME TypeOK, GroupSound(group), NEW actor \in Users, NEW u \in Users, NEW role \in ValidRole,
         NEW i \in Invites, InviteRequest(actor, u, role, i)
  PROVE GroupStep
<1> DEFINE x == [state |-> "pending", user |-> u, by |-> actor, role |-> role]
<1>1. x \in GroupInvite
  BY DEF GroupInvite, GroupInviteState, ValidRole, Role
<1>2. group' = [group EXCEPT !.invite[i] = x] /\ ~Strangers(actor, u) /\ ~Pending(i)
  BY DEF InviteRequest, Invite, Pending
<1>3. x.user = u /\ x.by = actor /\ x.role = role
  OBVIOUS
<1> HIDE DEF x
<1>4. /\ group'.invite = [group.invite EXCEPT ![i] = x] /\ group'.role = group.role
      /\ group' \in GroupState
  BY <1>1, <1>2, SocialTyped DEF GroupState
<1>5. QED BY <1>1, <1>2, <1>3, <1>4, InviteStep

LEMMA ResolvedStep ==
  ASSUME TypeOK, GroupSound(group), NEW i \in Invites, NEW state \in GroupInviteState,
         Pending(i), Resolved(i, state), state # "pending",
         state = "accepted" => group.invite[i].by \in MayInvite /\ i \notin lapsed
  PROVE GroupStep
<1> DEFINE x == [group.invite[i] EXCEPT !.state = state]
<1>1. group.invite[i] \in GroupInvite
  BY SocialTyped
<1>2. /\ x \in GroupInvite /\ x.state = state /\ x.user = group.invite[i].user
      /\ x.by = group.invite[i].by /\ x.role = group.invite[i].role
  BY <1>1 DEF GroupInvite
<1>3. group'.invite = [group.invite EXCEPT ![i] = x] /\ group'.role = group.role
      /\ group' \in GroupState
  <2>1. group'.invite = [group.invite EXCEPT ![i] = x] /\ group'.role = group.role
    BY SocialTyped DEF Resolved, GroupState
  <2>2. group'.invite \in [Invites -> GroupInvite]
    <3> HIDE DEF x
    <3> QED BY <1>2, <2>1, SocialTyped
  <2>3. QED BY <2>1, <2>2, SocialTyped DEF Resolved, GroupState
<1> HIDE DEF x
<1>4. x.user \in Users /\ x.by \in Users /\ x.role \in ValidRole
  BY <1>2 DEF GroupSound, InvitesPlain, Pending
<1>5. QED BY <1>2, <1>3, <1>4, InviteStep

LEMMA JoinedStep ==
  ASSUME TypeOK, GroupSound(group), NEW i \in Invites, Pending(i), Joined(i), Exists,
         group.role[group.invite[i].user] = "none",
         group.invite[i].by \in MayInvite, i \notin lapsed
  PROVE GroupStep
<1> DEFINE x == [group.invite[i] EXCEPT !.state = "accepted"]
           u == group.invite[i].user
           role == group.invite[i].role
<1>1. group.invite[i] \in GroupInvite
  BY SocialTyped
<1>2. /\ x \in GroupInvite /\ x.state = "accepted" /\ x.user = u
      /\ x.by = group.invite[i].by /\ x.role = role
  BY <1>1 DEF GroupInvite, GroupInviteState
<1>3. u \in Users /\ x.by \in Users /\ role \in ValidRole
  BY <1>2 DEF GroupSound, InvitesPlain, Pending
<1>4. group'.invite = [group.invite EXCEPT ![i] = x] /\ group'.role = [group.role EXCEPT ![u] = role]
      /\ group' \in GroupState
  <2>1. group'.invite = [group.invite EXCEPT ![i] = x] /\ group'.role = [group.role EXCEPT ![u] = role]
    BY SocialTyped DEF Joined, GroupState
  <2>2. group'.invite \in [Invites -> GroupInvite] /\ group'.role \in [Users -> Role]
    <3> HIDE DEF x, u, role
    <3> QED BY <1>2, <1>3, <2>1, SocialTyped DEF ValidRole, Role
  <2>3. QED BY <2>1, <2>2, SocialTyped DEF Joined, GroupState
<1> HIDE DEF x
<1>5. /\ group'.role[u] = role
      /\ \A w \in Users \ {u} : group'.role[w] = group.role[w]
      /\ group'.invite[i] = x
      /\ \A j \in Invites \ {i} : group'.invite[j] = group.invite[j]
  BY <1>3, <1>4, SocialTyped
<1>6. Owned(group')
  BY <1>3, <1>5 DEF Owned, GroupSound, ValidRole, Exists
<1>7. InvitesPlain(group')
  BY <1>2, <1>3, <1>5 DEF InvitesPlain, GroupSound
<1>8. InvitesAreWelcome /\ JoinsAreBacked
  BY <1>2, <1>5 DEF InvitesAreWelcome, JoinsAreBacked, Pending
<1>9. QED BY <1>4, <1>6, <1>7, <1>8 DEF GroupStep, GroupSound

LEMMA AnswerStep ==
  ASSUME TypeOK, GroupSound(group), NEW actor \in Users, NEW i \in Invites,
         AnswerRequest(actor, i)
  PROVE GroupStep
<1>1. CASE AcceptInvite(i)
  BY <1>1, JoinedStep, ResolvedStep DEF AcceptInvite, GroupInviteState
<1>2. CASE AcceptTooLate(i)
  BY <1>2, ResolvedStep DEF AcceptTooLate, GroupInviteState
<1>3. CASE RevokeInvite(actor, i)
  BY <1>3, ResolvedStep DEF RevokeInvite, GroupInviteState
<1>4. QED BY <1>1, <1>2, <1>3 DEF AnswerRequest

LEMMA PurgeStep ==
  ASSUME TypeOK, GroupSound(group), PurgeExpiredInvites
  PROVE GroupStep
<1> DEFINE expired == {i \in lapsed : Pending(i)}
           invites == [i \in Invites |-> IF i \in expired
                                         THEN [group.invite[i] EXCEPT !.state = "expired"]
                                         ELSE group.invite[i]]
<1>1. group' = [group EXCEPT !.invite = invites]
  BY DEF PurgeExpiredInvites
<1>2. \A i \in Invites :
          /\ invites[i] \in GroupInvite
          /\ \/ invites[i] = group.invite[i]
             \/ /\ invites[i].state = "expired" /\ group.invite[i].state = "pending"
                /\ invites[i].user = group.invite[i].user /\ invites[i].by = group.invite[i].by
                /\ invites[i].role = group.invite[i].role
  BY SocialTyped DEF GroupInvite, GroupInviteState, Pending
<1>3. invites \in [Invites -> GroupInvite]
  BY <1>2
<1> HIDE DEF invites
<1>4. group'.invite = invites /\ group'.role = group.role /\ group' \in GroupState
  BY <1>1, <1>3, SocialTyped DEF GroupState
<1>5. Owned(group')
  BY <1>4 DEF Owned, GroupSound
<1>6. InvitesPlain(group')
  BY <1>2, <1>4 DEF InvitesPlain, GroupSound
<1>7. InvitesAreWelcome /\ JoinsAreBacked
  BY <1>2, <1>4 DEF InvitesAreWelcome, JoinsAreBacked, Pending
<1>8. QED BY <1>4, <1>5, <1>6, <1>7 DEF GroupStep, GroupSound

LEMMA GroupUntouched ==
  ASSUME GroupSound(group), group' = group
  PROVE GroupStep
BY DEF GroupStep, GroupSound, Owned, InvitesPlain, InvitesAreWelcome, JoinsAreBacked, Pending
----------------------------------------------------------------------------
(* What the other two stores let through: a relation or a message comes    *)
(* into being only between users of whom neither blocks the other.         *)
FriendsKept ==
    \A p \in Pairs :
        \/ friends'[p] = friends[p] \/ friends'[p] = NoRelation
        \/ friends'[p].status # "none" /\ \E u, v \in Users : p = {u, v} /\ ~Strangers(u, v)

MailKept ==
    \A m \in Messages :
        \/ mail'[m] = mail[m] \/ mail'[m].read
        \/ ~Strangers(mail'[m].sender, mail'[m].recipient)

(* BlockHolds and JoinersAreBacked as the steps state them.                *)
NoContact == crashes' = crashes => \A pair \in promised : ~Together(pair[1], pair[2])

Backed ==
    \A i \in Invites :
        (Pending(i) /\ group'.invite[i].state = "accepted" /\ crashes' = crashes) =>
            group.invite[i].by \in MayInvite /\ i \notin lapsed

LEMMA PromisedPairs ==
  ASSUME SocialInv, NEW pair \in promised
  PROVE /\ pair \in Users \X Users /\ {pair[1], pair[2]} \in Pairs
        /\ \A u, v : {u, v} = {pair[1], pair[2]} => Strangers(u, v)
<1>1. pair \in Users \X Users
  BY DEF SocialInv, TypeOK
<1>2. pair[1] # pair[2] /\ pair \in blocked
  BY DEF SocialInv, BlocksKept
<1>3. pair[1] \in Users /\ pair[2] \in Users /\ pair = <<pair[1], pair[2]>>
  BY <1>1
<1>4. {pair[1], pair[2]} \in Pairs
  BY <1>2, <1>3, PairsOfTwo
<1>5. ASSUME NEW u, NEW v, {u, v} = {pair[1], pair[2]}
      PROVE Strangers(u, v)
  <2>1. (u = pair[1] /\ v = pair[2]) \/ (u = pair[2] /\ v = pair[1])
    BY <1>5
  <2>2. QED BY <1>2, <1>3, <2>1 DEF Strangers, Blocks
<1>6. QED BY <1>1, <1>4, <1>5

LEMMA ContactIsBlocked ==
  ASSUME SocialInv, FriendsKept, MailKept, GroupStep
  PROVE NoContact /\ Backed
<1>1. ASSUME NEW pair \in promised, Together(pair[1], pair[2])
      PROVE FALSE
  <2> DEFINE p == {pair[1], pair[2]}
  <2>1. /\ p \in Pairs
        /\ \A u, v : {u, v} = p => Strangers(u, v)
    BY PromisedPairs
  <2> HIDE DEF p
  <2>2. ~(friends'[p] # friends[p] /\ friends'[p] # NoRelation)
    BY <2>1 DEF FriendsKept
  <2>3. ASSUME NEW m \in Messages, mail'[m] # mail[m],
               {mail'[m].sender, mail'[m].recipient} = p, ~mail'[m].read
        PROVE FALSE
    BY <2>1, <2>3 DEF MailKept
  <2>4. ASSUME NEW i \in Invites, ~Pending(i), group'.invite[i].state = "pending",
               {group'.invite[i].user, group'.invite[i].by} = p
        PROVE FALSE
    <3>1. ~Strangers(group'.invite[i].by, group'.invite[i].user)
      BY <2>4 DEF GroupStep, InvitesAreWelcome
    <3>2. {group'.invite[i].by, group'.invite[i].user} = p
      BY <2>4
    <3>3. QED BY <2>1, <3>1, <3>2
  <2>5. QED BY <1>1, <2>2, <2>3, <2>4 DEF Together, p
<1>2. QED BY <1>1 DEF NoContact, Backed, GroupStep, JoinsAreBacked

(* A step that leaves the blocks alone.                                    *)
LEMMA QuietStep ==
  ASSUME SocialInv, TypeOK', FriendsKept, MailKept, GroupStep,
         groupFile' = groupFile \/ groupFile' = group',
         friendsFile' = friendsFile \/ friendsFile' = friends',
         UNCHANGED <<blocked, blockedFile, promised, blocking>>,
         failures' = 0 => failures = 0 /\ friendsFile' = friends'
  PROVE SocialInv' /\ NoContact /\ Backed
<1>1. GroupSound(group)' /\ GroupSound(groupFile)'
  BY DEF GroupStep, SocialInv, GroupSound, Owned, InvitesPlain
<1>2. BlocksKept'
  BY DEF SocialInv, BlocksKept
<1>3. ASSUME failures' = 0, NEW pair \in promised'
      PROVE friends'[{pair[1], pair[2]}] = NoRelation /\ friendsFile'[{pair[1], pair[2]}] = NoRelation
  <2> DEFINE p == {pair[1], pair[2]}
  <2>1. p \in Pairs /\ \A u, v : {u, v} = p => Strangers(u, v)
    BY PromisedPairs
  <2>2. friends[p] = NoRelation
    BY <1>3 DEF SocialInv, BlockedAreNoFriends
  <2> HIDE DEF p
  <2>3. friends'[p] = NoRelation
    BY <2>1, <2>2 DEF FriendsKept
  <2>4. QED BY <1>3, <2>3 DEF p
<1>4. BlockedAreNoFriends'
  BY <1>3 DEF BlockedAreNoFriends
<1>5. RelationsPlain(friends)' /\ RelationsPlain(friendsFile)'
  BY DEF SocialInv, RelationsPlain, FriendsKept, NoRelation
<1>6. QED BY <1>1, <1>2, <1>4, <1>5, ContactIsBlocked DEF SocialInv

(* The stores a step leaves alone.                                         *)
LEMMA FriendsUntouched == ASSUME friends' = friends PROVE FriendsKept
BY DEF FriendsKept

LEMMA MailUntouched == ASSUME mail' = mail PROVE MailKept
BY DEF MailKept

LEMMA BeginsTyped ==
  ASSUME TypeOK, Begins
  PROVE changes' \in 0 .. MaxChanges /\ lapsed' = lapsed /\ crashes' = crashes
BY BoundsAssumption DEF TypeOK, Begins

LEMMA ThrowsTyped ==
  ASSUME TypeOK, Throws
  PROVE /\ failures' \in 0 .. MaxFailures /\ failures' # 0
        /\ UNCHANGED <<friendsFile, blockedFile, mailFile, groupFile>>
BY BoundsAssumption DEF TypeOK, Throws, files

LEMMA FriendsRequestKeeps ==
  ASSUME SocialInv, FriendsRequest, friends' \in [Pairs -> FriendRelation], FriendsKept
  PROVE SocialInv' /\ NoContact /\ Backed
<1>1. /\ UNCHANGED <<blocked, mail, group, blockedFile, mailFile, groupFile, blocking, promised>>
      /\ \/ friendsFile' = friends' /\ failures' = failures
         \/ friendsFile' = friendsFile /\ failures' # 0 /\ failures' \in 0 .. MaxFailures
  BY ThrowsTyped DEF FriendsRequest, Unshaken, WriteFriends, SocialInv
<1>2. TypeOK'
  BY <1>1, BeginsTyped DEF FriendsRequest, SocialInv, TypeOK
<1>3. GroupStep
  BY <1>1, GroupUntouched DEF SocialInv
<1>4. MailKept
  BY <1>1, MailUntouched
<1>5. QED BY <1>1, <1>2, <1>3, <1>4, QuietStep

LEMMA FriendChange ==
  ASSUME SocialInv, NEW u \in Users, NEW v \in Users, u # v, NEW x \in FriendRelation,
         friends' = [friends EXCEPT ![{u, v}] = x], x = NoRelation \/ (x.status # "none" /\ ~Strangers(u, v))
  PROVE friends' \in [Pairs -> FriendRelation] /\ FriendsKept
<1>1. {u, v} \in Pairs
  BY PairsOfTwo
<1>2. friends \in [Pairs -> FriendRelation]
  BY SocialTyped DEF SocialInv
<1>3. friends' \in [Pairs -> FriendRelation]
  BY <1>2
<1>4. /\ friends'[{u, v}] = x
      /\ \A p \in Pairs : p # {u, v} => friends'[p] = friends[p]
  BY <1>1, <1>2
<1>5. QED BY <1>3, <1>4 DEF FriendsKept

LEMMA NoRelationTyped == NoRelation \in FriendRelation
BY DEF NoRelation, FriendRelation

LEMMA FriendRequestsKeep ==
  ASSUME SocialInv, NEW u \in Users, NEW v \in Users,
         FriendRequest(u, v) \/ Accept(u, v) \/ RemoveFriend(u, v)
  PROVE SocialInv' /\ NoContact /\ Backed
<1>1. CASE FriendRequest(u, v)
  <2> DEFINE x == [status |-> "pending", requested_by |-> u]
  <2>1. x \in FriendRelation
    BY DEF FriendRelation
  <2>4. x.status # "none"
    OBVIOUS
  <2>2. friends' = [friends EXCEPT ![{u, v}] = x] /\ u # v /\ ~Strangers(u, v) /\ FriendsRequest
    BY <1>1 DEF FriendRequest, Requested
  <2> HIDE DEF x
  <2>3. QED BY <2>1, <2>2, <2>4, FriendChange, FriendsRequestKeeps
<1>2. CASE Accept(u, v)
  <2> DEFINE x == [friends[{u, v}] EXCEPT !.status = "accepted"]
  <2>1. u # v /\ ~Strangers(u, v) /\ FriendsRequest /\ friends' = [friends EXCEPT ![{u, v}] = x]
    BY <1>2 DEF Accept, Accepted
  <2>2. friends[{u, v}] \in FriendRelation
    BY <2>1, SocialTyped, PairsOfTwo DEF SocialInv
  <2>3. x \in FriendRelation /\ x.status # "none"
    BY <2>2 DEF FriendRelation
  <2> HIDE DEF x
  <2>4. QED BY <2>1, <2>3, FriendChange, FriendsRequestKeeps
<1>3. CASE RemoveFriend(u, v)
  BY <1>3, NoRelationTyped, FriendChange, FriendsRequestKeeps DEF RemoveFriend, Removed
<1>4. QED BY <1>1, <1>2, <1>3

LEMMA MailRequestKeeps ==
  ASSUME SocialInv, MailRequest, mail' \in [Messages -> DirectMessage], MailKept
  PROVE SocialInv' /\ NoContact /\ Backed
<1>1. /\ UNCHANGED <<friends, blocked, group, friendsFile, blockedFile, groupFile, blocking, promised>>
      /\ \/ mailFile' = mail' /\ failures' = failures
         \/ mailFile' = mailFile /\ failures' # 0 /\ failures' \in 0 .. MaxFailures
  BY ThrowsTyped DEF MailRequest, Unshaken, WriteMail, SocialInv
<1>2. TypeOK'
  BY <1>1, BeginsTyped DEF MailRequest, SocialInv, TypeOK
<1>3. GroupStep /\ FriendsKept
  BY <1>1, GroupUntouched, FriendsUntouched DEF SocialInv
<1>4. failures' = 0 => failures = 0 /\ friendsFile' = friends'
  BY <1>1 DEF SocialInv
<1>5. QED BY <1>1, <1>2, <1>3, <1>4, QuietStep

LEMMA MailRequestsKeep ==
  ASSUME SocialInv, NEW u \in Users, NEW v \in Users, NEW m \in Messages,
         Send(u, v, m) \/ MarkRead(u, m)
  PROVE SocialInv' /\ NoContact /\ Backed
<1>0. mail \in [Messages -> DirectMessage]
  BY SocialTyped DEF SocialInv
<1>1. CASE Send(u, v, m)
  <2> DEFINE x == [sender |-> u, recipient |-> v, read |-> FALSE]
  <2>1. mail' = [mail EXCEPT ![m] = x] /\ ~Strangers(u, v) /\ MailRequest
    BY <1>1 DEF Send, Sent
  <2>2. x \in DirectMessage /\ x.sender = u /\ x.recipient = v
    BY DEF DirectMessage
  <2> HIDE DEF x
  <2>3. mail' \in [Messages -> DirectMessage] /\ MailKept
    BY <1>0, <2>1, <2>2 DEF MailKept
  <2>4. QED BY <2>1, <2>3, MailRequestKeeps
<1>2. CASE MarkRead(u, m)
  <2> DEFINE x == [mail[m] EXCEPT !.read = TRUE]
  <2>1. mail' = [mail EXCEPT ![m] = x] /\ MailRequest
    BY <1>2 DEF MarkRead
  <2>2. x \in DirectMessage /\ x.read
    BY <1>0 DEF DirectMessage
  <2> HIDE DEF x
  <2>3. mail' \in [Messages -> DirectMessage] /\ MailKept
    BY <1>0, <2>1, <2>2 DEF MailKept
  <2>4. QED BY <2>1, <2>3, MailRequestKeeps
<1>3. QED BY <1>1, <1>2

LEMMA GroupRequestKeeps ==
  ASSUME SocialInv, GroupRequest, GroupStep
  PROVE SocialInv' /\ NoContact /\ Backed
<1>1. /\ UNCHANGED <<friends, blocked, mail, friendsFile, blockedFile, mailFile, blocking, promised>>
      /\ \/ groupFile' = group' /\ failures' = failures
         \/ groupFile' = groupFile /\ failures' # 0 /\ failures' \in 0 .. MaxFailures
  BY ThrowsTyped DEF GroupRequest, Unshaken, WriteGroup, SocialInv
<1>2. TypeOK'
  BY <1>1, BeginsTyped DEF GroupRequest, SocialInv, TypeOK, GroupStep, GroupSound
<1>3. MailKept /\ FriendsKept
  BY <1>1, MailUntouched, FriendsUntouched
<1>4. failures' = 0 => failures = 0 /\ friendsFile' = friends'
  BY <1>1 DEF SocialInv
<1>5. QED BY <1>1, <1>2, <1>3, <1>4, QuietStep

LEMMA GroupRequestsKeep ==
  ASSUME SocialInv,
         \/ \E actor, u \in Users : MembershipRequest(actor, u)
         \/ \E actor, u \in Users, role \in ValidRole, i \in Invites : InviteRequest(actor, u, role, i)
         \/ \E actor \in Users, i \in Invites : AnswerRequest(actor, i)
  PROVE SocialInv' /\ NoContact /\ Backed
<1>1. TypeOK /\ GroupSound(group)
  BY DEF SocialInv
<1>2. GroupStep
  BY <1>1, MembershipStep, InviteRequestStep, AnswerStep
<1>3. GroupRequest
  BY DEF MembershipRequest, InviteRequest, AnswerRequest
<1>4. QED BY <1>2, <1>3, GroupRequestKeeps

LEMMA MaintenanceKeeps ==
  ASSUME SocialInv, PurgeExpiredInvites \/ (\E i \in Invites : Lapse(i)) \/ UNCHANGED vars
  PROVE SocialInv' /\ NoContact /\ Backed
<1>1. /\ UNCHANGED <<friends, blocked, mail, friendsFile, blockedFile, mailFile, blocking, promised>>
      /\ UNCHANGED <<changes, failures, crashes>>
      /\ lapsed' \subseteq Invites
  BY DEF PurgeExpiredInvites, Lapse, vars, stores, files, bounds, SocialInv, TypeOK
<1>2. GroupStep /\ (groupFile' = groupFile \/ groupFile' = group')
  <2>1. CASE PurgeExpiredInvites
    BY <2>1, PurgeStep DEF SocialInv, PurgeExpiredInvites, WriteGroup
  <2>2. CASE (\E i \in Invites : Lapse(i)) \/ UNCHANGED vars
    <3>1. group' = group /\ groupFile' = groupFile
      BY <2>2 DEF Lapse, vars, stores, files
    <3>2. QED BY <3>1, GroupUntouched DEF SocialInv
  <2>3. QED BY <2>1, <2>2
<1>3. TypeOK'
  BY <1>1, <1>2 DEF SocialInv, TypeOK, GroupStep, GroupSound
<1>4. MailKept /\ FriendsKept
  BY <1>1, MailUntouched, FriendsUntouched
<1>5. failures' = 0 => failures = 0 /\ friendsFile' = friends'
  BY <1>1 DEF SocialInv
<1>6. QED BY <1>1, <1>2, <1>3, <1>4, <1>5, QuietStep

----------------------------------------------------------------------------
(* Blocks.                                                                 *)
LEMMA GroupSoundUntouched ==
  ASSUME SocialInv, group' = group, groupFile' = groupFile
  PROVE GroupSound(group)' /\ GroupSound(groupFile)'
BY DEF SocialInv, GroupSound, Owned, InvitesPlain

LEMMA RelationsUntouched ==
  ASSUME SocialInv, friends' = friends, friendsFile' = friendsFile
  PROVE RelationsPlain(friends)' /\ RelationsPlain(friendsFile)'
BY DEF SocialInv, RelationsPlain

LEMMA SetBlockedKeeps ==
  ASSUME SocialInv, NEW u \in Users, NEW v \in Users, SetBlocked(u, v)
  PROVE SocialInv' /\ NoContact /\ Backed
<1>1. /\ UNCHANGED <<friends, mail, group, promised, friendsFile, mailFile, groupFile>>
      /\ blocked' = blocked \cup {<<u, v>>} /\ u # v /\ Begins
      /\ \/ blockedFile' = blocked' /\ blocking' = <<u, v>> /\ failures' = failures
         \/ /\ blockedFile' = blockedFile /\ blocking' = blocking
            /\ failures' # 0 /\ failures' \in 0 .. MaxFailures
  BY ThrowsTyped DEF SetBlocked, BlockSet, WritePolicy, SocialInv
<1>2. TypeOK'
  <2>1. changes' \in 0 .. MaxChanges /\ lapsed' = lapsed /\ crashes' = crashes
    BY <1>1, BeginsTyped DEF SocialInv
  <2>2. <<u, v>> \in Users \X Users
    OBVIOUS
  <2>3. QED BY <1>1, <2>1, <2>2 DEF SocialInv, TypeOK
<1>3. BlocksKept'
  <2>1. blocking = Unblocking
    BY <1>1 DEF Begins
  <2>2. QED BY <1>1, <2>1 DEF SocialInv, BlocksKept
<1>4. BlockedAreNoFriends' /\ (failures' = 0 => friendsFile' = friends')
  BY <1>1 DEF SocialInv, BlockedAreNoFriends
<1>5. FriendsKept /\ MailKept /\ GroupStep
  BY <1>1, FriendsUntouched, MailUntouched, GroupUntouched DEF SocialInv
<1>6. QED BY <1>1, <1>2, <1>3, <1>4, <1>5, GroupSoundUntouched, RelationsUntouched, ContactIsBlocked
          DEF SocialInv

LEMMA DropFriendKeeps ==
  ASSUME SocialInv, NEW u \in Users, NEW v \in Users, DropFriend(u, v)
  PROVE SocialInv' /\ NoContact /\ Backed
<1>1. /\ UNCHANGED <<blocked, mail, group, blockedFile, mailFile, groupFile, lapsed, changes, crashes>>
      /\ blocking = <<u, v>> /\ blocking' = Unblocking
      /\ \/ promised' = promised \cup {<<u, v>>} /\ failures' = failures
         \/ promised' = promised /\ failures' # 0 /\ failures' \in 0 .. MaxFailures
  BY ThrowsTyped DEF DropFriend, Answered, files, SocialInv
<1>2. blocking # Unblocking
  BY <1>1, NobodyAssumption DEF Unblocking
<1>3. u # v /\ <<u, v>> \in blocked /\ <<u, v>> \in blockedFile
  BY <1>1, <1>2 DEF SocialInv, BlocksKept
<1>4. {u, v} \in Pairs
  BY <1>3, PairsOfTwo
<1>5. friends \in [Pairs -> FriendRelation] /\ friendsFile \in [Pairs -> FriendRelation]
  BY SocialTyped DEF SocialInv
<1>6. /\ friends' \in [Pairs -> FriendRelation]
      /\ friends'[{u, v}] = NoRelation
      /\ \A p \in Pairs : p # {u, v} => friends'[p] = friends[p]
      /\ friendsFile' = friendsFile \/ friendsFile' = friends'
      /\ failures' = failures => friendsFile' = friends' \/ (friends' = friends /\ friendsFile' = friendsFile)
  <2>1. CASE friends[{u, v}].status = "none"
    <3>1. UNCHANGED <<friends, friendsFile>>
      BY <2>1 DEF DropFriend, files
    <3>2. friends[{u, v}] = NoRelation
      BY <1>4, <2>1 DEF SocialInv, RelationsPlain
    <3>3. QED BY <1>5, <3>1, <3>2
  <2>2. CASE friends[{u, v}].status # "none"
    <3>1. /\ friends' = [friends EXCEPT ![{u, v}] = NoRelation]
          /\ \/ friendsFile' = friends'
             \/ friendsFile' = friendsFile /\ failures' = failures + 1
      BY <2>2 DEF DropFriend, Removed, WriteFriends, Throws, files
    <3>2. failures \in Nat
      BY BoundsAssumption DEF SocialInv, TypeOK
    <3>3. QED BY <1>4, <1>5, <3>1, <3>2, NoRelationTyped
  <2>3. QED BY <2>1, <2>2
<1>7. TypeOK'
  BY <1>1, <1>3, <1>5, <1>6 DEF SocialInv, TypeOK
<1>8. BlocksKept'
  BY <1>1, <1>3 DEF SocialInv, BlocksKept
<1>9. RelationsPlain(friends)' /\ RelationsPlain(friendsFile)'
  BY <1>6 DEF SocialInv, RelationsPlain, NoRelation
<1>10. failures' = 0 => failures = 0 /\ friendsFile' = friends'
  BY <1>1, <1>6 DEF SocialInv
<1>11. BlockedAreNoFriends'
  <2>1. ASSUME failures' = 0, NEW pair \in promised'
        PROVE friends'[{pair[1], pair[2]}] = NoRelation /\ friendsFile'[{pair[1], pair[2]}] = NoRelation
    <3>1. CASE pair = <<u, v>>
      BY <1>6, <1>10, <2>1, <3>1
    <3>2. CASE pair \in promised
      <4> DEFINE p == {pair[1], pair[2]}
      <4>1. p \in Pairs /\ friends[p] = NoRelation
        BY <1>10, <2>1, <3>2, PromisedPairs DEF SocialInv, BlockedAreNoFriends
      <4> HIDE DEF p
      <4>2. friends'[p] = NoRelation
        BY <1>6, <4>1
      <4>3. QED BY <1>10, <2>1, <4>2 DEF p
    <3>3. QED BY <1>1, <3>1, <3>2
  <2>2. QED BY <2>1 DEF BlockedAreNoFriends
<1>12. FriendsKept /\ MailKept /\ GroupStep
  BY <1>1, <1>6, MailUntouched, GroupUntouched DEF SocialInv, FriendsKept
<1>13. QED BY <1>1, <1>7, <1>8, <1>9, <1>10, <1>11, <1>12, GroupSoundUntouched, ContactIsBlocked
           DEF SocialInv

LEMMA UnblockKeeps ==
  ASSUME SocialInv, NEW u \in Users, NEW v \in Users, Unblock(u, v)
  PROVE SocialInv' /\ NoContact /\ Backed
<1>1. /\ UNCHANGED <<friends, mail, group, blocking, friendsFile, mailFile, groupFile>>
      /\ blocked' = blocked \ {<<u, v>>} /\ promised' = promised \ {<<u, v>>} /\ Begins
      /\ \/ blockedFile' = blocked' /\ failures' = failures
         \/ blockedFile' = blockedFile /\ failures' # 0 /\ failures' \in 0 .. MaxFailures
  BY ThrowsTyped DEF Unblock, WritePolicy, SocialInv
<1>2. TypeOK'
  <2>1. changes' \in 0 .. MaxChanges /\ lapsed' = lapsed /\ crashes' = crashes
    BY <1>1, BeginsTyped DEF SocialInv
  <2>2. QED BY <1>1, <2>1 DEF SocialInv, TypeOK
<1>3. BlocksKept'
  BY <1>1 DEF SocialInv, BlocksKept, Begins
<1>4. BlockedAreNoFriends' /\ (failures' = 0 => friendsFile' = friends')
  BY <1>1 DEF SocialInv, BlockedAreNoFriends
<1>5. FriendsKept /\ MailKept /\ GroupStep
  BY <1>1, FriendsUntouched, MailUntouched, GroupUntouched DEF SocialInv
<1>6. QED BY <1>1, <1>2, <1>3, <1>4, <1>5, GroupSoundUntouched, RelationsUntouched, ContactIsBlocked
          DEF SocialInv

(* A restart reads the files.                                              *)
LEMMA SocialRestartKeeps ==
  ASSUME SocialInv, Restart
  PROVE SocialInv' /\ NoContact /\ Backed
<1>1. /\ friends' = friendsFile /\ blocked' = blockedFile /\ mail' = mailFile /\ group' = groupFile
      /\ blocking' = Unblocking /\ crashes < MaxCrashes /\ crashes' = crashes + 1
      /\ UNCHANGED <<friendsFile, blockedFile, mailFile, groupFile, lapsed, promised, changes, failures>>
  BY DEF Restart, files, ReadFriends, ReadPolicy, ReadMail, ReadGroup
<1>2. crashes' \in 0 .. MaxCrashes /\ crashes' # crashes
  BY <1>1, BoundsAssumption DEF SocialInv, TypeOK
<1>3. TypeOK'
  BY <1>1, <1>2 DEF SocialInv, TypeOK
<1>4. GroupSound(group)' /\ GroupSound(groupFile)'
  BY <1>1 DEF SocialInv, GroupSound, Owned, InvitesPlain
<1>5. RelationsPlain(friends)' /\ RelationsPlain(friendsFile)'
  BY <1>1 DEF SocialInv, RelationsPlain
<1>6. BlocksKept'
  BY <1>1 DEF SocialInv, BlocksKept
<1>7. BlockedAreNoFriends' /\ (failures' = 0 => friendsFile' = friends')
  BY <1>1 DEF SocialInv, BlockedAreNoFriends
<1>8. NoContact /\ Backed
  BY <1>2 DEF NoContact, Backed
<1>9. QED BY <1>3, <1>4, <1>5, <1>6, <1>7, <1>8 DEF SocialInv

LEMMA SocialInvInit ==
  ASSUME Init
  PROVE SocialInv
<1>1. GroupSound(group) /\ GroupSound(groupFile)
  BY DEF Init, GroupSound, GroupState, GroupInvite, GroupInviteState, NoInvite, Role, Owned, InvitesPlain
<1>2. RelationsPlain(friends) /\ RelationsPlain(friendsFile)
  BY DEF Init, RelationsPlain
<1>3. TypeOK
  <2>1. NoMessage \in DirectMessage
    BY DEF NoMessage, DirectMessage
  <2>2. QED BY <1>1, <2>1, NoRelationTyped, BoundsAssumption DEF Init, TypeOK, GroupSound
<1>4. BlocksKept /\ BlockedAreNoFriends
  BY DEF Init, BlocksKept, BlockedAreNoFriends
<1>5. QED BY <1>1, <1>2, <1>3, <1>4 DEF Init, SocialInv

(* No request, failed write, maintenance or restart breaks the invariant,  *)
(* and none lets a promised block down or a joiner in that nobody backs.   *)
LEMMA SocialNext ==
  ASSUME SocialInv, [Next]_vars
  PROVE SocialInv' /\ NoContact /\ Backed
<1>1. CASE \E u, v \in Users : FriendRequest(u, v) \/ Accept(u, v) \/ RemoveFriend(u, v)
  BY <1>1, FriendRequestsKeep
<1>2. CASE \E u, v \in Users : SetBlocked(u, v)
  BY <1>2, SetBlockedKeeps
<1>3. CASE \E u, v \in Users : DropFriend(u, v)
  BY <1>3, DropFriendKeeps
<1>4. CASE \E u, v \in Users : Unblock(u, v)
  BY <1>4, UnblockKeeps
<1>5. CASE \/ \E actor, u \in Users : MembershipRequest(actor, u)
           \/ \E actor, u \in Users, role \in ValidRole, i \in Invites : InviteRequest(actor, u, role, i)
           \/ \E actor \in Users, i \in Invites : AnswerRequest(actor, i)
  BY <1>5, GroupRequestsKeep
<1>6. CASE \E u, v \in Users, m \in Messages : Send(u, v, m)
  BY <1>6, MailRequestsKeep
<1>7. CASE \E u \in Users, m \in Messages : MarkRead(u, m)
  BY <1>7, MailRequestsKeep
<1>8. CASE PurgeExpiredInvites \/ (\E i \in Invites : Lapse(i)) \/ UNCHANGED vars
  BY <1>8, MaintenanceKeeps
<1>9. CASE Restart
  BY <1>9, SocialRestartKeeps
<1>10. QED BY <1>1, <1>2, <1>3, <1>4, <1>5, <1>6, <1>7, <1>8, <1>9 DEF Next

THEOREM SocialInductive == Spec => []SocialInv
<1>1. Init => SocialInv
  BY SocialInvInit
<1>2. SocialInv /\ [Next]_vars => SocialInv'
  BY SocialNext
<1>3. QED BY <1>1, <1>2, PTL DEF Spec

(* Types of the four stores, of the request and of the counters.           *)
THEOREM SocialTypeOK == Spec => []TypeOK
<1>1. SocialInv => TypeOK
  BY DEF SocialInv
<1>2. QED BY <1>1, SocialInductive, PTL

(* Users of whom one blocks the other are no friends, in memory and on     *)
(* disk, as long as no write has thrown (friends_store.cpp, remove).       *)
THEOREM BlockedUsersAreNoFriends == Spec => []BlockedAreNoFriends
<1>1. SocialInv => BlockedAreNoFriends
  BY DEF SocialInv
<1>2. QED BY <1>1, SocialInductive, PTL

(* A group with anybody in it has exactly one owner, in memory and on disk *)
(* (group_store.cpp).                                                      *)
THEOREM GroupHasOneOwner == Spec => []OneOwner
<1>1. SocialInv => OneOwner
  <2> SUFFICES ASSUME SocialInv, NEW g \in {group, groupFile}, NEW u \in Users, g.role[u] # "none"
               PROVE Cardinality({w \in Users : g.role[w] = "owner"}) = 1
    BY DEF OneOwner
  <2>1. PICK o \in Users : g.role[o] = "owner" /\ \A w \in Users : g.role[w] = "owner" => w = o
    BY DEF SocialInv, GroupSound, Owned
  <2>2. {w \in Users : g.role[w] = "owner"} = {o}
    BY <2>1
  <2>3. QED BY <2>2, FS_Singleton
<1>2. QED BY <1>1, SocialInductive, PTL

(* From the answer to a block until it is lifted no request brings the two *)
(* together, not even after restarts.                                      *)
THEOREM BlocksHold == Spec => BlockHolds
<1>1. SocialInv /\ [Next]_vars =>
          [crashes' = crashes => \A pair \in promised : ~Together(pair[1], pair[2])]_vars
  BY SocialNext DEF NoContact
<1>2. QED BY <1>1, SocialInductive, PTL DEF Spec, BlockHolds

(* Whoever joins by an invitation is backed by somebody who may invite at  *)
(* that moment.                                                            *)
THEOREM JoinersAlwaysBacked == Spec => JoinersAreBacked
<1>1. SocialInv /\ [Next]_vars =>
          [\A i \in Invites :
             (Pending(i) /\ group'.invite[i].state = "accepted" /\ crashes' = crashes) =>
                 group.invite[i].by \in MayInvite /\ i \notin lapsed]_vars
  BY SocialNext DEF Backed
<1>2. QED BY <1>1, SocialInductive, PTL DEF Spec, JoinersAreBacked
=============================================================================
