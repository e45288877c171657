--------------------------- MODULE MCRegionEntry ---------------------------
(* Instances of RegionEntry for TLC. *)
EXTENDS RegionEntry, TLC

CONSTANTS owner, guest, home, middle, edge, p1, b1, b2, e1, k1, t1, t2, c1, c2, o1, o2

ForTheGroup == [DefaultPolicy EXCEPT !.group = TRUE, !.public_entry = FALSE, !.group_terraform = TRUE]
SomePolicies == {DefaultPolicy, ForTheGroup}

\* A parcel of the owner in the middle of the Region, for the group.
OwnersParcel == [NoParcel EXCEPT !.owner = owner, !.region = home, !.area = {middle}, !.policy = ForTheGroup]
\* Files without land and estates, or with that parcel and the owner's estate.
SomeFiles ==
    {[land |-> NoLand,
      estates |-> [estate |-> [e \in Estates |-> NoEstate], policy |-> [r \in Regions |-> NoPolicy]]],
     [land |-> [NoLand EXCEPT ![p1] = OwnersParcel],
      estates |-> [estate |-> [e \in Estates |-> [owner |-> owner, managers |-> {}]],
                   policy |-> [r \in Regions |-> [estate |-> e1, public_access |-> TRUE, max_agents |-> 1]]]]}
SomeAreas == {{middle}}
SomeLimits == {1}
\* An object of the owner at the edge.
SomeScenes == {[o \in Objects |-> IF o = o1 THEN [owner |-> owner, region |-> home, at |-> edge, shared |-> "nobody"]
                                  ELSE NoObject]}
SomeSpots == {<<edge, TRUE>>, <<middle, FALSE>>}

\* Tickets, connections and bans are only compared with each other.
Symmetric == Permutations(Tickets) \cup Permutations(Connections) \cup Permutations(Bans)

Budget(land, crossing, ticket, scene, throw, restart) ==
    [land |-> land, crossing |-> crossing, ticket |-> ticket, scene |-> scene, throw |-> throw, restart |-> restart]
\* The life of a crossing with a restart, and with a write that throws; two changes
\* of policy against joins; one with a failed write and a restart; one against work in
\* the scene; two users and a restart.
SomeBudgets == {Budget(0, 4, 1, 0, 0, 1), Budget(0, 4, 1, 0, 1, 0), Budget(2, 0, 1, 0, 0, 0),
                Budget(1, 0, 1, 0, 1, 1), Budget(1, 0, 1, 1, 0, 0), Budget(0, 0, 2, 0, 0, 1)}
\* One handoff, and one change of the land or of the group.
OneHandoff == {Budget(1, 1, 1, 0, 0, 0)}
=============================================================================
