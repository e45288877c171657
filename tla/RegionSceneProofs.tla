------------------------- MODULE RegionSceneProofs -------------------------
(***************************************************************************)
(* Theorems about RegionScene, for every number of users, viewers, objects *)
(* and linksets to import, every limit of the events and every budget.     *)
(* ScriptWorldProofs uses them for the specification as a whole.           *)
(***************************************************************************)
EXTENDS RegionScene, FiniteSetTheorems, WellFoundedInduction, TLAPS

(* Of the subsets of a finite set that have a property one is smallest.    *)
LEMMA SmallestSubset ==
  ASSUME NEW S, IsFiniteSet(S), NEW Q, Q \subseteq SUBSET S, Q # {}
  PROVE \E U \in Q : \A V \in Q : ~(V \subseteq U /\ V # U)
<1>1. IsWellFoundedOn(StrictSubsetOrdering(S), SUBSET S)
  BY FS_StrictSubsetOrderingWellFounded, FS_FiniteSubsetsOfFinite
<1>2. PICK U \in Q : \A V \in Q : ~(<<V, U>> \in StrictSubsetOrdering(S))
  BY <1>1, WFMin
<1>3. QED BY <1>2 DEF StrictSubsetOrdering

(* A finite set of numbers has a largest one.                              *)
LEMMA LargestThere ==
  ASSUME NEW S, IsFiniteSet(S), S # {}, \A x \in S : x \in Nat
  PROVE \E m \in S : \A n \in S : n <= m
<1> DEFINE Q == {U \in SUBSET S : U # {} /\ \A m \in U : \E n \in U : ~(n <= m)}
<1>1. SUFFICES ASSUME Q # {} PROVE FALSE
  <2>1. S \notin Q
    BY <1>1
  <2>2. QED BY <2>1
<1>0. Q \subseteq SUBSET S
  OBVIOUS
<1>2. PICK U \in Q : \A V \in Q : ~(V \subseteq U /\ V # U)
  <2> HIDE DEF Q
  <2> QED BY <1>0, <1>1, SmallestSubset
<1>3. PICK x \in U : TRUE
  BY <1>2
<1>4. U \ {x} # {}
  <2>1. PICK n \in U : ~(n <= x)
    BY <1>2, <1>3
  <2>2. QED BY <2>1
<1>5. PICK m \in U \ {x} : \A n \in U \ {x} : n <= m
  <2>1. U \ {x} \notin Q
    BY <1>2, <1>3
  <2>2. QED BY <1>2, <1>4, <2>1
<1>6. m \in Nat /\ x \in Nat /\ m \in U /\ \A n \in U : n \in Nat
  BY <1>2, <1>3, <1>5
<1>7. CASE x <= m
  <2>1. \A n \in U : n <= m
    BY <1>5, <1>7
  <2>2. QED BY <1>2, <1>6, <2>1
<1>8. CASE ~(x <= m)
  <2>1. \A n \in U : n <= x
    BY <1>5, <1>6, <1>8
  <2>2. QED BY <1>2, <1>3, <2>1
<1>9. QED BY <1>7, <1>8

LEMMA MaxIs ==
  ASSUME NEW S \in SUBSET Nat, IsFiniteSet(S), S # {}
  PROVE Max(S) \in S /\ \A n \in S : n <= Max(S)
<1>1. PICK m \in S : \A n \in S : n <= m
  BY LargestThere
<1>2. \A n \in S : m >= n
  BY <1>1
<1>3. Max(S) \in S /\ \A n \in S : Max(S) >= n
  BY <1>1, <1>2 DEF Max
<1>4. QED BY <1>3

(* The objects of a set can be put in order.                               *)
LEMMA AscendingThere ==
  ASSUME NEW S, IsFiniteSet(S), \A x \in S : x \in Nat
  PROVE \E f \in [1 .. Cardinality(S) -> S] : \A i, j \in DOMAIN f : i < j => f[i] < f[j]
<1> DEFINE Q == {U \in SUBSET S : \A f \in [1 .. Cardinality(U) -> U] : \E i, j \in DOMAIN f : i < j /\ ~(f[i] < f[j])}
<1>1. SUFFICES ASSUME Q # {} PROVE FALSE
  <2>1. S \notin Q
    BY <1>1
  <2>2. QED BY <2>1
<1>0. Q \subseteq SUBSET S
  OBVIOUS
<1>2. PICK U \in Q : \A V \in Q : ~(V \subseteq U /\ V # U)
  <2> HIDE DEF Q
  <2> QED BY <1>0, <1>1, SmallestSubset
<1>3. IsFiniteSet(U) /\ U \in SUBSET Nat
  BY <1>2, FS_Subset
<1>4. U # {}
  <2>1. SUFFICES ASSUME U = {} PROVE FALSE
    OBVIOUS
  <2>2. 1 .. Cardinality(U) = {}
    BY <2>1, FS_EmptySet
  <2>3. PICK f \in [1 .. Cardinality(U) -> U] : TRUE
    <3>1. [i \in {} |-> 0] \in [{} -> U]
      OBVIOUS
    <3>2. QED BY <3>1, <2>2
  <2>4. QED BY <1>2, <2>2, <2>3
<1>5. PICK m \in U : \A n \in U : n <= m
  BY <1>3, <1>4, LargestThere
<1> DEFINE V == U \ {m}
<1>6. PICK k \in Nat : k = Cardinality(V) /\ Cardinality(U) = k + 1
  <2>1. Cardinality(U) \in Nat /\ Cardinality(V) \in Nat /\ Cardinality(V) = Cardinality(U) - 1
    BY <1>3, <1>5, FS_RemoveElement, FS_CardinalityType
  <2>2. QED BY <2>1
<1>7. PICK g \in [1 .. k -> V] : \A i, j \in 1 .. k : i < j => g[i] < g[j]
  <2>1. V \notin Q /\ V \in SUBSET S
    BY <1>2, <1>5
  <2>2. QED BY <1>6, <2>1
<1> DEFINE h == [i \in 1 .. k + 1 |-> IF i = k + 1 THEN m ELSE g[i]]
<1>8. h \in [1 .. k + 1 -> U]
  BY <1>5, <1>7
<1>9. ASSUME NEW i \in 1 .. k + 1, NEW j \in 1 .. k + 1, i < j
      PROVE h[i] < h[j]
  <2>1. i \in 1 .. k /\ h[i] = g[i] /\ g[i] \in V
    BY <1>7, <1>9
  <2>2. CASE j = k + 1
    <3>1. h[j] = m /\ g[i] \in Nat /\ m \in Nat /\ g[i] <= m /\ g[i] # m
      BY <1>3, <1>5, <2>1, <2>2
    <3>2. QED BY <2>1, <3>1
  <2>3. CASE j # k + 1
    <3>1. j \in 1 .. k /\ h[j] = g[j]
      BY <2>3
    <3>2. QED BY <1>7, <1>9, <2>1, <3>1
  <2>4. QED BY <2>2, <2>3
<1>10. DOMAIN h = 1 .. k + 1
  OBVIOUS
<1>11. h \in [1 .. Cardinality(U) -> U] /\ ~(\E i, j \in DOMAIN h : i < j /\ ~(h[i] < h[j]))
  <2> HIDE DEF h
  <2> QED BY <1>6, <1>8, <1>9, <1>10
<1>12. QED BY <1>2, <1>11

LEMMA IdsAre == /\ Ids \subseteq Nat \ {0} /\ 0 \notin Ids /\ 1 \in Ids
                /\ \A S \in SUBSET Ids : IsFiniteSet(S) /\ Cardinality(S) \in Nat
<1>1. Cardinality(Ids) \in Nat
  BY IdsAssumption, FS_CardinalityType
<1>2. QED BY <1>1, IdsAssumption, FS_Subset, FS_CardinalityType

Kinds == Relayed \cup {"scene"}
Pairs == Seq(Kinds \X Ids)

LEMMA EachTyped ==
  ASSUME NEW type \in Kinds, NEW ids \in SUBSET Ids
  PROVE Each(type, ids) \in Pairs /\ Len(Each(type, ids)) = Cardinality(ids)
<1>1. PICK n \in Nat : n = Cardinality(ids)
  BY IdsAre
<1>2. Ascending(ids) \in [1 .. n -> ids]
  BY <1>1, IdsAre, AscendingThere DEF Ascending
<1>3. DOMAIN Ascending(ids) = 1 .. n /\ \A i \in 1 .. n : Ascending(ids)[i] \in Ids
  BY <1>2
<1>4. Each(type, ids) = [i \in 1 .. n |-> <<type, Ascending(ids)[i]>>]
  BY <1>3 DEF Each
<1>5. Each(type, ids) \in [1 .. n -> Kinds \X Ids]
  BY <1>3, <1>4
<1>6. Each(type, ids) \in Pairs /\ Len(Each(type, ids)) = n
  <2>1. PICK e \in [1 .. n -> Kinds \X Ids] : e = Each(type, ids)
    BY <1>5
  <2>2. QED BY <2>1 DEF Pairs
<1>7. QED BY <1>1, <1>6

(* Every set of a kind can be listed.                                      *)
LEMMA ListTyped ==
  ASSUME NEW S, IsFiniteSet(S)
  PROVE \E n \in Nat : SetToSeq(S) \in [1 .. n -> S]
<1>1. Cardinality(S) \in Nat /\ ExistsBijection(1 .. Cardinality(S), S)
  BY FS_CardinalityType
<1>2. PICK f \in Bijection(1 .. Cardinality(S), S) : TRUE
  BY <1>1 DEF ExistsBijection
<1>3. f \in [1 .. Cardinality(S) -> S] /\ IsInjective(f)
  BY <1>2 DEF Bijection, Injection, IsInjective
<1>4. SetToSeq(S) \in [1 .. Cardinality(S) -> S]
  BY <1>3 DEF SetToSeq
<1>5. QED BY <1>1, <1>4

----------------------------------------------------------------------------
(* Events.                                                                 *)
LEMMA OnePair ==
  ASSUME NEW type \in Kinds, NEW id \in Ids
  PROVE <<<<type, id>>>> \in Pairs /\ Len(<<<<type, id>>>>) = 1
<1>1. <<type, id>> \in Kinds \X Ids
  OBVIOUS
<1>2. QED BY <1>1 DEF Pairs

LEMMA NoPair == <<>> \in Pairs /\ Len(<<>>) = 0
BY DEF Pairs

LEMMA PairsJoin ==
  ASSUME NEW p \in Pairs, NEW q \in Pairs
  PROVE /\ p \o q \in Pairs /\ Len(p \o q) = Len(p) + Len(q)
        /\ Len(p) \in Nat /\ Len(q) \in Nat
BY DEF Pairs

(* What an operation on a runtime may change but for the events.           *)
Alike(s, t, n) ==
    /\ t.entities = s.entities /\ t.next_entity = s.next_entity
    /\ t.active_collisions = s.active_collisions /\ t.next_event = s.next_event + n
    /\ t \in RegionRuntime /\ Len(t.events) <= MaxEvents

LEMMA AppendIs ==
  ASSUME NEW s \in RegionRuntime, NEW pairs \in Pairs
  PROVE Alike(s, AppendEvents(s, pairs), Len(pairs))
<1> DEFINE new == [i \in DOMAIN pairs |-> [sequence |-> s.next_event + i - 1,
                                          type |-> pairs[i][1], entity |-> pairs[i][2]]]
           all == s.events \o new
           first == IF Len(all) > MaxEvents THEN Len(all) - MaxEvents + 1 ELSE 1
           events == SubSeq(all, first, Len(all))
<1>1. /\ s.events \in Seq(Event) /\ s.next_event \in Nat \ {0} /\ s.entities \in Scene
      /\ s.next_entity \in Nat \ {0} /\ s.active_collisions \in SUBSET Contacts
  BY DEF RegionRuntime
<1>2. PICK n \in Nat : n = Len(pairs) /\ DOMAIN pairs = 1 .. n
  BY DEF Pairs
<1>3. new \in [1 .. n -> Event]
  <2>1. SUFFICES ASSUME NEW i \in 1 .. n
                 PROVE [sequence |-> s.next_event + i - 1, type |-> pairs[i][1], entity |-> pairs[i][2]] \in Event
    BY <1>2
  <2>2. pairs[i] \in Kinds \X Ids
    BY <1>2 DEF Pairs
  <2>3. pairs[i][1] \in Kinds /\ pairs[i][2] \in Ids /\ s.next_event + i - 1 \in Nat
    BY <1>1, <2>2
  <2>4. QED BY <2>3 DEF Event, Kinds
<1>4. new \in Seq(Event) /\ Len(new) = n
  <2> HIDE DEF new
  <2> QED BY <1>3
<1>5. all \in Seq(Event) /\ Len(all) \in Nat
  <2> HIDE DEF new
  <2> QED BY <1>1, <1>4
<1>6. first \in 1 .. Len(all) + 1 /\ Len(all) - first + 1 <= MaxEvents
  <2> HIDE DEF all
  <2> QED BY <1>5, MaxEventsAssumption
<1>7. events \in Seq(Event) /\ Len(events) <= MaxEvents
  <2>1. PICK m \in Nat, k \in Nat : m = Len(all) /\ k = first /\ k \in 1 .. m + 1 /\ m - k + 1 <= MaxEvents
    <3> HIDE DEF all, first
    <3> QED BY <1>5, <1>6
  <2>2. events = SubSeq(all, k, m)
    BY <2>1
  <2> HIDE DEF all, first, events
  <2>3. SubSeq(all, k, m) \in Seq(Event) /\ Len(SubSeq(all, k, m)) = IF k <= m THEN m - k + 1 ELSE 0
    BY <1>5, <2>1
  <2>4. QED BY <2>1, <2>2, <2>3, MaxEventsAssumption
<1>8. AppendEvents(s, pairs) = [s EXCEPT !.events = events, !.next_event = @ + n]
  BY <1>2 DEF AppendEvents
<1> HIDE DEF events
<1>9. PICK t : t = [s EXCEPT !.events = events, !.next_event = @ + n]
  OBVIOUS
<1>10. /\ t.entities = s.entities /\ t.next_entity = s.next_entity
       /\ t.active_collisions = s.active_collisions /\ t.next_event = s.next_event + n
       /\ t.events = events
  BY <1>9 DEF RegionRuntime
<1>11. t \in RegionRuntime
  <2>1. PICK e \in Seq(Event), k \in Nat \ {0} : e = events /\ k = s.next_event + n
    BY <1>1, <1>7
  <2>2. t = [s EXCEPT !.events = e, !.next_event = k]
    BY <1>9, <2>1
  <2>3. QED BY <2>2 DEF RegionRuntime
<1>12. Alike(s, t, n)
  BY <1>7, <1>10, <1>11 DEF Alike
<1>13. QED BY <1>2, <1>8, <1>9, <1>12

----------------------------------------------------------------------------
(* Runtimes.  One is sound when its objects are as the code keeps them and *)
(* the next identifier is free.                                            *)
Tidy(entities) == entities \in Scene /\ \A id \in Ids : Kempt(entities[id])
Below(entities, n) == \A id \in Ids : entities[id] # NoEntity => id < n
Sane(s) == /\ s \in RegionRuntime /\ Len(s.events) <= MaxEvents
           /\ Tidy(s.entities) /\ Below(s.entities, s.next_entity)

(* What leads from one to the next: either the events moved on, or the     *)
(* objects are the same.                                                   *)
Newer(s, t) == \/ t.next_event > s.next_event
               \/ t.next_event = s.next_event /\ t.entities = s.entities
Becomes(s, entities, t) == Sane(t) /\ t.next_event > s.next_event /\ t.entities = entities

With(s, entities, n) == [s EXCEPT !.entities = entities, !.next_entity = n]

LEMMA AppendedIsSane ==
  ASSUME NEW s, Sane(s), NEW entities, Tidy(entities), NEW n \in Nat \ {0}, Below(entities, n),
         NEW pairs \in Pairs
  PROVE LET t == AppendEvents(With(s, entities, n), pairs)
        IN Sane(t) /\ t.entities = entities /\ t.next_event = s.next_event + Len(pairs)
<1>1. PICK k : k = Len(pairs)
  OBVIOUS
<1>2. PICK m : m = With(s, entities, n)
  OBVIOUS
<1>3. s \in RegionRuntime
  BY DEF Sane, RegionRuntime
<1>4. m \in RegionRuntime /\ m.entities = entities /\ m.next_entity = n /\ m.next_event = s.next_event
  BY <1>2, <1>3 DEF With, RegionRuntime, Tidy
<1>5. PICK t : t = AppendEvents(m, pairs) /\ Alike(m, t, k)
  BY <1>1, <1>4, AppendIs
<1>6. /\ t.entities = entities /\ t.next_entity = n /\ t.next_event = s.next_event + k
      /\ t \in RegionRuntime /\ Len(t.events) <= MaxEvents
  BY <1>4, <1>5 DEF Alike
<1>7. Sane(t)
  BY <1>6 DEF Sane
<1>8. QED BY <1>1, <1>2, <1>5, <1>6, <1>7

LEMMA EventsFollow ==
  ASSUME NEW s, Sane(s), NEW entities, Tidy(entities), NEW n \in Nat \ {0}, Below(entities, n),
         NEW pairs \in Pairs, Len(pairs) \in Nat \ {0}
  PROVE Becomes(s, entities, AppendEvents(With(s, entities, n), pairs))
<1>1. PICK t : t = AppendEvents(With(s, entities, n), pairs)
  OBVIOUS
<1>2. Sane(t) /\ t.entities = entities /\ t.next_event = s.next_event + Len(pairs)
  BY <1>1, AppendedIsSane
<1>3. s.next_event \in Nat
  BY DEF Sane, RegionRuntime
<1>4. t.next_event > s.next_event
  BY <1>2, <1>3
<1>5. QED BY <1>1, <1>2, <1>4 DEF Becomes

----------------------------------------------------------------------------
(* Operations that leave the linksets as they are.                         *)
LEMMA EntityIs ==
  ASSUME NEW f, Tidy(f), NEW id \in Ids
  PROVE f[id] \in Entity /\ Kempt(f[id]) /\ (f[id] # NoEntity => f[id].owner \in Users)
<1>1. f[id] \in Entity /\ Kempt(f[id])
  BY DEF Tidy, Scene
<1>2. QED BY <1>1 DEF Entity, Kempt

LEMMA NothingIs == /\ NoEntity \in Entity /\ Kempt(NoEntity) /\ NoEntity.owner = Nobody
                   /\ NoEntity.parent = 0 /\ NoEntity.link = 1 /\ ~NoEntity.body
BY DEF NoEntity, Entity, Places, Looks, Kempt

SameLink(e, d) == d.owner = e.owner /\ d.parent = e.parent /\ d.link = e.link
SameLinks(f, g) == \A id \in Ids : SameLink(f[id], g[id])
Retouched(e, d) == /\ d \in Entity /\ SameLink(e, d)
                   /\ d.parent # 0 => ~d.body
                   /\ e = NoEntity => d = NoEntity
Retouches(s, t) == Sane(t) /\ t.next_event > s.next_event /\ SameLinks(s.entities, t.entities)

LEMMA RetouchedTidy ==
  ASSUME NEW f, Tidy(f), NEW g, DOMAIN g = Ids, g = [id \in Ids |-> g[id]],
         \A id \in Ids : Retouched(f[id], g[id]), NEW n, Below(f, n)
  PROVE Tidy(g) /\ SameLinks(f, g) /\ Below(g, n)
<1>1. g \in Scene
  BY DEF Scene, Retouched
<1>2. SameLinks(f, g) /\ Below(g, n)
  BY DEF Retouched, SameLinks, Below
<1>3. ASSUME NEW id \in Ids PROVE Kempt(g[id])
  <2>1. Retouched(f[id], g[id]) /\ Kempt(f[id])
    BY EntityIs
  <2>2. g[id].owner = Nobody => f[id] = NoEntity
    BY <2>1 DEF Retouched, SameLink, Kempt
  <2>3. QED BY <2>1, <2>2 DEF Retouched, SameLink, Kempt
<1>4. QED BY <1>1, <1>2, <1>3 DEF Tidy

LEMMA RetouchFollows ==
  ASSUME NEW s, Sane(s), NEW g, g = [id \in Ids |-> g[id]],
         \A id \in Ids : Retouched(s.entities[id], g[id]), NEW pairs \in Pairs, Len(pairs) \in Nat \ {0}
  PROVE Retouches(s, AppendEvents(With(s, g, s.next_entity), pairs))
<1>1. Tidy(s.entities) /\ Below(s.entities, s.next_entity) /\ s.next_entity \in Nat \ {0}
  BY DEF Sane, RegionRuntime
<1>2. DOMAIN g = Ids
  OBVIOUS
<1>3. Tidy(g) /\ SameLinks(s.entities, g) /\ Below(g, s.next_entity)
  BY <1>1, <1>2, RetouchedTidy
<1>4. PICK t : t = AppendEvents(With(s, g, s.next_entity), pairs)
  OBVIOUS
<1>5. Becomes(s, g, t)
  BY <1>1, <1>3, <1>4, EventsFollow
<1>6. Retouches(s, t)
  BY <1>3, <1>5 DEF Becomes, Retouches
<1>7. QED BY <1>4, <1>6

LEMMA RetouchedItself ==
  ASSUME NEW f, Tidy(f), NEW id \in Ids
  PROVE Retouched(f[id], f[id])
BY EntityIs DEF Retouched, SameLink, Kempt

(* One object is changed.                                                  *)
Put(f, id, e) == [f EXCEPT ![id] = e]

LEMMA OneRetouched ==
  ASSUME NEW s, Sane(s), NEW id \in Ids, NEW e, Retouched(s.entities[id], e)
  PROVE Retouches(s, AppendEvents(With(s, Put(s.entities, id, e), s.next_entity), <<<<"scene", id>>>>))
<1>1. Tidy(s.entities)
  BY DEF Sane
<1>2. PICK g : g = Put(s.entities, id, e)
  OBVIOUS
<1>3. g = [i \in Ids |-> g[i]] /\ \A i \in Ids : g[i] = IF i = id THEN e ELSE s.entities[i]
  BY <1>1, <1>2 DEF Put, Tidy, Scene
<1>4. \A i \in Ids : Retouched(s.entities[i], g[i])
  BY <1>1, <1>3, RetouchedItself
<1>5. PICK p : p = <<<<"scene", id>>>> /\ p \in Pairs /\ Len(p) = 1
  BY OnePair DEF Kinds
<1>6. Retouches(s, AppendEvents(With(s, g, s.next_entity), p))
  BY <1>3, <1>4, <1>5, RetouchFollows
<1>7. QED BY <1>2, <1>5, <1>6

LEMMA ChangeIs ==
  ASSUME NEW s \in RegionRuntime, NEW id \in Ids, NEW e
  PROVE Change(s, id, e) = With(s, Put(s.entities, id, e), s.next_entity)
BY DEF RegionRuntime, Change, With, Put

LEMMA LookedAt ==
  ASSUME NEW s, Sane(s), NEW id \in Ids, Exists(s, id)
  PROVE /\ Retouches(s, SetFloatingText(s, id)) /\ Retouches(s, SetPhysicsMaterial(s, id))
        /\ Retouches(s, SetObjectPermissions(s, id))
<1>1. s \in RegionRuntime /\ Tidy(s.entities)
  BY DEF Sane
<1>2. PICK e : e = s.entities[id]
  OBVIOUS
<1>3. e \in Entity /\ Kempt(e) /\ e # NoEntity
  BY <1>1, <1>2, EntityIs DEF Exists
<1>4. Retouched(e, [e EXCEPT !.look = 1 - @]) /\ Retouched(e, [e EXCEPT !.shared = ~@])
  <2>1. PICK look \in Looks, shared \in BOOLEAN : look = 1 - e.look /\ shared = ~e.shared
    <3>1. e.look \in 0 .. 1 /\ (~e.shared) \in BOOLEAN
      BY <1>3 DEF Entity, Looks
    <3>2. 1 - e.look \in Looks
      BY <3>1 DEF Looks
    <3>3. QED BY <3>1, <3>2, Zenon
  <2>2. Retouched(e, [e EXCEPT !.look = look])
    BY <1>3 DEF Retouched, SameLink, Entity, Kempt
  <2>3. Retouched(e, [e EXCEPT !.shared = shared])
    BY <1>3 DEF Retouched, SameLink, Entity, Kempt
  <2>4. [e EXCEPT !.look = 1 - @] = [e EXCEPT !.look = look] /\ [e EXCEPT !.shared = ~@] = [e EXCEPT !.shared = shared]
    BY <2>1
  <2>5. QED BY <2>2, <2>3, <2>4
<1>5. /\ [s EXCEPT !.entities[id].look = 1 - @] = With(s, Put(s.entities, id, [e EXCEPT !.look = 1 - @]), s.next_entity)
      /\ [s EXCEPT !.entities[id].shared = ~@] = With(s, Put(s.entities, id, [e EXCEPT !.shared = ~@]), s.next_entity)
  BY <1>1, <1>2 DEF RegionRuntime, With, Put
<1>6. QED BY <1>2, <1>4, <1>5, OneRetouched DEF SetFloatingText, SetPhysicsMaterial, SetObjectPermissions

LEMMA SetPhysicalIs ==
  ASSUME NEW s, Sane(s), NEW id \in Ids, NEW enabled \in BOOLEAN, CanSetPhysical(s, id, enabled)
  PROVE Retouches(s, SetPhysical(s, id, enabled))
<1>1. s \in RegionRuntime /\ Tidy(s.entities)
  BY DEF Sane
<1>2. PICK e : e = s.entities[id]
  OBVIOUS
<1>3. e \in Entity /\ Kempt(e) /\ e # NoEntity /\ (enabled => e.parent = 0)
  BY <1>1, <1>2, EntityIs DEF Exists, CanSetPhysical
<1>4. Retouched(e, [e EXCEPT !.body = enabled])
  BY <1>3 DEF Retouched, SameLink, Entity, Kempt
<1>5. [s EXCEPT !.entities[id].body = enabled] = With(s, Put(s.entities, id, [e EXCEPT !.body = enabled]), s.next_entity)
  BY <1>1, <1>2 DEF RegionRuntime, With, Put
<1>6. QED BY <1>2, <1>4, <1>5, OneRetouched DEF SetPhysical

LEMMA OnlyAnEvent ==
  ASSUME NEW s, Sane(s), NEW pairs \in Pairs, Len(pairs) \in Nat \ {0}
  PROVE Becomes(s, s.entities, AppendEvents(s, pairs))
<1>1. Tidy(s.entities) /\ Below(s.entities, s.next_entity) /\ s.next_entity \in Nat \ {0} /\ s \in RegionRuntime
  BY DEF Sane, RegionRuntime
<1>2. With(s, s.entities, s.next_entity) = s
  BY <1>1 DEF With, RegionRuntime
<1>3. Becomes(s, s.entities, AppendEvents(With(s, s.entities, s.next_entity), pairs))
  BY <1>1, EventsFollow
<1>4. QED BY <1>2, <1>3

LEMMA NothingMoves ==
  ASSUME NEW s, NEW t, Becomes(s, s.entities, t)
  PROVE Retouches(s, t)
BY DEF Becomes, Retouches, SameLinks, SameLink

LEMMA Noticed ==
  ASSUME NEW s, Sane(s), NEW id \in Ids
  PROVE /\ Retouches(s, ApplyForce(s, id)) /\ Retouches(s, InteractObject(s, id)) /\ Retouches(s, Chat(s, id))
<1>1. \A type \in {"scene", "touch"} : <<<<type, id>>>> \in Pairs /\ Len(<<<<type, id>>>>) = 1
  BY OnePair DEF Kinds, Relayed
<1>2. \A type \in {"scene", "touch"} : Retouches(s, AppendEvents(s, <<<<type, id>>>>))
  BY <1>1, OnlyAnEvent, NothingMoves
<1>3. QED BY <1>2 DEF ApplyForce, InteractObject, Chat

(* A root takes its children along.                                        *)
Carried(f, id, along, place, scale, delta) ==
    [i \in Ids |-> IF i = id THEN [f[i] EXCEPT !.place = place, !.scale = scale]
                   ELSE IF i \in along THEN [f[i] EXCEPT !.place = (@ + delta) % 2]
                   ELSE f[i]]

LEMMA CarriedIs ==
  ASSUME NEW f, Tidy(f), NEW id \in Ids, f[id] # NoEntity, NEW along, NEW place \in Places, NEW scale \in Looks,
         \A i \in along : f[i] # NoEntity, NEW delta \in -1 .. 1, NEW i \in Ids
  PROVE Retouched(f[i], Carried(f, id, along, place, scale, delta)[i])
<1>1. PICK e : e = f[i]
  OBVIOUS
<1>2. e \in Entity /\ Kempt(e)
  BY <1>1, EntityIs
<1>3. CASE i = id
  <2>1. Carried(f, id, along, place, scale, delta)[i] = [e EXCEPT !.place = place, !.scale = scale]
    BY <1>1, <1>3 DEF Carried
  <2>2. Retouched(e, [e EXCEPT !.place = place, !.scale = scale])
    BY <1>1, <1>2, <1>3 DEF Retouched, SameLink, Entity, Kempt
  <2>3. QED BY <1>1, <2>1, <2>2
<1>4. CASE i # id /\ i \in along
  <2>1. PICK there \in Places : there = (e.place + delta) % 2
    <3>1. e.place \in 0 .. 1
      BY <1>2 DEF Entity, Places
    <3>2. (e.place + delta) % 2 \in 0 .. 1
      BY <3>1
    <3>3. QED BY <3>2 DEF Places
  <2>2. Carried(f, id, along, place, scale, delta)[i] = [e EXCEPT !.place = there]
    BY <1>1, <1>4, <2>1 DEF Carried
  <2>3. Retouched(e, [e EXCEPT !.place = there])
    BY <1>1, <1>2, <1>4 DEF Retouched, SameLink, Entity, Kempt
  <2>4. QED BY <1>1, <2>2, <2>3
<1>5. CASE i # id /\ i \notin along
  <2>1. Carried(f, id, along, place, scale, delta)[i] = f[i]
    BY <1>5 DEF Carried
  <2>2. QED BY <2>1, RetouchedItself
<1>6. QED BY <1>3, <1>4, <1>5

LEMMA ChildrenAre ==
  ASSUME NEW s, NEW id
  PROVE /\ Children(s, id) \subseteq Ids /\ Living(s) \subseteq Ids
        /\ \A c \in Children(s, id) : s.entities[c] # NoEntity /\ s.entities[c].parent = id
BY DEF Children, Living, Exists

LEMMA UpdateTransformIs ==
  ASSUME NEW s, Sane(s), NEW id \in Ids, Exists(s, id), NEW place \in Places, NEW scale \in Looks
  PROVE Retouches(s, UpdateTransform(s, id, place, scale))
<1> DEFINE f == s.entities
           scaled == scale # f[id].scale
           delta == place - f[id].place
           along == IF f[id].parent = 0 THEN Children(s, id) ELSE {}
           root == IF f[id].parent = 0 THEN id ELSE f[id].parent
           carry == IF delta = 0 THEN <<>> ELSE Each("scene", along)
           tell == IF scaled /\ root \in Living(s) THEN <<<<"changed", root>>>> ELSE <<>>
           one == <<<<"scene", id>>>>
           g == Carried(f, id, along, place, scale, delta)
<1>1. s \in RegionRuntime /\ Tidy(f) /\ f[id] # NoEntity
  BY DEF Sane, Exists
<1>2. delta \in -1 .. 1
  BY <1>1, EntityIs DEF Entity, Places
<1>3. along \in SUBSET Ids /\ \A i \in along : f[i] # NoEntity
  BY ChildrenAre
<1>4. \A i \in Ids : Retouched(f[i], g[i])
  <2> HIDE DEF f, delta, along, g
  <2>1. SUFFICES ASSUME NEW i \in Ids PROVE Retouched(f[i], g[i])
    OBVIOUS
  <2>2. QED BY <1>1, <1>2, <1>3, CarriedIs DEF g
<1>5. g = [i \in Ids |-> g[i]]
  BY DEF Carried
<1>6. carry \in Pairs
  <2>1. Each("scene", along) \in Pairs
    <3> HIDE DEF along
    <3> QED BY <1>3, EachTyped DEF Kinds
  <2>2. QED BY <2>1, NoPair
<1>7. one \in Pairs /\ Len(one) = 1
  BY OnePair DEF Kinds
<1>8. tell \in Pairs
  <2>1. root \in Living(s) => <<<<"changed", root>>>> \in Pairs
    BY ChildrenAre, OnePair DEF Kinds, Relayed
  <2>2. QED BY <2>1, NoPair
<1>9. carry \o one \o tell \in Pairs /\ Len(carry \o one \o tell) \in Nat \ {0}
  <2> HIDE DEF carry, one, tell
  <2>1. /\ carry \o one \in Pairs /\ Len(carry \o one) = Len(carry) + Len(one)
        /\ Len(carry) \in Nat /\ Len(one) \in Nat
    BY <1>6, <1>7, PairsJoin
  <2>2. PICK p \in Pairs : p = carry \o one
    BY <2>1
  <2>3. /\ p \o tell \in Pairs /\ Len(p \o tell) = Len(p) + Len(tell)
        /\ Len(p) \in Nat /\ Len(tell) \in Nat
    BY <1>8, PairsJoin
  <2>4. QED BY <1>7, <2>1, <2>2, <2>3
<1>10. UpdateTransform(s, id, place, scale) = AppendEvents(With(s, g, s.next_entity), carry \o one \o tell)
  <2>1. [s EXCEPT !.entities = g] = With(s, g, s.next_entity)
    <3> HIDE DEF g
    <3> QED BY <1>1 DEF With, RegionRuntime
  <2>2. UpdateTransform(s, id, place, scale) = AppendEvents([s EXCEPT !.entities = g], carry \o one \o tell)
    BY DEF UpdateTransform, Carried
  <2>3. QED BY <2>1, <2>2
<1>11. Retouches(s, AppendEvents(With(s, g, s.next_entity), carry \o one \o tell))
  <2> HIDE DEF g, carry, one, tell
  <2> QED BY <1>4, <1>5, <1>9, RetouchFollows
<1>12. QED BY <1>10, <1>11

----------------------------------------------------------------------------
(* Operations that change the linksets.                                    *)
LEMMA SaneHas ==
  ASSUME NEW s, Sane(s)
  PROVE /\ s \in RegionRuntime /\ Tidy(s.entities) /\ Below(s.entities, s.next_entity)
        /\ s.next_entity \in Nat \ {0} /\ s.next_event \in Nat \ {0} /\ s.entities \in Scene
BY DEF Sane, RegionRuntime

LEMMA PutIs ==
  ASSUME NEW f, Tidy(f), NEW id \in Ids, NEW e \in Entity, Kempt(e), NEW n \in Nat, Below(f, n)
  PROVE /\ Tidy(Put(f, id, e)) /\ \A i \in Ids : Put(f, id, e)[i] = IF i = id THEN e ELSE f[i]
        /\ id < n => Below(Put(f, id, e), n)
BY DEF Tidy, Scene, Put, Below

LEMMA OneMore ==
  ASSUME NEW id \in Ids, NEW p \in Pairs
  PROVE <<<<"scene", id>>>> \o p \in Pairs /\ Len(<<<<"scene", id>>>> \o p) \in Nat \ {0}
<1>1. PICK q \in Pairs : q = <<<<"scene", id>>>> /\ Len(q) = 1
  BY OnePair DEF Kinds
<1>2. q \o p \in Pairs /\ Len(q \o p) = Len(q) + Len(p) /\ Len(p) \in Nat
  BY PairsJoin
<1>3. QED BY <1>1, <1>2

LEMMA BelowMore ==
  ASSUME NEW f, NEW m \in Nat, NEW n \in Nat, n >= m, Below(f, m)
  PROVE Below(f, n)
<1>1. ASSUME NEW id \in Ids, f[id] # NoEntity
      PROVE id < n
  <2>1. id < m
    BY <1>1 DEF Below
  <2>2. id \in Nat
    BY IdsAre
  <2>3. QED BY <2>1, <2>2
<1>2. QED BY <1>1 DEF Below

LEMMA PutFollows ==
  ASSUME NEW s, Sane(s), NEW id \in Ids, NEW e \in Entity, Kempt(e), NEW n \in Nat \ {0}, n >= s.next_entity, id < n,
         NEW pairs \in Pairs, Len(pairs) \in Nat \ {0}
  PROVE Becomes(s, Put(s.entities, id, e), AppendEvents(With(s, Put(s.entities, id, e), n), pairs))
<1>1. s.next_entity \in Nat /\ Tidy(s.entities) /\ Below(s.entities, s.next_entity)
  BY SaneHas
<1>2. Below(s.entities, n)
  BY <1>1, BelowMore
<1>3. Tidy(Put(s.entities, id, e)) /\ Below(Put(s.entities, id, e), n)
  BY <1>1, <1>2, PutIs
<1>4. PICK g : g = Put(s.entities, id, e)
  OBVIOUS
<1>5. Becomes(s, g, AppendEvents(With(s, g, n), pairs))
  BY <1>3, <1>4, EventsFollow
<1>6. QED BY <1>4, <1>5

LEMMA PutInPlace ==
  ASSUME NEW s, Sane(s), NEW id \in Ids, NEW e \in Entity, Kempt(e), id < s.next_entity,
         NEW pairs \in Pairs, Len(pairs) \in Nat \ {0}
  PROVE Becomes(s, Put(s.entities, id, e), AppendEvents(With(s, Put(s.entities, id, e), s.next_entity), pairs))
<1>1. PICK n \in Nat \ {0} : n = s.next_entity
  BY SaneHas
<1>2. n >= s.next_entity /\ id < n
  BY <1>1
<1>3. Becomes(s, Put(s.entities, id, e), AppendEvents(With(s, Put(s.entities, id, e), n), pairs))
  BY <1>2, PutFollows
<1>4. QED BY <1>1, <1>3

New(owner, physical) == [NoEntity EXCEPT !.owner = owner, !.body = physical]

LEMMA NewIs ==
  ASSUME NEW owner \in Users, NEW physical \in BOOLEAN
  PROVE LET e == New(owner, physical)
        IN e \in Entity /\ Kempt(e) /\ e # NoEntity /\ e.owner = owner /\ e.parent = 0 /\ e.link = 1
<1>1. PICK e : e = New(owner, physical)
  OBVIOUS
<1>2. /\ e = [owner |-> owner, shared |-> FALSE, parent |-> 0, link |-> 1,
              body |-> physical, place |-> 0, scale |-> 0, look |-> 0]
  BY <1>1 DEF New, NoEntity
<1>3. e \in Entity /\ e.owner = owner /\ e.parent = 0 /\ e.link = 1
  BY <1>2 DEF Entity, Places, Looks
<1>4. e.owner # Nobody /\ e # NoEntity
  BY <1>3, UsersAssumption, NothingIs
<1>5. QED BY <1>1, <1>3, <1>4 DEF Kempt

LEMMA SpawnObjectIs ==
  ASSUME NEW s, Sane(s), NEW owner \in Users, NEW physical \in BOOLEAN, s.next_entity \in Ids
  PROVE Becomes(s, Put(s.entities, s.next_entity, New(owner, physical)), SpawnObject(s, owner, physical))
<1>1. PICK id \in Ids : id = s.next_entity
  OBVIOUS
<1>2. PICK e \in Entity : e = New(owner, physical) /\ Kempt(e)
  BY NewIs
<1>3. s \in RegionRuntime /\ id \in Nat
  BY <1>1, SaneHas
<1>4. PICK p \in Pairs : p = <<<<"scene", id>>>> /\ Len(p) = 1
  BY OnePair DEF Kinds
<1>5. Becomes(s, Put(s.entities, id, e), AppendEvents(With(s, Put(s.entities, id, e), id + 1), p))
  <2>1. id + 1 \in Nat \ {0} /\ id + 1 >= s.next_entity /\ id < id + 1
    BY <1>1, <1>3
  <2>2. QED BY <1>4, <2>1, <1>2, PutFollows
<1>6. [Change(s, id, e) EXCEPT !.next_entity = @ + 1] = With(s, Put(s.entities, id, e), id + 1)
  BY <1>1, <1>3 DEF Change, With, Put, RegionRuntime
<1>7. SpawnObject(s, owner, physical) = AppendEvents(With(s, Put(s.entities, id, e), id + 1), p)
  BY <1>1, <1>2, <1>4, <1>6 DEF SpawnObject, New
<1>8. QED BY <1>1, <1>2, <1>5, <1>7

LEMMA RestoredIs ==
  ASSUME NEW e \in Entity, Kempt(e)
  PROVE Restored(e) = e
<1>1. e.link = IF e.parent = 0 THEN 1 ELSE IF e.link < 2 THEN 2 ELSE e.link
  BY DEF Kempt, Entity
<1>2. e.body = (e.body /\ e.parent = 0)
  BY Zenon DEF Kempt, Entity
<1>3. [e EXCEPT !.link = e.link, !.body = e.body] = e
  BY DEF Entity
<1>4. QED BY <1>1, <1>2, <1>3 DEF Restored

LEMMA RestoreObjectIs ==
  ASSUME NEW s, Sane(s), NEW id \in Ids, NEW e \in Entity, Kempt(e)
  PROVE Becomes(s, Put(s.entities, id, e), RestoreObject(s, id, e))
<1>1. s \in RegionRuntime /\ id \in Nat /\ s.next_entity \in Nat \ {0}
  BY SaneHas, IdsAre
<1>2. PICK n \in Nat \ {0} : n = IF id >= s.next_entity THEN id + 1 ELSE s.next_entity
  BY <1>1
<1>3. n >= s.next_entity /\ id < n
  <2>1. PICK m \in Nat : m = s.next_entity
    BY <1>1
  <2>2. CASE id >= m
    BY <1>1, <1>2, <2>1, <2>2
  <2>3. CASE ~(id >= m)
    BY <1>1, <1>2, <2>1, <2>3
  <2>4. QED BY <2>2, <2>3
<1>4. PICK p \in Pairs : p = <<<<"scene", id>>>> /\ Len(p) = 1
  BY OnePair DEF Kinds
<1>5. Becomes(s, Put(s.entities, id, e), AppendEvents(With(s, Put(s.entities, id, e), n), p))
  <2>1. Len(p) \in Nat \ {0}
    BY <1>4
  <2>2. QED BY <1>3, <2>1, PutFollows
<1>6. [Change(s, id, e) EXCEPT !.next_entity = IF id >= @ THEN id + 1 ELSE @] = With(s, Put(s.entities, id, e), n)
  BY <1>1, <1>2 DEF Change, With, Put, RegionRuntime
<1>7. RestoreObject(s, id, e) = AppendEvents(With(s, Put(s.entities, id, e), n), p)
  BY <1>4, <1>6, RestoredIs DEF RestoreObject
<1>8. QED BY <1>5, <1>7

(* The link number of an object that is linked to a root.                  *)
LEMMA NextLinkIs ==
  ASSUME NEW s, Sane(s), NEW root
  PROVE /\ NextLink(s, root) \in Nat /\ NextLink(s, root) >= 2
        /\ \A c \in Children(s, root) : s.entities[c].link < NextLink(s, root)
<1> DEFINE C == Children(s, root)
           L == {s.entities[c].link + 1 : c \in C}
           N == {2} \cup L
<1>1. ASSUME NEW c \in C PROVE s.entities[c].link \in Nat
  BY ChildrenAre, SaneHas, EntityIs DEF Entity
<1>2. IsFiniteSet(C)
  BY ChildrenAre, IdsAre
<1>3. IsFiniteSet(L)
  <2> DEFINE h == [c \in C |-> s.entities[c].link + 1]
  <2>1. h \in Surjection(C, L)
    BY DEF Surjection
  <2> HIDE DEF h, L, C
  <2>2. QED BY <1>2, <2>1, FS_Surjection
<1>4. IsFiniteSet(N)
  <2> HIDE DEF L
  <2> QED BY <1>3, FS_Singleton, FS_Union
<1>5. N \in SUBSET Nat /\ N # {}
  BY <1>1
<1>6. Max(N) \in N /\ \A n \in N : n <= Max(N)
  <2> HIDE DEF N
  <2> QED BY <1>4, <1>5, MaxIs
<1>7. Max(N) \in Nat /\ Max(N) >= 2
  <2> HIDE DEF L
  <2>1. 2 \in N
    OBVIOUS
  <2> HIDE DEF N
  <2> QED BY <1>5, <1>6, <2>1
<1>8. ASSUME NEW c \in C PROVE s.entities[c].link < Max(N)
  <2>1. s.entities[c].link + 1 \in N
    BY <1>8
  <2> HIDE DEF N
  <2>2. s.entities[c].link + 1 <= Max(N)
    BY <2>1, <1>6
  <2>3. QED BY <1>1, <1>7, <2>2
<1>9. NextLink(s, root) = Max(N)
  BY DEF NextLink
<1> HIDE DEF N
<1>10. QED BY <1>7, <1>8, <1>9

Child(s, root, child) == [s.entities[child] EXCEPT !.parent = root, !.body = FALSE, !.link = NextLink(s, root)]

LEMMA ChildIs ==
  ASSUME NEW s, Sane(s), NEW root \in Ids, NEW child \in Ids, Exists(s, child)
  PROVE LET e == Child(s, root, child)
        IN e \in Entity /\ Kempt(e) /\ e # NoEntity /\ e.owner = s.entities[child].owner
           /\ e.parent = root /\ e.link = NextLink(s, root)
<1>1. PICK d \in Entity : d = s.entities[child] /\ d.owner \in Users
  BY SaneHas, EntityIs DEF Exists
<1>2. PICK n \in Nat : n = NextLink(s, root) /\ n >= 2
  BY NextLinkIs
<1>3. PICK e : e = [d EXCEPT !.parent = root, !.body = FALSE, !.link = n]
  OBVIOUS
<1>4. e \in Entity /\ e.owner = d.owner /\ e.parent = root /\ e.link = n /\ ~e.body
  BY <1>3 DEF Entity
<1>5. root # 0 /\ e.owner # Nobody
  BY <1>1, <1>4, IdsAre, UsersAssumption
<1>6. Kempt(e) /\ e # NoEntity
  BY <1>2, <1>4, <1>5, NothingIs DEF Kempt
<1>7. QED BY <1>1, <1>2, <1>3, <1>4, <1>6 DEF Child

LEMMA LinkObjectsIs ==
  ASSUME NEW s, Sane(s), NEW root \in Ids, NEW child \in Ids, CanLink(s, root, child)
  PROVE Becomes(s, Put(s.entities, child, Child(s, root, child)), LinkObjects(s, root, child))
<1>1. Exists(s, child) /\ s \in RegionRuntime /\ Below(s.entities, s.next_entity) /\ s.next_entity \in Nat \ {0}
  BY SaneHas DEF CanLink
<1>2. child < s.next_entity
  BY <1>1 DEF Below, Exists
<1>3. PICK e \in Entity : e = Child(s, root, child) /\ Kempt(e)
  BY <1>1, ChildIs
<1>4. PICK m : m = Change(s, child, e) /\ m = With(s, Put(s.entities, child, e), s.next_entity)
  BY <1>1, ChangeIs
<1>5. LinksetMembers(m, root) \in SUBSET Ids
  BY ChildrenAre DEF LinksetMembers
<1>6. PICK p \in Pairs : p = Each("changed", LinksetMembers(m, root))
  BY <1>5, EachTyped DEF Kinds, Relayed
<1>7. PICK q \in Pairs : q = <<<<"scene", child>>>> \o p /\ Len(q) \in Nat \ {0}
  BY OneMore
<1>8. Becomes(s, Put(s.entities, child, e), AppendEvents(With(s, Put(s.entities, child, e), s.next_entity), q))
  BY <1>1, <1>2, <1>3, <1>7, PutInPlace
<1>9. LinkObjects(s, root, child) = AppendEvents(m, q)
  BY <1>3, <1>4, <1>6, <1>7 DEF LinkObjects, Child
<1>10. QED BY <1>3, <1>4, <1>8, <1>9

LEMMA UnlinkedIs ==
  ASSUME NEW e \in Entity, Kempt(e), e # NoEntity
  PROVE Unlinked(e) \in Entity /\ Kempt(Unlinked(e)) /\ Unlinked(e) # NoEntity /\ Unlinked(e).owner = e.owner
        /\ Unlinked(e).parent = 0 /\ Unlinked(e).link = 1
<1>1. PICK d : d = Unlinked(e)
  OBVIOUS
<1>2. d \in Entity /\ d.owner = e.owner /\ d.parent = 0 /\ d.link = 1
  BY <1>1 DEF Unlinked, Entity
<1>3. d.owner # Nobody
  BY <1>2 DEF Kempt
<1>4. QED BY <1>1, <1>2, <1>3, NothingIs DEF Kempt

LEMMA UnlinkObjectIs ==
  ASSUME NEW s, Sane(s), NEW child \in Ids, Exists(s, child)
  PROVE IF s.entities[child].parent = 0 THEN UnlinkObject(s, child) = s
        ELSE Becomes(s, Put(s.entities, child, Unlinked(s.entities[child])), UnlinkObject(s, child))
<1>1. SUFFICES ASSUME s.entities[child].parent # 0
               PROVE Becomes(s, Put(s.entities, child, Unlinked(s.entities[child])), UnlinkObject(s, child))
  BY DEF UnlinkObject
<1>2. /\ s \in RegionRuntime /\ Below(s.entities, s.next_entity) /\ s.next_entity \in Nat \ {0}
      /\ s.entities[child] \in Entity /\ Kempt(s.entities[child]) /\ s.entities[child] # NoEntity
  BY SaneHas, EntityIs DEF Exists
<1>3. child < s.next_entity
  BY <1>2 DEF Below
<1>4. PICK e \in Entity : e = Unlinked(s.entities[child]) /\ Kempt(e)
  BY <1>2, UnlinkedIs
<1>5. PICK m : m = Change(s, child, e) /\ m = With(s, Put(s.entities, child, e), s.next_entity)
  BY <1>2, ChangeIs
<1> DEFINE rest == {child} \cup {i \in Living(m) : i = s.entities[child].parent
                                                  \/ m.entities[i].parent = s.entities[child].parent}
<1>6. rest \in SUBSET Ids
  BY ChildrenAre
<1>7. PICK p \in Pairs : p = Each("changed", rest)
  <2> HIDE DEF rest
  <2> QED BY <1>6, EachTyped DEF Kinds, Relayed
<1>8. PICK q \in Pairs : q = <<<<"scene", child>>>> \o p /\ Len(q) \in Nat \ {0}
  BY OneMore
<1>9. Becomes(s, Put(s.entities, child, e), AppendEvents(With(s, Put(s.entities, child, e), s.next_entity), q))
  BY <1>2, <1>3, <1>4, <1>8, PutInPlace
<1>10. UnlinkObject(s, child) = AppendEvents(m, q)
  BY <1>1, <1>4, <1>5, <1>7, <1>8 DEF UnlinkObject
<1>11. QED BY <1>4, <1>5, <1>9, <1>10

(* The children of a root that is removed are roots.                       *)
Freed(s, id) == IF s.entities[id].parent = 0 THEN Children(s, id) ELSE {}
Left(s, id) == [i \in Ids |-> IF i = id THEN NoEntity
                              ELSE IF i \in Freed(s, id) THEN Unlinked(s.entities[i]) ELSE s.entities[i]]

LEMMA LeftIs ==
  ASSUME NEW s, Sane(s), NEW id \in Ids
  PROVE /\ Tidy(Left(s, id)) /\ Below(Left(s, id), s.next_entity)
        /\ \A i \in Ids : \/ Left(s, id)[i] = NoEntity /\ i = id
                          \/ /\ i \in Freed(s, id) /\ s.entities[i].parent = id
                             /\ Left(s, id)[i] = Unlinked(s.entities[i])
                          \/ i # id /\ i \notin Freed(s, id) /\ Left(s, id)[i] = s.entities[i]
<1>1. ASSUME NEW i \in Ids
      PROVE \/ Left(s, id)[i] = NoEntity /\ i = id
            \/ /\ i \in Freed(s, id) /\ s.entities[i].parent = id /\ s.entities[i] # NoEntity
               /\ Left(s, id)[i] = Unlinked(s.entities[i])
            \/ i # id /\ i \notin Freed(s, id) /\ Left(s, id)[i] = s.entities[i]
  BY ChildrenAre DEF Left, Freed
<1>2. ASSUME NEW i \in Ids
      PROVE /\ Left(s, id)[i] \in Entity /\ Kempt(Left(s, id)[i])
            /\ Left(s, id)[i] # NoEntity => i < s.next_entity
  <2>1. s.entities[i] \in Entity /\ Kempt(s.entities[i]) /\ (s.entities[i] # NoEntity => i < s.next_entity)
    BY SaneHas, EntityIs DEF Below
  <2>2. QED BY <1>1, <2>1, NothingIs, UnlinkedIs
<1>3. Left(s, id) = [i \in Ids |-> Left(s, id)[i]]
  BY DEF Left
<1>4. Left(s, id) \in Scene
  BY <1>2, <1>3 DEF Scene
<1>5. QED BY <1>1, <1>2, <1>4 DEF Tidy, Below

LEMMA RemoveEntityIs ==
  ASSUME NEW s, Sane(s), NEW id \in Ids
  PROVE Becomes(s, Left(s, id), RemoveEntity(s, id))
<1>1. s \in RegionRuntime /\ s.next_entity \in Nat \ {0}
  BY SaneHas
<1>2. Freed(s, id) \cup {id} \in SUBSET Ids /\ Freed(s, id) \cup {id} # {}
  BY ChildrenAre DEF Freed
<1>3. PICK p \in Pairs : p = Each("scene", Freed(s, id) \cup {id}) /\ Len(p) \in Nat \ {0}
  <2>1. PICK S \in SUBSET Ids : S = Freed(s, id) \cup {id} /\ S # {}
    BY <1>2
  <2>2. Each("scene", S) \in Pairs /\ Len(Each("scene", S)) = Cardinality(S)
    BY EachTyped DEF Kinds
  <2>3. IsFiniteSet(S) /\ Cardinality(S) \in Nat
    BY IdsAre
  <2>4. Cardinality(S) # 0
    BY <2>1, <2>3, FS_EmptySet
  <2>5. QED BY <2>1, <2>2, <2>3, <2>4
<1>4. Becomes(s, Left(s, id), AppendEvents(With(s, Left(s, id), s.next_entity), p))
  BY <1>1, <1>3, LeftIs, EventsFollow
<1>5. [s EXCEPT !.entities = Left(s, id)] = With(s, Left(s, id), s.next_entity)
  BY <1>1 DEF With, RegionRuntime
<1>6. RemoveEntity(s, id) = AppendEvents([s EXCEPT !.entities = Left(s, id)], p)
  BY <1>3 DEF RemoveEntity, Left, Freed
<1>7. QED BY <1>4, <1>5, <1>6

(* A scene that is loaded is the one that was saved.                       *)
LEMMA LoadIs ==
  ASSUME NEW f, Tidy(f)
  PROVE Sane(Load(f)) /\ Load(f).entities = f
<1> DEFINE S == {id \in Ids : f[id] # NoEntity}
           M == {0} \cup S
           g == [id \in Ids |-> IF id \in S THEN Restored(f[id]) ELSE NoEntity]
<1>1. g = f
  <2>1. f \in [Ids -> Entity]
    BY DEF Tidy, Scene
  <2>2. \A id \in Ids : g[id] = f[id]
    BY EntityIs, RestoredIs
  <2> HIDE DEF g
  <2>3. g = [id \in Ids |-> g[id]]
    BY DEF g
  <2>4. QED BY <2>1, <2>2, <2>3
<1>2. S \in SUBSET Ids /\ IsFiniteSet(M) /\ M \in SUBSET Nat /\ M # {}
  <2>1. S \in SUBSET Ids /\ IsFiniteSet(S)
    BY IdsAre
  <2>2. IsFiniteSet({0})
    BY FS_Singleton
  <2>3. IsFiniteSet(M)
    <3> HIDE DEF S
    <3> QED BY <2>1, <2>2, FS_Union
  <2>4. S \in SUBSET Nat
    BY <2>1, IdsAre
  <2>5. M \in SUBSET Nat /\ M # {}
    <3> HIDE DEF S
    <3> QED BY <2>4
  <2>6. QED BY <2>1, <2>3, <2>5
<1>3. PICK n \in Nat : n = Max(M) /\ \A m \in M : m <= n
  <2> HIDE DEF M
  <2> QED BY <1>2, MaxIs
<1>4. Below(f, n + 1)
  <2>1. SUFFICES ASSUME NEW id \in Ids, f[id] # NoEntity PROVE id < n + 1
    BY DEF Below
  <2>2. id \in M
    BY <2>1
  <2> HIDE DEF M
  <2>3. id <= n /\ id \in Nat
    BY <1>3, <2>2, IdsAre
  <2>4. QED BY <2>3
<1>5. Sane(EmptyRegion)
  <2>1. [i \in Ids |-> NoEntity] \in Scene /\ Tidy([i \in Ids |-> NoEntity]) /\ Below([i \in Ids |-> NoEntity], 1)
    BY NothingIs DEF Scene, Tidy, Below
  <2>2. <<>> \in Seq(Event) /\ Len(<<>>) = 0
    OBVIOUS
  <2>3. PICK f0, e0 : /\ f0 = [i \in Ids |-> NoEntity] /\ e0 = <<>>
                      /\ f0 \in Scene /\ Tidy(f0) /\ Below(f0, 1) /\ e0 \in Seq(Event) /\ Len(e0) = 0
    BY <2>1, <2>2
  <2>4. PICK s : s = [entities |-> f0, next_entity |-> 1, events |-> e0, next_event |-> 1, active_collisions |-> {}]
    OBVIOUS
  <2>5. s = EmptyRegion
    BY <2>3, <2>4 DEF EmptyRegion
  <2>6. s \in RegionRuntime
    BY <2>3, <2>4 DEF RegionRuntime
  <2>7. Sane(s)
    BY <2>3, <2>4, <2>6, MaxEventsAssumption DEF Sane
  <2>8. QED BY <2>5, <2>7
<1>6. PICK p \in Pairs : p = Each("scene", S)
  <2> HIDE DEF S
  <2> QED BY <1>2, EachTyped DEF Kinds
<1>7. PICK t : t = AppendEvents(With(EmptyRegion, f, n + 1), p)
  OBVIOUS
<1>8. Sane(t) /\ t.entities = f
  <2>1. n + 1 \in Nat \ {0}
    OBVIOUS
  <2>2. QED BY <1>4, <1>5, <1>7, <2>1, AppendedIsSane
<1>9. Load(f) = AppendEvents([EmptyRegion EXCEPT !.entities = g, !.next_entity = Max(M) + 1], Each("scene", S))
  BY DEF Load
<1>10. [EmptyRegion EXCEPT !.entities = f, !.next_entity = n + 1] = With(EmptyRegion, f, n + 1)
  BY DEF With
<1> HIDE DEF g, M, S
<1>11. Load(f) = t
  BY <1>1, <1>3, <1>6, <1>7, <1>9, <1>10
<1>12. QED BY <1>8, <1>11

----------------------------------------------------------------------------
(* Flat linksets.  The import under way relies on its root: it is there    *)
(* once it has been dealt with, its own, and what is linked to it are      *)
(* members.                                                                *)
RootSound(f, members, r, todo) ==
    /\ IF f[r] = NoEntity THEN Head(todo) = r ELSE f[r].parent = 0 /\ f[r].owner = members[r].owner
    /\ \A c \in Ids : f[c].parent = r => c \in DOMAIN members /\ f[c].link = members[c].link

RootsKept(f, g, touched) ==
    \A r \in Ids \ touched : \A members, todo : RootSound(f, members, r, todo) => RootSound(g, members, r, todo)

Works(s, t, D, touched) ==
    /\ Sane(t) /\ Newer(s, t)
    /\ Flat(s.entities, D) => Flat(t.entities, D)
    /\ RootsKept(s.entities, t.entities, touched)

LEMMA FlatGrows ==
  ASSUME NEW f, NEW D, NEW E, D \subseteq E, Flat(f, D)
  PROVE Flat(f, E)
BY DEF Flat

LEMMA SameLinksFlat ==
  ASSUME NEW f, NEW g, Tidy(f), Tidy(g), SameLinks(f, g), NEW D
  PROVE (Flat(f, D) => Flat(g, D)) /\ RootsKept(f, g, {})
<1>1. ASSUME NEW i \in Ids
      PROVE /\ f[i].owner = g[i].owner /\ f[i].parent = g[i].parent /\ f[i].link = g[i].link
            /\ f[i].parent \in Ids \cup {0} /\ (f[i] = NoEntity <=> g[i] = NoEntity)
  <2>1. f[i] \in Entity /\ Kempt(f[i]) /\ g[i] \in Entity /\ Kempt(g[i])
    BY EntityIs
  <2>2. f[i].owner = g[i].owner /\ f[i].parent = g[i].parent /\ f[i].link = g[i].link
    BY DEF SameLinks, SameLink
  <2>3. f[i].parent \in Ids \cup {0}
    BY <2>1 DEF Entity
  <2>4. f[i] = NoEntity <=> g[i] = NoEntity
    BY <2>1, <2>2, NothingIs DEF Kempt
  <2>5. QED BY <2>2, <2>3, <2>4
<1>2. ASSUME Flat(f, D) PROVE Flat(g, D)
  <2>1. SUFFICES ASSUME NEW c \in Ids, g[c].parent \notin D \cup {0}
                 PROVE /\ g[g[c].parent] # NoEntity /\ g[g[c].parent].parent = 0
                       /\ g[g[c].parent].owner = g[c].owner
                       /\ \A d \in Ids \ {c} : g[d].parent = g[c].parent => g[d].link # g[c].link
    BY DEF Flat
  <2>2. PICK r \in Ids : r = f[c].parent /\ r = g[c].parent /\ r \notin D \cup {0}
    BY <1>1, <2>1
  <2>3. /\ f[r] # NoEntity /\ f[r].parent = 0 /\ f[r].owner = f[c].owner
        /\ \A d \in Ids \ {c} : f[d].parent = r => f[d].link # f[c].link
    BY <1>2, <2>2 DEF Flat
  <2>4. QED BY <1>1, <2>2, <2>3
<1>3. RootsKept(f, g, {})
  <2>1. SUFFICES ASSUME NEW r \in Ids, NEW members, NEW todo, RootSound(f, members, r, todo)
                 PROVE RootSound(g, members, r, todo)
    BY DEF RootsKept
  <2>2. QED BY <1>1, <2>1 DEF RootSound
<1>4. QED BY <1>2, <1>3

(* One object is changed that has no children: it gets no parent, or one   *)
(* that may have it as a child.                                            *)
MayJoin(f, id, e) ==
    /\ e.parent \in Ids \ {id} /\ f[e.parent] # NoEntity /\ f[e.parent].parent = 0
    /\ f[e.parent].owner = e.owner
    /\ \A d \in Ids \ {id} : f[d].parent = e.parent => f[d].link # e.link

LEMMA PutFlat ==
  ASSUME NEW f, Tidy(f), NEW D, NEW id \in Ids, NEW e \in Entity, Kempt(e), Flat(f, D),
         \A c \in Ids \ {id} : f[c].parent = id => id \in D,
         e.parent \notin D \cup {0} => MayJoin(f, id, e)
  PROVE Flat(Put(f, id, e), D)
<1>1. PICK g : g = Put(f, id, e)
  OBVIOUS
<1>2. \A i \in Ids : g[i] = IF i = id THEN e ELSE f[i]
  BY <1>1 DEF Put, Tidy, Scene
<1>3. SUFFICES ASSUME NEW c \in Ids, g[c].parent \notin D \cup {0}
               PROVE /\ g[g[c].parent] # NoEntity /\ g[g[c].parent].parent = 0
                     /\ g[g[c].parent].owner = g[c].owner
                     /\ \A d \in Ids \ {c} : g[d].parent = g[c].parent => g[d].link # g[c].link
  BY <1>1 DEF Flat
<1>4. CASE c = id
  <2>1. g[c] = e /\ MayJoin(f, id, e)
    BY <1>2, <1>3, <1>4
  <2>2. PICK r \in Ids \ {id} : r = e.parent
    BY <2>1 DEF MayJoin
  <2>3. g[r] = f[r] /\ \A d \in Ids \ {id} : g[d] = f[d]
    BY <1>2
  <2>4. QED BY <1>4, <2>1, <2>2, <2>3 DEF MayJoin
<1>5. CASE c # id
  <2>1. g[c] = f[c] /\ f[c] \in Entity
    BY <1>2, <1>5, EntityIs
  <2>2. PICK r \in Ids : r = f[c].parent /\ r \notin D \cup {0}
    BY <1>3, <2>1 DEF Entity
  <2>3. r # id
    BY <1>5, <2>2
  <2>4. /\ f[r] # NoEntity /\ f[r].parent = 0 /\ f[r].owner = f[c].owner
        /\ \A d \in Ids \ {c} : f[d].parent = r => f[d].link # f[c].link
    BY <2>2 DEF Flat
  <2>5. g[r] = f[r]
    BY <1>2, <2>3
  <2>6. ASSUME NEW d \in Ids \ {c}, g[d].parent = r PROVE g[d].link # f[c].link
    <3>1. CASE d = id
      <4>1. e.parent = r /\ g[d] = e
        BY <1>2, <2>6, <3>1
      <4>2. \A i \in Ids \ {id} : f[i].parent = r => f[i].link # e.link
        BY <2>2, <4>1 DEF MayJoin
      <4>3. QED BY <1>5, <2>2, <4>1, <4>2
    <3>2. CASE d # id
      BY <1>2, <2>4, <2>6, <3>2
    <3>3. QED BY <3>1, <3>2
  <2>7. QED BY <2>1, <2>2, <2>4, <2>5, <2>6
<1>6. QED BY <1>4, <1>5

LEMMA PutRoots ==
  ASSUME NEW f, Tidy(f), NEW id \in Ids, NEW e
  PROVE RootsKept(f, Put(f, id, e), {id, e.parent})
<1>1. PICK g : g = Put(f, id, e)
  OBVIOUS
<1>2. \A i \in Ids : g[i] = IF i = id THEN e ELSE f[i]
  BY <1>1 DEF Put, Tidy, Scene
<1>3. SUFFICES ASSUME NEW r \in Ids \ {id, e.parent}, NEW members, NEW todo, RootSound(f, members, r, todo)
               PROVE RootSound(g, members, r, todo)
  BY <1>1 DEF RootsKept
<1>4. g[r] = f[r]
  BY <1>2
<1>5. ASSUME NEW c \in Ids, g[c].parent = r PROVE g[c] = f[c]
  BY <1>2, <1>5
<1>6. QED BY <1>3, <1>4, <1>5 DEF RootSound

(* An identifier that is free is nobody's parent.                          *)
LEMMA FreeHasNone ==
  ASSUME NEW f, NEW D, Flat(f, D), NEW id \in Ids, f[id] = NoEntity, NEW c \in Ids, f[c].parent = id
  PROVE id \in D
BY IdsAre DEF Flat

(* One that is a child is not, either.                                     *)
LEMMA ChildHasNone ==
  ASSUME NEW f, NEW D, Flat(f, D), NEW id \in Ids, f[id].parent # 0, NEW c \in Ids, f[c].parent = id
  PROVE id \in D
BY IdsAre DEF Flat

LEMMA LeftFlat ==
  ASSUME NEW s, Sane(s), NEW id \in Ids, NEW D
  PROVE (Flat(s.entities, D) => Flat(Left(s, id), D)) /\ RootsKept(s.entities, Left(s, id), {id})
<1>1. PICK f, g : f = s.entities /\ g = Left(s, id)
  OBVIOUS
<1>2. ASSUME NEW i \in Ids
      PROVE f[i] \in Entity /\ (g[i].parent # 0 => g[i] = f[i] /\ i # id)
  <2>1. f[i] \in Entity /\ Kempt(f[i])
    BY <1>1, SaneHas, EntityIs
  <2>2. Unlinked(f[i]).parent = 0
    BY <2>1 DEF Unlinked, Entity
  <2>3. \/ g[i] = NoEntity
        \/ g[i] = Unlinked(f[i])
        \/ g[i] = f[i] /\ i # id
    BY <1>1, LeftIs
  <2>4. QED BY <2>1, <2>2, <2>3, NothingIs
<1>3. ASSUME NEW i \in Ids, f[i].parent = 0 PROVE g[i] = f[i] \/ i = id
  <2>1. i \notin Freed(s, id)
    BY <1>1, <1>3, ChildrenAre, IdsAre DEF Freed
  <2>2. QED BY <1>1, <2>1 DEF Left
<1>4. ASSUME NEW c \in Ids, c # id, f[c].parent = id, f[id].parent = 0 PROVE g[c].parent = 0
  <2>1. c \in Freed(s, id)
    <3>1. f[c] # NoEntity
      BY <1>4, NothingIs, IdsAre
    <3>2. QED BY <1>1, <1>4, <3>1 DEF Freed, Children, Living, Exists
  <2>2. g[c] = Unlinked(f[c])
    BY <1>1, <1>4, <2>1, LeftIs
  <2>3. QED BY <1>2, <2>2 DEF Unlinked, Entity
<1>5. ASSUME Flat(f, D) PROVE Flat(g, D)
  <2>1. SUFFICES ASSUME NEW c \in Ids, g[c].parent \notin D \cup {0}
                 PROVE /\ g[g[c].parent] # NoEntity /\ g[g[c].parent].parent = 0
                       /\ g[g[c].parent].owner = g[c].owner
                       /\ \A d \in Ids \ {c} : g[d].parent = g[c].parent => g[d].link # g[c].link
    BY DEF Flat
  <2>2. g[c] = f[c] /\ c # id /\ f[c] \in Entity
    BY <1>2, <2>1
  <2>3. PICK r \in Ids : r = f[c].parent /\ r \notin D \cup {0}
    BY <2>1, <2>2 DEF Entity
  <2>4. /\ f[r] # NoEntity /\ f[r].parent = 0 /\ f[r].owner = f[c].owner
        /\ \A d \in Ids \ {c} : f[d].parent = r => f[d].link # f[c].link
    BY <1>5, <2>3 DEF Flat
  <2>5. r # id
    BY <1>4, <2>2, <2>3, <2>4
  <2>6. g[r] = f[r]
    BY <1>3, <2>4, <2>5
  <2>7. ASSUME NEW d \in Ids \ {c}, g[d].parent = r PROVE g[d].link # f[c].link
    BY <1>2, <2>3, <2>4, <2>7
  <2>8. QED BY <2>2, <2>3, <2>4, <2>6, <2>7
<1>6. RootsKept(f, g, {id})
  <2>1. SUFFICES ASSUME NEW r \in Ids \ {id}, NEW members, NEW todo, RootSound(f, members, r, todo)
                 PROVE RootSound(g, members, r, todo)
    BY DEF RootsKept
  <2>2. f[r].parent = 0
    BY <2>1, NothingIs DEF RootSound
  <2>3. g[r] = f[r]
    BY <1>3, <2>2
  <2>4. ASSUME NEW c \in Ids, g[c].parent = r PROVE g[c] = f[c]
    BY <1>2, <2>4, IdsAre
  <2>5. QED BY <2>1, <2>3, <2>4 DEF RootSound
<1>7. QED BY <1>1, <1>5, <1>6

LEMMA SameWorks ==
  ASSUME NEW s, Sane(s), NEW D
  PROVE Works(s, s, D, {})
BY DEF Works, Newer, RootsKept

LEMMA RetouchWorks ==
  ASSUME NEW s, Sane(s), NEW t, Retouches(s, t), NEW D
  PROVE Works(s, t, D, {})
<1>1. Sane(t) /\ t.next_event > s.next_event /\ SameLinks(s.entities, t.entities)
  BY DEF Retouches
<1>2. Tidy(s.entities) /\ Tidy(t.entities)
  BY <1>1, SaneHas
<1>3. PICK f, g : f = s.entities /\ g = t.entities
  OBVIOUS
<1>4. (Flat(f, D) => Flat(g, D)) /\ RootsKept(f, g, {})
  BY <1>1, <1>2, <1>3, SameLinksFlat
<1>5. QED BY <1>1, <1>3, <1>4 DEF Works, Newer

LEMMA WorksWider ==
  ASSUME NEW s, NEW t, NEW D, NEW small, NEW wide, small \cap Ids \subseteq wide, Works(s, t, D, small)
  PROVE Works(s, t, D, wide)
<1>1. RootsKept(s.entities, t.entities, wide)
  BY DEF Works, RootsKept
<1>2. QED BY <1>1 DEF Works

LEMMA PutWorks ==
  ASSUME NEW s, Sane(s), NEW D, Flat(s.entities, D), NEW id \in Ids, NEW e \in Entity, Kempt(e),
         \A c \in Ids \ {id} : s.entities[c].parent = id => id \in D,
         e.parent \notin D \cup {0} => MayJoin(s.entities, id, e),
         NEW t, Becomes(s, Put(s.entities, id, e), t)
  PROVE Works(s, t, D, {id, e.parent})
<1>1. PICK f : f = s.entities /\ Tidy(f)
  BY SaneHas
<1>2. Flat(Put(f, id, e), D)
  BY <1>1, PutFlat
<1>3. RootsKept(f, Put(f, id, e), {id, e.parent})
  BY <1>1, PutRoots
<1>4. Sane(t) /\ t.next_event > s.next_event /\ t.entities = Put(f, id, e)
  BY <1>1 DEF Becomes
<1>5. QED BY <1>1, <1>2, <1>3, <1>4 DEF Works, Newer

LEMMA SpawnWorks ==
  ASSUME NEW s, Sane(s), NEW D, Flat(s.entities, D), NEW owner \in Users, NEW physical \in BOOLEAN,
         s.next_entity \in Ids
  PROVE Works(s, SpawnObject(s, owner, physical), D, {s.next_entity})
<1>1. PICK id \in Ids : id = s.next_entity
  OBVIOUS
<1>2. s.entities[id] = NoEntity
  <2>1. ~(id < id)
    BY <1>1, SaneHas
  <2>2. QED BY <1>1, <2>1, SaneHas DEF Below
<1>3. \A c \in Ids \ {id} : s.entities[c].parent = id => id \in D
  BY <1>2, FreeHasNone
<1>4. PICK e \in Entity : e = New(owner, physical) /\ Kempt(e) /\ e.parent = 0
  BY NewIs
<1>5. PICK t : t = SpawnObject(s, owner, physical) /\ Becomes(s, Put(s.entities, id, e), t)
  BY <1>1, <1>4, SpawnObjectIs
<1>6. Works(s, t, D, {id, e.parent})
  BY <1>3, <1>4, <1>5, PutWorks
<1>7. {id, e.parent} \cap Ids \subseteq {id}
  BY <1>4, IdsAre
<1>8. Works(s, t, D, {id})
  BY <1>6, <1>7, WorksWider
<1>9. QED BY <1>1, <1>5, <1>8

LEMMA LinkWorks ==
  ASSUME NEW s, Sane(s), NEW D, Flat(s.entities, D), NEW root \in Ids, NEW child \in Ids, CanLink(s, root, child)
  PROVE Works(s, LinkObjects(s, root, child), D, {child, root})
<1>1. /\ root # child /\ s.entities[root] # NoEntity /\ s.entities[root].parent = 0
      /\ s.entities[root].owner = s.entities[child].owner /\ Children(s, child) = {} /\ Exists(s, child)
  BY DEF CanLink, Exists
<1>2. PICK e \in Entity : /\ e = Child(s, root, child) /\ Kempt(e) /\ e.owner = s.entities[child].owner
                          /\ e.parent = root /\ e.link = NextLink(s, root)
  BY <1>1, ChildIs
<1>3. ASSUME NEW c \in Ids, NEW id \in Ids, s.entities[c].parent = id PROVE c \in Children(s, id)
  <2>1. s.entities[c] # NoEntity
    BY <1>3, NothingIs, IdsAre
  <2>2. QED BY <1>3, <2>1 DEF Children, Living, Exists
<1>4. \A c \in Ids \ {child} : s.entities[c].parent = child => child \in D
  BY <1>1, <1>3
<1>5. ASSUME NEW d \in Ids, s.entities[d].parent = root PROVE s.entities[d].link # e.link
  <2>1. s.entities[d].link < NextLink(s, root) /\ NextLink(s, root) \in Nat
    BY <1>3, <1>5, NextLinkIs
  <2>2. s.entities[d].link \in Nat
    BY SaneHas, EntityIs DEF Entity
  <2>3. QED BY <1>2, <2>1, <2>2
<1>6. MayJoin(s.entities, child, e)
  BY <1>1, <1>2, <1>5 DEF MayJoin
<1>7. PICK t : t = LinkObjects(s, root, child) /\ Becomes(s, Put(s.entities, child, e), t)
  BY <1>2, LinkObjectsIs
<1>8. Works(s, t, D, {child, e.parent})
  BY <1>4, <1>6, <1>7, <1>2, PutWorks
<1>9. QED BY <1>2, <1>7, <1>8

LEMMA UnlinkWorks ==
  ASSUME NEW s, Sane(s), NEW D, Flat(s.entities, D), NEW child \in Ids
  PROVE Works(s, UnlinkObject(s, child), D, {child})
<1>1. CASE s.entities[child].parent = 0
  <2>1. UnlinkObject(s, child) = s
    BY <1>1 DEF UnlinkObject
  <2>2. Works(s, s, D, {})
    BY SameWorks
  <2>3. Works(s, s, D, {child})
    BY <2>2, WorksWider
  <2>4. QED BY <2>1, <2>3
<1>2. CASE s.entities[child].parent # 0
  <2>1. s.entities[child] \in Entity /\ Kempt(s.entities[child]) /\ s.entities[child] # NoEntity
    BY <1>2, SaneHas, EntityIs, NothingIs
  <2>2. PICK e \in Entity : e = Unlinked(s.entities[child]) /\ Kempt(e) /\ e.parent = 0
    BY <2>1, UnlinkedIs
  <2>3. \A c \in Ids \ {child} : s.entities[c].parent = child => child \in D
    BY <1>2, ChildHasNone
  <2>4. PICK t : t = UnlinkObject(s, child) /\ Becomes(s, Put(s.entities, child, e), t)
    BY <1>2, <2>1, <2>2, UnlinkObjectIs DEF Exists
  <2>5. Works(s, t, D, {child, e.parent})
    BY <2>2, <2>3, <2>4, PutWorks
  <2>6. {child, e.parent} \cap Ids \subseteq {child}
    BY <2>2, IdsAre
  <2>7. Works(s, t, D, {child})
    BY <2>5, <2>6, WorksWider
  <2>8. QED BY <2>4, <2>7
<1>3. QED BY <1>1, <1>2

LEMMA RemoveWorks ==
  ASSUME NEW s, Sane(s), NEW D, NEW id \in Ids
  PROVE Works(s, RemoveEntity(s, id), D, {id})
<1>1. PICK t : t = RemoveEntity(s, id) /\ Becomes(s, Left(s, id), t)
  BY RemoveEntityIs
<1>2. Sane(t) /\ t.next_event > s.next_event /\ t.entities = Left(s, id)
  BY <1>1 DEF Becomes
<1>3. (Flat(s.entities, D) => Flat(t.entities, D)) /\ RootsKept(s.entities, t.entities, {id})
  BY <1>2, LeftFlat
<1>4. QED BY <1>1, <1>2, <1>3 DEF Works, Newer

(* What a request leads to.                                                *)
LEMMA ResultsWork ==
  ASSUME Sane(region), NEW D, Flat(region.entities, D), NEW r \in Request, r.op \in Operations,
         r.user \in Users, Possible(r), r.op = "create" => region.next_entity \in Ids, NEW t \in Results(r)
  PROVE Works(region, t, D, Linked(r))
<1>1. r.id \in Ids /\ r.other \in Ids
  BY DEF Request
<1>2. CASE r.op = "create"
  <2>1. PICK physical \in BOOLEAN : t = SpawnObject(region, r.user, physical)
    BY <1>2 DEF Results
  <2>2. Linked(r) = {region.next_entity}
    BY <1>2 DEF Linked
  <2>3. QED BY <1>2, <2>1, <2>2, SpawnWorks
<1>3. CASE r.op = "link"
  <2>1. t = LinkObjects(region, r.id, r.other) /\ CanLink(region, r.id, r.other)
    BY <1>3 DEF Results, Possible
  <2>2. Linked(r) = {r.id, r.other, region.entities[r.id].parent}
    BY <1>3 DEF Linked
  <2>3. Works(region, t, D, {r.other, r.id})
    BY <1>1, <2>1, LinkWorks
  <2>4. QED BY <2>2, <2>3, WorksWider
<1>4. CASE r.op = "delete"
  <2>1. t = RemoveEntity(region, r.id)
    BY <1>4 DEF Results
  <2>2. Linked(r) = {r.id, r.other, region.entities[r.id].parent}
    BY <1>4 DEF Linked
  <2>3. Works(region, t, D, {r.id})
    BY <1>1, <2>1, RemoveWorks
  <2>4. QED BY <2>2, <2>3, WorksWider
<1>5. CASE r.op = "unlink"
  <2>1. t = UnlinkObject(region, r.id)
    BY <1>5 DEF Results
  <2>2. Linked(r) = {r.id, r.other, region.entities[r.id].parent}
    BY <1>5 DEF Linked
  <2>3. Works(region, t, D, {r.id})
    BY <1>1, <2>1, UnlinkWorks
  <2>4. QED BY <2>2, <2>3, WorksWider
<1>6. CASE r.op = "update"
  <2>1. PICK p \in Places, q \in Looks : t = UpdateTransform(region, r.id, p, q)
    BY <1>6 DEF Results
  <2>2. Exists(region, r.id)
    BY <1>6 DEF Possible
  <2>3. Retouches(region, t)
    BY <1>1, <2>1, <2>2, UpdateTransformIs
  <2>4. QED BY <2>3, RetouchWorks, WorksWider
<1>7. CASE r.op \in {"text", "material", "share", "force"}
  <2>1. Exists(region, r.id)
    BY <1>7 DEF Possible, CanPush
  <2>2. \/ t \in {SetFloatingText(region, r.id), SetPhysicsMaterial(region, r.id), SetObjectPermissions(region, r.id),
                  ApplyForce(region, r.id)}
        \/ t = region
    BY <1>7 DEF Results
  <2>3. Retouches(region, t) \/ t = region
    BY <1>1, <2>1, <2>2, LookedAt, Noticed
  <2>4. Works(region, t, D, {})
    BY <2>3, RetouchWorks, SameWorks
  <2>5. QED BY <2>4, WorksWider
<1>8. QED BY <1>2, <1>3, <1>4, <1>5, <1>6, <1>7 DEF Operations

----------------------------------------------------------------------------
(* The invariant.  Loading and importing need more of the file and of the  *)
(* snapshots than the properties say; the thread that saves, how its       *)
(* sequence and the events it has not seen relate.                         *)
Requested(r) == r = NoRequest \/ (r.op \in Operations /\ r.user \in Users)

SavingInv ==
    /\ savedSequence <= LatestSequence(region)
    /\ savedSequence = LatestSequence(region) => sceneFile = region.entities
    /\ saver.stage # "none" => saver.sequence <= LatestSequence(region)
    /\ saver.stage = "taken" /\ saver.sequence = LatestSequence(region) => saver.objects = region.entities

Leads(r, members) ==
    /\ r \in DOMAIN members /\ members[r].parent = 0
    /\ \A m \in DOMAIN members \ {r} :
        /\ members[m].parent = r /\ members[m].owner = members[r].owner
        /\ \A n \in DOMAIN members \ {m} : members[n].link # members[m].link

(* What is to do comes in the order of link numbers: the root was first.   *)
Listed(todo, members, r) ==
    /\ Len(todo) > 0
    /\ \A i \in 1 .. Len(todo) : todo[i] \in DOMAIN members /\ (i > 1 => todo[i] # r)

Coming(f, members, todo, D) ==
    \E r \in Ids : Leads(r, members) /\ Listed(todo, members, r) /\ (r \in D \/ RootSound(f, members, r, todo))

ImportInv ==
    /\ import.stage # "none" => import.members \in Snapshots
    /\ import.stage \in {"looking", "restoring"} =>
           Coming(region.entities, import.members, import.todo, disturbed)
    /\ import.stage = "undoing" => Len(import.made) > 0

SceneInv ==
    /\ SceneTypeOK
    /\ Sane(region) /\ Tidy(sceneFile) /\ Tidy(saver.objects)
    /\ Flat(region.entities, disturbed) /\ Flat(sceneFile, disturbed) /\ Flat(saver.objects, disturbed)
    /\ \A v \in Viewers : Requested(request[v])
    /\ SavingInv /\ ImportInv

LEMMA ComingKept ==
  ASSUME NEW f, NEW g, NEW members, NEW todo, NEW D, NEW touched, NEW E,
         Coming(f, members, todo, D), RootsKept(f, g, touched), D \subseteq E,
         touched \cap {m \in DOMAIN members : members[m].parent = 0} \subseteq E
  PROVE Coming(g, members, todo, E)
<1>1. PICK r \in Ids : Leads(r, members) /\ Listed(todo, members, r) /\ (r \in D \/ RootSound(f, members, r, todo))
  BY DEF Coming
<1>2. CASE r \in E
  BY <1>1, <1>2 DEF Coming
<1>3. CASE r \notin E
  <2>1. r \notin touched
    BY <1>1, <1>3 DEF Leads
  <2>2. RootSound(g, members, r, todo)
    BY <1>1, <1>3, <2>1 DEF RootsKept
  <2>3. QED BY <1>1, <2>2 DEF Coming
<1>4. QED BY <1>2, <1>3

LEMMA SceneHas ==
  ASSUME SceneInv
  PROVE /\ Sane(region) /\ Flat(region.entities, disturbed) /\ region.next_event \in Nat /\ region.entities \in Scene
        /\ savedSequence \in Nat /\ saver \in Saver /\ saver.sequence \in Nat /\ import \in Import
        /\ request \in [Viewers -> Request] /\ budget \in [Bounded -> Nat] /\ disturbed \subseteq Ids
        /\ mayBuild \subseteq Users /\ sceneFile \in Scene
<1>1. saver.sequence \in Nat
  BY DEF SceneInv, SceneTypeOK, Saver
<1>2. Sane(region) /\ region.next_event \in Nat /\ region.entities \in Scene
  BY SaneHas DEF SceneInv
<1>3. QED BY <1>1, <1>2 DEF SceneInv, SceneTypeOK

(* A step of the runtime, and of the import with it.                       *)
LEMMA RegionChanges ==
  ASSUME SceneInv, NEW touched, Works(region, region', disturbed, touched),
         disturbed \subseteq disturbed', disturbed' \subseteq Ids, import' \in Import, ImportInv',
         UNCHANGED <<sceneFile, savedSequence, saver>>, mayBuild' \subseteq Users,
         request' \in [Viewers -> Request], \A v \in Viewers : Requested(request'[v]),
         budget' \in [Bounded -> Nat]
  PROVE SceneInv'
<1>1. Sane(region') /\ Newer(region, region') /\ Flat(region'.entities, disturbed)
  BY SceneHas DEF Works
<1>2. SceneTypeOK'
  BY <1>1 DEF SceneInv, SceneTypeOK, Sane
<1>3. Flat(region'.entities, disturbed') /\ Flat(sceneFile, disturbed') /\ Flat(saver.objects, disturbed')
  BY <1>1, FlatGrows DEF SceneInv
<1>4. SavingInv'
  <2>1. region'.next_event \in Nat /\ region.next_event \in Nat
    BY <1>1, SaneHas, SceneHas
  <2>2. CASE region'.next_event > region.next_event
    BY <2>1, <2>2, SceneHas DEF SceneInv, SavingInv, LatestSequence
  <2>3. CASE region'.next_event = region.next_event /\ region'.entities = region.entities
    BY <2>3 DEF SceneInv, SavingInv, LatestSequence
  <2>4. QED BY <1>1, <2>2, <2>3 DEF Newer
<1>5. QED BY <1>1, <1>2, <1>3, <1>4 DEF SceneInv

LEMMA RegionMoves ==
  ASSUME SceneInv, NEW touched, Works(region, region', disturbed, touched),
         disturbed' = disturbed \cup (touched \cap ImportRoot),
         UNCHANGED <<import, sceneFile, savedSequence, saver>>, mayBuild' \subseteq Users,
         request' \in [Viewers -> Request], \A v \in Viewers : Requested(request'[v]),
         budget' \in [Bounded -> Nat]
  PROVE SceneInv'
<1>1. ImportRoot \subseteq Ids
  <2>1. CASE import.stage = "none"
    BY <2>1 DEF ImportRoot
  <2>2. CASE import.stage # "none"
    BY <2>2, SnapshotsAssumption DEF ImportRoot, SceneInv, ImportInv
  <2>3. QED BY <2>1, <2>2
<1>2. ImportInv'
  <2>1. ASSUME import.stage \in {"looking", "restoring"}
        PROVE Coming(region'.entities, import.members, import.todo, disturbed')
    <3>1. Coming(region.entities, import.members, import.todo, disturbed)
      BY <2>1 DEF SceneInv, ImportInv
    <3>2. touched \cap {m \in DOMAIN import.members : import.members[m].parent = 0} \subseteq disturbed'
      BY <2>1 DEF ImportRoot
    <3>3. RootsKept(region.entities, region'.entities, touched)
      BY DEF Works
    <3>4. QED BY <3>1, <3>2, <3>3, ComingKept
  <2>2. QED BY <2>1 DEF SceneInv, ImportInv
<1>3. disturbed \subseteq disturbed' /\ disturbed' \subseteq Ids /\ import' \in Import
  BY <1>1, SceneHas
<1>4. QED BY <1>2, <1>3, RegionChanges

(* A step that leaves the objects alone.                                   *)
LEMMA RegionStays ==
  ASSUME SceneInv, UNCHANGED <<region, import, sceneFile, savedSequence, saver, disturbed>>, mayBuild' \subseteq Users,
         request' \in [Viewers -> Request], \A v \in Viewers : Requested(request'[v]),
         budget' \in [Bounded -> Nat]
  PROVE SceneInv'
<1>1. Works(region, region', disturbed, {})
  BY SceneHas, SameWorks
<1>2. disturbed' = disturbed \cup ({} \cap ImportRoot)
  OBVIOUS
<1>3. QED BY <1>1, <1>2, RegionMoves

LEMMA Spent ==
  ASSUME budget \in [Bounded -> Nat], NEW kinds \in SUBSET Bounded, Spends(kinds)
  PROVE budget' \in [Bounded -> Nat]
<1>1. ASSUME NEW k \in Bounded
      PROVE (IF k \in kinds THEN budget[k] - 1 ELSE budget[k]) \in Nat
  BY DEF Spends
<1>2. QED BY <1>1 DEF Spends

LEMMA NothingAsked ==
  /\ NoRequest \in Request
  /\ [v \in Viewers |-> NoRequest] \in [Viewers -> Request]
  /\ \A v \in Viewers : Requested([w \in Viewers |-> NoRequest][v])
<1>1. NoRequest \in Request
  BY IdsAre DEF NoRequest, Request
<1>2. QED BY <1>1 DEF Requested

----------------------------------------------------------------------------
(* The steps.                                                              *)
LEMMA AskKeeps ==
  ASSUME SceneInv, NEW v \in Viewers, Ask(v)
  PROVE SceneInv'
<1>1. PICK r \in [op: Operations, user: Users, id: Ids, other: Ids] : request' = [request EXCEPT ![v] = r]
  BY DEF Ask
<1>2. r \in Request /\ Requested(r)
  BY <1>1 DEF Request, Requested
<1>3. /\ request' \in [Viewers -> Request] /\ \A w \in Viewers : Requested(request'[w])
  BY <1>1, <1>2, SceneHas DEF SceneInv
<1>4. budget' \in [Bounded -> Nat]
  <2>1. Spends({"edit"}) /\ {"edit"} \in SUBSET Bounded
    BY DEF Ask, Bounded
  <2>2. QED BY <2>1, Spent, SceneHas
<1>5. UNCHANGED <<region, import, sceneFile, savedSequence, saver, disturbed>> /\ mayBuild' \subseteq Users
  BY SceneHas DEF Ask, sceneRest
<1>6. QED BY <1>3, <1>4, <1>5, RegionStays

LEMMA ActKeeps ==
  ASSUME SceneInv, NEW v \in Viewers, Act(v)
  PROVE SceneInv'
<1>1. PICK r \in Request : r = request[v]
  BY SceneHas
<1>2. r.op \in Operations /\ r.user \in Users
  BY <1>1 DEF SceneInv, Requested, Act
<1>3. /\ r.op = "create" => region.next_entity \in Ids
      /\ request' = [request EXCEPT ![v] = NoRequest]
      /\ IF Possible(r) THEN region' \in Results(r) ELSE region' = region
      /\ disturbed' = disturbed \cup (Linked(r) \cap ImportRoot)
      /\ UNCHANGED <<mayBuild, import, sceneFile, savedSequence, saver, budget>>
  BY <1>1 DEF Act, sceneRest
<1>4. Works(region, region', disturbed, Linked(r))
  <2>1. CASE Possible(r)
    BY <1>2, <1>3, <2>1, SceneHas, ResultsWork
  <2>2. CASE ~Possible(r)
    <3>1. Works(region, region, disturbed, {})
      BY SceneHas, SameWorks
    <3>2. QED BY <1>3, <2>2, <3>1, WorksWider
  <2>3. QED BY <2>1, <2>2
<1>5. /\ request' \in [Viewers -> Request] /\ \A w \in Viewers : Requested(request'[w])
  BY <1>3, NothingAsked, SceneHas DEF SceneInv, Requested
<1>6. QED BY <1>3, <1>4, <1>5, SceneHas, RegionMoves

LEMMA TouchKeeps ==
  ASSUME SceneInv, Touch
  PROVE SceneInv'
<1>1. PICK id \in Ids : region' = InteractObject(region, id)
  BY ChildrenAre DEF Touch
<1>2. Works(region, region', disturbed, {})
  BY <1>1, SceneHas, Noticed, RetouchWorks
<1>3. budget' \in [Bounded -> Nat]
  <2>1. Spends({"touch"}) /\ {"touch"} \in SUBSET Bounded
    BY DEF Touch, Bounded
  <2>2. QED BY <2>1, Spent, SceneHas
<1>4. /\ disturbed' = disturbed \cup ({} \cap ImportRoot) /\ mayBuild' \subseteq Users
      /\ request' = request /\ UNCHANGED <<import, sceneFile, savedSequence, saver>>
  BY SceneHas DEF Touch, sceneRest
<1>5. request' \in [Viewers -> Request] /\ \A v \in Viewers : Requested(request'[v])
  BY <1>4, SceneHas DEF SceneInv
<1>6. QED BY <1>2, <1>3, <1>4, <1>5, RegionMoves

LEMMA LandChangesKeeps ==
  ASSUME SceneInv, LandChanges
  PROVE SceneInv'
<1>1. budget' \in [Bounded -> Nat]
  <2>1. Spends({"land"}) /\ {"land"} \in SUBSET Bounded
    BY DEF LandChanges, Bounded
  <2>2. QED BY <2>1, Spent, SceneHas
<1>2. mayBuild' \subseteq Users /\ UNCHANGED <<region, request, import, sceneFile, savedSequence, saver, disturbed>>
  BY SceneHas DEF LandChanges
<1>3. request' \in [Viewers -> Request] /\ \A v \in Viewers : Requested(request'[v])
  BY <1>2, SceneHas DEF SceneInv
<1>4. QED BY <1>1, <1>2, <1>3, RegionStays

LEMMA BodyMovesKeeps ==
  ASSUME SceneInv, BodyMoves
  PROVE SceneInv'
<1>1. PICK id \in Ids : /\ Exists(region, id)
                        /\ region' = UpdateTransform(region, id, 1 - region.entities[id].place,
                                                    region.entities[id].scale)
  BY DEF BodyMoves, Living
<1>2. 1 - region.entities[id].place \in Places /\ region.entities[id].scale \in Looks
  BY SceneHas DEF Scene, Entity, Places
<1>3. Works(region, region', disturbed, {})
  BY <1>1, <1>2, SceneHas, UpdateTransformIs, RetouchWorks
<1>4. budget' \in [Bounded -> Nat]
  <2>1. Spends({"tick"}) /\ {"tick"} \in SUBSET Bounded
    BY DEF BodyMoves, Bounded
  <2>2. QED BY <2>1, Spent, SceneHas
<1>5. /\ disturbed' = disturbed \cup ({} \cap ImportRoot) /\ mayBuild' \subseteq Users
      /\ request' = request /\ UNCHANGED <<import, sceneFile, savedSequence, saver>>
  BY SceneHas DEF BodyMoves, sceneRest
<1>6. request' \in [Viewers -> Request] /\ \A v \in Viewers : Requested(request'[v])
  BY <1>5, SceneHas DEF SceneInv
<1>7. QED BY <1>3, <1>4, <1>5, <1>6, RegionMoves

(* The events of contacts: one for each object that takes part.            *)
Met(s, cs, type) ==
    LET order == SetToSeq({p \in cs \X Living(s) : p[2] \in p[1]})
    IN [i \in DOMAIN order |-> <<type, order[i][2]>>]

LEMMA MetTyped ==
  ASSUME NEW s, NEW cs \in SUBSET Contacts, NEW type \in Kinds
  PROVE Met(s, cs, type) \in Pairs
<1>1. PICK P : P = {p \in cs \X Living(s) : p[2] \in p[1]}
  OBVIOUS
<1>2. IsFiniteSet(P)
  <2>1. IsFiniteSet(cs) /\ IsFiniteSet(Living(s))
    BY ContactsAssumption, ChildrenAre, IdsAre, FS_Subset
  <2>2. IsFiniteSet(cs \X Living(s))
    BY <2>1, FS_Product
  <2>3. QED BY <1>1, <2>2, FS_Subset
<1>3. PICK n \in Nat : SetToSeq(P) \in [1 .. n -> P]
  BY <1>2, ListTyped
<1>4. PICK order \in [1 .. n -> P] : order = SetToSeq(P)
  BY <1>3
<1>5. \A i \in 1 .. n : order[i][2] \in Ids
  BY <1>1, ChildrenAre
<1>6. [i \in 1 .. n |-> <<type, order[i][2]>>] \in [1 .. n -> Kinds \X Ids]
  BY <1>5
<1>7. PICK met \in [1 .. n -> Kinds \X Ids] : met = [i \in 1 .. n |-> <<type, order[i][2]>>]
  BY <1>6
<1>8. met \in Pairs
  BY DEF Pairs
<1>9. DOMAIN order = 1 .. n
  OBVIOUS
<1>10. QED BY <1>1, <1>4, <1>7, <1>8, <1>9 DEF Met

LEMMA SimulateWorks ==
  ASSUME NEW s, Sane(s), NEW now \in SUBSET Contacts, NEW pairs \in Pairs, NEW D
  PROVE Works(s, AppendEvents([s EXCEPT !.active_collisions = now], pairs), D, {})
<1>1. PICK m : m = [s EXCEPT !.active_collisions = now]
  OBVIOUS
<1>2. s \in RegionRuntime /\ Tidy(s.entities) /\ Below(s.entities, s.next_entity) /\ s.next_event \in Nat
  BY SaneHas
<1>3. /\ m \in RegionRuntime /\ m.entities = s.entities /\ m.next_entity = s.next_entity
      /\ m.next_event = s.next_event
  BY <1>1, <1>2 DEF RegionRuntime
<1>4. PICK n, t : n = Len(pairs) /\ t = AppendEvents(m, pairs)
  OBVIOUS
<1>5. Alike(m, t, n) /\ n \in Nat
  BY <1>3, <1>4, AppendIs DEF Pairs
<1>6. /\ t \in RegionRuntime /\ Len(t.events) <= MaxEvents /\ t.entities = s.entities
      /\ t.next_entity = s.next_entity /\ t.next_event = s.next_event + n
  BY <1>3, <1>5 DEF Alike
<1>7. Sane(t) /\ Newer(s, t)
  BY <1>2, <1>5, <1>6 DEF Sane, Newer
<1>8. QED BY <1>1, <1>4, <1>6, <1>7 DEF Works, RootsKept

LEMMA SimulateKeeps ==
  ASSUME SceneInv, Simulate
  PROVE SceneInv'
<1>1. PICK touching \in SUBSET Contacts, stride \in BOOLEAN :
        LET now == {c \in touching : \A id \in c : CanPush(region, id)}
            before == region.active_collisions
        IN region' = AppendEvents([region EXCEPT !.active_collisions = now],
                        Met(region, now \ before, "collision_start")
                        \o (IF stride THEN Met(region, now \cap before, "collision") ELSE <<>>)
                        \o Met(region, before \ now, "collision_end"))
  BY DEF Simulate, Met
<1>2. PICK now \in SUBSET Contacts, before \in SUBSET Contacts :
        /\ before = region.active_collisions
        /\ region' = AppendEvents([region EXCEPT !.active_collisions = now],
                        Met(region, now \ before, "collision_start")
                        \o (IF stride THEN Met(region, now \cap before, "collision") ELSE <<>>)
                        \o Met(region, before \ now, "collision_end"))
  <2>1. region.active_collisions \in SUBSET Contacts
    BY SceneHas, SaneHas DEF RegionRuntime
  <2>2. QED BY <1>1, <2>1
<1>3. PICK a \in Pairs, b \in Pairs, c \in Pairs :
        /\ a = Met(region, now \ before, "collision_start")
        /\ b = IF stride THEN Met(region, now \cap before, "collision") ELSE <<>>
        /\ c = Met(region, before \ now, "collision_end")
  <2>1. /\ Met(region, now \ before, "collision_start") \in Pairs
        /\ Met(region, now \cap before, "collision") \in Pairs
        /\ Met(region, before \ now, "collision_end") \in Pairs
    BY MetTyped DEF Kinds, Relayed
  <2>2. QED BY <2>1, NoPair
<1>4. PICK pairs \in Pairs : pairs = a \o b \o c
  <2>1. PICK q \in Pairs : q = a \o b
    BY PairsJoin
  <2>2. q \o c \in Pairs
    BY PairsJoin
  <2>3. QED BY <2>1, <2>2
<1>5. Works(region, region', disturbed, {})
  BY <1>2, <1>3, <1>4, SceneHas, SimulateWorks
<1>6. budget' \in [Bounded -> Nat]
  <2>1. Spends({"tick"}) /\ {"tick"} \in SUBSET Bounded
    BY DEF Simulate, Bounded
  <2>2. QED BY <2>1, Spent, SceneHas
<1>7. /\ disturbed' = disturbed \cup ({} \cap ImportRoot) /\ mayBuild' \subseteq Users
      /\ request' = request /\ UNCHANGED <<import, sceneFile, savedSequence, saver>>
  BY SceneHas DEF Simulate, sceneRest
<1>8. request' \in [Viewers -> Request] /\ \A v \in Viewers : Requested(request'[v])
  BY <1>7, SceneHas DEF SceneInv
<1>9. QED BY <1>5, <1>6, <1>7, <1>8, RegionMoves

----------------------------------------------------------------------------
(* Saving and loading.                                                     *)
LEMMA NothingSaved ==
  /\ NoSave \in Saver /\ NoSave.stage = "none" /\ NoSave.sequence = 0
  /\ Tidy(NoSave.objects) /\ \A D : Flat(NoSave.objects, D)
<1>1. PICK f : f = [i \in Ids |-> NoEntity]
  OBVIOUS
<1>2. f \in Scene /\ Tidy(f) /\ \A i \in Ids : f[i].parent = 0
  BY <1>1, NothingIs DEF Scene, Tidy
<1>3. \A D : Flat(f, D)
  BY <1>2 DEF Flat
<1>4. NoSave = [stage |-> "none", sequence |-> 0, objects |-> f]
  BY <1>1 DEF NoSave
<1>5. NoSave \in Saver /\ NoSave.stage = "none" /\ NoSave.sequence = 0 /\ NoSave.objects = f
  BY <1>2, <1>4 DEF Saver
<1>6. QED BY <1>2, <1>3, <1>5

LEMMA SavesKeep ==
  ASSUME SceneInv, UNCHANGED <<region, mayBuild, request, import, disturbed>>,
         sceneFile' \in Scene, Tidy(sceneFile'), Flat(sceneFile', disturbed), savedSequence' \in Nat,
         saver' \in Saver, Tidy(saver'.objects), Flat(saver'.objects, disturbed),
         SavingInv', budget' \in [Bounded -> Nat]
  PROVE SceneInv'
BY DEF SceneInv, SceneTypeOK, ImportInv

LEMMA SaveBeginsKeeps ==
  ASSUME SceneInv, SaveBegins
  PROVE SceneInv'
<1>1. PICK n \in Nat : n = LatestSequence(region)
  <2>1. region.next_event \in Nat \ {0}
    BY SceneHas, SaneHas
  <2>2. QED BY <2>1 DEF LatestSequence
<1>2. /\ saver' = [NoSave EXCEPT !.stage = "begun", !.sequence = n]
      /\ UNCHANGED <<region, mayBuild, request, import, sceneFile, savedSequence, disturbed>>
  BY <1>1 DEF SaveBegins
<1>3. saver' \in Saver /\ saver'.stage = "begun" /\ saver'.sequence = n /\ saver'.objects = NoSave.objects
  BY <1>2, NothingSaved DEF Saver
<1>4. SavingInv'
  BY <1>1, <1>2, <1>3 DEF SceneInv, SavingInv, LatestSequence
<1>5. budget' \in [Bounded -> Nat]
  <2>1. Spends({"save"}) /\ {"save"} \in SUBSET Bounded
    BY DEF SaveBegins, Bounded
  <2>2. QED BY <2>1, Spent, SceneHas
<1>6. Tidy(saver'.objects) /\ Flat(saver'.objects, disturbed)
  BY <1>3, NothingSaved
<1>7. sceneFile' \in Scene /\ Tidy(sceneFile') /\ Flat(sceneFile', disturbed) /\ savedSequence' \in Nat
  BY <1>2, SceneHas DEF SceneInv
<1>8. QED BY <1>2, <1>3, <1>4, <1>5, <1>6, <1>7, SavesKeep

LEMMA SaveTakesKeeps ==
  ASSUME SceneInv, SaveTakes
  PROVE SceneInv'
<1>1. /\ saver.stage = "begun" /\ saver' = [saver EXCEPT !.stage = "taken", !.objects = region.entities]
      /\ UNCHANGED <<region, mayBuild, request, import, sceneFile, savedSequence, disturbed, budget>>
  BY DEF SaveTakes
<1>2. /\ saver' \in Saver /\ saver'.stage = "taken" /\ saver'.sequence = saver.sequence
      /\ saver'.objects = region.entities
  BY <1>1, SceneHas DEF Saver
<1>3. SavingInv'
  BY <1>1, <1>2 DEF SceneInv, SavingInv, LatestSequence
<1>4. Tidy(saver'.objects) /\ Flat(saver'.objects, disturbed)
  BY <1>2, SceneHas, SaneHas
<1>5. sceneFile' \in Scene /\ Tidy(sceneFile') /\ Flat(sceneFile', disturbed) /\ savedSequence' \in Nat
      /\ budget' \in [Bounded -> Nat]
  BY <1>1, SceneHas DEF SceneInv
<1>6. QED BY <1>1, <1>2, <1>3, <1>4, <1>5, SavesKeep

LEMMA SaveEndsKeeps ==
  ASSUME SceneInv, SaveEnds
  PROVE SceneInv'
<1>1. /\ saver.stage = "taken" /\ saver' = NoSave
      /\ UNCHANGED <<region, mayBuild, request, import, disturbed>>
      /\ \/ sceneFile' = saver.objects /\ savedSequence' = saver.sequence /\ UNCHANGED budget
         \/ Spends({"throw"}) /\ UNCHANGED <<sceneFile, savedSequence>>
  BY DEF SaveEnds
<1>2. SavingInv'
  BY <1>1, NothingSaved DEF SceneInv, SavingInv, LatestSequence
<1>3. sceneFile' \in Scene /\ Tidy(sceneFile') /\ Flat(sceneFile', disturbed) /\ savedSequence' \in Nat
  BY <1>1, SceneHas DEF SceneInv, Saver
<1>4. budget' \in [Bounded -> Nat]
  <2>1. Spends({"throw"}) => budget' \in [Bounded -> Nat]
    <3>1. {"throw"} \in SUBSET Bounded
      BY DEF Bounded
    <3>2. QED BY <3>1, Spent, SceneHas
  <2>2. QED BY <1>1, <2>1, SceneHas
<1>5. saver' \in Saver /\ Tidy(saver'.objects) /\ Flat(saver'.objects, disturbed)
  BY <1>1, NothingSaved
<1>6. QED BY <1>1, <1>2, <1>3, <1>4, <1>5, SavesKeep

LEMMA NothingComes == NoImport \in Import /\ NoImport.stage = "none"
<1>1. PICK e : e = <<>> /\ e \in Seq(Ids) /\ e \in Snapshots \cup {<<>>}
  <2>1. <<>> \in Seq(Ids)
    OBVIOUS
  <2>2. <<>> \in Snapshots \cup {<<>>}
    BY Zenon
  <2>3. QED BY <2>1, <2>2, Zenon
<1>2. NoImport = [stage |-> "none", members |-> e, todo |-> e, made |-> e]
  BY <1>1 DEF NoImport
<1>3. QED BY <1>1, <1>2 DEF Import

(* The scene after it has been loaded.                                     *)
LEMMA Loaded ==
  ASSUME NEW f, Tidy(f), Flat(f, disturbed), disturbed \subseteq Ids, mayBuild \subseteq Users, budget \in [Bounded -> Nat],
         sceneFile = f, region = Load(f), savedSequence = LatestSequence(Load(f)), saver = NoSave,
         import = NoImport, request = [v \in Viewers |-> NoRequest]
  PROVE SceneInv
<1>1. Sane(region) /\ region.entities = f
  BY LoadIs
<1>2. region \in RegionRuntime /\ Len(region.events) <= MaxEvents /\ region.next_event \in Nat \ {0} /\ f \in Scene
  BY <1>1, SaneHas DEF Sane
<1>3. savedSequence \in Nat /\ savedSequence = LatestSequence(region)
  BY <1>2 DEF LatestSequence
<1>4. SceneTypeOK
  BY <1>2, <1>3, NothingSaved, NothingComes, NothingAsked DEF SceneTypeOK
<1>5. SavingInv
  BY <1>1, <1>2, <1>3, NothingSaved DEF SavingInv, LatestSequence
<1>6. ImportInv
  BY NothingComes DEF ImportInv
<1>7. \A v \in Viewers : Requested(request[v])
  BY NothingAsked
<1>8. Tidy(saver.objects) /\ Flat(saver.objects, disturbed)
  BY NothingSaved
<1>9. QED BY <1>1, <1>4, <1>5, <1>6, <1>7, <1>8 DEF SceneInv

LEMMA SceneInitSound ==
  ASSUME SceneInit, budget \in Budgets
  PROVE SceneInv
<1>1. sceneFile \in EarlierScenes /\ Tidy(sceneFile) /\ Flat(sceneFile, disturbed)
  BY ScenesAssumption DEF SceneInit, Tidy
<1>2. QED BY <1>1, BudgetsAssumption, Loaded DEF SceneInit

LEMMA SceneRestartsKeeps ==
  ASSUME SceneInv, SceneRestarts, budget' \in [Bounded -> Nat]
  PROVE SceneInv'
<1>1. Tidy(sceneFile') /\ Flat(sceneFile', disturbed)
  BY SceneHas, SaneHas DEF SceneInv, SceneRestarts
<1>2. /\ disturbed' = disturbed /\ disturbed' \subseteq Ids /\ mayBuild' \subseteq Users
      /\ region' = Load(sceneFile') /\ savedSequence' = LatestSequence(Load(sceneFile')) /\ saver' = NoSave
      /\ import' = NoImport /\ request' = [v \in Viewers |-> NoRequest]
  BY SceneHas DEF SceneRestarts
<1>3. PICK f : f = sceneFile' /\ Tidy(f) /\ Flat(f, disturbed')
  BY <1>1, <1>2
<1>4. Sane(region') /\ region'.entities = f
  BY <1>2, <1>3, LoadIs
<1>5. region' \in RegionRuntime /\ Len(region'.events) <= MaxEvents /\ region'.next_event \in Nat \ {0} /\ f \in Scene
  BY <1>4, SaneHas DEF Sane
<1>6. savedSequence' \in Nat /\ savedSequence' = LatestSequence(region')
  BY <1>2, <1>3, <1>5 DEF LatestSequence
<1>7. SceneTypeOK'
  BY <1>2, <1>3, <1>5, <1>6, NothingSaved, NothingComes, NothingAsked DEF SceneTypeOK
<1>8. SavingInv'
  BY <1>2, <1>3, <1>4, <1>5, <1>6, NothingSaved DEF SavingInv, LatestSequence
<1>9. ImportInv'
  BY <1>2, NothingComes DEF ImportInv
<1>10. \A v \in Viewers : Requested(request'[v])
  BY <1>2, NothingAsked
<1>11. Tidy(saver'.objects) /\ Flat(saver'.objects, disturbed')
  BY <1>2, NothingSaved
<1>12. QED BY <1>3, <1>4, <1>7, <1>8, <1>9, <1>10, <1>11 DEF SceneInv

----------------------------------------------------------------------------
(* Imports.                                                                *)
LEMMA SnapshotIs ==
  ASSUME NEW members \in Snapshots
  PROVE /\ DOMAIN members \subseteq Ids
        /\ \A m \in DOMAIN members : members[m] \in Entity /\ members[m] # NoEntity /\ Kempt(members[m])
        /\ \E r \in Ids : Leads(r, members)
BY SnapshotsAssumption DEF Leads

(* In the order of link numbers the root comes first.                      *)
LEMMA RootFirst ==
  ASSUME NEW members \in Snapshots, NEW todo \in [1 .. Cardinality(DOMAIN members) -> DOMAIN members],
         \A i, j \in DOMAIN todo : i < j => members[todo[i]].link < members[todo[j]].link,
         NEW r, Leads(r, members)
  PROVE todo \in Seq(Ids) /\ Listed(todo, members, r) /\ Head(todo) = r
<1>1. /\ DOMAIN members \subseteq Ids /\ r \in DOMAIN members /\ members[r].parent = 0
      /\ \A m \in DOMAIN members : members[m] \in Entity /\ Kempt(members[m])
  BY SnapshotIs DEF Leads
<1>2. IsFiniteSet(DOMAIN members) /\ Cardinality(DOMAIN members) \in Nat
  BY <1>1, IdsAre
<1>3. PICK n \in Nat : n = Cardinality(DOMAIN members)
  BY <1>2
<1>4. n > 0
  <2>1. DOMAIN members # {}
    BY <1>1
  <2>2. QED BY <1>2, <1>3, <2>1, FS_EmptySet
<1>5. todo \in [1 .. n -> DOMAIN members] /\ DOMAIN todo = 1 .. n
  BY <1>3
<1>6. ASSUME NEW m \in DOMAIN members PROVE members[m].link \in Nat /\ members[m].link >= 1 /\ (m = r => members[m].link = 1)
  BY <1>1 DEF Entity, Kempt
<1>7. ASSUME NEW i \in 1 .. n, NEW j \in 1 .. n, i < j PROVE members[todo[i]].link < members[todo[j]].link
  BY <1>5, <1>7
<1>8. ASSUME NEW i \in 1 .. n, NEW j \in 1 .. n, todo[i] = todo[j] PROVE i = j
  <2>1. PICK k \in Nat : k = members[todo[i]].link
    BY <1>5, <1>6
  <2>2. ~(k < k)
    BY <2>1
  <2>3. ~(i < j) /\ ~(j < i)
    BY <1>7, <1>8, <2>1, <2>2
  <2>4. QED BY <2>3
<1>9. todo \in Injection(1 .. n, DOMAIN members)
  BY <1>5, <1>8 DEF Injection, IsInjective
<1>10. Cardinality(1 .. n) = n
  BY FS_Interval
<1>11. todo \in Surjection(1 .. n, DOMAIN members)
  BY <1>2, <1>3, <1>9, <1>10, FS_Injection
<1>12. PICK i \in 1 .. n : todo[i] = r
  BY <1>1, <1>11 DEF Surjection
<1>13. i = 1
  <2>1. SUFFICES ASSUME 1 < i PROVE FALSE
    BY <1>12
  <2>2. 1 \in 1 .. n
    BY <1>4
  <2>3. members[todo[1]].link < 1
    BY <1>1, <1>6, <1>7, <1>12, <2>1, <2>2
  <2>4. todo[1] \in DOMAIN members
    BY <1>5, <2>2
  <2>5. QED BY <1>6, <2>3, <2>4
<1>14. todo \in [1 .. n -> Ids]
  BY <1>1, <1>5
<1>15. todo \in Seq(Ids) /\ Len(todo) = n /\ Head(todo) = todo[1]
  BY <1>14
<1>16. ASSUME NEW j \in 1 .. Len(todo) PROVE todo[j] \in DOMAIN members /\ (j > 1 => todo[j] # r)
  <2>1. j \in 1 .. n /\ todo[i] = r
    BY <1>12, <1>15
  <2>2. todo[j] = todo[i] => j = i
    BY <1>8, <2>1
  <2>3. todo[j] \in DOMAIN members
    BY <1>5, <2>1
  <2>4. j > 1 => j # i
    BY <1>13
  <2>5. QED BY <2>1, <2>2, <2>3, <2>4
<1>17. QED BY <1>4, <1>12, <1>13, <1>15, <1>16 DEF Listed

LEMMA ImportBeginsKeeps ==
  ASSUME SceneInv, ImportBegins
  PROVE SceneInv'
<1>1. PICK members \in Snapshots : \E todo \in [1 .. Cardinality(DOMAIN members) -> DOMAIN members] :
        /\ Fits(members)
        /\ \A i, j \in DOMAIN todo : i < j => members[todo[i]].link < members[todo[j]].link
        /\ import' = [stage |-> "looking", members |-> members, todo |-> todo, made |-> <<>>]
        /\ disturbed' = disturbed \cup {root \in DOMAIN members : ~(Children(region, root) \subseteq DOMAIN members)}
  BY DEF ImportBegins
<1>2. PICK todo \in [1 .. Cardinality(DOMAIN members) -> DOMAIN members] :
        /\ Fits(members)
        /\ \A i, j \in DOMAIN todo : i < j => members[todo[i]].link < members[todo[j]].link
        /\ import' = [stage |-> "looking", members |-> members, todo |-> todo, made |-> <<>>]
        /\ disturbed' = disturbed \cup {root \in DOMAIN members : ~(Children(region, root) \subseteq DOMAIN members)}
  BY <1>1
<1>3. /\ UNCHANGED <<region, mayBuild, request, sceneFile, savedSequence, saver>>
      /\ Spends({"import"})
  BY DEF ImportBegins
<1>4. PICK r \in Ids : Leads(r, members)
  BY SnapshotIs
<1>5. todo \in Seq(Ids) /\ Listed(todo, members, r) /\ Head(todo) = r
  BY <1>2, <1>4, RootFirst
<1>6. import' \in Import /\ import'.stage = "looking" /\ import'.members = members /\ import'.todo = todo
  <2>1. PICK e : e = <<>> /\ e \in Seq(Ids)
    <3>1. <<>> \in Seq(Ids)
      OBVIOUS
    <3>2. QED BY <3>1, Zenon
  <2>2. import' = [stage |-> "looking", members |-> members, todo |-> todo, made |-> e]
    BY <1>2, <2>1
  <2>3. QED BY <1>5, <2>1, <2>2 DEF Import
<1>7. disturbed \subseteq disturbed' /\ disturbed' \subseteq Ids
  BY <1>2, SnapshotIs, SceneHas
<1>8. ASSUME r \notin disturbed' PROVE RootSound(region.entities, members, r, todo)
  <2>1. r \in DOMAIN members /\ members[r].parent = 0
    BY <1>4 DEF Leads
  <2>2. Children(region, r) \subseteq DOMAIN members
    BY <1>2, <1>8, <2>1
  <2>3. IF region.entities[r] = NoEntity THEN Head(todo) = r
        ELSE region.entities[r].parent = 0 /\ region.entities[r].owner = members[r].owner
    BY <1>2, <1>5, <2>1 DEF Fits, Exists
  <2>4. ASSUME NEW c \in Ids, region.entities[c].parent = r
        PROVE c \in DOMAIN members /\ region.entities[c].link = members[c].link
    <3>1. region.entities[c] # NoEntity
      BY <2>4, NothingIs, IdsAre
    <3>2. c \in Children(region, r)
      BY <2>4, <3>1 DEF Children, Living, Exists
    <3>3. QED BY <1>2, <2>2, <3>1, <3>2 DEF Fits, Exists
  <2>5. QED BY <2>3, <2>4 DEF RootSound
<1>9. ImportInv'
  <2>1. Coming(region.entities, members, todo, disturbed')
    BY <1>4, <1>5, <1>8 DEF Coming
  <2>2. QED BY <1>3, <1>6, <2>1 DEF ImportInv
<1>10. budget' \in [Bounded -> Nat]
  <2>1. {"import"} \in SUBSET Bounded
    BY DEF Bounded
  <2>2. QED BY <1>3, <2>1, Spent, SceneHas
<1>11. Works(region, region', disturbed, {})
  BY <1>3, SceneHas, SameWorks
<1>12. /\ UNCHANGED <<sceneFile, savedSequence, saver>> /\ mayBuild' \subseteq Users
       /\ request' \in [Viewers -> Request] /\ \A v \in Viewers : Requested(request'[v])
  BY <1>3, SceneHas DEF SceneInv
<1>13. QED BY <1>6, <1>7, <1>9, <1>10, <1>11, <1>12, RegionChanges

(* The next member is taken once one has been dealt with; the root is then *)
(* there.                                                                  *)
LEMMA NextSound ==
  ASSUME import \in Import, import.stage \in {"looking", "restoring"}, import.members \in Snapshots,
         NEW made \in Seq(Ids), NEW g, NEW E, NEW r \in Ids, Leads(r, import.members),
         Listed(import.todo, import.members, r),
         r \in E \/ (g[r] # NoEntity /\ RootSound(g, import.members, r, import.todo))
  PROVE /\ Next_(made) \in Import
        /\ Next_(made).stage \in {"none", "looking"}
        /\ Next_(made).stage = "looking" => /\ Next_(made).members \in Snapshots
                                            /\ Coming(g, Next_(made).members, Next_(made).todo, E)
<1>1. PICK todo \in Seq(Ids) : todo = import.todo
  BY DEF Import
<1>2. PICK n \in Nat : n = Len(todo) /\ n > 0 /\ \A i \in 1 .. n : todo[i] \in DOMAIN import.members /\ (i > 1 => todo[i] # r)
  BY <1>1 DEF Listed
<1>3. CASE n = 1
  <2>1. Next_(made) = NoImport
    BY <1>1, <1>2, <1>3 DEF Next_
  <2>2. QED BY <2>1, NothingComes
<1>4. CASE n # 1
  <2>1. PICK rest \in Seq(Ids), k \in Nat : /\ rest = Tail(todo) /\ k = Len(rest) /\ k = n - 1
                                            /\ \A i \in 1 .. k : rest[i] = todo[i + 1]
    <3>1. Tail(todo) \in Seq(Ids) /\ Len(Tail(todo)) = n - 1 /\ n - 1 \in Nat
      BY <1>2, <1>4
    <3>2. \A i \in 1 .. n - 1 : Tail(todo)[i] = todo[i + 1]
      BY <1>2, <1>4
    <3>3. QED BY <3>1, <3>2
  <2>2. Listed(rest, import.members, r)
    BY <1>2, <1>4, <2>1 DEF Listed
  <2>3. r \in E \/ RootSound(g, import.members, r, rest)
    BY DEF RootSound
  <2>4. Next_(made) = [import EXCEPT !.stage = "looking", !.todo = rest, !.made = made]
    BY <1>1, <1>2, <1>4, <2>1 DEF Next_
  <2>5. PICK i \in Import : i = Next_(made) /\ i.stage = "looking" /\ i.members = import.members /\ i.todo = rest
    BY <2>1, <2>4 DEF Import
  <2>6. Coming(g, import.members, rest, E)
    BY <2>2, <2>3 DEF Coming
  <2>7. QED BY <2>5, <2>6
<1>5. QED BY <1>3, <1>4

LEMMA ImportLooksKeeps ==
  ASSUME SceneInv, ImportLooks
  PROVE SceneInv'
<1>1. /\ import.stage = "looking"
      /\ import' = IF Exists(region, Head(import.todo)) THEN Next_(import.made)
                   ELSE [import EXCEPT !.stage = "restoring"]
      /\ UNCHANGED <<region, mayBuild, request, sceneFile, savedSequence, saver, disturbed, budget>>
  BY DEF ImportLooks
<1>2. import \in Import /\ import.members \in Snapshots /\ import.made \in Seq(Ids)
  BY <1>1, SceneHas DEF SceneInv, ImportInv, Import
<1>3. PICK f : f = region.entities
  OBVIOUS
<1>4. PICK r \in Ids : /\ Leads(r, import.members) /\ Listed(import.todo, import.members, r)
                       /\ (r \in disturbed \/ RootSound(f, import.members, r, import.todo))
  BY <1>1, <1>3 DEF SceneInv, ImportInv, Coming
<1>5. import' \in Import /\ ImportInv'
  <2>1. CASE Exists(region, Head(import.todo))
    <3>1. r \in disturbed \/ (f[r] # NoEntity /\ RootSound(f, import.members, r, import.todo))
      BY <1>3, <1>4, <2>1 DEF RootSound, Exists
    <3>2. /\ Next_(import.made) \in Import
          /\ Next_(import.made).stage \in {"none", "looking"}
          /\ Next_(import.made).stage = "looking" =>
                /\ Next_(import.made).members \in Snapshots
                /\ Coming(f, Next_(import.made).members, Next_(import.made).todo, disturbed)
      BY <1>1, <1>2, <1>4, <3>1, NextSound
    <3>3. import' = Next_(import.made)
      BY <1>1, <2>1
    <3>4. QED BY <1>1, <1>3, <3>2, <3>3 DEF ImportInv
  <2>2. CASE ~Exists(region, Head(import.todo))
    <3>1. import' = [import EXCEPT !.stage = "restoring"]
      BY <1>1, <2>2
    <3>2. /\ import' \in Import /\ import'.stage = "restoring" /\ import'.members = import.members
          /\ import'.todo = import.todo
      BY <1>2, <3>1 DEF Import
    <3>3. QED BY <1>1, <3>2 DEF ImportInv, SceneInv
  <2>3. QED BY <2>1, <2>2
<1>6. Works(region, region', disturbed, {})
  BY <1>1, SceneHas, SameWorks
<1>7. /\ UNCHANGED <<sceneFile, savedSequence, saver>> /\ mayBuild' \subseteq Users
      /\ request' \in [Viewers -> Request] /\ \A v \in Viewers : Requested(request'[v])
      /\ disturbed \subseteq disturbed' /\ disturbed' \subseteq Ids /\ budget' \in [Bounded -> Nat]
  BY <1>1, SceneHas DEF SceneInv
<1>8. QED BY <1>5, <1>6, <1>7, RegionChanges

(* A member that is missing is restored: its root is there, and no other   *)
(* child has its link number.                                              *)
LEMMA RestoreWorks ==
  ASSUME NEW s, Sane(s), NEW D, Flat(s.entities, D), NEW members \in Snapshots, NEW r \in Ids, Leads(r, members),
         NEW todo, r \in D \/ RootSound(s.entities, members, r, todo),
         NEW id \in DOMAIN members, Head(todo) = id, s.entities[id] = NoEntity
  PROVE LET t == RestoreObject(s, id, members[id])
        IN /\ Works(s, t, D, {id, r})
           /\ r \in D \/ (t.entities[r] # NoEntity /\ RootSound(t.entities, members, r, todo))
<1>1. PICK e \in Entity : e = members[id] /\ Kempt(e) /\ e # NoEntity
  BY SnapshotIs
<1>2. id \in Ids /\ r \in DOMAIN members /\ members[r].parent = 0
  BY SnapshotIs DEF Leads
<1>3. PICK f : f = s.entities /\ Tidy(f)
  BY SaneHas
<1>4. PICK t : t = RestoreObject(s, id, e) /\ Becomes(s, Put(f, id, e), t)
  BY <1>1, <1>2, <1>3, RestoreObjectIs
<1>5. \A c \in Ids \ {id} : f[c].parent = id => id \in D
  BY <1>2, <1>3, FreeHasNone
<1>6. id # r => e.parent = r /\ e.owner = members[r].owner /\ \A n \in DOMAIN members \ {id} : members[n].link # e.link
  BY <1>1 DEF Leads
<1>7. e.parent \notin D \cup {0} => MayJoin(f, id, e)
  <2>1. SUFFICES ASSUME e.parent \notin D \cup {0} PROVE MayJoin(f, id, e)
    OBVIOUS
  <2>2. id # r /\ e.parent = r /\ r \notin D
    BY <1>1, <1>2, <1>6, <2>1
  <2>3. f[r] # NoEntity /\ f[r].parent = 0 /\ f[r].owner = members[r].owner
        /\ \A c \in Ids : f[c].parent = r => c \in DOMAIN members /\ f[c].link = members[c].link
    BY <1>3, <2>2 DEF RootSound
  <2>4. QED BY <1>6, <2>2, <2>3 DEF MayJoin
<1>8. Works(s, t, D, {id, e.parent})
  BY <1>2, <1>3, <1>4, <1>5, <1>7, <1>1, PutWorks
<1>9. e.parent \in {0, r}
  BY <1>1, <1>2, <1>6
<1>10. Works(s, t, D, {id, r})
  <2>1. {id, e.parent} \cap Ids \subseteq {id, r}
    BY <1>9, IdsAre
  <2>2. QED BY <1>8, <2>1, WorksWider
<1>11. ASSUME r \notin D PROVE t.entities[r] # NoEntity /\ RootSound(t.entities, members, r, todo)
  <2>1. PICK g : g = t.entities /\ \A i \in Ids : g[i] = IF i = id THEN e ELSE f[i]
    BY <1>3, <1>4 DEF Becomes, Put, Tidy, Scene
  <2>2. /\ IF f[r] = NoEntity THEN Head(todo) = r ELSE f[r].parent = 0 /\ f[r].owner = members[r].owner
        /\ \A c \in Ids : f[c].parent = r => c \in DOMAIN members /\ f[c].link = members[c].link
    BY <1>3, <1>11 DEF RootSound
  <2>3. g[r] # NoEntity /\ g[r].parent = 0 /\ g[r].owner = members[r].owner
    BY <1>1, <1>2, <2>1, <2>2
  <2>4. ASSUME NEW c \in Ids, g[c].parent = r PROVE c \in DOMAIN members /\ g[c].link = members[c].link
    BY <1>1, <2>1, <2>2, <2>4
  <2>5. QED BY <2>1, <2>3, <2>4 DEF RootSound
<1>12. QED BY <1>1, <1>4, <1>10, <1>11

LEMMA ImportRestoresKeeps ==
  ASSUME SceneInv, ImportRestores
  PROVE SceneInv'
<1>1. PICK id : id = Head(import.todo)
  OBVIOUS
<1>2. /\ import.stage = "restoring"
      /\ IF Exists(region, id)
         THEN /\ import' = IF import.made = <<>> THEN NoImport ELSE [import EXCEPT !.stage = "undoing"]
              /\ region' = region
         ELSE /\ import' = Next_(<<id>> \o import.made)
              /\ region' = RestoreObject(region, id, import.members[id])
      /\ UNCHANGED <<mayBuild, request, sceneFile, savedSequence, saver, disturbed, budget>>
  BY <1>1 DEF ImportRestores
<1>3. import \in Import /\ import.members \in Snapshots /\ import.made \in Seq(Ids)
  BY <1>2, SceneHas DEF SceneInv, ImportInv, Import
<1>4. PICK f : f = region.entities
  OBVIOUS
<1>5. PICK r \in Ids : /\ Leads(r, import.members) /\ Listed(import.todo, import.members, r)
                       /\ (r \in disturbed \/ RootSound(f, import.members, r, import.todo))
  BY <1>2, <1>4 DEF SceneInv, ImportInv, Coming
<1>6. id \in DOMAIN import.members /\ id \in Ids
  <2>1. import.todo \in Seq(Ids) /\ Len(import.todo) > 0
    BY <1>3, <1>5 DEF Import, Listed
  <2>2. id = import.todo[1] /\ 1 \in 1 .. Len(import.todo)
    BY <1>1, <2>1
  <2>3. QED BY <1>3, <1>5, <2>2, SnapshotIs DEF Listed
<1>7. /\ UNCHANGED <<sceneFile, savedSequence, saver>> /\ mayBuild' \subseteq Users
      /\ request' \in [Viewers -> Request] /\ \A v \in Viewers : Requested(request'[v])
      /\ disturbed \subseteq disturbed' /\ disturbed' \subseteq Ids /\ budget' \in [Bounded -> Nat]
  BY <1>2, SceneHas DEF SceneInv
<1>8. CASE Exists(region, id)
  <2>1. import' = IF import.made = <<>> THEN NoImport ELSE [import EXCEPT !.stage = "undoing"]
    BY <1>2, <1>8
  <2>2. import' \in Import /\ ImportInv'
    <3>1. CASE import.made = <<>>
      <4>1. import' = NoImport
        BY <2>1, <3>1, Zenon
      <4>2. QED BY <4>1, NothingComes DEF ImportInv
    <3>2. CASE import.made # <<>>
      <4>1. import' = [import EXCEPT !.stage = "undoing"]
        BY <2>1, <3>2, Zenon
      <4>2. Len(import.made) > 0
        BY <1>3, <3>2
      <4>3. import' \in Import /\ import'.stage = "undoing" /\ import'.members = import.members /\ import'.made = import.made
        BY <1>3, <4>1 DEF Import
      <4>4. QED BY <1>3, <4>2, <4>3 DEF ImportInv
    <3>3. QED BY <3>1, <3>2
  <2>3. Works(region, region', disturbed, {})
    BY <1>2, <1>8, SceneHas, SameWorks
  <2>4. QED BY <1>7, <2>2, <2>3, RegionChanges
<1>9. CASE ~Exists(region, id)
  <2>1. PICK made \in Seq(Ids) : made = <<id>> \o import.made
    <3>1. <<id>> \in Seq(Ids)
      BY <1>6
    <3>2. <<id>> \o import.made \in Seq(Ids)
      BY <1>3, <3>1
    <3>3. QED BY <3>2
  <2>2. import' = Next_(made) /\ region' = RestoreObject(region, id, import.members[id])
    BY <1>2, <1>9, <2>1
  <2>3. /\ Works(region, region', disturbed, {id, r})
        /\ r \in disturbed \/ (region'.entities[r] # NoEntity /\ RootSound(region'.entities, import.members, r, import.todo))
    <3>1. f[id] = NoEntity
      BY <1>4, <1>9 DEF Exists
    <3>2. QED BY <1>1, <1>3, <1>4, <1>5, <1>6, <2>2, <3>1, SceneHas, RestoreWorks
  <2>4. /\ Next_(made) \in Import
        /\ Next_(made).stage \in {"none", "looking"}
        /\ Next_(made).stage = "looking" =>
              /\ Next_(made).members \in Snapshots
              /\ Coming(region'.entities, Next_(made).members, Next_(made).todo, disturbed)
    BY <1>2, <1>3, <1>5, <2>3, NextSound
  <2>5. import' \in Import /\ ImportInv'
    BY <1>2, <2>2, <2>4 DEF ImportInv
  <2>6. QED BY <1>7, <2>3, <2>5, RegionChanges
<1>10. QED BY <1>8, <1>9

LEMMA ImportUndoesKeeps ==
  ASSUME SceneInv, ImportUndoes
  PROVE SceneInv'
<1>1. PICK id : id = Head(import.made)
  OBVIOUS
<1>2. /\ import.stage = "undoing"
      /\ region' = IF Exists(region, id) THEN RemoveEntity(region, id) ELSE region
      /\ import' = IF Len(import.made) = 1 THEN NoImport ELSE [import EXCEPT !.made = Tail(@)]
      /\ UNCHANGED <<mayBuild, request, sceneFile, savedSequence, saver, disturbed, budget>>
  BY <1>1 DEF ImportUndoes
<1>3. import \in Import /\ import.members \in Snapshots /\ import.made \in Seq(Ids) /\ Len(import.made) > 0
  BY <1>2, SceneHas DEF SceneInv, ImportInv, Import
<1>4. id \in Ids
  BY <1>1, <1>3
<1>5. Works(region, region', disturbed, {id})
  <2>1. CASE Exists(region, id)
    BY <1>2, <1>4, <2>1, SceneHas, RemoveWorks
  <2>2. CASE ~Exists(region, id)
    <3>1. Works(region, region, disturbed, {})
      BY SceneHas, SameWorks
    <3>2. QED BY <1>2, <2>2, <3>1, WorksWider
  <2>3. QED BY <2>1, <2>2
<1>6. import' \in Import /\ ImportInv'
  <2>0. PICK n \in Nat : n = Len(import.made) /\ n > 0
    BY <1>3
  <2>1. CASE n = 1
    BY <1>2, <2>0, <2>1, NothingComes DEF ImportInv
  <2>2. CASE n # 1
    <3>1. PICK rest \in Seq(Ids) : rest = Tail(import.made) /\ Len(rest) > 0
      <4>1. Tail(import.made) \in Seq(Ids) /\ Len(Tail(import.made)) = n - 1
        BY <1>3, <2>0
      <4>2. \A k \in Nat : k > 0 /\ k # 1 => k - 1 > 0
        OBVIOUS
      <4>3. QED BY <2>0, <2>2, <4>1, <4>2
    <3>2. import' = [import EXCEPT !.made = rest]
      BY <1>2, <2>0, <2>2, <3>1
    <3>3. import' \in Import /\ import'.stage = "undoing" /\ import'.members = import.members /\ import'.made = rest
      BY <1>2, <1>3, <3>2 DEF Import
    <3>4. QED BY <1>3, <3>1, <3>3 DEF ImportInv
  <2>3. QED BY <2>1, <2>2
<1>7. /\ UNCHANGED <<sceneFile, savedSequence, saver>> /\ mayBuild' \subseteq Users
      /\ request' \in [Viewers -> Request] /\ \A v \in Viewers : Requested(request'[v])
      /\ disturbed \subseteq disturbed' /\ disturbed' \subseteq Ids /\ budget' \in [Bounded -> Nat]
  BY <1>2, SceneHas DEF SceneInv
<1>8. QED BY <1>5, <1>6, <1>7, RegionChanges

----------------------------------------------------------------------------
(* Every step of the scene keeps the invariant.                            *)
LEMMA SceneNextKeeps ==
  ASSUME SceneInv, SceneNext
  PROVE SceneInv'
<1>1. ASSUME NEW v \in Viewers, Ask(v) PROVE SceneInv'
  BY <1>1, AskKeeps
<1>2. ASSUME NEW v \in Viewers, Act(v) PROVE SceneInv'
  BY <1>2, ActKeeps
<1>3. CASE Touch
  BY <1>3, TouchKeeps
<1>4. CASE LandChanges
  BY <1>4, LandChangesKeeps
<1>5. CASE Simulate
  BY <1>5, SimulateKeeps
<1>6. CASE BodyMoves
  BY <1>6, BodyMovesKeeps
<1>7. CASE SaveBegins
  BY <1>7, SaveBeginsKeeps
<1>8. CASE SaveTakes
  BY <1>8, SaveTakesKeeps
<1>9. CASE SaveEnds
  BY <1>9, SaveEndsKeeps
<1>10. CASE ImportBegins
  BY <1>10, ImportBeginsKeeps
<1>11. CASE ImportLooks
  BY <1>11, ImportLooksKeeps
<1>12. CASE ImportRestores
  BY <1>12, ImportRestoresKeeps
<1>13. CASE ImportUndoes
  BY <1>13, ImportUndoesKeeps
<1>14. QED
  BY <1>1, <1>2, <1>3, <1>4, <1>5, <1>6, <1>7, <1>8, <1>9, <1>10, <1>11, <1>12, <1>13 DEF SceneNext

LEMMA SceneUnchanged ==
  ASSUME SceneInv, UNCHANGED sceneVars, budget' \in [Bounded -> Nat]
  PROVE SceneInv'
<1>1. /\ UNCHANGED <<region, import, sceneFile, savedSequence, saver, disturbed>>
      /\ mayBuild' = mayBuild /\ request' = request
  BY DEF sceneVars
<1>2. mayBuild' \subseteq Users /\ request' \in [Viewers -> Request] /\ \A v \in Viewers : Requested(request'[v])
  BY <1>1, SceneHas DEF SceneInv
<1>3. QED BY <1>1, <1>2, RegionStays

LEMMA SceneIsSound ==
  ASSUME SceneInv
  PROVE SceneTypeOK /\ SavedIsSaved /\ LinksetsAreFlat
<1>1. SavedIsSaved
  BY DEF SceneInv, SavingInv, SavedIsSaved
<1>2. LinksetsAreFlat
  BY SceneHas, SaneHas DEF LinksetsAreFlat, Tidy
<1>3. QED BY <1>1, <1>2 DEF SceneInv
=============================================================================
