------------------------- MODULE ScriptWorldProofs -------------------------
(***************************************************************************)
(* Theorems about ScriptWorld and the scene of its Region, for every       *)
(* number of scripts, users, objects, actions and programs, for every      *)
(* limit of the queue and every budget.                                    *)
(***************************************************************************)
EXTENDS ScriptWorld, RegionSceneProofs

(* Induction over the numbers up to N, for a set of them.                  *)
LEMMA UpTo ==
  ASSUME NEW N \in Nat, NEW Q, 0 \in Q, \A n \in 0 .. N - 1 : n \in Q => n + 1 \in Q
  PROVE \A n \in 0 .. N : n \in Q
<1> DEFINE Bad == {n \in 0 .. N : n \notin Q}
<1>1. SUFFICES ASSUME Bad # {} PROVE FALSE
  OBVIOUS
<1> DEFINE S == 0 .. N
           T == {0 .. n : n \in Bad}
<1>2. /\ IsWellFoundedOn(StrictSubsetOrdering(S), SUBSET S)
      /\ T # {} /\ T \subseteq SUBSET S
  <2>1. IsFiniteSet(S)
    BY FS_Interval
  <2>2. IsWellFoundedOn(StrictSubsetOrdering(S), SUBSET S)
    <3> HIDE DEF S
    <3> QED BY <2>1, FS_StrictSubsetOrderingWellFounded, FS_FiniteSubsetsOfFinite
  <2>3. QED BY <2>2, <1>1
<1>3. PICK n \in Bad : \A m \in Bad : n <= m
  <2>1. PICK U \in T : \A V \in T : ~(<<V, U>> \in StrictSubsetOrdering(S))
    <3> HIDE DEF T, S
    <3> QED BY <1>2, WFMin
  <2>2. PICK n \in Bad : U = 0 .. n
    BY <2>1
  <2>3. ASSUME NEW m \in Bad, ~(n <= m)
        PROVE FALSE
    <3>1. 0 .. m \in T /\ 0 .. m \in SUBSET S /\ U \in SUBSET S
      BY <1>2, <2>1
    <3>2. 0 .. m \subseteq U /\ n \in U /\ n \notin 0 .. m
      BY <2>2, <2>3
    <3>3. <<0 .. m, U>> \in StrictSubsetOrdering(S)
      BY <3>1, <3>2 DEF StrictSubsetOrdering
    <3>4. QED BY <3>1, <3>3, <2>1
  <2>4. QED BY <2>3
<1>4. n # 0 /\ n - 1 \in 0 .. N - 1 /\ n - 1 \notin Bad
  BY <1>3
<1>5. n - 1 \in Q
  BY <1>4
<1>6. n - 1 + 1 = n
  BY <1>3
<1>7. QED BY <1>3, <1>4, <1>5, <1>6

----------------------------------------------------------------------------
(* The actions of a run, one after the other: the recursion of Apply.      *)
IsQueued(c, s, actions, N, h) ==
    h = [n \in 0 .. N |->
            IF n = 0 THEN c
            ELSE IF actions[n] \in WorldActions
                 THEN Enqueue(h[n - 1], c.scripts[s].object, c.scripts[s].owner, s, actions[n]) ELSE h[n - 1]]

LEMMA QueuedExists ==
  ASSUME NEW c, NEW s, NEW actions, NEW N \in Nat
  PROVE \E h : IsQueued(c, s, actions, N, h)
<1> DEFINE Q == {n \in Nat : \E h : IsQueued(c, s, actions, n, h)}
<1>1. 0 \in Q
  <2>1. IsQueued(c, s, actions, 0, [n \in 0 .. 0 |-> c])
    BY DEF IsQueued
  <2>2. QED BY <2>1
<1>2. ASSUME NEW n \in 0 .. N - 1, n \in Q
      PROVE n + 1 \in Q
  <2>1. PICK g : IsQueued(c, s, actions, n, g)
    BY <1>2
  <2> DEFINE step == IF actions[n + 1] \in WorldActions
                     THEN Enqueue(g[n], c.scripts[s].object, c.scripts[s].owner, s, actions[n + 1]) ELSE g[n]
             h == [i \in 0 .. n + 1 |-> IF i = n + 1 THEN step ELSE g[i]]
  <2>2. ASSUME NEW i \in 0 .. n + 1
        PROVE h[i] = IF i = 0 THEN c
                     ELSE IF actions[i] \in WorldActions
                          THEN Enqueue(h[i - 1], c.scripts[s].object, c.scripts[s].owner, s, actions[i])
                          ELSE h[i - 1]
    <3>1. CASE i = n + 1
      <4>1. h[i] = step /\ h[i - 1] = g[n] /\ i # 0
        BY <3>1
      <4>2. QED BY <4>1, <3>1
    <3>2. CASE i # n + 1
      <4>1. i \in 0 .. n /\ h[i] = g[i] /\ (i # 0 => h[i - 1] = g[i - 1])
        BY <3>2
      <4>2. QED BY <4>1, <2>1 DEF IsQueued
    <3>3. QED BY <3>1, <3>2
  <2>3. IsQueued(c, s, actions, n + 1, h)
    BY <2>2 DEF IsQueued
  <2>4. QED BY <2>3
<1>3. \A n \in 0 .. N : n \in Q
  <2> HIDE DEF Q
  <2> QED BY <1>1, <1>2, UpTo
<1>4. QED BY <1>3

AppliedBy(c, s, actions, h) ==
    /\ h[0] = c /\ Apply(c, s, actions) = h[Len(actions)]
    /\ \A n \in 0 .. Len(actions) - 1 :
          h[n + 1] = IF actions[n + 1] \in WorldActions
                     THEN Enqueue(h[n], c.scripts[s].object, c.scripts[s].owner, s, actions[n + 1]) ELSE h[n]

LEMMA AppliedOneByOne ==
  ASSUME NEW c, NEW s, NEW actions, Len(actions) \in Nat
  PROVE \E h : AppliedBy(c, s, actions, h)
<1> DEFINE h == CHOOSE g : IsQueued(c, s, actions, Len(actions), g)
<1>1. IsQueued(c, s, actions, Len(actions), h)
  BY QueuedExists
<1>2. Apply(c, s, actions) = h[Len(actions)]
  BY DEF Apply, IsQueued
<1> HIDE DEF h
<1>3. h[0] = c
  BY <1>1 DEF IsQueued
<1>4. ASSUME NEW n \in 0 .. Len(actions) - 1
      PROVE h[n + 1] = IF actions[n + 1] \in WorldActions
                       THEN Enqueue(h[n], c.scripts[s].object, c.scripts[s].owner, s, actions[n + 1])
                       ELSE h[n]
  <2>1. n + 1 \in 0 .. Len(actions) /\ n + 1 # 0 /\ n + 1 - 1 = n
    OBVIOUS
  <2>2. QED BY <1>1, <2>1 DEF IsQueued
<1>5. QED BY <1>2, <1>3, <1>4 DEF AppliedBy

(* The scripts of an object, one after the other: that of RunScripts.      *)
IsRun(c, order, event, what, N, h) ==
    h = [n \in 0 .. N |-> IF n = 0 THEN c ELSE RunScript(h[n - 1], order[n], event, what)]

LEMMA RunExists ==
  ASSUME NEW c, NEW order, NEW event, NEW what, NEW N \in Nat
  PROVE \E h : IsRun(c, order, event, what, N, h)
<1> DEFINE Q == {n \in Nat : \E h : IsRun(c, order, event, what, n, h)}
<1>1. 0 \in Q
  <2>1. IsRun(c, order, event, what, 0, [n \in 0 .. 0 |-> c])
    BY DEF IsRun
  <2>2. QED BY <2>1
<1>2. ASSUME NEW n \in 0 .. N - 1, n \in Q
      PROVE n + 1 \in Q
  <2>1. PICK g : IsRun(c, order, event, what, n, g)
    BY <1>2
  <2> DEFINE step == RunScript(g[n], order[n + 1], event, what)
             h == [i \in 0 .. n + 1 |-> IF i = n + 1 THEN step ELSE g[i]]
  <2>2. ASSUME NEW i \in 0 .. n + 1
        PROVE h[i] = IF i = 0 THEN c ELSE RunScript(h[i - 1], order[i], event, what)
    <3>1. CASE i = n + 1
      <4>1. h[i] = step /\ h[i - 1] = g[n] /\ i # 0
        BY <3>1
      <4>2. QED BY <4>1, <3>1
    <3>2. CASE i # n + 1
      <4>1. i \in 0 .. n /\ h[i] = g[i] /\ (i # 0 => h[i - 1] = g[i - 1])
        BY <3>2
      <4>2. QED BY <4>1, <2>1 DEF IsRun
    <3>3. QED BY <3>1, <3>2
  <2>3. IsRun(c, order, event, what, n + 1, h)
    BY <2>2 DEF IsRun
  <2>4. QED BY <2>3
<1>3. \A n \in 0 .. N : n \in Q
  <2> HIDE DEF Q
  <2> QED BY <1>1, <1>2, UpTo
<1>4. QED BY <1>3

RunBy(c, order, event, what, h) ==
    /\ h[0] = c /\ RunScripts(c, order, event, what) = h[Len(order)]
    /\ \A n \in 0 .. Len(order) - 1 : h[n + 1] = RunScript(h[n], order[n + 1], event, what)

LEMMA RunOneByOne ==
  ASSUME NEW c, NEW order, NEW event, NEW what, Len(order) \in Nat
  PROVE \E h : RunBy(c, order, event, what, h)
<1> DEFINE h == CHOOSE g : IsRun(c, order, event, what, Len(order), g)
<1>1. IsRun(c, order, event, what, Len(order), h)
  BY RunExists
<1>2. RunScripts(c, order, event, what) = h[Len(order)]
  BY DEF RunScripts, IsRun
<1> HIDE DEF h
<1>3. h[0] = c
  BY <1>1 DEF IsRun
<1>4. ASSUME NEW n \in 0 .. Len(order) - 1
      PROVE h[n + 1] = RunScript(h[n], order[n + 1], event, what)
  <2>1. n + 1 \in 0 .. Len(order) /\ n + 1 # 0 /\ n + 1 - 1 = n
    OBVIOUS
  <2>2. QED BY <1>1, <2>1 DEF IsRun
<1>5. QED BY <1>2, <1>3, <1>4 DEF RunBy

----------------------------------------------------------------------------
(* What the stores hold.  W bounds what scripts have seen.  Of each action *)
(* tries says how often it was given to the World or applied; gone are the *)
(* actions whose success was confirmed.                                    *)
Entry == [id: Nat \ {0}, entity: Ids, owner: Users, script: Scripts, type: WorldActions,
          attempts: 0 .. MaxAttempts, leased: BOOLEAN]
ScriptOver(W) == [owner: Users \cup {Nobody}, object: Ids, program: Programs \cup {<<>>}, state: States,
                  timer: {"off", "set", "due"}, seen: SUBSET W]
CoreOver(W) == [scripts: [Scripts -> ScriptOver(W)], scriptsFile: [Scripts -> ScriptOver(W)],
                queue: SUBSET Entry, queueFile: SUBSET Entry, next: Nat \ {0}, ok: BOOLEAN, fuse: Nat]

QueueSound(q, next, tries, gone) ==
    /\ \A a \in q : a.id < next /\ tries[a.id] <= a.attempts /\ a.id \notin gone
    /\ \A a, b \in q : a.id = b.id => a = b
    /\ IsFiniteSet(q) /\ Cardinality(q) <= MaxPending

StoresSound(c, tries, gone) ==
    /\ ~c.ok => c.fuse = 0
    /\ QueueSound(c.queue, c.next, tries, gone)
    /\ QueueSound(c.queueFile, c.next, tries, gone)
    /\ \A id \in Nat : id >= c.next => tries[id] = 0 /\ id \notin gone

(* The scripts S keep their owner and forget nothing; the file is as it    *)
(* was or of later.                                                        *)
Later(S, t, u) == \A s \in S : u[s].owner = t[s].owner /\ t[s].seen \subseteq u[s].seen
ScriptsGoOn(S, c, d) == /\ Later(S, c.scripts, d.scripts)
                        /\ d.scriptsFile = c.scriptsFile \/ Later(S, c.scripts, d.scriptsFile)

(* What an operation on the stores may do.                                 *)
Sound(W, tries, gone, c) == c \in CoreOver(W) /\ StoresSound(c, tries, gone)
Goes(W, tries, gone, c, d) ==
    /\ Sound(W, tries, gone, d)
    /\ ScriptsGoOn(Scripts, c, d)
    /\ d.ok => c.ok
    /\ c.next <= d.next

LEMMA GoOnAndOn ==
  ASSUME NEW S, NEW c, NEW d, NEW e, ScriptsGoOn(S, c, d), ScriptsGoOn(S, d, e)
  PROVE ScriptsGoOn(S, c, e)
<1>1. Later(S, c.scripts, e.scripts)
  BY DEF ScriptsGoOn, Later
<1>2. e.scriptsFile = d.scriptsFile \/ Later(S, c.scripts, e.scriptsFile)
  BY DEF ScriptsGoOn, Later
<1>3. QED BY <1>1, <1>2 DEF ScriptsGoOn

LEMMA GoesAndGoes ==
  ASSUME NEW W, NEW tries, NEW gone, NEW c, NEW d, NEW e,
         Sound(W, tries, gone, c), Goes(W, tries, gone, c, d), Goes(W, tries, gone, d, e)
  PROVE Goes(W, tries, gone, c, e)
<1>1. ScriptsGoOn(Scripts, c, e)
  BY GoOnAndOn DEF Goes
<1>2. c.next \in Nat /\ d.next \in Nat /\ e.next \in Nat
  BY DEF Goes, Sound, CoreOver
<1>3. QED BY <1>1, <1>2 DEF Goes

(* A write: it may throw, and once one has thrown none is made.            *)
LEMMA BurnKeeps ==
  ASSUME NEW W, NEW c \in CoreOver(W), ~c.ok => c.fuse = 0
  PROVE /\ Burn(c) \in CoreOver(W)
        /\ Burn(c).scripts = c.scripts /\ Burn(c).scriptsFile = c.scriptsFile
        /\ Burn(c).queue = c.queue /\ Burn(c).queueFile = c.queueFile /\ Burn(c).next = c.next
        /\ Burn(c).ok => c.ok
        /\ ~Burn(c).ok => Burn(c).fuse = 0
        /\ Burn(c).fuse = 0 \/ Burn(c).fuse < c.fuse
<1>1. CASE c.fuse = 0
  BY <1>1 DEF Burn
<1>2. CASE c.fuse # 0
  <2>1. PICK w \in BOOLEAN : w = (c.fuse # 1)
    OBVIOUS
  <2>2. Burn(c) = [c EXCEPT !.fuse = @ - 1, !.ok = w]
    BY <1>2, <2>1 DEF Burn
  <2>3. c.fuse \in Nat /\ c.fuse - 1 \in Nat
    BY <1>2 DEF CoreOver
  <2>4. [c EXCEPT !.fuse = @ - 1, !.ok = w] \in CoreOver(W)
    BY <2>3 DEF CoreOver
  <2>5. w => c.fuse # 1
    BY <2>1
  <2>6. ~w => c.fuse = 1
    BY <2>1
  <2>7. c.ok
    BY <1>2
  <2>8. /\ Burn(c).scripts = c.scripts /\ Burn(c).scriptsFile = c.scriptsFile
        /\ Burn(c).queue = c.queue /\ Burn(c).queueFile = c.queueFile /\ Burn(c).next = c.next
        /\ Burn(c).fuse = c.fuse - 1 /\ Burn(c).ok = w
    BY <2>2 DEF CoreOver
  <2>9. QED BY <2>2, <2>3, <2>4, <2>5, <2>6, <2>7, <2>8
<1>3. QED BY <1>1, <1>2

LEMMA PersistScriptsKeeps ==
  ASSUME NEW W, NEW c \in CoreOver(W), ~c.ok => c.fuse = 0
  PROVE /\ PersistScripts(c) \in CoreOver(W)
        /\ PersistScripts(c).scripts = c.scripts
        /\ PersistScripts(c).queue = c.queue /\ PersistScripts(c).queueFile = c.queueFile
        /\ PersistScripts(c).next = c.next
        /\ PersistScripts(c).scriptsFile \in {c.scriptsFile, c.scripts}
        /\ PersistScripts(c).ok => c.ok /\ PersistScripts(c).scriptsFile = c.scripts
        /\ ~PersistScripts(c).ok => PersistScripts(c).fuse = 0
<1> DEFINE d == Burn(c)
<1>1. /\ d \in CoreOver(W)
      /\ d.scripts = c.scripts /\ d.scriptsFile = c.scriptsFile
      /\ d.queue = c.queue /\ d.queueFile = c.queueFile /\ d.next = c.next
      /\ d.ok => c.ok
      /\ ~d.ok => d.fuse = 0
  BY BurnKeeps
<1>2. PersistScripts(c) = IF d.ok THEN [d EXCEPT !.scriptsFile = d.scripts] ELSE d
  BY DEF PersistScripts
<1> HIDE DEF d
<1>3. CASE d.ok
  <2>1. PersistScripts(c) = [d EXCEPT !.scriptsFile = d.scripts]
    BY <1>2, <1>3
  <2>2. [d EXCEPT !.scriptsFile = d.scripts] \in CoreOver(W)
    BY <1>1 DEF CoreOver
  <2>3. /\ [d EXCEPT !.scriptsFile = d.scripts].scripts = d.scripts
        /\ [d EXCEPT !.scriptsFile = d.scripts].scriptsFile = d.scripts
        /\ [d EXCEPT !.scriptsFile = d.scripts].queue = d.queue
        /\ [d EXCEPT !.scriptsFile = d.scripts].queueFile = d.queueFile
        /\ [d EXCEPT !.scriptsFile = d.scripts].next = d.next
        /\ [d EXCEPT !.scriptsFile = d.scripts].fuse = d.fuse
        /\ [d EXCEPT !.scriptsFile = d.scripts].ok = d.ok
    BY <1>1 DEF CoreOver
  <2>4. QED BY <1>1, <1>3, <2>1, <2>2, <2>3
<1>4. CASE ~d.ok
  <2>1. PersistScripts(c) = d
    BY <1>2, <1>4
  <2>2. QED BY <1>1, <1>4, <2>1
<1>5. QED BY <1>3, <1>4

LEMMA PersistQueueKeeps ==
  ASSUME NEW W, NEW c \in CoreOver(W), ~c.ok => c.fuse = 0
  PROVE /\ PersistQueue(c) \in CoreOver(W)
        /\ PersistQueue(c).queue = c.queue
        /\ PersistQueue(c).scripts = c.scripts /\ PersistQueue(c).scriptsFile = c.scriptsFile
        /\ PersistQueue(c).next = c.next
        /\ PersistQueue(c).queueFile \in {c.queueFile, c.queue}
        /\ PersistQueue(c).ok => c.ok /\ PersistQueue(c).queueFile = c.queue
        /\ ~PersistQueue(c).ok => PersistQueue(c).fuse = 0
<1> DEFINE d == Burn(c)
<1>1. /\ d \in CoreOver(W)
      /\ d.scripts = c.scripts /\ d.scriptsFile = c.scriptsFile
      /\ d.queue = c.queue /\ d.queueFile = c.queueFile /\ d.next = c.next
      /\ d.ok => c.ok
      /\ ~d.ok => d.fuse = 0
  BY BurnKeeps
<1>2. PersistQueue(c) = IF d.ok THEN [d EXCEPT !.queueFile = d.queue] ELSE d
  BY DEF PersistQueue
<1> HIDE DEF d
<1>3. CASE d.ok
  <2>1. PersistQueue(c) = [d EXCEPT !.queueFile = d.queue]
    BY <1>2, <1>3
  <2>2. [d EXCEPT !.queueFile = d.queue] \in CoreOver(W)
    BY <1>1 DEF CoreOver
  <2>3. /\ [d EXCEPT !.queueFile = d.queue].scripts = d.scripts
        /\ [d EXCEPT !.queueFile = d.queue].scriptsFile = d.scriptsFile
        /\ [d EXCEPT !.queueFile = d.queue].queue = d.queue
        /\ [d EXCEPT !.queueFile = d.queue].queueFile = d.queue
        /\ [d EXCEPT !.queueFile = d.queue].next = d.next
        /\ [d EXCEPT !.queueFile = d.queue].fuse = d.fuse
        /\ [d EXCEPT !.queueFile = d.queue].ok = d.ok
    BY <1>1 DEF CoreOver
  <2>4. QED BY <1>1, <1>3, <2>1, <2>2, <2>3
<1>4. CASE ~d.ok
  <2>1. PersistQueue(c) = d
    BY <1>2, <1>4
  <2>2. QED BY <1>1, <1>4, <2>1
<1>5. QED BY <1>3, <1>4

----------------------------------------------------------------------------
(* The queue.  Whatever is done to its entries, they keep their identity   *)
(* and do not lose tries.                                                  *)
LEMMA ImageIsSound ==
  ASSUME NEW q \in SUBSET Entry, NEW next, NEW tries \in [Nat -> Nat], NEW gone,
         QueueSound(q, next, tries, gone),
         NEW rest \in SUBSET q, NEW f \in [rest -> Entry],
         \A a \in rest : f[a].id = a.id /\ a.attempts <= f[a].attempts
  PROVE QueueSound({f[a] : a \in rest}, next, tries, gone)
<1> DEFINE new == {f[a] : a \in rest}
<1>1. IsFiniteSet(new) /\ Cardinality(new) <= MaxPending
  <2>1. IsFiniteSet(rest) /\ Cardinality(rest) <= Cardinality(q) /\ Cardinality(q) <= MaxPending
    BY FS_Subset DEF QueueSound
  <2>2. f \in Surjection(rest, new)
    BY DEF Surjection
  <2>3. IsFiniteSet(new) /\ Cardinality(new) <= Cardinality(rest)
    <3> HIDE DEF new
    <3> QED BY <2>1, <2>2, FS_Surjection
  <2>4. Cardinality(new) \in Nat /\ Cardinality(rest) \in Nat /\ Cardinality(q) \in Nat /\ MaxPending \in Nat
    <3> HIDE DEF new
    <3> QED BY <2>1, <2>3, FS_CardinalityType, QueueAssumption DEF QueueSound
  <2>5. QED BY <2>1, <2>3, <2>4
<1>2. ASSUME NEW a \in new
      PROVE a.id < next /\ tries[a.id] <= a.attempts /\ a.id \notin gone
  <2>1. PICK b \in rest : a = f[b]
    OBVIOUS
  <2>2. b.id < next /\ tries[b.id] <= b.attempts /\ b.id \notin gone
    BY DEF QueueSound
  <2>3. a.id = b.id /\ b.attempts <= a.attempts
    BY <2>1
  <2>4. b \in Entry /\ a \in Entry
    BY <2>1
  <2>5. b.id \in Nat /\ b.attempts \in Nat /\ a.attempts \in Nat
    BY <2>4, QueueAssumption DEF Entry
  <2>6. tries[b.id] \in Nat
    BY <2>5
  <2>7. QED BY <2>2, <2>3, <2>5, <2>6
<1>3. ASSUME NEW a \in new, NEW b \in new, a.id = b.id
      PROVE a = b
  <2>1. PICK x \in rest, y \in rest : a = f[x] /\ b = f[y]
    OBVIOUS
  <2>2. x.id = y.id
    BY <2>1, <1>3
  <2>3. x = y
    BY <2>2 DEF QueueSound
  <2>4. QED BY <2>1, <2>3
<1>4. QED BY <1>1, <1>2, <1>3 DEF QueueSound

LEMMA SubsetIsSound ==
  ASSUME NEW q, NEW next, NEW tries, NEW gone, QueueSound(q, next, tries, gone), NEW rest \in SUBSET q
  PROVE QueueSound(rest, next, tries, gone)
<1>1. IsFiniteSet(q) /\ Cardinality(q) <= MaxPending
  BY DEF QueueSound
<1>2. IsFiniteSet(rest) /\ Cardinality(rest) <= Cardinality(q)
  BY <1>1, FS_Subset
<1>3. Cardinality(rest) <= MaxPending
  <2>1. Cardinality(rest) \in Nat /\ Cardinality(q) \in Nat /\ MaxPending \in Nat
    BY <1>1, <1>2, FS_CardinalityType, QueueAssumption
  <2>2. QED BY <1>1, <1>2, <2>1
<1>4. QED BY <1>2, <1>3 DEF QueueSound

(* A change of the queue, and its write.                                   *)
LEMMA QueueWritten ==
  ASSUME NEW W, NEW tries \in [Nat -> Nat], NEW gone, NEW c, Sound(W, tries, gone, c),
         NEW e \in CoreOver(W), e.scripts = c.scripts, e.scriptsFile = c.scriptsFile,
         e.queueFile = c.queueFile, e.ok = c.ok, e.fuse = c.fuse,
         c.next <= e.next, QueueSound(e.queue, e.next, tries, gone)
  PROVE /\ Goes(W, tries, gone, c, PersistQueue(e))
        /\ PersistQueue(e).queue = e.queue /\ PersistQueue(e).next = e.next
        /\ PersistQueue(e).scripts = c.scripts /\ PersistQueue(e).scriptsFile = c.scriptsFile
        /\ PersistQueue(e).ok => PersistQueue(e).queueFile = e.queue
<1> DEFINE d == PersistQueue(e)
<1>1. ~e.ok => e.fuse = 0
  BY DEF Sound, StoresSound
<1>2. /\ d \in CoreOver(W)
      /\ d.queue = e.queue /\ d.scripts = e.scripts /\ d.scriptsFile = e.scriptsFile
      /\ d.next = e.next /\ d.queueFile \in {e.queueFile, e.queue}
      /\ d.ok => e.ok /\ d.queueFile = e.queue
      /\ ~d.ok => d.fuse = 0
  BY <1>1, PersistQueueKeeps
<1> HIDE DEF d
<1>3. c.next \in Nat /\ e.next \in Nat
  BY DEF Sound, CoreOver
<1>4. QueueSound(c.queueFile, e.next, tries, gone)
  <2>1. \A a \in c.queueFile : a.id \in Nat /\ a.id < c.next
    BY DEF Sound, CoreOver, Entry, StoresSound, QueueSound
  <2>2. \A a \in c.queueFile : a.id < e.next
    BY <1>3, <2>1
  <2>3. QED BY <2>2 DEF Sound, StoresSound, QueueSound
<1>5. \A id \in Nat : id >= e.next => tries[id] = 0 /\ id \notin gone
  BY <1>3 DEF Sound, StoresSound
<1>6. QueueSound(d.queue, d.next, tries, gone) /\ QueueSound(d.queueFile, d.next, tries, gone)
  BY <1>2, <1>4
<1>7. StoresSound(d, tries, gone)
  BY <1>2, <1>5, <1>6 DEF StoresSound
<1>8. ScriptsGoOn(Scripts, c, d)
  BY <1>2 DEF ScriptsGoOn, Later
<1>9. Goes(W, tries, gone, c, d)
  BY <1>2, <1>7, <1>8 DEF Goes, Sound
<1>10. QED BY <1>2, <1>9 DEF d

(* A change of the scripts, and its write.                                 *)
LEMMA ScriptsWritten ==
  ASSUME NEW W, NEW tries, NEW gone, NEW c, Sound(W, tries, gone, c),
         NEW e \in CoreOver(W), e.scriptsFile = c.scriptsFile, e.queue = c.queue,
         e.queueFile = c.queueFile, e.ok = c.ok, e.fuse = c.fuse,
         e.next = c.next
  PROVE /\ Sound(W, tries, gone, PersistScripts(e))
        /\ \A S : Later(S, c.scripts, e.scripts) => ScriptsGoOn(S, c, PersistScripts(e))
        /\ Later(Scripts, c.scripts, e.scripts) => Goes(W, tries, gone, c, PersistScripts(e))
        /\ PersistScripts(e).ok => c.ok
        /\ PersistScripts(e).scripts = e.scripts
        /\ PersistScripts(e).ok => PersistScripts(e).scriptsFile = e.scripts
        /\ PersistScripts(e).queue = c.queue /\ PersistScripts(e).queueFile = c.queueFile
        /\ PersistScripts(e).next = c.next
<1> DEFINE d == PersistScripts(e)
<1>1. ~e.ok => e.fuse = 0
  BY DEF Sound, StoresSound
<1>2. /\ d \in CoreOver(W)
      /\ d.queue = e.queue /\ d.queueFile = e.queueFile /\ d.scripts = e.scripts
      /\ d.next = e.next /\ d.scriptsFile \in {e.scriptsFile, e.scripts}
      /\ d.ok => e.ok /\ d.scriptsFile = e.scripts
      /\ ~d.ok => d.fuse = 0
  BY <1>1, PersistScriptsKeeps
<1> HIDE DEF d
<1>3. StoresSound(d, tries, gone)
  BY <1>2 DEF StoresSound, Sound
<1>4. ASSUME NEW S, Later(S, c.scripts, e.scripts)
      PROVE ScriptsGoOn(S, c, d)
  BY <1>2, <1>4 DEF ScriptsGoOn
<1>5. c.next <= d.next
  <2>1. c.next \in Nat
    BY DEF Sound, CoreOver
  <2>2. QED BY <1>2, <2>1
<1>6. Sound(W, tries, gone, d)
  BY <1>2, <1>3 DEF Sound
<1>7. Later(Scripts, c.scripts, e.scripts) => Goes(W, tries, gone, c, d)
  BY <1>2, <1>4, <1>5, <1>6 DEF Goes
<1>8. QED BY <1>2, <1>4, <1>6, <1>7 DEF d

SameNext(c, d) == d.next = c.next
SameScripts(c, d) == d.scripts = c.scripts /\ d.scriptsFile = c.scriptsFile

LEMMA NothingGoes ==
  ASSUME NEW W, NEW tries, NEW gone, NEW c, Sound(W, tries, gone, c)
  PROVE Goes(W, tries, gone, c, c)
<1>1. c.next \in Nat
  BY DEF Sound, CoreOver
<1>2. QED BY <1>1 DEF Goes, ScriptsGoOn, Later

LEMMA EnqueueKeeps ==
  ASSUME NEW W, NEW tries \in [Nat -> Nat], NEW gone, NEW c, Sound(W, tries, gone, c),
         NEW entity \in Ids, NEW owner \in Users, NEW script \in Scripts, NEW type \in WorldActions
  PROVE /\ Goes(W, tries, gone, c, Enqueue(c, entity, owner, script, type))
        /\ SameScripts(c, Enqueue(c, entity, owner, script, type))
<1>1. CASE ~c.ok \/ Cardinality(c.queue) >= MaxPending
  BY <1>1, NothingGoes DEF Enqueue, SameScripts
<1>2. CASE ~(~c.ok \/ Cardinality(c.queue) >= MaxPending)
  <2> DEFINE a == [id |-> c.next, entity |-> entity, owner |-> owner, script |-> script, type |-> type,
                   attempts |-> 0, leased |-> FALSE]
             e == [c EXCEPT !.queue = @ \cup {a}, !.next = @ + 1]
  <2>1. Enqueue(c, entity, owner, script, type) = PersistQueue(e)
    BY <1>2 DEF Enqueue
  <2>2. c \in CoreOver(W) /\ c.next \in Nat \ {0} /\ c.next + 1 \in Nat \ {0} /\ c.queue \subseteq Entry
    BY DEF Sound, CoreOver
  <2>3. a \in Entry
    BY <2>2, QueueAssumption DEF Entry
  <2>4. e \in CoreOver(W)
    <3> HIDE DEF a
    <3> QED BY <2>2, <2>3 DEF CoreOver
  <2>5. /\ e.scripts = c.scripts /\ e.scriptsFile = c.scriptsFile /\ e.queueFile = c.queueFile
        /\ e.ok = c.ok /\ e.fuse = c.fuse /\ e.queue = c.queue \cup {a} /\ e.next = c.next + 1
    <3> HIDE DEF a
    <3> QED BY <2>2 DEF CoreOver
  <2>6. QueueSound(c.queue, c.next, tries, gone) /\ tries[c.next] = 0 /\ c.next \notin gone
    BY <2>2 DEF Sound, StoresSound
  <2>7. a.id = c.next /\ a.attempts = 0
    OBVIOUS
  <2>8. QueueSound(e.queue, e.next, tries, gone)
    <3> HIDE DEF a
    <3>1. \A b \in c.queue : b.id \in Nat /\ b.id < c.next
      BY <2>2, <2>6 DEF QueueSound, Entry
    <3>2. IsFiniteSet(c.queue \cup {a}) /\ Cardinality(c.queue \cup {a}) <= MaxPending
      <4>1. IsFiniteSet(c.queue) /\ Cardinality(c.queue) \in Nat /\ MaxPending \in Nat
        BY <2>6, FS_CardinalityType, QueueAssumption DEF QueueSound
      <4>2. Cardinality(c.queue) < MaxPending
        BY <1>2, <4>1
      <4>3. /\ IsFiniteSet(c.queue \cup {a})
            /\ Cardinality(c.queue \cup {a}) = IF a \in c.queue THEN Cardinality(c.queue)
                                               ELSE Cardinality(c.queue) + 1
        BY <4>1, FS_AddElement
      <4>4. QED BY <4>1, <4>2, <4>3
    <3>3. \A b \in c.queue \cup {a} : b.id < c.next + 1 /\ tries[b.id] <= b.attempts /\ b.id \notin gone
      BY <2>2, <2>6, <2>7, <3>1 DEF QueueSound
    <3>4. \A b, d \in c.queue \cup {a} : b.id = d.id => b = d
      BY <2>2, <2>6, <2>7, <3>1 DEF QueueSound
    <3>5. QueueSound(c.queue \cup {a}, c.next + 1, tries, gone)
      BY <3>2, <3>3, <3>4 DEF QueueSound
    <3>6. QED BY <2>5, <3>5
  <2>9. c.next <= e.next
    BY <2>2, <2>5
  <2> HIDE DEF a, e
  <2>10. Goes(W, tries, gone, c, PersistQueue(e))
    BY <2>4, <2>5, <2>8, <2>9, QueueWritten
  <2>11. PersistQueue(e).scripts = c.scripts /\ PersistQueue(e).scriptsFile = c.scriptsFile
    <3>1. ~e.ok => e.fuse = 0
      BY <2>5 DEF Sound, StoresSound
    <3>2. PersistQueue(e).scripts = e.scripts /\ PersistQueue(e).scriptsFile = e.scriptsFile
      BY <2>4, <3>1, PersistQueueKeeps
    <3>3. QED BY <2>5, <3>2
  <2>12. QED BY <2>1, <2>10, <2>11 DEF SameScripts
<1>3. QED BY <1>1, <1>2

(* What is taken out of the queue, or changed in it.                       *)
HasQueue(c, q, e) == e = [c EXCEPT !.queue = q]

LEMMA QueueChanged ==
  ASSUME NEW W, NEW tries \in [Nat -> Nat], NEW gone, NEW c, Sound(W, tries, gone, c),
         NEW q \in SUBSET Entry, QueueSound(q, c.next, tries, gone),
         NEW e, HasQueue(c, q, e)
  PROVE /\ Goes(W, tries, gone, c, PersistQueue(e))
        /\ PersistQueue(e).queue = q /\ PersistQueue(e).next = c.next
        /\ PersistQueue(e).scripts = c.scripts /\ PersistQueue(e).scriptsFile = c.scriptsFile
        /\ PersistQueue(e).ok => PersistQueue(e).queueFile = q
<1>1. /\ e \in CoreOver(W) /\ e.scripts = c.scripts /\ e.scriptsFile = c.scriptsFile
      /\ e.queueFile = c.queueFile /\ e.ok = c.ok /\ e.fuse = c.fuse /\ e.queue = q /\ e.next = c.next
      /\ c.next \in Nat
  BY DEF HasQueue, Sound, CoreOver
<1>2. c.next <= e.next /\ QueueSound(e.queue, e.next, tries, gone)
  BY <1>1
<1>3. /\ Goes(W, tries, gone, c, PersistQueue(e))
      /\ PersistQueue(e).queue = e.queue /\ PersistQueue(e).next = e.next
      /\ PersistQueue(e).scripts = c.scripts /\ PersistQueue(e).scriptsFile = c.scriptsFile
      /\ PersistQueue(e).ok => PersistQueue(e).queueFile = e.queue
  BY <1>1, <1>2, QueueWritten
<1>4. QED BY <1>1, <1>3

LEMMA WithoutIsSound ==
  ASSUME NEW W, NEW tries, NEW gone, NEW c, Sound(W, tries, gone, c), NEW ids
  PROVE /\ Without(c.queue, ids) \in SUBSET Entry
        /\ QueueSound(Without(c.queue, ids), c.next, tries, gone)
<1>1. c.queue \in SUBSET Entry /\ QueueSound(c.queue, c.next, tries, gone)
  BY DEF Sound, CoreOver, StoresSound
<1>2. Without(c.queue, ids) \in SUBSET c.queue
  BY DEF Without
<1>3. QED BY <1>1, <1>2, SubsetIsSound

LEMMA PurgeKeeps ==
  ASSUME NEW W, NEW tries \in [Nat -> Nat], NEW gone, NEW c, Sound(W, tries, gone, c)
  PROVE Goes(W, tries, gone, c, PurgeExpired(c))
<1>1. CASE Without(c.queue, lapsed) = c.queue
  BY <1>1, NothingGoes DEF PurgeExpired
<1>2. CASE Without(c.queue, lapsed) # c.queue
  <2>1. PurgeExpired(c) = PersistQueue([c EXCEPT !.queue = Without(@, lapsed)])
    BY <1>2 DEF PurgeExpired
  <2>2. [c EXCEPT !.queue = Without(@, lapsed)] = [c EXCEPT !.queue = Without(c.queue, lapsed)]
    OBVIOUS
  <2>3. /\ Without(c.queue, lapsed) \in SUBSET Entry
        /\ QueueSound(Without(c.queue, lapsed), c.next, tries, gone)
    BY WithoutIsSound
  <2>4. PICK e : HasQueue(c, Without(c.queue, lapsed), e)
    BY DEF HasQueue
  <2>5. Goes(W, tries, gone, c, PersistQueue(e))
    BY <2>3, <2>4, QueueChanged
  <2>6. QED BY <2>1, <2>2, <2>4, <2>5 DEF HasQueue
<1>3. QED BY <1>1, <1>2

(* An acknowledged action that was there is in neither queue nor file.     *)
IsOut(id, d) == \A a \in d.queue \cup d.queueFile : a.id # id

LEMMA AckKeeps ==
  ASSUME NEW W, NEW tries \in [Nat -> Nat], NEW gone, NEW c, Sound(W, tries, gone, c), NEW id
  PROVE /\ Goes(W, tries, gone, c, Ack(c, id))
        /\ SameNext(c, Ack(c, id)) /\ SameScripts(c, Ack(c, id))
        /\ Find(c, id) # {} /\ Ack(c, id).ok => IsOut(id, Ack(c, id))
<1>1. CASE Find(c, id) = {}
  <2>1. Ack(c, id) = c
    BY <1>1 DEF Ack
  <2>2. QED BY <1>1, <2>1, NothingGoes DEF SameNext, SameScripts
<1>2. CASE Find(c, id) # {}
  <2> DEFINE q == Without(c.queue, {id})
  <2>1. Ack(c, id) = PersistQueue([c EXCEPT !.queue = Without(@, {id})])
    BY <1>2 DEF Ack
  <2>2. [c EXCEPT !.queue = Without(@, {id})] = [c EXCEPT !.queue = q]
    OBVIOUS
  <2>3. \A a \in q : a.id # id
    BY DEF Without
  <2>4. q \in SUBSET Entry /\ QueueSound(q, c.next, tries, gone)
    BY WithoutIsSound
  <2> HIDE DEF q
  <2>5. Ack(c, id) = PersistQueue([c EXCEPT !.queue = q])
    BY <2>1, <2>2
  <2>6. PICK e : HasQueue(c, q, e)
    BY DEF HasQueue
  <2>7. /\ Goes(W, tries, gone, c, PersistQueue(e))
        /\ PersistQueue(e).queue = q /\ PersistQueue(e).next = c.next
        /\ PersistQueue(e).scripts = c.scripts /\ PersistQueue(e).scriptsFile = c.scriptsFile
        /\ PersistQueue(e).ok => PersistQueue(e).queueFile = q
    BY <2>4, <2>6, QueueChanged
  <2>8. Ack(c, id) = PersistQueue(e)
    BY <2>5, <2>6 DEF HasQueue
  <2>9. QED BY <2>3, <2>7, <2>8 DEF SameNext, SameScripts, IsOut
<1>3. QED BY <1>1, <1>2

LEMMA NackKeeps ==
  ASSUME NEW W, NEW tries \in [Nat -> Nat], NEW gone, NEW c, Sound(W, tries, gone, c), NEW id
  PROVE /\ Goes(W, tries, gone, c, Nack(c, id))
        /\ SameNext(c, Nack(c, id)) /\ SameScripts(c, Nack(c, id))
<1> DEFINE rest == {a \in c.queue : ~(a.id = id /\ a.attempts >= MaxAttempts)}
           f == [a \in rest |-> [a EXCEPT !.leased = @ \/ a.id = id]]
<1>1. c.queue \in SUBSET Entry /\ QueueSound(c.queue, c.next, tries, gone) /\ rest \in SUBSET c.queue
  BY DEF Sound, CoreOver, StoresSound
<1>2. ASSUME NEW a \in rest
      PROVE f[a] \in Entry /\ f[a].id = a.id /\ a.attempts <= f[a].attempts
  <2>1. PICK w \in BOOLEAN : w = (a.leased \/ a.id = id)
    OBVIOUS
  <2>2. f[a] = [a EXCEPT !.leased = w]
    BY <2>1
  <2>3. a \in Entry
    BY <1>1
  <2>4. a.attempts \in Nat
    BY <2>3, QueueAssumption DEF Entry
  <2>5. [a EXCEPT !.leased = w] \in Entry /\ [a EXCEPT !.leased = w].id = a.id
        /\ [a EXCEPT !.leased = w].attempts = a.attempts
    BY <2>3 DEF Entry
  <2>6. QED BY <2>2, <2>4, <2>5
<1>3. f \in [rest -> Entry]
  BY <1>2
<1> DEFINE q == {f[a] : a \in rest}
<1>4. Nack(c, id) = IF Find(c, id) = {} THEN c ELSE PersistQueue([c EXCEPT !.queue = q])
  BY DEF Nack
<1>5. QueueSound(q, c.next, tries, gone) /\ q \in SUBSET Entry
  <2> HIDE DEF f, rest
  <2>1. q \in SUBSET Entry
    BY <1>2
  <2>2. QED BY <1>1, <1>2, <1>3, <2>1, ImageIsSound
<1> HIDE DEF q
<1>6. PICK e : HasQueue(c, q, e)
  BY DEF HasQueue
<1>7. /\ Goes(W, tries, gone, c, PersistQueue(e))
      /\ PersistQueue(e).queue = q /\ PersistQueue(e).next = c.next
      /\ PersistQueue(e).scripts = c.scripts /\ PersistQueue(e).scriptsFile = c.scriptsFile
      /\ PersistQueue(e).ok => PersistQueue(e).queueFile = q
  BY <1>5, <1>6, QueueChanged
<1>8. Nack(c, id) = c \/ Nack(c, id) = PersistQueue(e)
  BY <1>4, <1>6 DEF HasQueue
<1>9. QED BY <1>7, <1>8, NothingGoes DEF SameNext, SameScripts

LEMMA LoadIsSound ==
  ASSUME NEW file, NEW next, NEW tries, NEW gone, QueueSound(file, next, tries, gone)
  PROVE LoadQueue(file) \in SUBSET file /\ QueueSound(LoadQueue(file), next, tries, gone)
<1>1. LoadQueue(file) \in SUBSET file
  BY DEF LoadQueue, Without
<1>2. QED BY <1>1, SubsetIsSound

(* A set of numbers has a least one; a queue, a first action.              *)
LEMMA Least ==
  ASSUME NEW S \in SUBSET Nat, NEW x \in S
  PROVE \E m \in S : \A n \in S : m <= n
<1>1. SUFFICES ASSUME \A m \in S : \E n \in S : ~(m <= n)
               PROVE FALSE
  OBVIOUS
<1> DEFINE Q == {n \in Nat : \A m \in S : n < m}
<1>2. 0 \in Q
  BY <1>1
<1>3. ASSUME NEW n \in 0 .. x - 1, n \in Q
      PROVE n + 1 \in Q
  BY <1>1, <1>3
<1>4. \A n \in 0 .. x : n \in Q
  <2> HIDE DEF Q
  <2> QED BY <1>2, <1>3, UpTo
<1>5. QED BY <1>4

LEMMA FirstIsThere ==
  ASSUME NEW queue \in SUBSET Entry, queue # {}
  PROVE First(queue) \in queue
<1> DEFINE S == {a.id : a \in queue}
<1>1. S \in SUBSET Nat
  BY DEF Entry
<1>2. PICK x : x \in S
  OBVIOUS
<1>3. PICK m \in S : \A n \in S : m <= n
  <2> HIDE DEF S
  <2> QED BY <1>1, <1>2, Least
<1>4. \E a \in queue : \A b \in queue : a.id <= b.id
  BY <1>3
<1>5. QED BY <1>4 DEF First

(* The action that is leased was there, and its tries are counted: in the  *)
(* file as well when nothing throws.                                       *)
IsGiven(a, c, d) ==
    /\ a \in c.queue /\ a.attempts < MaxAttempts
    /\ \A b \in d.queue : b.id = a.id => b.attempts = a.attempts + 1
    /\ d.ok => d.queueFile = d.queue

LEMMA LeaseKeeps ==
  ASSUME NEW W, NEW tries \in [Nat -> Nat], NEW gone, NEW c, Sound(W, tries, gone, c)
  PROVE /\ Goes(W, tries, gone, c, Lease(c))
        /\ SameNext(c, Lease(c)) /\ SameScripts(c, Lease(c))
        /\ Waiting(Kept(c)) # {} => IsGiven(First(Waiting(Kept(c))), c, Lease(c))
<1> DEFINE kept == Kept(c)
           first == First(Waiting(kept))
           given == [first EXCEPT !.attempts = @ + 1, !.leased = TRUE]
           q == (kept \ {first}) \cup {given}
<1>1. c.queue \in SUBSET Entry /\ QueueSound(c.queue, c.next, tries, gone) /\ kept \in SUBSET c.queue
  BY DEF Sound, CoreOver, StoresSound, Kept, Without
<1>2. kept \in SUBSET Entry /\ QueueSound(kept, c.next, tries, gone)
  <2> HIDE DEF kept
  <2> QED BY <1>1, SubsetIsSound
<1>3. CASE Waiting(kept) = {} /\ kept = c.queue
  <2>1. Lease(c) = c
    BY <1>3 DEF Lease
  <2>2. Waiting(Kept(c)) = {}
    BY <1>3
  <2>3. QED BY <2>1, <2>2, NothingGoes DEF SameNext, SameScripts
<1>4. CASE Waiting(kept) = {} /\ kept # c.queue
  <2>1. Lease(c) = PersistQueue([c EXCEPT !.queue = kept])
    BY <1>4 DEF Lease
  <2>2. Waiting(Kept(c)) = {}
    BY <1>4
  <2> HIDE DEF kept
  <2>3. PICK e : HasQueue(c, kept, e)
    BY DEF HasQueue
  <2>4. /\ Goes(W, tries, gone, c, PersistQueue(e))
        /\ PersistQueue(e).queue = kept /\ PersistQueue(e).next = c.next
        /\ PersistQueue(e).scripts = c.scripts /\ PersistQueue(e).scriptsFile = c.scriptsFile
        /\ PersistQueue(e).ok => PersistQueue(e).queueFile = kept
    BY <1>2, <2>3, QueueChanged
  <2>5. Lease(c) = PersistQueue(e)
    BY <2>1, <2>3 DEF HasQueue
  <2>6. QED BY <2>2, <2>4, <2>5 DEF SameNext, SameScripts
<1>5. CASE Waiting(kept) # {}
  <2>1. Lease(c) = PersistQueue([c EXCEPT !.queue = q])
    BY <1>5 DEF Lease
  <2>2. first \in Waiting(kept)
    <3>1. Waiting(kept) \in SUBSET Entry
      BY <1>2 DEF Waiting
    <3>2. QED BY <1>5, <3>1, FirstIsThere
  <2>3. first \in kept /\ first \in Entry /\ first.attempts < MaxAttempts
    BY <1>2, <2>2 DEF Waiting
  <2> HIDE DEF first, kept
  <2>4. /\ given \in Entry /\ given.id = first.id
        /\ given.attempts = first.attempts + 1 /\ first.attempts <= given.attempts
    <3>1. given = [first EXCEPT !.attempts = first.attempts + 1, !.leased = TRUE]
      OBVIOUS
    <3>2. first.attempts + 1 \in 0 .. MaxAttempts /\ first.attempts <= first.attempts + 1
      BY <2>3, QueueAssumption DEF Entry
    <3>3. TRUE \in BOOLEAN
      OBVIOUS
    <3>4. QED BY <2>3, <3>1, <3>2, <3>3 DEF Entry
  <2> HIDE DEF given
  <2> DEFINE f == [a \in kept |-> IF a = first THEN given ELSE a]
  <2>5. f \in [kept -> Entry]
    BY <1>2, <2>4
  <2>6. \A a \in kept : f[a].id = a.id /\ a.attempts <= f[a].attempts
    <3>1. \A a \in kept : a.attempts \in Nat
      BY <1>2, QueueAssumption DEF Entry
    <3>2. QED BY <2>4, <3>1
  <2>7. q = {f[a] : a \in kept}
    BY <2>3
  <2>8. QueueSound(q, c.next, tries, gone) /\ q \in SUBSET Entry
    <3>1. q \in SUBSET Entry
      BY <1>2, <2>4
    <3>2. QueueSound({f[a] : a \in kept}, c.next, tries, gone)
      <4> HIDE DEF f
      <4> QED BY <1>2, <2>5, <2>6, ImageIsSound
    <3>3. QED BY <2>7, <3>1, <3>2
  <2>9. \A b \in q : b.id = first.id => b.attempts = first.attempts + 1
    BY <1>2, <2>3, <2>4 DEF QueueSound
  <2> HIDE DEF q, f
  <2>10. PICK e : HasQueue(c, q, e)
    BY DEF HasQueue
  <2>11. /\ Goes(W, tries, gone, c, PersistQueue(e))
         /\ PersistQueue(e).queue = q /\ PersistQueue(e).next = c.next
         /\ PersistQueue(e).scripts = c.scripts /\ PersistQueue(e).scriptsFile = c.scriptsFile
         /\ PersistQueue(e).ok => PersistQueue(e).queueFile = q
    BY <2>8, <2>10, QueueChanged
  <2>12. Lease(c) = PersistQueue(e)
    BY <2>1, <2>10 DEF HasQueue
  <2>13. first = First(Waiting(Kept(c)))
    BY DEF first, kept
  <2>14. first \in c.queue
    BY <1>1, <2>3
  <2>15. QED BY <2>3, <2>9, <2>11, <2>12, <2>13, <2>14 DEF SameNext, SameScripts, IsGiven
<1>6. QED BY <1>3, <1>4, <1>5

----------------------------------------------------------------------------
(* The scripts.                                                            *)
Run == [ok: BOOLEAN, before: States, state: States,
        actions: Seq(WorldActions \cup {"timer", "stop", "notify"})]

LEMMA HandlerTyped ==
  ASSUME NEW program \in Programs, NEW state \in States, NEW event
  PROVE Handler(program, state, event) \in Handled
<1>1. [ok |-> TRUE, state |-> state, actions |-> <<>>] \in Handled
  BY DEF Handled
<1>2. QED BY <1>1, ProgramsAssumption DEF Handler

LEMMA FollowTyped ==
  ASSUME NEW program \in Programs, NEW r \in Run
  PROVE Follow(program, r) \in Run
<1> DEFINE exit == Handler(program, r.before, "state_exit")
           entry == Handler(program, r.state, "state_entry")
<1>1. exit \in Handled /\ entry \in Handled
  <2>1. r.before \in States /\ r.state \in States
    BY DEF Run
  <2>2. QED BY <2>1, HandlerTyped
<1>2. Transition(program, r) \in Run
  <2>1. Transition(program, r) = [ok |-> exit.ok /\ entry.ok, before |-> r.state, state |-> entry.state,
                                  actions |-> r.actions \o exit.actions \o entry.actions]
    BY DEF Transition
  <2> HIDE DEF exit, entry
  <2>2. PICK w \in BOOLEAN : w = (exit.ok /\ entry.ok)
    OBVIOUS
  <2> DEFINE A == WorldActions \cup {"timer", "stop", "notify"}
  <2>3. r.actions \in Seq(A) /\ exit.actions \in Seq(A) /\ entry.actions \in Seq(A)
        /\ r.state \in States /\ entry.state \in States
    BY <1>1 DEF Run, Handled
  <2> HIDE DEF A
  <2>4. PICK actions \in Seq(A) : actions = r.actions \o exit.actions \o entry.actions
    <3>1. \A x, y \in Seq(A) : x \o y \in Seq(A)
      OBVIOUS
    <3>2. r.actions \o exit.actions \in Seq(A)
      BY <2>3, <3>1
    <3>3. r.actions \o exit.actions \o entry.actions \in Seq(A)
      BY <2>3, <3>1, <3>2
    <3>4. QED BY <3>3
  <2>5. [ok |-> w, before |-> r.state, state |-> entry.state, actions |-> actions] \in
            [ok: BOOLEAN, before: States, state: States, actions: Seq(A)]
    BY <2>3
  <2>6. QED BY <2>1, <2>2, <2>4, <2>5 DEF Run, A
<1>3. CASE r.ok /\ r.state # r.before
  <2>1. Follow(program, r) = Transition(program, r)
    BY <1>3 DEF Follow
  <2>2. QED BY <1>2, <2>1
<1>4. CASE ~(r.ok /\ r.state # r.before)
  <2>1. Follow(program, r) = r
    BY <1>4 DEF Follow
  <2>2. QED BY <2>1
<1>5. QED BY <1>3, <1>4

IsFollowed(program, begin, N, h) ==
    h = [n \in 0 .. N |-> IF n = 0 THEN begin ELSE Follow(program, h[n - 1])]

LEMMA FollowedExists ==
  ASSUME NEW program, NEW begin, NEW N \in Nat
  PROVE \E h : IsFollowed(program, begin, N, h)
<1> DEFINE Q == {n \in Nat : \E h : IsFollowed(program, begin, n, h)}
<1>1. 0 \in Q
  <2>1. IsFollowed(program, begin, 0, [n \in 0 .. 0 |-> begin])
    BY DEF IsFollowed
  <2>2. QED BY <2>1
<1>2. ASSUME NEW n \in 0 .. N - 1, n \in Q
      PROVE n + 1 \in Q
  <2>1. PICK g : IsFollowed(program, begin, n, g)
    BY <1>2
  <2> DEFINE step == Follow(program, g[n])
             h == [i \in 0 .. n + 1 |-> IF i = n + 1 THEN step ELSE g[i]]
  <2>2. ASSUME NEW i \in 0 .. n + 1
        PROVE h[i] = IF i = 0 THEN begin ELSE Follow(program, h[i - 1])
    <3>1. CASE i = n + 1
      <4>1. h[i] = step /\ h[i - 1] = g[n] /\ i # 0
        BY <3>1
      <4>2. QED BY <4>1, <3>1
    <3>2. CASE i # n + 1
      <4>1. i \in 0 .. n /\ h[i] = g[i] /\ (i # 0 => h[i - 1] = g[i - 1])
        BY <3>2
      <4>2. QED BY <4>1, <2>1 DEF IsFollowed
    <3>3. QED BY <3>1, <3>2
  <2>3. IsFollowed(program, begin, n + 1, h)
    BY <2>2 DEF IsFollowed
  <2>4. QED BY <2>3
<1>3. \A n \in 0 .. N : n \in Q
  <2> HIDE DEF Q
  <2> QED BY <1>1, <1>2, UpTo
<1>4. QED BY <1>3

LEMMA FollowedTyped ==
  ASSUME NEW program \in Programs, NEW begin \in Run, NEW N \in Nat, NEW h, IsFollowed(program, begin, N, h)
  PROVE h[N] \in Run
<1> DEFINE Q == {n \in 0 .. N : h[n] \in Run}
<1>1. 0 \in Q
  BY DEF IsFollowed
<1>2. ASSUME NEW n \in 0 .. N - 1, n \in Q
      PROVE n + 1 \in Q
  <2>1. n + 1 \in 0 .. N /\ n + 1 # 0 /\ n + 1 - 1 = n
    OBVIOUS
  <2>2. h[n + 1] = Follow(program, h[n])
    BY <2>1 DEF IsFollowed
  <2>3. QED BY <1>2, <2>1, <2>2, FollowTyped
<1>3. \A n \in 0 .. N : n \in Q
  <2> HIDE DEF Q
  <2> QED BY <1>1, <1>2, UpTo
<1>4. QED BY <1>3

LEMMA RunHandlersTyped ==
  ASSUME NEW program \in Programs, NEW state \in States, NEW event
  PROVE RunHandlers(program, state, event) \in Run
<1> DEFINE first == Handler(program, state, event)
           begin == [ok |-> first.ok, before |-> state, state |-> first.state, actions |-> first.actions]
<1>1. begin \in Run
  <2>1. first \in Handled
    BY HandlerTyped
  <2> HIDE DEF first
  <2>2. QED BY <2>1 DEF Handled, Run
<1> DEFINE after == CHOOSE h : IsFollowed(program, begin, 8, h)
           last == after[8]
<1>2. IsFollowed(program, begin, 8, after)
  <2> HIDE DEF begin
  <2> QED BY FollowedExists
<1>3. last \in Run
  <2> HIDE DEF after, begin
  <2> QED BY <1>1, <1>2, FollowedTyped
<1>4. RunHandlers(program, state, event) = [last EXCEPT !.ok = @ /\ last.state = last.before]
  BY DEF RunHandlers, IsFollowed
<1> HIDE DEF last
<1>5. PICK w \in BOOLEAN : w = (last.ok /\ last.state = last.before)
  OBVIOUS
<1>6. [last EXCEPT !.ok = w] \in Run
  BY <1>3 DEF Run
<1>7. QED BY <1>4, <1>5, <1>6

LEMMA OutcomeTyped ==
  ASSUME NEW program \in Programs, NEW state \in States, NEW event
  PROVE Len(Outcome(program, state, event)) \in Nat
<1>1. /\ RunHandlers(program, state, event).actions \in Seq(WorldActions \cup {"timer", "stop", "notify"})
      /\ Handler(program, state, event).actions \in Seq(WorldActions \cup {"timer", "stop", "notify"})
  BY RunHandlersTyped, HandlerTyped DEF Run, Handled
<1>2. Outcome(program, state, event) \in Seq(WorldActions \cup {"timer", "stop", "notify"})
  BY <1>1 DEF Outcome
<1>3. QED BY <1>2

HasScripts(c, t, e) == e = [c EXCEPT !.scripts = t]

LEMMA ScriptsChanged ==
  ASSUME NEW W, NEW tries, NEW gone, NEW c, Sound(W, tries, gone, c),
         NEW t \in [Scripts -> ScriptOver(W)], NEW e, HasScripts(c, t, e)
  PROVE /\ Sound(W, tries, gone, PersistScripts(e))
        /\ \A S : Later(S, c.scripts, t) => ScriptsGoOn(S, c, PersistScripts(e))
        /\ Later(Scripts, c.scripts, t) => Goes(W, tries, gone, c, PersistScripts(e))
        /\ PersistScripts(e).ok => c.ok
        /\ PersistScripts(e).scripts = t
        /\ PersistScripts(e).ok => PersistScripts(e).scriptsFile = t
        /\ PersistScripts(e).queue = c.queue /\ PersistScripts(e).queueFile = c.queueFile
        /\ PersistScripts(e).next = c.next
<1>1. /\ e \in CoreOver(W) /\ e.scripts = t /\ e.scriptsFile = c.scriptsFile /\ e.queue = c.queue
      /\ e.queueFile = c.queueFile /\ e.ok = c.ok /\ e.fuse = c.fuse /\ e.next = c.next
  BY DEF HasScripts, Sound, CoreOver
<1>2. /\ Sound(W, tries, gone, PersistScripts(e))
      /\ \A S : Later(S, c.scripts, e.scripts) => ScriptsGoOn(S, c, PersistScripts(e))
      /\ Later(Scripts, c.scripts, e.scripts) => Goes(W, tries, gone, c, PersistScripts(e))
      /\ PersistScripts(e).ok => c.ok
      /\ PersistScripts(e).scripts = e.scripts
      /\ PersistScripts(e).ok => PersistScripts(e).scriptsFile = e.scripts
      /\ PersistScripts(e).queue = c.queue /\ PersistScripts(e).queueFile = c.queueFile
      /\ PersistScripts(e).next = c.next
  BY <1>1, ScriptsWritten
<1>3. QED BY <1>1, <1>2

(* What an event has done to a script is in memory, and in the file when   *)
(* nothing throws.                                                         *)
HasGot(x, what) == x.owner # Nobody /\ what \subseteq x.seen
Served(c, d, s, event, what) ==
    Runs(c, s) /\ RunHandlers(c.scripts[s].program, c.scripts[s].state, event).ok
        => HasGot(d.scripts[s], what) /\ HasGot(d.scriptsFile[s], what)

LEMMA ExecuteEventKeeps ==
  ASSUME NEW W, NEW tries, NEW gone, NEW c, Sound(W, tries, gone, c),
         NEW s \in Scripts, c.scripts[s].program \in Programs, NEW event, NEW what \in SUBSET W
  PROVE /\ Goes(W, tries, gone, c, ExecuteEvent(c, s, event, what))
        /\ \A t \in Scripts \ {s} : ExecuteEvent(c, s, event, what).scripts[t] = c.scripts[t]
        /\ ExecuteEvent(c, s, event, what).ok => Served(c, ExecuteEvent(c, s, event, what), s, event, what)
<1> DEFINE r == RunHandlers(c.scripts[s].program, c.scripts[s].state, event)
           timer == Timers(r.actions, c.scripts[s].timer)
           seen == c.scripts[s].seen \cup what
           x == [c.scripts[s] EXCEPT !.state = r.state, !.seen = seen, !.timer = timer]
           t == [c.scripts EXCEPT ![s] = x]
<1>1. CASE ~c.ok \/ ~r.ok
  <2>1. ExecuteEvent(c, s, event, what) = c
    BY <1>1 DEF ExecuteEvent
  <2>2. c.ok => Served(c, c, s, event, what)
    BY <1>1 DEF Served
  <2>3. QED BY <2>1, <2>2, NothingGoes
<1>2. CASE c.ok /\ r.ok
  <2>1. ExecuteEvent(c, s, event, what) = PersistScripts([c EXCEPT !.scripts = t])
    BY <1>2 DEF ExecuteEvent
  <2>2. c.scripts[s] \in ScriptOver(W) /\ c.scripts \in [Scripts -> ScriptOver(W)]
    BY DEF Sound, CoreOver
  <2>3. r.state \in States
    <3>1. c.scripts[s].state \in States
      BY <2>2 DEF ScriptOver
    <3>2. QED BY <3>1, RunHandlersTyped DEF Run
  <2>4. timer \in {"off", "set", "due"}
    <3>1. c.scripts[s].timer \in {"off", "set", "due"}
      BY <2>2 DEF ScriptOver
    <3>2. timer \in {c.scripts[s].timer, "set", "off"}
      BY DEF Timers
    <3>3. QED BY <3>1, <3>2
  <2>5. seen \in SUBSET W /\ c.scripts[s].seen \subseteq seen /\ what \subseteq seen
    BY <2>2 DEF ScriptOver
  <2> HIDE DEF r, timer, seen
  <2>6. x \in ScriptOver(W) /\ x.seen = seen /\ x.owner = c.scripts[s].owner
    BY <2>2, <2>3, <2>4, <2>5 DEF ScriptOver
  <2> HIDE DEF x
  <2>7. t \in [Scripts -> ScriptOver(W)] /\ t[s] = x /\ \A u \in Scripts \ {s} : t[u] = c.scripts[u]
    BY <2>2, <2>6
  <2> HIDE DEF t
  <2>8. Later(Scripts, c.scripts, t)
    BY <2>5, <2>6, <2>7 DEF Later
  <2>9. PICK e : HasScripts(c, t, e)
    BY DEF HasScripts
  <2>10. /\ Goes(W, tries, gone, c, PersistScripts(e))
         /\ PersistScripts(e).scripts = t
         /\ PersistScripts(e).ok => PersistScripts(e).scriptsFile = t
    BY <2>7, <2>8, <2>9, ScriptsChanged
  <2>11. PersistScripts(e).ok => Served(c, PersistScripts(e), s, event, what)
    BY <2>5, <2>6, <2>7, <2>10 DEF Served, HasGot, Runs
  <2>12. ExecuteEvent(c, s, event, what) = PersistScripts(e)
    BY <2>1, <2>9 DEF HasScripts
  <2>13. QED BY <2>7, <2>10, <2>11, <2>12
<1>3. QED BY <1>1, <1>2

(* What scripts have seen they keep.                                       *)
LEMMA ServedStays ==
  ASSUME NEW W, NEW tries, NEW gone, NEW b, NEW c, NEW d, NEW s \in Scripts, NEW event, NEW what,
         Served(b, c, s, event, what), Goes(W, tries, gone, c, d)
  PROVE Served(b, d, s, event, what)
BY DEF Served, HasGot, Goes, ScriptsGoOn, Later

LEMMA ApplyKeeps ==
  ASSUME NEW W, NEW tries \in [Nat -> Nat], NEW gone, NEW c, Sound(W, tries, gone, c),
         NEW s \in Scripts, c.scripts[s].owner \in Users, NEW actions, Len(actions) \in Nat
  PROVE /\ Goes(W, tries, gone, c, Apply(c, s, actions))
        /\ SameScripts(c, Apply(c, s, actions))
<1> DEFINE N == Len(actions)
<1>1. PICK h : AppliedBy(c, s, actions, h)
  BY AppliedOneByOne
<1>2. c.scripts[s].object \in Ids
  BY DEF Sound, CoreOver, ScriptOver
<1> DEFINE Q == {n \in 0 .. N : Goes(W, tries, gone, c, h[n]) /\ SameScripts(c, h[n])}
<1>3. 0 \in Q
  BY <1>1, NothingGoes DEF AppliedBy, SameScripts
<1>4. ASSUME NEW n \in 0 .. N - 1, n \in Q
      PROVE n + 1 \in Q
  <2>1. /\ Goes(W, tries, gone, c, h[n]) /\ Sound(W, tries, gone, h[n])
        /\ SameScripts(c, h[n])
    BY <1>4 DEF Goes
  <2>2. n + 1 \in 0 .. N
    OBVIOUS
  <2>3. CASE actions[n + 1] \in WorldActions
    <3>1. PICK type \in WorldActions : type = actions[n + 1]
      BY <2>3
    <3>2. PICK b, object, owner : b = h[n] /\ object = c.scripts[s].object /\ owner = c.scripts[s].owner
      OBVIOUS
    <3>8. Sound(W, tries, gone, b) /\ object \in Ids /\ owner \in Users /\ type \in WorldActions
      BY <1>2, <2>1, <3>1, <3>2
    <3>4. PICK d : d = Enqueue(b, object, owner, s, type)
      OBVIOUS
    <3>3. Goes(W, tries, gone, b, d) /\ SameScripts(b, d)
      BY <3>8, <3>4, EnqueueKeeps
    <3>5. h[n + 1] = d
      BY <1>1, <2>3, <3>1, <3>2, <3>4 DEF AppliedBy
    <3>6. Goes(W, tries, gone, c, d)
      BY <2>1, <3>2, <3>3, GoesAndGoes
    <3>7. SameScripts(c, d)
      BY <2>1, <3>2, <3>3 DEF SameScripts
    <3>9. QED BY <2>2, <3>5, <3>6, <3>7
  <2>4. CASE actions[n + 1] \notin WorldActions
    <3>1. h[n + 1] = h[n]
      BY <1>1, <2>4 DEF AppliedBy
    <3>2. QED BY <2>1, <2>2, <3>1
  <2>5. QED BY <2>3, <2>4
<1>5. N \in Nat
  OBVIOUS
<1>6. \A n \in 0 .. N : n \in Q
  <2> HIDE DEF Q, N
  <2> QED BY <1>3, <1>4, <1>5, UpTo
<1>7. N \in Q
  BY <1>5, <1>6
<1>8. QED BY <1>1, <1>7 DEF AppliedBy

(* The other scripts are as they were.                                     *)
OthersSame(s, c, d) == \A t \in Scripts \ {s} : d.scripts[t] = c.scripts[t]

LEMMA RunScriptKeeps ==
  ASSUME NEW W, NEW tries \in [Nat -> Nat], NEW gone, NEW c, Sound(W, tries, gone, c),
         NEW s \in Scripts, NEW event, NEW what \in SUBSET W
  PROVE /\ Goes(W, tries, gone, c, RunScript(c, s, event, what))
        /\ OthersSame(s, c, RunScript(c, s, event, what))
        /\ RunScript(c, s, event, what).ok => Served(c, RunScript(c, s, event, what), s, event, what)
<1>1. CASE ~c.ok \/ ~Runs(c, s)
  <2>1. RunScript(c, s, event, what) = c
    BY <1>1 DEF RunScript
  <2>2. OthersSame(s, c, c)
    BY DEF OthersSame
  <2>3. c.ok => Served(c, c, s, event, what)
    BY <1>1 DEF Served
  <2>4. Goes(W, tries, gone, c, c)
    BY NothingGoes
  <2>5. QED BY <2>1, <2>2, <2>3, <2>4
<1>2. CASE c.ok /\ Runs(c, s)
  <2> DEFINE actions == Outcome(c.scripts[s].program, c.scripts[s].state, event)
  <2>1. PICK d : d = ExecuteEvent(c, s, event, what)
    OBVIOUS
  <2>2. c.scripts[s] \in ScriptOver(W)
    BY DEF Sound, CoreOver
  <2>3. /\ c.scripts[s].program \in Programs /\ c.scripts[s].owner \in Users
        /\ c.scripts[s].state \in States
    BY <1>2, <2>2 DEF Runs, ScriptOver
  <2>4. Len(actions) \in Nat
    BY <2>3, OutcomeTyped
  <2>5. /\ Goes(W, tries, gone, c, d)
        /\ \A t \in Scripts \ {s} : d.scripts[t] = c.scripts[t]
        /\ d.ok => Served(c, d, s, event, what)
    BY <2>1, <2>3, ExecuteEventKeeps
  <2>6. RunScript(c, s, event, what) = Apply(d, s, actions)
    BY <1>2, <2>1 DEF RunScript
  <2> HIDE DEF actions
  <2>7. Sound(W, tries, gone, d) /\ d.scripts[s].owner \in Users
    BY <2>3, <2>5 DEF Goes, ScriptsGoOn, Later
  <2>8. PICK e : e = Apply(d, s, actions)
    OBVIOUS
  <2>9. Goes(W, tries, gone, d, e) /\ SameScripts(d, e)
    BY <2>4, <2>7, <2>8, ApplyKeeps
  <2>10. Goes(W, tries, gone, c, e)
    BY <2>5, <2>9, GoesAndGoes
  <2>11. OthersSame(s, c, e)
    BY <2>5, <2>9 DEF OthersSame, SameScripts
  <2>12. e.ok => Served(c, e, s, event, what)
    <3>1. e.ok => d.ok
      BY <2>9 DEF Goes
    <3>2. QED BY <2>5, <2>9, <3>1 DEF Served, SameScripts
  <2>13. QED BY <2>6, <2>8, <2>10, <2>11, <2>12
<1>3. QED BY <1>1, <1>2

(* The scripts of an object are each run once: each still as it was, and   *)
(* what those before it have got they keep.                                *)
LEMMA RunScriptsKeep ==
  ASSUME NEW W, NEW tries \in [Nat -> Nat], NEW gone, NEW c, Sound(W, tries, gone, c),
         NEW event, NEW what \in SUBSET W, NEW order, Len(order) \in Nat,
         \A i \in 1 .. Len(order) : order[i] \in Scripts,
         \A i, j \in 1 .. Len(order) : i # j => order[i] # order[j]
  PROVE /\ Goes(W, tries, gone, c, RunScripts(c, order, event, what))
        /\ RunScripts(c, order, event, what).ok =>
              \A i \in 1 .. Len(order) : Served(c, RunScripts(c, order, event, what), order[i], event, what)
<1>1. PICK h : RunBy(c, order, event, what, h)
  BY RunOneByOne
<1>2. PICK N \in Nat : N = Len(order)
  OBVIOUS
<1> DEFINE Q == {n \in 0 .. N :
                    /\ Goes(W, tries, gone, c, h[n])
                    /\ h[n].ok => \A i \in 1 .. n : Served(c, h[n], order[i], event, what)
                    /\ \A i \in n + 1 .. N : h[n].scripts[order[i]] = c.scripts[order[i]]}
<1>3. 0 \in Q
  <2>1. h[0] = c
    BY <1>1 DEF RunBy
  <2>2. Goes(W, tries, gone, c, c)
    BY NothingGoes
  <2>3. 0 \in 0 .. N /\ \A i \in 1 .. 0 : FALSE
    OBVIOUS
  <2>4. QED BY <2>1, <2>2, <2>3
<1>4. ASSUME NEW n \in 0 .. N - 1, n \in Q
      PROVE n + 1 \in Q
  <2>1. n + 1 \in 1 .. N /\ n \in Nat
    BY <1>2
  <2>2. PICK b, d, s : b = h[n] /\ d = h[n + 1] /\ s = order[n + 1]
    OBVIOUS
  <2>3. d = RunScript(b, s, event, what)
    BY <1>1, <1>2, <2>2 DEF RunBy
  <2>4. s \in Scripts
    BY <1>2, <2>1, <2>2
  <2>5. Goes(W, tries, gone, c, b) /\ Sound(W, tries, gone, b)
    BY <1>4, <2>2 DEF Goes
  <2>6. /\ Goes(W, tries, gone, b, d)
        /\ OthersSame(s, b, d)
        /\ d.ok => Served(b, d, s, event, what)
    BY <2>3, <2>4, <2>5, RunScriptKeeps
  <2>7. Goes(W, tries, gone, c, d)
    BY <2>5, <2>6, GoesAndGoes
  <2>8. b.scripts[s] = c.scripts[s]
    <3>1. \A i \in n + 1 .. N : b.scripts[order[i]] = c.scripts[order[i]]
      BY <1>4, <2>2
    <3>2. n + 1 \in n + 1 .. N
      BY <2>1
    <3>3. QED BY <3>1, <3>2, <2>2
  <2>9. ASSUME d.ok, NEW i \in 1 .. n + 1
        PROVE Served(c, d, order[i], event, what)
    <3>1. CASE i = n + 1
      <4>1. Served(b, d, s, event, what)
        BY <2>6, <2>9
      <4>2. Served(c, d, s, event, what)
        BY <2>8, <4>1 DEF Served, Runs
      <4>3. QED BY <2>2, <3>1, <4>2
    <3>2. CASE i # n + 1
      <4>1. i \in 1 .. n /\ i \in 1 .. N
        BY <2>1, <3>2
      <4>2. b.ok
        BY <2>6, <2>9 DEF Goes
      <4>3. Served(c, b, order[i], event, what)
        BY <1>4, <2>2, <4>1, <4>2
      <4>4. order[i] \in Scripts
        BY <1>2, <4>1
      <4>5. QED BY <2>6, <4>3, <4>4, ServedStays
    <3>3. QED BY <3>1, <3>2
  <2>10. ASSUME NEW i \in n + 2 .. N
         PROVE d.scripts[order[i]] = c.scripts[order[i]]
    <3>1. i \in n + 1 .. N /\ i \in 1 .. N /\ i # n + 1
      BY <2>1
    <3>2. order[i] \in Scripts \ {s}
      BY <1>2, <2>1, <2>2, <3>1
    <3>3. b.scripts[order[i]] = c.scripts[order[i]]
      BY <1>4, <2>2, <3>1
    <3>4. QED BY <2>6, <3>2, <3>3 DEF OthersSame
  <2>11. n + 1 \in 0 .. N /\ n + 1 + 1 = n + 2
    BY <2>1
  <2>12. QED BY <2>2, <2>7, <2>9, <2>10, <2>11
<1>5. \A n \in 0 .. N : n \in Q
  <2> HIDE DEF Q
  <2> QED BY <1>2, <1>3, <1>4, UpTo
<1>6. N \in Q
  <2>1. N \in 0 .. N
    OBVIOUS
  <2> HIDE DEF Q
  <2>2. QED BY <1>5, <2>1
<1>7. RunScripts(c, order, event, what) = h[N]
  BY <1>1, <1>2 DEF RunBy
<1>8. QED BY <1>2, <1>6, <1>7

HasScript(c, s, x, d) == d = PersistScripts([c EXCEPT !.scripts = [c.scripts EXCEPT ![s] = x]])

IsNow(s, x, d) == d.scripts[s] = x /\ (d.ok => d.scriptsFile[s] = x)

LEMMA OneScriptChanged ==
  ASSUME NEW W, NEW tries, NEW gone, NEW c, Sound(W, tries, gone, c), NEW s \in Scripts,
         NEW x \in ScriptOver(W), NEW d, HasScript(c, s, x, d)
  PROVE /\ Sound(W, tries, gone, d)
        /\ ScriptsGoOn(Scripts \ {s}, c, d)
        /\ x.owner = c.scripts[s].owner /\ c.scripts[s].seen \subseteq x.seen => Goes(W, tries, gone, c, d)
        /\ d.ok => c.ok
        /\ IsNow(s, x, d)
        /\ SameNext(c, d)
<1> DEFINE t == [c.scripts EXCEPT ![s] = x]
<1>1. PICK e : HasScripts(c, t, e)
  BY DEF HasScripts
<1>2. d = PersistScripts(e)
  BY <1>1 DEF HasScripts, HasScript
<1>3. c.scripts \in [Scripts -> ScriptOver(W)]
  BY DEF Sound, CoreOver
<1>4. t \in [Scripts -> ScriptOver(W)] /\ t[s] = x /\ \A u \in Scripts \ {s} : t[u] = c.scripts[u]
  BY <1>3
<1> HIDE DEF t
<1>5. Later(Scripts \ {s}, c.scripts, t)
  BY <1>4 DEF Later
<1>6. x.owner = c.scripts[s].owner /\ c.scripts[s].seen \subseteq x.seen => Later(Scripts, c.scripts, t)
  BY <1>4 DEF Later
<1>7. /\ Sound(W, tries, gone, PersistScripts(e))
      /\ \A S : Later(S, c.scripts, t) => ScriptsGoOn(S, c, PersistScripts(e))
      /\ Later(Scripts, c.scripts, t) => Goes(W, tries, gone, c, PersistScripts(e))
      /\ PersistScripts(e).ok => c.ok
      /\ PersistScripts(e).scripts = t
      /\ PersistScripts(e).ok => PersistScripts(e).scriptsFile = t
      /\ PersistScripts(e).queue = c.queue /\ PersistScripts(e).queueFile = c.queueFile
      /\ PersistScripts(e).next = c.next
  BY <1>1, <1>4, ScriptsChanged
<1>8. QED BY <1>2, <1>4, <1>5, <1>6, <1>7 DEF IsNow, SameNext

Got(s, what, d) == what \subseteq d.scripts[s].seen /\ (d.ok => d.scriptsFile[s] = d.scripts[s])

LEMMA ResultKeeps ==
  ASSUME NEW W, NEW tries, NEW gone, NEW c, Sound(W, tries, gone, c), NEW s \in Scripts, NEW what \in SUBSET W
  PROVE /\ Goes(W, tries, gone, c, ApplyWorldResult(c, s, what))
        /\ SameNext(c, ApplyWorldResult(c, s, what))
        /\ Got(s, what, ApplyWorldResult(c, s, what))
<1> DEFINE x == [c.scripts[s] EXCEPT !.seen = @ \cup what]
<1>1. PICK d : d = ApplyWorldResult(c, s, what)
  OBVIOUS
<1>7. HasScript(c, s, x, d)
  BY <1>1 DEF ApplyWorldResult, HasScript
<1>2. c.scripts[s] \in ScriptOver(W)
  BY DEF Sound, CoreOver
<1>3. /\ x \in ScriptOver(W) /\ x.owner = c.scripts[s].owner
      /\ c.scripts[s].seen \subseteq x.seen /\ what \subseteq x.seen
  BY <1>2 DEF ScriptOver
<1> HIDE DEF x
<1>5. /\ Sound(W, tries, gone, d)
      /\ ScriptsGoOn(Scripts \ {s}, c, d)
      /\ x.owner = c.scripts[s].owner /\ c.scripts[s].seen \subseteq x.seen => Goes(W, tries, gone, c, d)
      /\ d.ok => c.ok
      /\ IsNow(s, x, d)
      /\ SameNext(c, d)
  BY <1>3, <1>7, OneScriptChanged
<1>6. QED BY <1>1, <1>3, <1>5 DEF IsNow, Got

LEMMA DueTimersKeep ==
  ASSUME NEW W, NEW tries, NEW gone, NEW c, Sound(W, tries, gone, c)
  PROVE Goes(W, tries, gone, c, DueTimers(c))
<1> DEFINE none == ~c.ok \/ {s \in Scripts : c.scripts[s].timer = "due"} = {}
           t == [s \in Scripts |-> [c.scripts[s] EXCEPT !.timer = IF @ = "due" THEN "set" ELSE @]]
<1>1. CASE none
  <2>1. DueTimers(c) = c
    BY <1>1 DEF DueTimers
  <2>2. QED BY <2>1, NothingGoes
<1>2. CASE ~none
  <2>1. DueTimers(c) = PersistScripts([c EXCEPT !.scripts = t])
    BY <1>2 DEF DueTimers
  <2>2. c.scripts \in [Scripts -> ScriptOver(W)]
    BY DEF Sound, CoreOver
  <2>3. ASSUME NEW s \in Scripts
        PROVE t[s] \in ScriptOver(W) /\ t[s].owner = c.scripts[s].owner /\ t[s].seen = c.scripts[s].seen
    <3>1. PICK timer : timer = IF c.scripts[s].timer = "due" THEN "set" ELSE c.scripts[s].timer
      OBVIOUS
    <3>2. t[s] = [c.scripts[s] EXCEPT !.timer = timer]
      BY <3>1
    <3> HIDE DEF t
    <3>3. c.scripts[s] \in ScriptOver(W)
      BY <2>2
    <3>4. timer \in {"off", "set", "due"}
      BY <3>1, <3>3 DEF ScriptOver
    <3>5. QED BY <3>2, <3>3, <3>4 DEF ScriptOver
  <2>4. t \in [Scripts -> ScriptOver(W)]
    BY <2>3
  <2> HIDE DEF t
  <2>5. Later(Scripts, c.scripts, t)
    BY <2>3 DEF Later
  <2>6. PICK e : HasScripts(c, t, e)
    BY DEF HasScripts
  <2>7. Later(Scripts, c.scripts, t) => Goes(W, tries, gone, c, PersistScripts(e))
    BY <2>4, <2>6, ScriptsChanged
  <2>8. DueTimers(c) = PersistScripts(e)
    BY <2>1, <2>6 DEF HasScripts
  <2>9. QED BY <2>5, <2>7, <2>8
<1>3. QED BY <1>1, <1>2

(* A script is written: the others go on.                                  *)
Sources == Programs \cup {<<>>}
Written(c, u, s, id, program) ==
    LET new == Upsert(c, s, [NoScript EXCEPT !.owner = u, !.object = id])
    IN IF program # <<>> THEN RunScript(SetProgram(new, s, program), s, "state_entry", {})
       ELSE RemoveScript(new, s)

LEMMA WrittenKeeps ==
  ASSUME NEW W, NEW tries \in [Nat -> Nat], NEW gone, NEW c, Sound(W, tries, gone, c),
         NEW u \in Users, NEW s \in Scripts, NEW id \in Ids, NEW program \in Sources
  PROVE /\ Sound(W, tries, gone, Written(c, u, s, id, program))
        /\ ScriptsGoOn(Scripts \ {s}, c, Written(c, u, s, id, program))
        /\ c.next <= Written(c, u, s, id, program).next
<1> DEFINE x == [NoScript EXCEPT !.owner = u, !.object = id]
<1>1. PICK new : new = Upsert(c, s, x)
  OBVIOUS
<1>2. NoScript \in ScriptOver(W)
  <2>1. 1 \in Ids
    <3>1. Cardinality(Ids) \in Nat /\ Cardinality(Ids) # 0
      BY IdsAssumption, FS_CardinalityType, FS_EmptySet
    <3>2. QED BY <3>1, IdsAssumption
  <2>2. QED BY <2>1 DEF ScriptOver, NoScript, States
<1>10. x \in ScriptOver(W)
  BY <1>2 DEF ScriptOver
<1>3. HasScript(c, s, x, new)
  BY <1>1 DEF Upsert, HasScript
<1> HIDE DEF x
<1>4. /\ Sound(W, tries, gone, new) /\ ScriptsGoOn(Scripts \ {s}, c, new)
      /\ IsNow(s, x, new) /\ SameNext(c, new)
  BY <1>10, <1>3, OneScriptChanged
<1>5. c.next \in Nat /\ c.next <= new.next
  BY <1>4 DEF Sound, CoreOver, SameNext
<1>6. ASSUME NEW d, SameNext(new, d), ScriptsGoOn(Scripts \ {s}, new, d)
      PROVE ScriptsGoOn(Scripts \ {s}, c, d) /\ c.next <= d.next
  BY <1>4, <1>5, <1>6, GoOnAndOn DEF SameNext
<1>7. CASE program # <<>>
  <2>1. PICK d : d = SetProgram(new, s, program)
    OBVIOUS
  <2>2. Sound(W, tries, gone, d) /\ ScriptsGoOn(Scripts \ {s}, new, d) /\ SameNext(new, d)
    <3>1. CASE ~new.ok
      <4>1. d = new
        BY <2>1, <3>1 DEF SetProgram
      <4>2. QED BY <1>4, <4>1 DEF ScriptsGoOn, Later, SameNext
    <3>2. CASE new.ok
      <4> DEFINE y == [new.scripts[s] EXCEPT !.program = program]
      <4>1. HasScript(new, s, y, d)
        BY <2>1, <3>2 DEF SetProgram, HasScript
      <4>2. new.scripts[s] \in ScriptOver(W)
        BY <1>4 DEF Sound, CoreOver
      <4>3. y \in ScriptOver(W)
        BY <4>2 DEF ScriptOver, Sources
      <4> HIDE DEF y
      <4>4. /\ Sound(W, tries, gone, d) /\ ScriptsGoOn(Scripts \ {s}, new, d)
            /\ IsNow(s, y, d) /\ SameNext(new, d)
        BY <1>4, <4>1, <4>3, OneScriptChanged
      <4>5. QED BY <4>4
    <3>3. QED BY <3>1, <3>2
  <2>3. PICK e : e = RunScript(d, s, "state_entry", {})
    OBVIOUS
  <2>4. Goes(W, tries, gone, d, e)
    <3>1. {} \in SUBSET W
      OBVIOUS
    <3>2. QED BY <2>2, <2>3, <3>1, RunScriptKeeps
  <2>5. Sound(W, tries, gone, e) /\ d.next <= e.next /\ ScriptsGoOn(Scripts \ {s}, d, e)
    BY <2>4 DEF Goes, ScriptsGoOn, Later
  <2>6. ScriptsGoOn(Scripts \ {s}, c, d) /\ c.next <= d.next
    BY <1>6, <2>2
  <2>7. ScriptsGoOn(Scripts \ {s}, c, e)
    BY <2>5, <2>6, GoOnAndOn
  <2>8. c.next <= e.next
    <3>1. d.next \in Nat
      BY <2>2 DEF Sound, CoreOver
    <3>2. e.next \in Nat
      BY <2>5 DEF Sound, CoreOver
    <3>3. c.next \in Nat
      BY <1>5
    <3>4. c.next <= d.next
      BY <2>6
    <3>5. d.next <= e.next
      BY <2>5
    <3>6. QED BY <3>1, <3>2, <3>3, <3>4, <3>5
  <2>9. Written(c, u, s, id, program) = e
    BY <1>1, <1>7, <2>1, <2>3 DEF Written, x
  <2>10. QED BY <2>5, <2>7, <2>8, <2>9
<1>8. CASE program = <<>>
  <2>1. PICK d : d = RemoveScript(new, s)
    OBVIOUS
  <2>2. Sound(W, tries, gone, d) /\ ScriptsGoOn(Scripts \ {s}, new, d) /\ SameNext(new, d)
    <3>1. CASE ~new.ok
      <4>1. d = new
        BY <2>1, <3>1 DEF RemoveScript
      <4>2. QED BY <1>4, <4>1 DEF ScriptsGoOn, Later, SameNext
    <3>2. CASE new.ok
      <4>1. HasScript(new, s, NoScript, d)
        BY <2>1, <3>2 DEF RemoveScript, HasScript
      <4>2. /\ Sound(W, tries, gone, d) /\ ScriptsGoOn(Scripts \ {s}, new, d)
            /\ IsNow(s, NoScript, d) /\ SameNext(new, d)
        BY <1>2, <1>4, <4>1, OneScriptChanged
      <4>3. QED BY <4>2
    <3>3. QED BY <3>1, <3>2
  <2>3. ScriptsGoOn(Scripts \ {s}, c, d) /\ c.next <= d.next
    BY <1>6, <2>2
  <2>4. Written(c, u, s, id, program) = d
    BY <1>1, <1>8, <2>1 DEF Written, x
  <2>5. QED BY <2>2, <2>3, <2>4
<1>9. QED BY <1>7, <1>8

----------------------------------------------------------------------------
(* The connection.  At most one message of the open connection is on its   *)
(* way to the Core or served by its thread, and the World then has nothing *)
(* in hand.                                                                *)
Stages == {"idle", "polled", "sent", "told"}
ConnOver(R) == [open: BOOLEAN, generation: Nat, stage: Stages, reply: R]
ConnInv ==
    /\ \E R : conn \in ConnOver(R)
    /\ registered \in {0, conn.generation}
    /\ \A f \in frames : f.generation \in 1 .. conn.generation
    /\ \A m \in serving : m.frame.generation \in 1 .. conn.generation
    /\ \A f \in frames : conn.open /\ f.generation = conn.generation =>
          /\ conn.reply.kind = "none" /\ conn.stage # "idle"
          /\ \A g \in frames : g.generation = conn.generation => g = f
          /\ \A m \in serving : m.frame.generation # conn.generation
    /\ \A m \in serving : conn.open /\ m.frame.generation = conn.generation =>
          /\ conn.reply.kind = "none" /\ conn.stage # "idle"
          /\ \A n \in serving : n.frame.generation = conn.generation => n = m
    /\ IF conn.open THEN conn.generation # 0 ELSE conn.reply.kind = "none"

(* No message of the open connection is with the Core.                     *)
NoneWaits == /\ \A f \in frames : f.generation # conn.generation
             /\ \A m \in serving : m.frame.generation # conn.generation

(* No action comes into the World's hand.                                  *)
HandKept == InHand(conn') => InHand(conn) /\ conn'.reply.action = conn.reply.action

LEMMA ConnUnchanged ==
  ASSUME ConnInv, UNCHANGED <<registered, frames, serving, conn>>
  PROVE ConnInv' /\ HandKept
BY DEF ConnInv, HandKept

LEMMA UnconnectedIs ==
  ASSUME NEW R, NEW c \in ConnOver(R)
  PROVE /\ \E T : Unconnected(c) \in ConnOver(T)
        /\ ~Unconnected(c).open /\ Unconnected(c).generation = c.generation
        /\ Unconnected(c).reply.kind = "none"
<1>1. Unconnected(c) \in ConnOver(R \cup {NoReply})
  BY DEF Unconnected, ConnOver, Stages
<1>2. Unconnected(c).open = FALSE /\ Unconnected(c).generation = c.generation
      /\ Unconnected(c).reply = NoReply
  BY DEF Unconnected, ConnOver
<1>3. QED BY <1>1, <1>2 DEF NoReply

LEMMA ConnHangs ==
  ASSUME ConnInv, NEW f, Hangs(f), frames' \subseteq frames, serving' \subseteq serving, registered' = registered
  PROVE ConnInv' /\ HandKept
<1>1. CASE conn.generation = f.generation
  <2>1. conn' = Unconnected(conn)
    BY <1>1 DEF Hangs
  <2>2. /\ \E T : conn' \in ConnOver(T)
        /\ ~conn'.open /\ conn'.generation = conn.generation /\ conn'.reply.kind = "none"
    BY <2>1, UnconnectedIs DEF ConnInv
  <2>3. QED BY <2>2 DEF ConnInv, HandKept, InHand
<1>2. CASE conn.generation # f.generation
  BY <1>2 DEF Hangs, ConnInv, HandKept
<1>3. QED BY <1>1, <1>2

(* The message is the last of its connection that the Core has, if that is *)
(* the open one.                                                           *)
IsLast(f) ==
    /\ frames' \subseteq frames /\ serving' \subseteq serving
    /\ conn.open /\ f.generation = conn.generation =>
          /\ conn.reply.kind = "none"
          /\ \A g \in frames' : g.generation # conn.generation
          /\ \A n \in serving' : n.frame.generation # conn.generation

LEMMA CheckedIsLast ==
  ASSUME ConnInv, NEW f \in frames, frames' = frames \ {f}, serving' = serving
  PROVE IsLast(f)
BY DEF ConnInv, IsLast

LEMMA FinishedIsLast ==
  ASSUME ConnInv, NEW m \in serving, Finished(m)
  PROVE IsLast(m.frame)
BY DEF ConnInv, IsLast, Finished

LEMMA ConnAnswers ==
  ASSUME ConnInv, NEW f, NEW reply, Answer(f, reply), IsLast(f), registered' = registered
  PROVE /\ ConnInv'
        /\ \/ conn' = conn
           \/ ~InHand(conn) /\ conn'.reply = reply
<1>1. CASE conn.generation = f.generation /\ conn.open
  <2>1. conn' = [conn EXCEPT !.reply = reply]
    BY <1>1 DEF Answer
  <2>2. PICK R : conn \in ConnOver(R)
    BY DEF ConnInv
  <2>3. conn' \in ConnOver(R \cup {reply})
    BY <2>1, <2>2 DEF ConnOver
  <2>4. /\ conn'.open = conn.open /\ conn'.generation = conn.generation
        /\ conn'.stage = conn.stage /\ conn'.reply = reply
    BY <2>1, <2>2 DEF ConnOver
  <2>5. /\ frames' \subseteq frames /\ serving' \subseteq serving /\ conn.reply.kind = "none"
        /\ \A g \in frames' : g.generation # conn'.generation
        /\ \A n \in serving' : n.frame.generation # conn'.generation
    BY <1>1, <2>4 DEF IsLast
  <2>6. ConnInv'
    BY <1>1, <2>3, <2>4, <2>5 DEF ConnInv
  <2>7. ~InHand(conn)
    BY <2>5 DEF InHand
  <2>8. QED BY <2>4, <2>6, <2>7
<1>2. CASE ~(conn.generation = f.generation /\ conn.open)
  <2>1. conn' = conn /\ frames' \subseteq frames /\ serving' \subseteq serving
    BY <1>2 DEF Answer, IsLast
  <2>2. QED BY <2>1 DEF ConnInv
<1>3. QED BY <1>1, <1>2

(* An answer that is no action.                                            *)
LEMMA ConnAnswersOther ==
  ASSUME ConnInv, NEW f, NEW reply, Answer(f, reply), IsLast(f), ~InHand([reply |-> reply]),
         registered' = registered
  PROVE ConnInv' /\ HandKept
<1>1. /\ ConnInv'
      /\ \/ conn' = conn
         \/ ~InHand(conn) /\ conn'.reply = reply
  BY ConnAnswers
<1>2. QED BY <1>1 DEF HandKept, InHand

LEMMA ConnSends ==
  ASSUME ConnInv, NEW frame, frame.generation = conn.generation, NEW stage \in Stages \ {"idle"},
         Sends(frame, stage), conn.open, conn.generation # 0,
         conn.stage = "idle" \/ conn.reply.kind # "none", UNCHANGED <<registered, serving>>
  PROVE ConnInv' /\ ~InHand(conn')
<1>1. conn' = [conn EXCEPT !.stage = stage, !.reply = NoReply] /\ frames' = frames \cup {frame}
  BY DEF Sends
<1>2. PICK R : conn \in ConnOver(R)
  BY DEF ConnInv
<1>3. conn' \in ConnOver(R \cup {NoReply})
  BY <1>1, <1>2 DEF ConnOver
<1>4. /\ conn'.open = conn.open /\ conn'.generation = conn.generation
      /\ conn'.stage = stage /\ conn'.reply = NoReply
  BY <1>1, <1>2 DEF ConnOver
<1>5. conn'.reply.kind = "none"
  BY <1>4 DEF NoReply
<1>6. NoneWaits
  BY DEF ConnInv, NoneWaits
<1>7. frame.generation \in 1 .. conn.generation
  BY <1>2 DEF ConnOver
<1>8. ConnInv'
  BY <1>1, <1>3, <1>4, <1>5, <1>6, <1>7 DEF ConnInv, NoneWaits
<1>9. QED BY <1>5, <1>8 DEF InHand

----------------------------------------------------------------------------
(* The inductive invariant.  A try of an action is one that was applied or *)
(* is in the World's hand.                                                 *)
InTheHand(c, id) == IF InHand(c) /\ c.reply.action.id = id THEN 1 ELSE 0
TriesOf(ap, c) == [id \in Nat |-> IF id \in Actions THEN ap[id] + InTheHand(c, id) ELSE 0]

CoreSound(W, k, ap, c, gone) ==
    /\ ap \in [Actions -> Nat] /\ gone \subseteq Actions
    /\ Sound(W, TriesOf(ap, c), gone, k)
    /\ \A id \in Nat : TriesOf(ap, c)[id] <= MaxAttempts
    /\ k.ok /\ k.fuse = 0 /\ NextBounded(k)
HandSound(k, c, gone) ==
    InHand(c) => c.reply.action \in Entry /\ c.reply.action.id < k.next /\ c.reply.action.id \notin gone
KeptSound(k, given) ==
    \A g \in given : /\ g[1] \in Scripts
                     /\ HasGot(k.scripts[g[1]], {g[2]}) /\ HasGot(k.scriptsFile[g[1]], {g[2]})

CoreInv == (\E W : CoreSound(W, core, applied, conn, over)) /\ HandSound(core, conn, over)

(* What threads of the Core are at work on; a thread that has given an     *)
(* answer to a script will say so when it confirms the action.             *)
ServedOver(F) == [frame: F, action: ScriptWorldAction \cup {Nothing}, stage: {"checked", "good", "bad"}]
ServingSound ==
    \A m \in serving : /\ \E F : m \in ServedOver(F)
                       /\ IF m.frame.kind = "result" THEN m.action \in ScriptWorldAction ELSE m.action = Nothing
WillTell(m) == m.frame.kind = "result" /\ m.stage = "good" /\ m.action.type = "query"
Promised(S) == {<<m.action.script, <<0, m.action.id>>>> : m \in {n \in S : WillTell(n)}}
Told == acked \cup Promised(serving)

Inv == ConnInv /\ CoreInv /\ KeptSound(core, Told) /\ ServingSound

LEMMA FewerServed ==
  ASSUME Inv, serving' \subseteq serving, acked' = acked
  PROVE ServingSound' /\ Told' \subseteq Told
<1>1. ServingSound'
  BY DEF Inv, ServingSound
<1>2. Promised(serving') \subseteq Promised(serving)
  BY DEF Promised
<1>3. Told' = acked' \cup Promised(serving')
  BY DEF Told, Promised, WillTell
<1>4. QED BY <1>1, <1>2, <1>3 DEF Told

LEMMA KeptOfFewer ==
  ASSUME NEW c, NEW given, KeptSound(c, given), NEW fewer \in SUBSET given
  PROVE KeptSound(c, fewer)
BY DEF KeptSound

LEMMA InActions ==
  ASSUME NEW k, k.next \in Nat, NextBounded(k), NEW id \in Nat \ {0}, id < k.next
  PROVE id \in Actions
<1>1. Cardinality(Actions) \in Nat /\ k.next <= Cardinality(Actions) + 1
  BY ActionsAssumption, FS_CardinalityType DEF NextBounded
<1>2. id \in 1 .. Cardinality(Actions)
  BY <1>1
<1>3. QED BY <1>2, ActionsAssumption

LEMMA TriesTyped ==
  ASSUME NEW ap \in [Actions -> Nat], NEW c
  PROVE TriesOf(ap, c) \in [Nat -> Nat]
<1>1. \A id \in Nat : InTheHand(c, id) \in Nat
  BY DEF InTheHand
<1>2. \A id \in Nat : TriesOf(ap, c)[id] \in Nat
  <2>1. SUFFICES ASSUME NEW id \in Nat PROVE TriesOf(ap, c)[id] \in Nat
    OBVIOUS
  <2>2. PICK n \in Nat : n = InTheHand(c, id)
    BY <1>1
  <2>3. TriesOf(ap, c)[id] = IF id \in Actions THEN ap[id] + n ELSE 0
    BY <2>2 DEF TriesOf
  <2>4. QED BY <2>3
<1>3. DOMAIN TriesOf(ap, c) = Nat /\ TriesOf(ap, c) = [id \in Nat |-> TriesOf(ap, c)[id]]
  BY DEF TriesOf
<1>4. QED BY <1>2, <1>3

LEMMA FewerTries ==
  ASSUME NEW ap \in [Actions -> Nat], NEW c, NEW d,
         InHand(d) => InHand(c) /\ d.reply.action = c.reply.action
  PROVE \A id \in Nat : TriesOf(ap, d)[id] <= TriesOf(ap, c)[id]
<1>1. SUFFICES ASSUME NEW id \in Nat PROVE TriesOf(ap, d)[id] <= TriesOf(ap, c)[id]
  OBVIOUS
<1>2. PICK m \in Nat, n \in Nat : m = InTheHand(d, id) /\ n = InTheHand(c, id) /\ m <= n
  BY DEF InTheHand
<1>3. /\ TriesOf(ap, d)[id] = IF id \in Actions THEN ap[id] + m ELSE 0
      /\ TriesOf(ap, c)[id] = IF id \in Actions THEN ap[id] + n ELSE 0
  BY <1>2 DEF TriesOf
<1>4. QED BY <1>2, <1>3

(* What the scripts may have seen may grow, the tries may be fewer.        *)
LEMMA SoundFewer ==
  ASSUME NEW W, NEW tries \in [Nat -> Nat], NEW fewer \in [Nat -> Nat], NEW gone, NEW c,
         Sound(W, tries, gone, c), \A id \in Nat : fewer[id] <= tries[id]
  PROVE Sound(W, fewer, gone, c)
<1>1. c \in CoreOver(W) /\ StoresSound(c, tries, gone)
  BY DEF Sound
<1>2. ASSUME NEW q \in {c.queue, c.queueFile}, QueueSound(q, c.next, tries, gone)
      PROVE QueueSound(q, c.next, fewer, gone)
  <2>1. \A a \in q : a.id \in Nat /\ a.attempts \in Nat
    <3>1. q \in SUBSET Entry
      BY <1>1 DEF CoreOver
    <3>2. QED BY <3>1, QueueAssumption DEF Entry
  <2>2. \A a \in q : fewer[a.id] \in Nat /\ tries[a.id] \in Nat /\ fewer[a.id] <= tries[a.id]
    BY <2>1
  <2>3. \A a \in q : fewer[a.id] <= a.attempts
    BY <1>2, <2>1, <2>2 DEF QueueSound
  <2>4. QED BY <1>2, <2>3 DEF QueueSound
<1>3. \A id \in Nat : id >= c.next => fewer[id] = 0 /\ id \notin gone
  <2>1. SUFFICES ASSUME NEW id \in Nat, id >= c.next PROVE fewer[id] = 0 /\ id \notin gone
    OBVIOUS
  <2>2. tries[id] = 0 /\ id \notin gone
    BY <1>1, <2>1 DEF StoresSound
  <2>3. fewer[id] \in Nat /\ fewer[id] <= tries[id]
    OBVIOUS
  <2>4. QED BY <2>2, <2>3
<1>4. QED BY <1>1, <1>2, <1>3 DEF Sound, StoresSound

LEMMA SoundWider ==
  ASSUME NEW W, NEW V, W \subseteq V, NEW tries, NEW gone, NEW c, Sound(W, tries, gone, c)
  PROVE Sound(V, tries, gone, c)
<1>1. c \in CoreOver(W) /\ StoresSound(c, tries, gone)
  BY DEF Sound
<1>2. \A x : x \in ScriptOver(W) => x \in ScriptOver(V)
  BY DEF ScriptOver
<1>3. \A t : t \in [Scripts -> ScriptOver(W)] => t \in [Scripts -> ScriptOver(V)]
  BY <1>2
<1>4. c \in CoreOver(V)
  BY <1>1, <1>3 DEF CoreOver
<1>5. QED BY <1>1, <1>4 DEF Sound

(* The same stores but for the fuse.                                       *)
SameStores(c, d) == /\ SameScripts(c, d) /\ SameNext(c, d)
                    /\ d.queue = c.queue /\ d.queueFile = c.queueFile
IsFused(c, fuse, d) == d = [c EXCEPT !.fuse = fuse]

LEMMA FusedIs ==
  ASSUME NEW W, NEW tries, NEW gone, NEW c, Sound(W, tries, gone, c), c.ok, NEW fuse \in Nat,
         NEW d, IsFused(c, fuse, d)
  PROVE Sound(W, tries, gone, d) /\ SameStores(c, d) /\ d.ok
<1>1. c \in CoreOver(W) /\ StoresSound(c, tries, gone)
  BY DEF Sound
<1>2. d \in CoreOver(W)
  BY <1>1 DEF CoreOver, IsFused
<1>3. d.ok /\ SameStores(c, d)
  BY <1>1 DEF CoreOver, IsFused, SameStores, SameScripts, SameNext
<1>4. StoresSound(d, tries, gone)
  BY <1>1, <1>3 DEF StoresSound, SameStores, SameNext
<1>5. QED BY <1>2, <1>3, <1>4 DEF Sound

LEMMA SettledIs ==
  ASSUME NEW W, NEW tries, NEW gone, NEW c, Sound(W, tries, gone, c)
  PROVE /\ Sound(W, tries, gone, Settled(c)) /\ SameStores(c, Settled(c))
        /\ Settled(c).ok /\ Settled(c).fuse = 0
<1>1. c \in CoreOver(W) /\ StoresSound(c, tries, gone)
  BY DEF Sound
<1>2. Settled(c) \in CoreOver(W)
  BY <1>1 DEF CoreOver, Settled
<1>3. Settled(c).ok /\ Settled(c).fuse = 0 /\ SameStores(c, Settled(c))
  BY <1>1 DEF CoreOver, Settled, SameStores, SameScripts, SameNext
<1>4. StoresSound(Settled(c), tries, gone)
  BY <1>1, <1>3 DEF StoresSound, SameStores, SameNext
<1>5. QED BY <1>2, <1>3, <1>4 DEF Sound

LEMMA KeptGoesOn ==
  ASSUME NEW c, NEW d, NEW given, KeptSound(c, given), ScriptsGoOn(Scripts, c, d)
  PROVE KeptSound(d, given)
<1>1. SUFFICES ASSUME NEW g \in given
               PROVE /\ g[1] \in Scripts
                     /\ HasGot(d.scripts[g[1]], {g[2]}) /\ HasGot(d.scriptsFile[g[1]], {g[2]})
  BY DEF KeptSound
<1>2. /\ g[1] \in Scripts
      /\ HasGot(c.scripts[g[1]], {g[2]}) /\ HasGot(c.scriptsFile[g[1]], {g[2]})
  BY DEF KeptSound
<1>3. QED BY <1>2 DEF HasGot, ScriptsGoOn, Later

(* Less in the World's hand.                                               *)
LEMMA HandEmptier ==
  ASSUME NEW W, NEW k, NEW ap, NEW c, NEW gone, CoreSound(W, k, ap, c, gone), HandSound(k, c, gone),
         NEW d, InHand(d) => InHand(c) /\ d.reply.action = c.reply.action
  PROVE CoreSound(W, k, ap, d, gone) /\ HandSound(k, d, gone)
<1>1. /\ ap \in [Actions -> Nat] /\ Sound(W, TriesOf(ap, c), gone, k)
      /\ \A id \in Nat : TriesOf(ap, c)[id] <= MaxAttempts
  BY DEF CoreSound
<1>2. /\ TriesOf(ap, c) \in [Nat -> Nat] /\ TriesOf(ap, d) \in [Nat -> Nat]
      /\ \A id \in Nat : TriesOf(ap, d)[id] <= TriesOf(ap, c)[id]
  BY <1>1, TriesTyped, FewerTries
<1>3. Sound(W, TriesOf(ap, d), gone, k)
  BY <1>1, <1>2, SoundFewer
<1>4. \A id \in Nat : TriesOf(ap, d)[id] <= MaxAttempts
  <2>1. SUFFICES ASSUME NEW id \in Nat PROVE TriesOf(ap, d)[id] <= MaxAttempts
    OBVIOUS
  <2>2. PICK m \in Nat, n \in Nat : m = TriesOf(ap, d)[id] /\ n = TriesOf(ap, c)[id]
    BY <1>2
  <2>3. m <= n /\ n <= MaxAttempts
    BY <1>1, <1>2, <2>2
  <2>4. QED BY <2>2, <2>3, QueueAssumption
<1>5. QED BY <1>3, <1>4 DEF CoreSound, HandSound

(* A step of the Core that gives nothing into the World's hand, and one    *)
(* that is none.                                                           *)
LEMMA CoreMoves ==
  ASSUME NEW W, CoreSound(W, core, applied, conn, over), HandSound(core, conn, over), HandKept,
         UNCHANGED <<applied, over>>,
         NEW V, NEW d, Sound(V, TriesOf(applied, conn), over, d), core.next <= d.next, NextBounded(d),
         core' = Settled(d)
  PROVE CoreInv'
<1>1. /\ Sound(V, TriesOf(applied, conn), over, core') /\ SameStores(d, core')
      /\ core'.ok /\ core'.fuse = 0
  BY SettledIs
<1>2. CoreSound(V, core', applied, conn, over)
  BY <1>1 DEF CoreSound, NextBounded, SameStores, SameNext
<1>3. HandSound(core', conn, over)
  <2>1. core.next \in Nat /\ d.next \in Nat /\ core'.next = d.next
    BY <1>1 DEF CoreSound, Sound, CoreOver, SameStores, SameNext
  <2>2. InHand(conn) => conn.reply.action.id \in Nat
    BY DEF HandSound, Entry
  <2>3. QED BY <2>1, <2>2 DEF HandSound
<1>4. CoreSound(V, core', applied, conn', over) /\ HandSound(core', conn', over)
  BY <1>2, <1>3, HandEmptier DEF HandKept
<1>5. QED BY <1>4 DEF CoreInv

LEMMA CoreStays ==
  ASSUME CoreInv, HandKept, UNCHANGED <<core, applied, over>>
  PROVE CoreInv'
<1>1. PICK W : CoreSound(W, core, applied, conn, over)
  BY DEF CoreInv
<1>2. CoreSound(W, core, applied, conn', over) /\ HandSound(core, conn', over)
  BY <1>1, HandEmptier DEF CoreInv, HandKept
<1>3. QED BY <1>2 DEF CoreInv

LEMMA CoreWorks ==
  ASSUME Inv, NEW W, CoreSound(W, core, applied, conn, over), ConnInv', HandKept,
         UNCHANGED <<applied, over>>,
         NEW V, NEW d, Sound(V, TriesOf(applied, conn), over, d), core.next <= d.next, NextBounded(d),
         core' = Settled(d), KeptSound(d, Told'), ServingSound'
  PROVE Inv'
<1>1. HandSound(core, conn, over)
  BY DEF Inv, CoreInv
<1>2. CoreInv'
  BY <1>1, CoreMoves
<1>3. SameStores(d, core')
  BY SettledIs
<1>4. KeptSound(core', Told')
  BY <1>3 DEF KeptSound, SameStores, SameScripts
<1>5. QED BY <1>2, <1>4 DEF Inv

LEMMA WorldWorks ==
  ASSUME Inv, ConnInv', HandKept, UNCHANGED <<core, applied, over, acked, serving>>
  PROVE Inv'
<1>1. CoreInv'
  BY CoreStays DEF Inv
<1>2. ServingSound' /\ Told' \subseteq Told
  BY FewerServed
<1>3. KeptSound(core', Told')
  BY <1>2, KeptOfFewer DEF Inv
<1>4. QED BY <1>1, <1>2, <1>3 DEF Inv

(* What the scripts were told is on file, and so there after a start.      *)
LEMMA ConnStarts ==
  ASSUME ConnInv, NEW d, CoreStarts(d)
  PROVE ConnInv' /\ HandKept
<1>1. frames' = {} /\ serving' = {} /\ registered' = 0 /\ (conn' = conn \/ conn' = Unconnected(conn))
  BY DEF CoreStarts
<1>2. CASE conn' = conn
  BY <1>1, <1>2 DEF ConnInv, HandKept
<1>3. CASE conn' = Unconnected(conn)
  <2>1. /\ \E T : conn' \in ConnOver(T)
        /\ ~conn'.open /\ conn'.reply.kind = "none"
    BY <1>3, UnconnectedIs DEF ConnInv
  <2>2. QED BY <1>1, <2>1 DEF ConnInv, HandKept, InHand
<1>4. QED BY <1>1, <1>2, <1>3

IsLoaded(d, q, e) == e = [d EXCEPT !.scripts = d.scriptsFile, !.queue = q]

LEMMA LoadedIs ==
  ASSUME NEW W, NEW tries, NEW gone, NEW d, Sound(W, tries, gone, d),
         NEW e, IsLoaded(d, LoadQueue(d.queueFile), e)
  PROVE /\ Sound(W, tries, gone, e) /\ SameNext(d, e)
        /\ \A given : KeptSound(d, given) => KeptSound(e, given)
<1>1. d \in CoreOver(W) /\ StoresSound(d, tries, gone)
  BY DEF Sound
<1>2. PICK q : q = LoadQueue(d.queueFile)
  OBVIOUS
<1>3. q \in SUBSET d.queueFile /\ QueueSound(q, d.next, tries, gone)
  BY <1>1, <1>2, LoadIsSound DEF StoresSound
<1>4. q \in SUBSET Entry
  BY <1>1, <1>3 DEF CoreOver
<1>5. e = [d EXCEPT !.scripts = d.scriptsFile, !.queue = q]
  BY <1>2 DEF IsLoaded
<1>6. e \in CoreOver(W)
  BY <1>1, <1>4, <1>5 DEF CoreOver
<1>7. /\ e.scripts = d.scriptsFile /\ e.scriptsFile = d.scriptsFile /\ e.queue = q
      /\ e.queueFile = d.queueFile /\ e.next = d.next /\ e.ok = d.ok /\ e.fuse = d.fuse
  BY <1>1, <1>5 DEF CoreOver
<1>8. StoresSound(e, tries, gone)
  BY <1>1, <1>3, <1>7 DEF StoresSound
<1>9. QED BY <1>6, <1>7, <1>8 DEF Sound, SameNext, KeptSound

LEMMA CoreRestarts ==
  ASSUME Inv, NEW W, CoreSound(W, core, applied, conn, over), UNCHANGED <<applied, over, acked>>,
         NEW d, Sound(W, TriesOf(applied, conn), over, d), core.next <= d.next, NextBounded(d),
         KeptSound(d, Told), CoreStarts(d)
  PROVE Inv'
<1>1. PICK e : IsLoaded(d, LoadQueue(d.queueFile), e)
  BY DEF IsLoaded
<1>2. Sound(W, TriesOf(applied, conn), over, e) /\ SameNext(d, e) /\ KeptSound(e, Told)
  BY <1>1, LoadedIs
<1>3. core' = Settled(e)
  BY <1>1 DEF CoreStarts, IsLoaded
<1>4. core.next <= e.next /\ NextBounded(e)
  BY <1>2 DEF SameNext, NextBounded
<1>5. ConnInv' /\ HandKept
  BY ConnStarts DEF Inv
<1>6. KeptSound(e, Told') /\ ServingSound'
  <2>1. serving' \subseteq serving
    BY DEF CoreStarts
  <2>2. QED BY <1>2, <2>1, FewerServed, KeptOfFewer
<1>7. QED BY <1>2, <1>3, <1>4, <1>5, <1>6, CoreWorks

(* The stores with the fuse set, and what becomes of them.                 *)
LEMMA WritesAre ==
  ASSUME NEW n \in Nat, NEW fuse \in Writes(n)
  PROVE fuse \in Nat
BY DEF Writes

LEMMA FusedNow ==
  ASSUME Inv, NEW W, CoreSound(W, core, applied, conn, over), NEW fuse \in Nat, NEW c, c = Fused(fuse)
  PROVE /\ Sound(W, TriesOf(applied, conn), over, c) /\ SameStores(core, c) /\ c.ok
        /\ KeptSound(c, Told)
<1>1. IsFused(core, fuse, c)
  BY DEF Fused, IsFused
<1>2. Sound(W, TriesOf(applied, conn), over, core) /\ core.ok
  BY DEF CoreSound
<1>3. Sound(W, TriesOf(applied, conn), over, c) /\ SameStores(core, c) /\ c.ok
  BY <1>1, <1>2, FusedIs
<1>4. QED BY <1>3 DEF Inv, KeptSound, SameStores, SameScripts

LEMMA GoneNow ==
  ASSUME Inv, NEW W, NEW V, NEW tries, NEW c, Sound(W, tries, over, c), SameStores(core, c),
         KeptSound(c, Told), NEW d, Goes(V, tries, over, c, d)
  PROVE /\ Sound(V, tries, over, d) /\ core.next <= d.next /\ KeptSound(d, Told)
<1>1. Sound(V, tries, over, d) /\ core.next <= d.next
  BY DEF Goes, SameStores, SameNext
<1>2. KeptSound(d, Told)
  BY KeptGoesOn DEF Goes
<1>3. QED BY <1>1, <1>2

LEMMA TriesNowTyped ==
  ASSUME NEW W, CoreSound(W, core, applied, conn, over)
  PROVE TriesOf(applied, conn) \in [Nat -> Nat]
BY TriesTyped DEF CoreSound

(* A script written or run on behalf of a user.                            *)
LEMMA ScriptEventKeeps ==
  ASSUME Inv, NEW u \in Users, NEW s \in Scripts, ScriptEvent(u, s)
  PROVE Inv'
<1>1. PICK W : CoreSound(W, core, applied, conn, over)
  BY DEF Inv, CoreInv
<1>2. PICK fuse \in Writes(1 + MaxPending) : Stores({"request"}, RunScript(Fused(fuse), s, "user", {}))
  BY DEF ScriptEvent
<1>3. fuse \in Nat
  BY <1>2, WritesAre, QueueAssumption
<1>4. PICK c : c = Fused(fuse)
  OBVIOUS
<1>5. /\ Sound(W, TriesOf(applied, conn), over, c) /\ SameStores(core, c)
      /\ KeptSound(c, Told)
  BY <1>1, <1>3, <1>4, FusedNow
<1>6. PICK d : d = RunScript(c, s, "user", {})
  OBVIOUS
<1>7. Goes(W, TriesOf(applied, conn), over, c, d)
  <2>1. {} \in SUBSET W
    OBVIOUS
  <2>2. QED BY <1>1, <1>5, <1>6, <2>1, TriesNowTyped, RunScriptKeeps
<1>8. Sound(W, TriesOf(applied, conn), over, d) /\ core.next <= d.next /\ KeptSound(d, Told)
  BY <1>5, <1>7, GoneNow
<1>9. core' = Settled(d) /\ NextBounded(d)
  BY <1>2, <1>4, <1>6 DEF Stores
<1>10. UNCHANGED <<applied, over, acked, registered, frames, serving, conn>>
  BY DEF ScriptEvent, worldVars
<1>11. ConnInv' /\ HandKept
  BY <1>10, ConnUnchanged DEF Inv
<1>12. KeptSound(d, Told') /\ ServingSound'
  BY <1>8, <1>10, FewerServed, KeptOfFewer
<1>13. QED BY <1>1, <1>8, <1>9, <1>10, <1>11, <1>12, CoreWorks

LEMMA CreateScriptKeeps ==
  ASSUME Inv, NEW u \in Users, NEW s \in Scripts, NEW id \in Ids, NEW program \in Sources,
         CreateScript(u, s, id, program)
  PROVE Inv'
<1>1. PICK W : CoreSound(W, core, applied, conn, over)
  BY DEF Inv, CoreInv
<1>2. PICK fuse \in Writes(3 + MaxPending) : Stores({"request"}, Written(Fused(fuse), u, s, id, program))
  BY DEF CreateScript, Written
<1>3. fuse \in Nat
  BY <1>2, WritesAre, QueueAssumption
<1>4. PICK c : c = Fused(fuse)
  OBVIOUS
<1>5. /\ Sound(W, TriesOf(applied, conn), over, c) /\ SameStores(core, c)
      /\ KeptSound(c, Told)
  BY <1>1, <1>3, <1>4, FusedNow
<1>6. PICK d : d = Written(c, u, s, id, program)
  OBVIOUS
<1>7. /\ Sound(W, TriesOf(applied, conn), over, d)
      /\ ScriptsGoOn(Scripts \ {s}, c, d)
      /\ c.next <= d.next
  BY <1>1, <1>5, <1>6, TriesNowTyped, WrittenKeeps
<1>8. core.scripts[s] = NoScript /\ core.scriptsFile[s] = NoScript
  BY DEF CreateScript
<1>9. \A g \in Told : g[1] # s
  <2>1. SUFFICES ASSUME NEW g \in Told, g[1] = s PROVE FALSE
    OBVIOUS
  <2>2. HasGot(core.scripts[s], {g[2]})
    BY <2>1 DEF Inv, KeptSound
  <2>3. core.scripts[s].owner # Nobody
    BY <2>2 DEF HasGot
  <2>4. NoScript.owner = Nobody
    BY DEF NoScript
  <2>5. QED BY <1>8, <2>3, <2>4
<1>10. KeptSound(d, Told)
  <2>1. SUFFICES ASSUME NEW g \in Told
                 PROVE /\ g[1] \in Scripts
                       /\ HasGot(d.scripts[g[1]], {g[2]}) /\ HasGot(d.scriptsFile[g[1]], {g[2]})
    BY DEF KeptSound
  <2>2. /\ g[1] \in Scripts \ {s}
        /\ HasGot(c.scripts[g[1]], {g[2]}) /\ HasGot(c.scriptsFile[g[1]], {g[2]})
    BY <1>5, <1>9 DEF KeptSound
  <2>3. QED BY <1>7, <2>2 DEF HasGot, ScriptsGoOn, Later
<1>11. core' = Settled(d) /\ NextBounded(d)
  BY <1>2, <1>4, <1>6 DEF Stores
<1>12. UNCHANGED <<applied, over, acked, registered, frames, serving, conn>>
  BY DEF CreateScript, worldVars
<1>13. ConnInv' /\ HandKept
  BY <1>12, ConnUnchanged DEF Inv
<1>14. KeptSound(d, Told') /\ ServingSound' /\ core.next <= d.next
  BY <1>5, <1>7, <1>10, <1>12, FewerServed, KeptOfFewer DEF SameStores, SameNext
<1>15. QED BY <1>1, <1>7, <1>11, <1>12, <1>13, <1>14, CoreWorks

(* The maintenance thread.                                                 *)
LEMMA MaintainedKeeps ==
  ASSUME Inv, NEW W, CoreSound(W, core, applied, conn, over), NEW c, SameStores(core, c),
         Sound(W, TriesOf(applied, conn), over, c), KeptSound(c, Told),
         NEW d, Goes(W, TriesOf(applied, conn), over, c, d), NEW rest, Maintained(d, rest),
         UNCHANGED <<applied, over, acked>>
  PROVE Inv'
<1>1. Sound(W, TriesOf(applied, conn), over, d) /\ core.next <= d.next /\ KeptSound(d, Told)
  BY GoneNow
<1>2. NextBounded(d)
  BY DEF Maintained
<1>3. CASE Stores({}, d) /\ UNCHANGED <<registered, frames, serving, conn>>
  <2>1. core' = Settled(d)
    BY <1>3 DEF Stores
  <2>2. ConnInv' /\ HandKept
    BY <1>3, ConnUnchanged DEF Inv
  <2>3. KeptSound(d, Told') /\ ServingSound'
    BY <1>1, <1>3, FewerServed, KeptOfFewer
  <2>4. QED BY <1>1, <1>2, <2>1, <2>2, <2>3, CoreWorks
<1>4. CASE CoreStarts(d)
  BY <1>1, <1>2, <1>4, CoreRestarts
<1>5. QED BY <1>3, <1>4 DEF Maintained

LEMMA MaintenanceBeginsKeeps ==
  ASSUME Inv, MaintenanceBegins
  PROVE Inv'
<1>1. PICK W : CoreSound(W, core, applied, conn, over)
  BY DEF Inv, CoreInv
<1>2. PICK fuse \in Writes(2) : \E rest : Maintained(DueTimers(PurgeExpired(Fused(fuse))), rest)
  BY DEF MaintenanceBegins
<1>3. fuse \in Nat
  BY <1>2, WritesAre
<1>4. PICK c : c = Fused(fuse)
  OBVIOUS
<1>5. /\ Sound(W, TriesOf(applied, conn), over, c) /\ SameStores(core, c) /\ c.ok
      /\ KeptSound(c, Told)
  BY <1>1, <1>3, <1>4, FusedNow
<1>6. PICK b : b = PurgeExpired(c)
  OBVIOUS
<1>7. Goes(W, TriesOf(applied, conn), over, c, b)
  BY <1>1, <1>5, <1>6, TriesNowTyped, PurgeKeeps
<1>8. PICK d : d = DueTimers(b)
  OBVIOUS
<1>9. Sound(W, TriesOf(applied, conn), over, b)
  BY <1>7 DEF Goes
<1>10. Goes(W, TriesOf(applied, conn), over, b, d)
  BY <1>8, <1>9, DueTimersKeep
<1>11. Goes(W, TriesOf(applied, conn), over, c, d)
  BY <1>5, <1>7, <1>10, GoesAndGoes
<1>12. PICK rest : Maintained(d, rest)
  BY <1>2, <1>4, <1>6, <1>8
<1>13. UNCHANGED <<applied, over, acked>>
  BY DEF MaintenanceBegins, worldVars
<1>14. QED BY <1>1, <1>5, <1>11, <1>12, <1>13, MaintainedKeeps

LEMMA MaintenanceRunsKeeps ==
  ASSUME Inv, NEW s \in Scripts, MaintenanceRuns(s)
  PROVE Inv'
<1>1. PICK W : CoreSound(W, core, applied, conn, over)
  BY DEF Inv, CoreInv
<1>2. PICK fuse \in Writes(1 + MaxPending) : Maintained(RunScript(Fused(fuse), s, "timer", {}), due \ {s})
  BY DEF MaintenanceRuns
<1>3. fuse \in Nat
  BY <1>2, WritesAre, QueueAssumption
<1>4. PICK c : c = Fused(fuse)
  OBVIOUS
<1>5. /\ Sound(W, TriesOf(applied, conn), over, c) /\ SameStores(core, c)
      /\ KeptSound(c, Told)
  BY <1>1, <1>3, <1>4, FusedNow
<1>6. PICK d : d = RunScript(c, s, "timer", {})
  OBVIOUS
<1>7. Goes(W, TriesOf(applied, conn), over, c, d)
  <2>1. {} \in SUBSET W
    OBVIOUS
  <2>2. QED BY <1>1, <1>5, <1>6, <2>1, TriesNowTyped, RunScriptKeeps
<1>8. Maintained(d, due \ {s})
  BY <1>2, <1>4, <1>6
<1>9. UNCHANGED <<applied, over, acked>>
  BY DEF MaintenanceRuns, worldVars
<1>10. QED BY <1>1, <1>5, <1>7, <1>8, <1>9, MaintainedKeeps

LEMMA CoreCrashKeeps ==
  ASSUME Inv, CoreCrash
  PROVE Inv'
<1>1. PICK W : CoreSound(W, core, applied, conn, over)
  BY DEF Inv, CoreInv
<1>2. Sound(W, TriesOf(applied, conn), over, core) /\ core.next <= core.next /\ NextBounded(core)
  <2>1. Sound(W, TriesOf(applied, conn), over, core) /\ NextBounded(core)
    BY <1>1 DEF CoreSound
  <2>2. core.next \in Nat
    BY <2>1 DEF Sound, CoreOver
  <2>3. QED BY <2>1, <2>2
<1>3. KeptSound(core, Told) /\ CoreStarts(core) /\ UNCHANGED <<applied, over, acked>>
  BY DEF Inv, CoreCrash, worldVars
<1>4. QED BY <1>1, <1>2, <1>3, CoreRestarts

----------------------------------------------------------------------------
(* Time passes for memory and file alike.                                  *)
IsBoth(t, u, q, r, d) == d = [core EXCEPT !.scripts = t, !.scriptsFile = u, !.queue = q, !.queueFile = r]

(* Timers and leases change; nobody's owner, nothing seen, no try.         *)
LEMMA TimeKeeps ==
  ASSUME Inv, NEW W, CoreSound(W, core, applied, conn, over),
         NEW t \in [Scripts -> ScriptOver(W)], NEW u \in [Scripts -> ScriptOver(W)],
         Later(Scripts, core.scripts, t), Later(Scripts, core.scriptsFile, u),
         NEW q \in SUBSET Entry, NEW r \in SUBSET Entry,
         QueueSound(q, core.next, TriesOf(applied, conn), over),
         QueueSound(r, core.next, TriesOf(applied, conn), over),
         IsBoth(t, u, q, r, core'),
         UNCHANGED <<applied, over, acked, registered, frames, serving, conn>>
  PROVE Inv'
<1>1. /\ core \in CoreOver(W) /\ StoresSound(core, TriesOf(applied, conn), over)
      /\ core.ok /\ core.fuse = 0
  BY DEF CoreSound, Sound
<1>2. core' = [core EXCEPT !.scripts = t, !.scriptsFile = u, !.queue = q, !.queueFile = r]
  BY DEF IsBoth
<1>3. /\ core'.scripts = t /\ core'.scriptsFile = u /\ core'.queue = q /\ core'.queueFile = r
      /\ core'.next = core.next /\ core'.ok = core.ok /\ core'.fuse = core.fuse
  BY <1>1, <1>2 DEF CoreOver
<1>4. core' \in CoreOver(W)
  BY <1>1, <1>2 DEF CoreOver
<1>5. StoresSound(core', TriesOf(applied, conn), over)
  BY <1>1, <1>3 DEF StoresSound
<1>6. CoreSound(W, core', applied, conn, over)
  BY <1>3, <1>4, <1>5 DEF CoreSound, Sound, NextBounded
<1>7. HandSound(core', conn, over)
  BY <1>3 DEF Inv, CoreInv, HandSound
<1>8. CoreInv'
  BY <1>6, <1>7 DEF CoreInv
<1>9. KeptSound(core', Told)
  <2>1. SUFFICES ASSUME NEW g \in Told
                 PROVE /\ g[1] \in Scripts
                       /\ HasGot(core'.scripts[g[1]], {g[2]}) /\ HasGot(core'.scriptsFile[g[1]], {g[2]})
    BY DEF KeptSound
  <2>2. /\ g[1] \in Scripts
        /\ HasGot(core.scripts[g[1]], {g[2]}) /\ HasGot(core.scriptsFile[g[1]], {g[2]})
    BY DEF Inv, KeptSound
  <2>3. QED BY <1>3, <2>2 DEF HasGot, Later
<1>10. ServingSound' /\ KeptSound(core', Told')
  BY <1>9, FewerServed, KeptOfFewer
<1>11. QED BY <1>8, <1>10, ConnUnchanged DEF Inv

LEMMA RingIs ==
  ASSUME NEW W, NEW t \in [Scripts -> ScriptOver(W)], NEW s \in Scripts, NEW u,
         u = [t EXCEPT ![s].timer = IF @ = "set" THEN "due" ELSE @]
  PROVE u \in [Scripts -> ScriptOver(W)] /\ Later(Scripts, t, u)
<1>1. PICK timer : timer = IF t[s].timer = "set" THEN "due" ELSE t[s].timer
  OBVIOUS
<1>2. PICK x : x = [t[s] EXCEPT !.timer = timer]
  OBVIOUS
<1>3. u = [t EXCEPT ![s] = x]
  BY <1>1, <1>2
<1>4. t[s] \in ScriptOver(W)
  OBVIOUS
<1>5. timer \in {"off", "set", "due"}
  BY <1>1, <1>4 DEF ScriptOver
<1>6. x \in ScriptOver(W) /\ x.owner = t[s].owner /\ x.seen = t[s].seen
  BY <1>2, <1>4, <1>5 DEF ScriptOver
<1>7. QED BY <1>3, <1>6 DEF Later

LEMMA TimerComesDueKeeps ==
  ASSUME Inv, NEW s \in Scripts, TimerComesDue(s)
  PROVE Inv'
<1>1. PICK W : CoreSound(W, core, applied, conn, over)
  BY DEF Inv, CoreInv
<1>2. core \in CoreOver(W) /\ StoresSound(core, TriesOf(applied, conn), over)
  BY <1>1 DEF CoreSound, Sound
<1>3. PICK t : t = [core.scripts EXCEPT ![s].timer = IF @ = "set" THEN "due" ELSE @]
  OBVIOUS
<1>4. PICK u : u = [core.scriptsFile EXCEPT ![s].timer = IF @ = "set" THEN "due" ELSE @]
  OBVIOUS
<1>5. core.scripts \in [Scripts -> ScriptOver(W)] /\ core.scriptsFile \in [Scripts -> ScriptOver(W)]
      /\ core.queue \in SUBSET Entry /\ core.queueFile \in SUBSET Entry
  BY <1>2 DEF CoreOver
<1>6. t \in [Scripts -> ScriptOver(W)] /\ Later(Scripts, core.scripts, t)
  BY <1>3, <1>5, RingIs
<1>7. u \in [Scripts -> ScriptOver(W)] /\ Later(Scripts, core.scriptsFile, u)
  BY <1>4, <1>5, RingIs
<1>8. core' = [core EXCEPT !.scripts = t, !.scriptsFile = u]
  BY <1>3, <1>4 DEF TimerComesDue
<1>9. [core EXCEPT !.scripts = t, !.scriptsFile = u]
        = [core EXCEPT !.scripts = t, !.scriptsFile = u, !.queue = core.queue, !.queueFile = core.queueFile]
  BY <1>2 DEF CoreOver
<1>10. IsBoth(t, u, core.queue, core.queueFile, core')
  BY <1>8, <1>9 DEF IsBoth
<1>11. /\ QueueSound(core.queue, core.next, TriesOf(applied, conn), over)
       /\ QueueSound(core.queueFile, core.next, TriesOf(applied, conn), over)
  BY <1>2 DEF StoresSound
<1>12. UNCHANGED <<applied, over, acked, registered, frames, serving, conn>>
  BY DEF TimerComesDue, worldVars
<1>13. QED BY <1>1, <1>5, <1>6, <1>7, <1>10, <1>11, <1>12, TimeKeeps

IsFree(q, id, r) == r = {[a EXCEPT !.leased = @ /\ a.id # id] : a \in q}

LEMMA FreeIs ==
  ASSUME NEW q \in SUBSET Entry, NEW next, NEW tries \in [Nat -> Nat], NEW gone,
         QueueSound(q, next, tries, gone), NEW id, NEW r, IsFree(q, id, r)
  PROVE r \in SUBSET Entry /\ QueueSound(r, next, tries, gone)
<1> DEFINE f == [a \in q |-> [a EXCEPT !.leased = @ /\ a.id # id]]
<1>1. ASSUME NEW a \in q
      PROVE f[a] \in Entry /\ f[a].id = a.id /\ f[a].attempts = a.attempts
  <2>1. a \in Entry
    OBVIOUS
  <2>2. PICK w \in BOOLEAN : w = (a.leased /\ a.id # id)
    BY <2>1 DEF Entry
  <2>3. f[a] = [a EXCEPT !.leased = w]
    BY <2>2
  <2> HIDE DEF f
  <2>4. QED BY <2>1, <2>2, <2>3 DEF Entry
<1>2. r = {f[a] : a \in q}
  BY DEF IsFree
<1>3. DOMAIN f = q /\ f = [a \in q |-> f[a]]
  OBVIOUS
<1> HIDE DEF f
<1>4. f \in [q -> Entry]
  BY <1>1, <1>3
<1>5. \A a \in q : f[a].id = a.id /\ a.attempts <= f[a].attempts
  <2>1. \A a \in q : a.attempts \in Nat
    BY QueueAssumption DEF Entry
  <2>2. QED BY <1>1, <2>1
<1>6. q \in SUBSET q
  OBVIOUS
<1>7. QueueSound({f[a] : a \in q}, next, tries, gone)
  BY <1>4, <1>5, <1>6, ImageIsSound
<1>8. {f[a] : a \in q} \in SUBSET Entry
  BY <1>4
<1>9. QED BY <1>2, <1>7, <1>8

LEMMA LeaseRunsOutKeeps ==
  ASSUME Inv, LeaseRunsOut
  PROVE Inv'
<1>1. PICK W : CoreSound(W, core, applied, conn, over)
  BY DEF Inv, CoreInv
<1>2. core \in CoreOver(W) /\ StoresSound(core, TriesOf(applied, conn), over)
  BY <1>1 DEF CoreSound, Sound
<1>3. core.scripts \in [Scripts -> ScriptOver(W)] /\ core.scriptsFile \in [Scripts -> ScriptOver(W)]
      /\ core.queue \in SUBSET Entry /\ core.queueFile \in SUBSET Entry
  BY <1>2 DEF CoreOver
<1>4. /\ QueueSound(core.queue, core.next, TriesOf(applied, conn), over)
      /\ QueueSound(core.queueFile, core.next, TriesOf(applied, conn), over)
  BY <1>2 DEF StoresSound
<1>5. PICK id : core' = [core EXCEPT !.queue = {[a EXCEPT !.leased = @ /\ a.id # id] : a \in @},
                                     !.queueFile = {[a EXCEPT !.leased = @ /\ a.id # id] : a \in @}]
  BY DEF LeaseRunsOut
<1>6. PICK q : IsFree(core.queue, id, q)
  BY DEF IsFree
<1>7. PICK r : IsFree(core.queueFile, id, r)
  BY DEF IsFree
<1>8. TriesOf(applied, conn) \in [Nat -> Nat]
  BY <1>1, TriesNowTyped
<1>9. q \in SUBSET Entry /\ QueueSound(q, core.next, TriesOf(applied, conn), over)
  BY <1>3, <1>4, <1>6, <1>8, FreeIs
<1>10. r \in SUBSET Entry /\ QueueSound(r, core.next, TriesOf(applied, conn), over)
  BY <1>3, <1>4, <1>7, <1>8, FreeIs
<1>11. core' = [core EXCEPT !.queue = q, !.queueFile = r]
  BY <1>5, <1>6, <1>7 DEF IsFree
<1>12. [core EXCEPT !.queue = q, !.queueFile = r]
        = [core EXCEPT !.scripts = core.scripts, !.scriptsFile = core.scriptsFile, !.queue = q, !.queueFile = r]
  BY <1>2 DEF CoreOver
<1>13. IsBoth(core.scripts, core.scriptsFile, q, r, core')
  BY <1>11, <1>12 DEF IsBoth
<1>14. Later(Scripts, core.scripts, core.scripts) /\ Later(Scripts, core.scriptsFile, core.scriptsFile)
  BY DEF Later
<1>15. UNCHANGED <<applied, over, acked, registered, frames, serving, conn>>
  BY DEF LeaseRunsOut, worldVars
<1>16. QED BY <1>1, <1>3, <1>9, <1>10, <1>13, <1>14, <1>15, TimeKeeps

----------------------------------------------------------------------------
(* The World.                                                              *)
LEMMA ConnectKeeps ==
  ASSUME Inv, Connect
  PROVE Inv'
<1>1. /\ ~conn.open
      /\ conn' = [open |-> TRUE, generation |-> conn.generation + 1, stage |-> "idle", reply |-> NoReply]
      /\ registered' = conn.generation + 1 /\ frames' = frames /\ serving' = serving
  BY DEF Connect, coreVars
<1>2. PICK R : conn \in ConnOver(R)
  BY DEF Inv, ConnInv
<1>3. conn.generation \in Nat
  BY <1>2 DEF ConnOver
<1>4. conn' \in ConnOver({NoReply})
  BY <1>1, <1>3 DEF ConnOver, Stages
<1>5. conn'.open /\ conn'.generation = conn.generation + 1 /\ conn'.reply.kind = "none"
  BY <1>1 DEF NoReply
<1>6. /\ \A f \in frames : f.generation \in 1 .. conn.generation
      /\ \A m \in serving : m.frame.generation \in 1 .. conn.generation
  BY DEF Inv, ConnInv
<1>7. /\ \A f \in frames' : f.generation \in 1 .. conn'.generation /\ f.generation # conn'.generation
      /\ \A m \in serving' : m.frame.generation \in 1 .. conn'.generation /\ m.frame.generation # conn'.generation
  BY <1>1, <1>3, <1>5, <1>6
<1>8. ConnInv'
  BY <1>1, <1>3, <1>4, <1>5, <1>7 DEF ConnInv
<1>9. HandKept
  BY <1>5 DEF HandKept, InHand
<1>10. UNCHANGED <<core, applied, over, acked, serving>>
  BY DEF Connect, coreVars
<1>11. QED BY <1>8, <1>9, <1>10, WorldWorks

LEMMA ConnLost ==
  ASSUME ConnInv, conn' = Unconnected(conn), frames' \in {frames, {}}, UNCHANGED <<registered, serving>>
  PROVE ConnInv' /\ HandKept
<1>1. /\ \E T : conn' \in ConnOver(T)
      /\ ~conn'.open /\ conn'.generation = conn.generation /\ conn'.reply.kind = "none"
  BY UnconnectedIs DEF ConnInv
<1>2. QED BY <1>1 DEF ConnInv, HandKept, InHand

LEMMA DropKeeps ==
  ASSUME Inv, Drop
  PROVE Inv'
<1>1. ConnInv' /\ HandKept
  BY ConnLost DEF Inv, Drop, coreVars
<1>2. UNCHANGED <<core, applied, over, acked, serving>>
  BY DEF Drop, coreVars
<1>3. QED BY <1>1, <1>2, WorldWorks

LEMMA WorldCrashKeeps ==
  ASSUME Inv, WorldCrash
  PROVE Inv'
<1>1. ConnInv' /\ HandKept
  BY ConnLost DEF Inv, WorldCrash, coreVars
<1>2. UNCHANGED <<core, applied, over, acked, serving>>
  BY DEF WorldCrash, coreVars
<1>3. QED BY <1>1, <1>2, WorldWorks

LEMMA IdleSends ==
  ASSUME Inv, Idle, NEW frame, frame.generation = conn.generation, NEW stage \in Stages \ {"idle"},
         Sends(frame, stage), UNCHANGED <<registered, serving>>
  PROVE ConnInv' /\ HandKept
<1>1. conn.open /\ conn.stage = "idle"
  BY DEF Idle
<1>2. conn.generation # 0
  BY <1>1 DEF Inv, ConnInv
<1>3. ConnInv' /\ ~InHand(conn')
  BY <1>1, <1>2, ConnSends DEF Inv
<1>4. QED BY <1>3 DEF HandKept

LEMMA PollKeeps ==
  ASSUME Inv, Poll
  PROVE Inv'
<1>1. PICK frame : frame = [kind |-> "poll", generation |-> conn.generation]
  OBVIOUS
<1>2. frame.generation = conn.generation
  BY <1>1
<1>3. Idle /\ Sends(frame, "polled") /\ UNCHANGED <<registered, serving>>
  BY <1>1 DEF Poll, coreVars
<1>4. "polled" \in Stages \ {"idle"}
  BY DEF Stages
<1>5. ConnInv' /\ HandKept
  BY <1>2, <1>3, <1>4, IdleSends
<1>6. UNCHANGED <<core, applied, over, acked, serving>>
  BY DEF Poll, coreVars, worldVars
<1>7. QED BY <1>5, <1>6, WorldWorks

LEMMA SendEventKeeps ==
  ASSUME Inv, SendEvent
  PROVE Inv'
<1>1. UNCHANGED <<core, applied, over, acked, serving>> /\ registered' = registered
  BY DEF SendEvent, coreVars
<1>2. CASE Head(batch).type \in Relayed
  <2>1. PICK frame : frame = [kind |-> "event", generation |-> conn.generation, entity |-> Head(batch).entity,
                              type |-> Head(batch).type, what |-> <<lives, Head(batch).sequence>>]
    OBVIOUS
  <2>2. frame.generation = conn.generation
    BY <2>1
  <2>3. Idle /\ Sends(frame, "sent")
    BY <1>2, <2>1 DEF SendEvent
  <2>4. "sent" \in Stages \ {"idle"}
    BY DEF Stages
  <2>5. ConnInv' /\ HandKept
    BY <1>1, <2>2, <2>3, <2>4, IdleSends
  <2>6. QED BY <1>1, <2>5, WorldWorks
<1>3. CASE ~(Head(batch).type \in Relayed)
  <2>1. UNCHANGED <<registered, frames, serving, conn>>
    BY <1>1, <1>3 DEF SendEvent
  <2>2. ConnInv' /\ HandKept
    BY <2>1, ConnUnchanged DEF Inv
  <2>3. QED BY <1>1, <2>2, WorldWorks
<1>4. QED BY <1>2, <1>3

(* A result, sent with an action in hand or after one that was refused.    *)
LEMMA ResultSent ==
  ASSUME Inv, NEW id, NEW ok, conn.reply.kind # "none",
         Sends([kind |-> "result", generation |-> conn.generation, id |-> id, ok |-> ok], "told"),
         UNCHANGED <<registered, serving>>
  PROVE ConnInv' /\ ~InHand(conn')
<1>1. PICK frame : frame = [kind |-> "result", generation |-> conn.generation, id |-> id, ok |-> ok]
  OBVIOUS
<1>2. frame.generation = conn.generation
  BY <1>1
<1>3. Sends(frame, "told")
  BY <1>1
<1>4. "told" \in Stages \ {"idle"}
  BY DEF Stages
<1>5. conn.open /\ conn.generation # 0
  BY DEF Inv, ConnInv
<1>6. QED BY <1>2, <1>3, <1>4, <1>5, ConnSends DEF Inv

LEMMA WorldLooksKeeps ==
  ASSUME Inv, WorldLooks
  PROVE Inv'
<1>1. UNCHANGED <<core, applied, over, acked, registered, serving>> /\ conn.reply.kind = "action"
  BY DEF WorldLooks, coreVars, worldVars
<1>2. CASE frames' = frames /\ \E seen : conn' = [conn EXCEPT !.reply = [kind |-> "seen",
                                                    action |-> conn.reply.action, entity |-> seen]]
  <2>1. PICK seen : conn' = [conn EXCEPT !.reply = [kind |-> "seen",
                                                    action |-> conn.reply.action, entity |-> seen]]
    BY <1>2
  <2>2. PICK r : r = [kind |-> "seen", action |-> conn.reply.action, entity |-> seen]
    OBVIOUS
  <2>3. r.kind = "seen" /\ r.action = conn.reply.action
    BY <2>2
  <2>4. conn' = [conn EXCEPT !.reply = r]
    BY <2>1, <2>2
  <2>5. PICK R : conn \in ConnOver(R)
    BY DEF Inv, ConnInv
  <2>6. conn' \in ConnOver(R \cup {r})
    BY <2>4, <2>5 DEF ConnOver
  <2>7. /\ conn'.open = conn.open /\ conn'.generation = conn.generation
        /\ conn'.stage = conn.stage /\ conn'.reply = r
    BY <2>4, <2>5 DEF ConnOver
  <2>8. conn.open /\ NoneWaits
    BY <1>1 DEF Inv, ConnInv, NoneWaits
  <2>9. ConnInv'
    BY <1>1, <1>2, <2>6, <2>7, <2>8 DEF Inv, ConnInv, NoneWaits
  <2>10. HandKept
    BY <1>1, <2>3, <2>7 DEF HandKept, InHand
  <2>11. QED BY <1>1, <2>9, <2>10, WorldWorks
<1>3. CASE \E id, ok : Sends([kind |-> "result", generation |-> conn.generation, id |-> id, ok |-> ok], "told")
  <2>1. ConnInv' /\ ~InHand(conn')
    BY <1>1, <1>3, ResultSent
  <2>2. QED BY <1>1, <2>1, WorldWorks DEF HandKept
<1>4. QED BY <1>2, <1>3 DEF WorldLooks

LEMMA HearsKeeps ==
  ASSUME Inv, Hears
  PROVE Inv'
<1>1. UNCHANGED <<core, applied, over, acked, registered, frames, serving>> /\ conn.reply.kind \in {"empty", "ack", "error"}
  BY DEF Hears, coreVars
<1>2. CASE conn' = Unconnected(conn)
  <2>1. ConnInv' /\ HandKept
    BY <1>1, <1>2, ConnLost DEF Inv
  <2>2. QED BY <1>1, <2>1, WorldWorks
<1>3. CASE conn' = [conn EXCEPT !.stage = "idle", !.reply = NoReply]
  <2>1. PICK R : conn \in ConnOver(R)
    BY DEF Inv, ConnInv
  <2>2. conn' \in ConnOver(R \cup {NoReply})
    BY <1>3, <2>1 DEF ConnOver, Stages
  <2>3. /\ conn'.open = conn.open /\ conn'.generation = conn.generation
        /\ conn'.reply = NoReply
    BY <1>3, <2>1 DEF ConnOver
  <2>4. conn'.reply.kind = "none"
    BY <2>3 DEF NoReply
  <2>5. conn.open /\ NoneWaits
    BY <1>1 DEF Inv, ConnInv, NoneWaits
  <2>6. ConnInv'
    BY <1>1, <2>2, <2>3, <2>4, <2>5 DEF Inv, ConnInv, NoneWaits
  <2>7. HandKept
    BY <2>4 DEF HandKept, InHand
  <2>8. QED BY <1>1, <2>6, <2>7, WorldWorks
<1>4. QED BY <1>2, <1>3 DEF Hears

(* What was a try in the World's hand is one that was applied.             *)
LEMMA WorldAppliesKeeps ==
  ASSUME Inv, WorldApplies
  PROVE Inv'
<1>1. UNCHANGED <<core, over, acked, registered, serving>> /\ conn.reply.kind = "seen"
  BY DEF WorldApplies, coreVars
<1>2. PICK W : CoreSound(W, core, applied, conn, over)
  BY DEF Inv, CoreInv
<1>3. PICK a : a = conn.reply.action
  OBVIOUS
<1>4. ConnInv' /\ ~InHand(conn')
  BY <1>1, ResultSent DEF WorldApplies
<1>5. applied' = applied \/ applied' = [applied EXCEPT ![a.id] = @ + 1]
  BY <1>3 DEF WorldApplies
<1>6. CASE applied' = applied
  BY <1>1, <1>4, <1>6, WorldWorks DEF HandKept
<1>7. CASE applied' = [applied EXCEPT ![a.id] = @ + 1]
  <2>1. InHand(conn) /\ a \in Entry /\ a.id < core.next
    BY <1>1, <1>3 DEF Inv, CoreInv, HandSound, InHand
  <2>2. applied \in [Actions -> Nat] /\ NextBounded(core) /\ core \in CoreOver(W)
        /\ Sound(W, TriesOf(applied, conn), over, core)
        /\ \A id \in Nat : TriesOf(applied, conn)[id] <= MaxAttempts
    BY <1>2 DEF CoreSound, Sound
  <2>3. a.id \in Actions
    BY <2>1, <2>2, InActions DEF CoreOver, Entry
  <2>4. applied' \in [Actions -> Nat]
    BY <1>7, <2>2, <2>3
  <2>5. TriesOf(applied', conn') = TriesOf(applied, conn)
    <3>1. SUFFICES ASSUME NEW id \in Nat
                   PROVE TriesOf(applied', conn')[id] = TriesOf(applied, conn)[id]
      BY DEF TriesOf
    <3>2. InTheHand(conn', id) = 0
      BY <1>4 DEF InTheHand
    <3>3. InTheHand(conn, id) = IF id = a.id THEN 1 ELSE 0
      BY <1>3, <2>1 DEF InTheHand
    <3>4. TriesOf(applied', conn')[id] = IF id \in Actions THEN applied'[id] + 0 ELSE 0
      BY <3>2 DEF TriesOf
    <3>5. TriesOf(applied, conn)[id] = IF id \in Actions THEN applied[id] + (IF id = a.id THEN 1 ELSE 0) ELSE 0
      BY <3>3 DEF TriesOf
    <3>6. id \in Actions => applied'[id] = IF id = a.id THEN applied[id] + 1 ELSE applied[id]
      BY <1>7, <2>2, <2>3
    <3>7. id \in Actions => applied[id] \in Nat
      BY <2>2
    <3>8. QED BY <3>4, <3>5, <3>6, <3>7
  <2>6. core.ok /\ core.fuse = 0
    BY <1>2 DEF CoreSound
  <2>7. CoreSound(W, core', applied', conn', over')
    BY <1>1, <1>2, <2>2, <2>4, <2>5, <2>6 DEF CoreSound
  <2>8. HandSound(core', conn', over')
    BY <1>4 DEF HandSound
  <2>9. CoreInv'
    BY <2>7, <2>8 DEF CoreInv
  <2>10. ServingSound' /\ KeptSound(core', Told')
    BY <1>1, FewerServed, KeptOfFewer DEF Inv
  <2>11. QED BY <1>4, <2>9, <2>10 DEF Inv
<1>8. QED BY <1>5, <1>6, <1>7

----------------------------------------------------------------------------
(* The Core serves a message of the World.  A lease gives an action into   *)
(* the World's hand when it is on file.                                    *)
LEMMA GivenKeeps ==
  ASSUME NEW W, CoreSound(W, core, applied, conn, over), ~InHand(conn),
         NEW c, SameStores(core, c), NEW d, Sound(W, TriesOf(applied, conn), over, d), d.ok,
         NextBounded(d), c.next <= d.next, NEW a \in Entry, IsGiven(a, c, d),
         core' = Settled(d), UNCHANGED <<applied, over>>, conn'.reply.action = a
  PROVE CoreInv'
<1>1. /\ Sound(W, TriesOf(applied, conn), over, core') /\ SameStores(d, core')
      /\ core'.ok /\ core'.fuse = 0
  BY SettledIs
<1>2. /\ applied \in [Actions -> Nat] /\ Sound(W, TriesOf(applied, conn), over, core)
      /\ \A id \in Nat : TriesOf(applied, conn)[id] <= MaxAttempts
      /\ NextBounded(core)
  BY DEF CoreSound
<1>3. a \in core.queue /\ a.id \in Nat /\ a.attempts \in Nat /\ a.attempts < MaxAttempts
  BY QueueAssumption DEF IsGiven, SameStores, Entry
<1>4. a.id < core.next /\ TriesOf(applied, conn)[a.id] <= a.attempts /\ a.id \notin over
  BY <1>2, <1>3 DEF Sound, StoresSound, QueueSound
<1>5. core.next \in Nat /\ d.next \in Nat /\ core'.next = d.next /\ core.next <= d.next
  BY <1>1, <1>2 DEF Sound, CoreOver, SameStores, SameNext
<1>6. /\ TriesOf(applied, conn) \in [Nat -> Nat] /\ TriesOf(applied, conn') \in [Nat -> Nat]
  BY <1>2, TriesTyped
<1>7. \A id \in Nat : TriesOf(applied, conn')[id] <= TriesOf(applied, conn)[id] + (IF id = a.id THEN 1 ELSE 0)
  <2>1. SUFFICES ASSUME NEW id \in Nat
                 PROVE TriesOf(applied, conn')[id]
                         <= TriesOf(applied, conn)[id] + (IF id = a.id THEN 1 ELSE 0)
    OBVIOUS
  <2>2. InTheHand(conn, id) = 0
    BY DEF InTheHand
  <2>3. PICK n \in 0 .. (IF id = a.id THEN 1 ELSE 0) : n = InTheHand(conn', id)
    BY DEF InTheHand
  <2>4. TriesOf(applied, conn')[id] = IF id \in Actions THEN applied[id] + n ELSE 0
    BY <2>3 DEF TriesOf
  <2>5. TriesOf(applied, conn)[id] = IF id \in Actions THEN applied[id] + 0 ELSE 0
    BY <2>2 DEF TriesOf
  <2>6. id \in Actions => applied[id] \in Nat
    BY <1>2
  <2>7. QED BY <2>3, <2>4, <2>5, <2>6
<1>8. core'.queue \in SUBSET Entry /\ core'.queueFile \in SUBSET Entry
  BY <1>1 DEF Sound, CoreOver
<1>9. core'.queueFile = core'.queue /\ \A b \in core'.queue : b.id = a.id => b.attempts = a.attempts + 1
  BY <1>1 DEF IsGiven, SameStores
<1>10. \A b \in core'.queue : TriesOf(applied, conn')[b.id] <= b.attempts
  <2>1. SUFFICES ASSUME NEW b \in core'.queue PROVE TriesOf(applied, conn')[b.id] <= b.attempts
    OBVIOUS
  <2>2. b.id \in Nat /\ b.attempts \in Nat
    BY <1>8, QueueAssumption DEF Entry
  <2>3. TriesOf(applied, conn)[b.id] <= b.attempts
    BY <1>1 DEF Sound, StoresSound, QueueSound
  <2>4. PICK m \in Nat, n \in Nat : m = TriesOf(applied, conn')[b.id] /\ n = TriesOf(applied, conn)[b.id]
    BY <1>6, <2>2
  <2>5. m <= n + (IF b.id = a.id THEN 1 ELSE 0)
    BY <1>7, <2>2, <2>4
  <2>6. CASE b.id = a.id
    <3>1. n <= a.attempts /\ b.attempts = a.attempts + 1
      BY <1>4, <1>9, <2>4, <2>6
    <3>2. QED BY <1>3, <2>4, <2>5, <2>6, <3>1
  <2>7. CASE b.id # a.id
    BY <2>2, <2>3, <2>4, <2>5, <2>7
  <2>8. QED BY <2>6, <2>7
<1>11. \A id \in Nat : id >= core'.next => TriesOf(applied, conn')[id] = 0 /\ id \notin over
  <2>1. SUFFICES ASSUME NEW id \in Nat, id >= core'.next
                 PROVE TriesOf(applied, conn')[id] = 0 /\ id \notin over
    OBVIOUS
  <2>2. TriesOf(applied, conn)[id] = 0 /\ id \notin over
    BY <1>1, <2>1 DEF Sound, StoresSound
  <2>3. id # a.id
    BY <1>3, <1>4, <1>5, <2>1
  <2>4. TriesOf(applied, conn')[id] \in Nat /\ TriesOf(applied, conn')[id] <= 0 + 0
    BY <1>6, <1>7, <2>2, <2>3
  <2>5. QED BY <2>2, <2>4
<1>12. \A id \in Nat : TriesOf(applied, conn')[id] <= MaxAttempts
  <2>1. SUFFICES ASSUME NEW id \in Nat PROVE TriesOf(applied, conn')[id] <= MaxAttempts
    OBVIOUS
  <2>2. PICK m \in Nat, n \in Nat : m = TriesOf(applied, conn')[id] /\ n = TriesOf(applied, conn)[id]
    BY <1>6
  <2>3. m <= n + (IF id = a.id THEN 1 ELSE 0) /\ n <= MaxAttempts /\ (id = a.id => n <= a.attempts)
    BY <1>2, <1>4, <1>7, <2>2
  <2>4. QED BY <1>3, <2>2, <2>3, QueueAssumption
<1>13. StoresSound(core', TriesOf(applied, conn'), over)
  <2>1. QueueSound(core'.queue, core'.next, TriesOf(applied, conn), over)
    BY <1>1 DEF Sound, StoresSound
  <2>2. QueueSound(core'.queue, core'.next, TriesOf(applied, conn'), over)
    BY <1>10, <2>1 DEF QueueSound
  <2>3. QED BY <1>1, <1>9, <1>11, <2>2 DEF StoresSound
<1>14. NextBounded(core')
  BY <1>5 DEF NextBounded
<1>15. CoreSound(W, core', applied', conn', over')
  BY <1>1, <1>2, <1>12, <1>13, <1>14 DEF CoreSound, Sound
<1>16. HandSound(core', conn', over')
  BY <1>3, <1>4, <1>5 DEF HandSound
<1>17. QED BY <1>15, <1>16 DEF CoreInv

LEMMA CoreLeasesKeeps ==
  ASSUME Inv, NEW m \in serving, CoreLeases(m)
  PROVE Inv'
<1>1. PICK W : CoreSound(W, core, applied, conn, over)
  BY DEF Inv, CoreInv
<1>2. UNCHANGED <<applied, over, acked>> /\ registered' = registered
  BY DEF CoreLeases, worldVars
<1>3. IsLast(m.frame) /\ frames' \subseteq frames /\ serving' \subseteq serving
  BY FinishedIsLast DEF Inv, CoreLeases, IsLast
<1>4. ASSUME NEW fuse \in Writes(1), Stores({}, Lease(Fused(fuse))),
             IF Lease(Fused(fuse)).ok THEN Answer(m.frame, Leased(core)) ELSE Hangs(m.frame)
      PROVE Inv'
  <2>1. fuse \in Nat
    BY WritesAre
  <2>2. PICK c : c = Fused(fuse)
    OBVIOUS
  <2>3. /\ Sound(W, TriesOf(applied, conn), over, c) /\ SameStores(core, c) /\ c.ok
        /\ KeptSound(c, Told)
    BY <1>1, <2>1, <2>2, FusedNow
  <2>4. PICK d : d = Lease(c)
    OBVIOUS
  <2>5. TriesOf(applied, conn) \in [Nat -> Nat]
    BY <1>1, TriesNowTyped
  <2>6. /\ Goes(W, TriesOf(applied, conn), over, c, d)
        /\ SameNext(c, d) /\ SameScripts(c, d)
        /\ Waiting(Kept(c)) # {} => IsGiven(First(Waiting(Kept(c))), c, d)
    BY <2>3, <2>4, <2>5, LeaseKeeps
  <2>7. Sound(W, TriesOf(applied, conn), over, d) /\ core.next <= d.next /\ KeptSound(d, Told)
    BY <2>3, <2>6, GoneNow
  <2>8. core' = Settled(d) /\ NextBounded(d)
    BY <1>4, <2>2, <2>4 DEF Stores
  <2>9. IF d.ok THEN Answer(m.frame, Leased(core)) ELSE Hangs(m.frame)
    BY <1>4, <2>2, <2>4
  <2>10. KeptSound(d, Told') /\ ServingSound'
    BY <1>2, <1>3, <2>7, FewerServed, KeptOfFewer
  <2>11. ASSUME ConnInv', HandKept
         PROVE Inv'
    BY <1>1, <1>2, <2>7, <2>8, <2>10, <2>11, CoreWorks
  <2>12. CASE ~d.ok
    <3>1. ConnInv' /\ HandKept
      BY <1>2, <1>3, <2>9, <2>12, ConnHangs DEF Inv
    <3>2. QED BY <2>11, <3>1
  <2>13. CASE d.ok
    <3>1. PICK reply : reply = Leased(core)
      OBVIOUS
    <3>2. Answer(m.frame, reply)
      BY <2>9, <2>13, <3>1
    <3>3. /\ ConnInv'
          /\ \/ conn' = conn
             \/ ~InHand(conn) /\ conn'.reply = reply
      BY <1>2, <1>3, <3>2, ConnAnswers DEF Inv
    <3>4. CASE conn' = conn
      BY <2>11, <3>3, <3>4 DEF HandKept
    <3>5. CASE ~InHand(conn) /\ conn'.reply = reply /\ Waiting(Kept(core)) = {}
      <4>1. reply.kind = "empty"
        BY <3>1, <3>5 DEF Leased
      <4>2. HandKept
        BY <3>5, <4>1 DEF HandKept, InHand
      <4>3. QED BY <2>11, <3>3, <4>2
    <3>6. CASE ~InHand(conn) /\ conn'.reply = reply /\ Waiting(Kept(core)) # {}
      <4>1. Kept(c) = Kept(core)
        BY <2>3 DEF Kept, SameStores
      <4>2. PICK a : a = First(Waiting(Kept(core)))
        OBVIOUS
      <4>3. conn'.reply.action = a
        BY <3>1, <3>6, <4>2 DEF Leased
      <4>4. IsGiven(a, c, d)
        BY <2>6, <3>6, <4>1, <4>2
      <4>5. a \in Entry
        BY <2>3, <4>4 DEF IsGiven, Sound, CoreOver
      <4>6. c.next <= d.next
        BY <2>6 DEF Goes
      <4>7. CoreInv'
        BY <1>1, <1>2, <2>3, <2>7, <2>8, <2>13, <3>6, <4>3, <4>4, <4>5, <4>6, GivenKeeps
      <4>8. SameStores(d, core')
        BY <2>7, <2>8, SettledIs
      <4>9. KeptSound(core', Told')
        BY <2>10, <4>8 DEF KeptSound, SameStores, SameScripts
      <4>10. QED BY <2>10, <3>3, <4>7, <4>9 DEF Inv
    <3>7. QED BY <3>3, <3>4, <3>5, <3>6
  <2>14. QED BY <2>12, <2>13
<1>5. QED BY <1>4 DEF CoreLeases

(* An action whose success is confirmed is in no queue.                    *)
LEMMA ConfirmedIs ==
  ASSUME NEW W, NEW tries, NEW gone, NEW d, Sound(W, tries, gone, d), NEW id, id < d.next, IsOut(id, d)
  PROVE Sound(W, tries, gone \cup {id}, d)
<1>1. d \in CoreOver(W) /\ StoresSound(d, tries, gone)
  BY DEF Sound
<1>2. ASSUME NEW q \in {d.queue, d.queueFile}, QueueSound(q, d.next, tries, gone)
      PROVE QueueSound(q, d.next, tries, gone \cup {id})
  BY <1>2 DEF QueueSound, IsOut
<1>3. d.next \in Nat
  BY <1>1 DEF CoreOver
<1>4. \A i \in Nat : i >= d.next => tries[i] = 0 /\ i \notin gone \cup {id}
  BY <1>1, <1>3 DEF StoresSound
<1>5. QED BY <1>1, <1>2, <1>4 DEF Sound, StoresSound

(* The connection that owns the Region is the World's last one; while a    *)
(* message of it is with the Core, the World has nothing in hand.          *)
LEMMA OwnersHandIsEmpty ==
  ASSUME ConnInv, NEW m \in serving, Owns(m.frame)
  PROVE ~InHand(conn)
<1>1. PICK R : conn \in ConnOver(R)
  BY DEF ConnInv
<1>2. conn.generation \in Nat /\ m.frame.generation \in 1 .. conn.generation /\ m.frame.generation = registered
      /\ registered \in {0, conn.generation}
  BY <1>1 DEF ConnInv, ConnOver, Owns
<1>3. m.frame.generation = conn.generation
  BY <1>2
<1>4. conn.reply.kind = "none"
  BY <1>3 DEF ConnInv
<1>5. QED BY <1>4 DEF InHand

LEMMA ConnAcknowledges ==
  ASSUME ConnInv, NEW f, NEW ok, IF ok THEN Answer(f, [kind |-> "ack"]) ELSE Hangs(f), IsLast(f),
         registered' = registered
  PROVE ConnInv' /\ HandKept
<1>1. CASE ok
  <2>1. PICK reply : reply = [kind |-> "ack"]
    OBVIOUS
  <2>2. ~InHand([reply |-> reply])
    BY <2>1 DEF InHand
  <2>3. Answer(f, reply)
    BY <1>1, <2>1
  <2>4. QED BY <2>2, <2>3, ConnAnswersOther
<1>2. CASE ~ok
  BY <1>2, ConnHangs DEF IsLast
<1>3. QED BY <1>1, <1>2

(* A message is looked at: it is answered at once, or taken up.            *)
LEMMA CoreChecksKeeps ==
  ASSUME Inv, NEW f \in frames, CoreChecks(f)
  PROVE Inv'
<1> DEFINE about == IF f.kind = "result" THEN Find(core, f.id) ELSE {Nothing}
           StageOf(a) == IF f.kind # "result" \/ (f.ok /\ a.type = "query") THEN "checked"
                         ELSE IF f.ok THEN "good" ELSE "bad"
<1>1. UNCHANGED <<core, applied, over, acked, registered>> /\ frames' = frames \ {f}
  BY DEF CoreChecks, worldVars
<1>2. ASSUME NEW kind \in {"ack", "error"}, Answer(f, [kind |-> kind]), serving' = serving
      PROVE Inv'
  <2>1. PICK reply : reply = [kind |-> kind]
    OBVIOUS
  <2>2. ~InHand([reply |-> reply])
    BY <2>1 DEF InHand
  <2>3. IsLast(f)
    BY <1>1, <1>2, CheckedIsLast DEF Inv
  <2>4. ConnInv' /\ HandKept
    BY <1>1, <1>2, <2>1, <2>2, <2>3, ConnAnswersOther DEF Inv
  <2>5. QED BY <1>1, <1>2, <2>4, WorldWorks
<1>3. ASSUME NEW a \in about, serving' = serving \cup {[frame |-> f, action |-> a, stage |-> StageOf(a)]},
             conn' = conn
      PROVE Inv'
  <2>1. PICK m : m = [frame |-> f, action |-> a, stage |-> StageOf(a)]
    OBVIOUS
  <2>2. m.frame = f /\ m.action = a /\ m.stage = StageOf(a)
    BY <2>1
  <2>3. serving' = serving \cup {m}
    BY <1>3, <2>1
  <2>4. ConnInv' /\ HandKept
    BY <1>1, <1>3, <2>2, <2>3 DEF Inv, ConnInv, HandKept
  <2>5. IF f.kind = "result" THEN a \in ScriptWorldAction ELSE a = Nothing
    <3>1. CASE f.kind = "result"
      <4>1. PICK W : CoreSound(W, core, applied, conn, over)
        BY DEF Inv, CoreInv
      <4>2. /\ core \in CoreOver(W) /\ NextBounded(core) /\ core.next \in Nat
            /\ QueueSound(core.queue, core.next, TriesOf(applied, conn), over)
        BY <4>1 DEF CoreSound, Sound, StoresSound, CoreOver
      <4>3. a \in core.queue /\ a \in Entry /\ a.id \in Nat \ {0} /\ a.id < core.next
        BY <3>1, <4>2 DEF Find, CoreOver, QueueSound, Entry
      <4>4. a.id \in Actions
        BY <4>2, <4>3, InActions
      <4>5. a \in ScriptWorldAction
        BY <4>3, <4>4 DEF Entry, ScriptWorldAction
      <4>6. QED BY <3>1, <4>5
    <3>2. CASE f.kind # "result"
      BY <3>2
    <3>3. QED BY <3>1, <3>2
  <2>6. StageOf(a) \in {"checked", "good", "bad"} /\ ~(f.kind = "result" /\ StageOf(a) = "good" /\ a.type = "query")
    OBVIOUS
  <2> HIDE DEF StageOf
  <2>7. m \in ServedOver({f})
    BY <2>1, <2>5, <2>6 DEF ServedOver
  <2>8. ServingSound'
    BY <2>2, <2>3, <2>5, <2>7 DEF Inv, ServingSound
  <2>9. ~WillTell(m)
    BY <2>2, <2>6 DEF WillTell
  <2>10. Promised(serving') = Promised(serving)
    BY <2>3, <2>9 DEF Promised
  <2>11. Told' = acked' \cup Promised(serving')
    BY DEF Told, Promised, WillTell
  <2>12. KeptSound(core', Told')
    BY <1>1, <2>10, <2>11 DEF Inv, Told
  <2>13. CoreInv'
    BY <1>1, <2>4, CoreStays DEF Inv
  <2>14. QED BY <2>4, <2>8, <2>12, <2>13 DEF Inv
<1>4. \/ \E a \in about : /\ serving' = serving \cup {[frame |-> f, action |-> a, stage |-> StageOf(a)]}
                          /\ conn' = conn
      \/ \E kind \in {"ack", "error"} : Answer(f, [kind |-> kind]) /\ serving' = serving
  BY DEF CoreChecks
<1>5. QED BY <1>2, <1>3, <1>4

(* The stores after a result, with what the script was told.               *)
IsTold(c, s, what, e) == e = c \/ e = ApplyWorldResult(c, s, what)

LEMMA ToldKeeps ==
  ASSUME NEW W, NEW tries, NEW gone, NEW c, Sound(W, tries, gone, c), NEW s \in Scripts,
         NEW what \in SUBSET W, NEW e, IsTold(c, s, what, e)
  PROVE /\ Goes(W, tries, gone, c, e) /\ SameNext(c, e)
        /\ e = ApplyWorldResult(c, s, what) => Got(s, what, e)
<1>1. CASE e = ApplyWorldResult(c, s, what)
  <2>1. /\ Goes(W, tries, gone, c, ApplyWorldResult(c, s, what))
        /\ SameNext(c, ApplyWorldResult(c, s, what))
        /\ Got(s, what, ApplyWorldResult(c, s, what))
    BY ResultKeeps
  <2>2. QED BY <1>1, <2>1
<1>2. CASE e = c /\ e # ApplyWorldResult(c, s, what)
  BY <1>2, NothingGoes DEF SameNext
<1>3. QED BY <1>1, <1>2 DEF IsTold

(* What a script has got can be told.                                      *)
LEMMA OneMoreKept ==
  ASSUME NEW c, NEW given, KeptSound(c, given), NEW s \in Scripts, NEW what,
         HasGot(c.scripts[s], {what}), HasGot(c.scriptsFile[s], {what})
  PROVE KeptSound(c, given \cup {<<s, what>>})
<1>1. SUFFICES ASSUME NEW g \in given \cup {<<s, what>>}
               PROVE /\ g[1] \in Scripts
                     /\ HasGot(c.scripts[g[1]], {g[2]}) /\ HasGot(c.scriptsFile[g[1]], {g[2]})
  BY DEF KeptSound
<1>2. CASE g \in given
  BY <1>2 DEF KeptSound
<1>3. CASE g = <<s, what>>
  <2>1. g[1] = s /\ g[2] = what
    BY <1>3
  <2>2. QED BY <2>1
<1>4. QED BY <1>2, <1>3

LEMMA CoreGivesKeeps ==
  ASSUME Inv, NEW m \in serving, CoreGives(m)
  PROVE Inv'
<1> DEFINE a == m.action
           known == core.scripts[a.script].owner # Nobody
           what == <<0, a.id>>
           Given(n) == IF known THEN ApplyWorldResult(Fused(n), a.script, {what}) ELSE Fused(n)
<1>1. PICK W : CoreSound(W, core, applied, conn, over)
  BY DEF Inv, CoreInv
<1>2. UNCHANGED <<applied, over, acked, registered, frames, conn>> /\ m.frame.kind = "result"
  BY DEF CoreGives, worldVars
<1>3. PICK fuse \in Writes(1) :
        /\ Stores({}, Given(fuse))
        /\ serving' = (serving \ {m}) \cup {[m EXCEPT !.stage = IF known /\ Given(fuse).ok THEN "good" ELSE "bad"]}
  BY DEF CoreGives
<1>4. PICK F : m \in ServedOver(F)
  BY DEF Inv, ServingSound
<1>5. a \in ScriptWorldAction /\ a.script \in Scripts
  BY <1>2 DEF Inv, ServingSound, ScriptWorldAction
<1>6. known => core.scripts[a.script].owner # Nobody
  OBVIOUS
<1>7. PICK d : d = Given(fuse)
  OBVIOUS
<1>8. PICK stage \in {"good", "bad"} : stage = IF known /\ d.ok THEN "good" ELSE "bad"
  OBVIOUS
<1>9. PICK n : n = [m EXCEPT !.stage = stage]
  OBVIOUS
<1>10. PICK c : c = Fused(fuse)
  OBVIOUS
<1>11. /\ d = IF known THEN ApplyWorldResult(c, a.script, {what}) ELSE c
       /\ core' = Settled(d) /\ NextBounded(d) /\ serving' = (serving \ {m}) \cup {n}
  BY <1>3, <1>7, <1>8, <1>9, <1>10 DEF Stores
<1>12. n \in ServedOver(F) /\ n.frame = m.frame /\ n.action = a /\ n.stage = stage
  BY <1>4, <1>9 DEF ServedOver
<1>13. ServingSound'
  BY <1>2, <1>5, <1>11, <1>12 DEF Inv, ServingSound
<1>14. ConnInv' /\ HandKept
  BY <1>2, <1>11, <1>12 DEF Inv, ConnInv, HandKept
<1>15. Told' \subseteq Told \cup (IF known /\ d.ok THEN {<<a.script, what>>} ELSE {})
  <2>1. WillTell(n) => known /\ d.ok
    BY <1>8, <1>12 DEF WillTell
  <2>2. Promised(serving') \subseteq Promised(serving) \cup (IF known /\ d.ok THEN {<<a.script, what>>} ELSE {})
    BY <1>11, <1>12, <2>1 DEF Promised
  <2>3. Told' = acked' \cup Promised(serving')
    BY DEF Told, Promised, WillTell
  <2>4. QED BY <1>2, <2>2, <2>3 DEF Told
<1> HIDE DEF a, known, what
<1>16. fuse \in Nat
  BY WritesAre
<1>17. /\ Sound(W, TriesOf(applied, conn), over, c) /\ SameStores(core, c) /\ c.ok
       /\ KeptSound(c, Told)
  BY <1>1, <1>10, <1>16, FusedNow
<1>18. PICK V : W \subseteq V /\ {what} \in SUBSET V
  <2>1. W \subseteq W \cup {what} /\ {what} \in SUBSET (W \cup {what})
    OBVIOUS
  <2>2. QED BY <2>1
<1>19. Sound(V, TriesOf(applied, conn), over, c)
  BY <1>17, <1>18, SoundWider
<1>20. IsTold(c, a.script, {what}, d)
  BY <1>11 DEF IsTold
<1>21. /\ Goes(V, TriesOf(applied, conn), over, c, d) /\ SameNext(c, d)
       /\ d = ApplyWorldResult(c, a.script, {what}) => Got(a.script, {what}, d)
  BY <1>5, <1>18, <1>19, <1>20, ToldKeeps
<1>22. Sound(V, TriesOf(applied, conn), over, d) /\ core.next <= d.next /\ KeptSound(d, Told)
  BY <1>17, <1>19, <1>21, GoneNow
<1>23. KeptSound(d, Told')
  <2>1. CASE known /\ d.ok
    <3>1. Got(a.script, {what}, d)
      BY <1>11, <1>21, <2>1
    <3>2. d.scripts[a.script].owner # Nobody
      BY <1>5, <1>6, <1>17, <1>21, <2>1 DEF Goes, ScriptsGoOn, Later, SameStores, SameScripts
    <3>3. HasGot(d.scripts[a.script], {what}) /\ HasGot(d.scriptsFile[a.script], {what})
      BY <2>1, <3>1, <3>2 DEF Got, HasGot
    <3>4. KeptSound(d, Told \cup {<<a.script, what>>})
      BY <1>5, <1>22, <3>3, OneMoreKept
    <3>5. QED BY <1>15, <2>1, <3>4, KeptOfFewer
  <2>2. CASE ~(known /\ d.ok)
    BY <1>15, <1>22, <2>2, KeptOfFewer
  <2>3. QED BY <2>1, <2>2
<1>24. QED BY <1>1, <1>2, <1>11, <1>13, <1>14, <1>22, <1>23, CoreWorks

(* What becomes of the stores when a thread confirms an action or has it   *)
(* tried again.                                                            *)
LEMMA ConfirmedOrNot ==
  ASSUME NEW W, NEW tries \in [Nat -> Nat], NEW gone, NEW c, Sound(W, tries, gone, c), NEW id,
         NEW d, d = Ack(c, id) \/ d = Nack(c, id)
  PROVE /\ Goes(W, tries, gone, c, d) /\ SameNext(c, d)
        /\ d = Ack(c, id) /\ Find(c, id) # {} /\ d.ok => IsOut(id, d)
BY AckKeeps, NackKeeps

LEMMA CoreConfirmsKeeps ==
  ASSUME Inv, NEW m \in serving, CoreConfirms(m)
  PROVE Inv'
<1> DEFINE a == m.action
           After(n) == IF m.stage = "good" THEN Ack(Fused(n), a.id) ELSE Nack(Fused(n), a.id)
<1>1. PICK W : CoreSound(W, core, applied, conn, over)
  BY DEF Inv, CoreInv
<1>2. applied' = applied /\ registered' = registered /\ Finished(m) /\ m.frame.kind = "result"
  BY DEF CoreConfirms, worldVars
<1>3. PICK fuse \in Writes(1) :
        /\ Stores({}, After(fuse))
        /\ IF After(fuse).ok THEN Answer(m.frame, [kind |-> "ack"]) ELSE Hangs(m.frame)
        /\ over' = IF (m.stage = "good" /\ After(fuse).ok) /\ Find(core, a.id) # {} /\ Owns(m.frame)
                   THEN over \cup {a.id} ELSE over
        /\ acked' = IF (m.stage = "good" /\ After(fuse).ok) /\ a.type = "query"
                    THEN acked \cup {<<a.script, <<0, a.id>>>>} ELSE acked
  BY DEF CoreConfirms
<1>4. PICK c : c = Fused(fuse)
  OBVIOUS
<1>5. PICK d : d = After(fuse)
  OBVIOUS
<1>6. /\ d = IF m.stage = "good" THEN Ack(c, a.id) ELSE Nack(c, a.id)
      /\ core' = Settled(d) /\ NextBounded(d)
  BY <1>3, <1>4, <1>5 DEF Stores
<1>7. IF d.ok THEN Answer(m.frame, [kind |-> "ack"]) ELSE Hangs(m.frame)
  BY <1>3, <1>5
<1>8. over' = IF (m.stage = "good" /\ d.ok) /\ Find(core, a.id) # {} /\ Owns(m.frame) THEN over \cup {a.id} ELSE over
  BY <1>3, <1>5
<1>9. acked' \subseteq Told
  <2>1. m.stage = "good" /\ a.type = "query" => <<a.script, <<0, a.id>>>> \in Promised(serving)
    BY <1>2 DEF Promised, WillTell
  <2>2. QED BY <1>3, <2>1 DEF Told
<1>10. a \in ScriptWorldAction
  BY <1>2 DEF Inv, ServingSound
<1> HIDE DEF a, After
<1>11. frames' \subseteq frames /\ serving' \subseteq serving /\ IsLast(m.frame)
  BY <1>2, FinishedIsLast DEF Inv, IsLast
<1>12. ConnInv' /\ HandKept
  BY <1>2, <1>7, <1>11, ConnAcknowledges DEF Inv
<1>13. ServingSound' /\ Told' \subseteq Told
  <2>1. ServingSound'
    BY <1>11 DEF Inv, ServingSound
  <2>2. Promised(serving') \subseteq Promised(serving)
    BY <1>11 DEF Promised
  <2>3. Told' = acked' \cup Promised(serving')
    BY DEF Told, Promised, WillTell
  <2>4. QED BY <1>9, <2>1, <2>2, <2>3 DEF Told
<1>14. fuse \in Nat
  BY WritesAre
<1>15. /\ Sound(W, TriesOf(applied, conn), over, c) /\ SameStores(core, c) /\ c.ok
       /\ KeptSound(c, Told)
  BY <1>1, <1>4, <1>14, FusedNow
<1>16. TriesOf(applied, conn) \in [Nat -> Nat]
  BY <1>1, TriesNowTyped
<1>17. /\ Goes(W, TriesOf(applied, conn), over, c, d) /\ SameNext(c, d)
       /\ d = Ack(c, a.id) /\ Find(c, a.id) # {} /\ d.ok => IsOut(a.id, d)
  BY <1>6, <1>15, <1>16, ConfirmedOrNot
<1>18. Sound(W, TriesOf(applied, conn), over, d) /\ core.next <= d.next /\ KeptSound(d, Told)
  BY <1>15, <1>17, GoneNow
<1>19. KeptSound(d, Told')
  BY <1>13, <1>18, KeptOfFewer
<1>20. CASE over' = over
  BY <1>1, <1>2, <1>6, <1>12, <1>13, <1>18, <1>19, <1>20, CoreWorks
<1>21. CASE over' # over
  <2>1. m.stage = "good" /\ d.ok /\ Find(core, a.id) # {} /\ Owns(m.frame) /\ over' = over \cup {a.id}
    BY <1>8, <1>21
  <2>2. Find(c, a.id) # {}
    BY <1>15, <2>1 DEF Find, SameStores
  <2>3. IsOut(a.id, d)
    BY <1>6, <1>17, <2>1, <2>2
  <2>4. ~InHand(conn)
    BY <2>1, OwnersHandIsEmpty DEF Inv
  <2>5. PICK x \in core.queue : x.id = a.id
    BY <2>1 DEF Find
  <2>6. core.next \in Nat /\ a.id \in Nat \ {0} /\ a.id < core.next
    <3>1. core \in CoreOver(W) /\ QueueSound(core.queue, core.next, TriesOf(applied, conn), over)
      BY <1>1 DEF CoreSound, Sound, StoresSound
    <3>2. core.next \in Nat /\ x.id < core.next /\ x.id \in Nat \ {0}
      BY <2>5, <3>1 DEF CoreOver, QueueSound, Entry
    <3>3. QED BY <2>5, <3>2
  <2>7. d.next = core.next
    BY <1>15, <1>17 DEF SameStores, SameNext
  <2>8. Sound(W, TriesOf(applied, conn), over', d)
    BY <1>18, <2>1, <2>3, <2>6, <2>7, ConfirmedIs
  <2>9. /\ Sound(W, TriesOf(applied, conn), over', core') /\ SameStores(d, core')
        /\ core'.ok /\ core'.fuse = 0
    BY <1>6, <2>8, SettledIs
  <2>10. CoreSound(W, core', applied, conn, over')
    <3>1. over' \subseteq Actions
      BY <1>1, <1>10, <2>1 DEF CoreSound, ScriptWorldAction
    <3>2. QED BY <1>1, <1>6, <2>9, <3>1 DEF CoreSound, NextBounded, SameStores, SameNext
  <2>11. ~InHand(conn') /\ HandSound(core', conn, over')
    BY <1>12, <2>4 DEF HandKept, HandSound
  <2>12. CoreSound(W, core', applied, conn', over') /\ HandSound(core', conn', over')
    BY <2>10, <2>11, HandEmptier
  <2>13. CoreInv'
    BY <1>2, <2>12 DEF CoreInv
  <2>14. KeptSound(core', Told')
    BY <1>19, <2>9 DEF KeptSound, SameStores, SameScripts
  <2>15. QED BY <1>12, <1>13, <2>13, <2>14 DEF Inv
<1>22. QED BY <1>20, <1>21

(* An event: each of the object's scripts runs once.                       *)
LEMMA OrderIs ==
  ASSUME NEW mine \in SUBSET Scripts, NEW order \in SetToSeqs(mine)
  PROVE /\ Len(order) \in Nat
        /\ \A i \in 1 .. Len(order) : order[i] \in Scripts
        /\ \A i, j \in 1 .. Len(order) : i # j => order[i] # order[j]
        /\ \A s \in mine : \E i \in 1 .. Len(order) : order[i] = s
<1>1. IsFiniteSet(mine) /\ Cardinality(mine) \in Nat
  BY ScriptsAssumption, FS_Subset, FS_CardinalityType
<1>2. PICK n \in Nat : n = Cardinality(mine)
  BY <1>1
<1>3. order \in [1 .. n -> mine] /\ \A i, j \in 1 .. n : i # j => order[i] # order[j]
  BY <1>2 DEF SetToSeqs
<1>4. Len(order) = n
  BY <1>3
<1>5. \A s \in mine : \E i \in 1 .. n : order[i] = s
  <2>1. order \in Injection(1 .. n, mine)
    BY <1>3 DEF Injection, IsInjective
  <2>2. IsFiniteSet(1 .. n) /\ Cardinality(1 .. n) = n
    BY FS_Interval
  <2>3. order \in Surjection(1 .. n, mine)
    BY <1>1, <1>2, <2>1, <2>2, FS_Injection
  <2>4. QED BY <2>3 DEF Surjection
<1>6. QED BY <1>3, <1>4, <1>5

LEMMA CoreRunsScriptsKeeps ==
  ASSUME Inv, NEW m \in serving, CoreRunsScripts(m)
  PROVE Inv'
<1>1. PICK W : CoreSound(W, core, applied, conn, over)
  BY DEF Inv, CoreInv
<1>2. UNCHANGED <<applied, over>> /\ registered' = registered
  BY DEF CoreRunsScripts, worldVars
<1>3. IsLast(m.frame) /\ frames' \subseteq frames /\ serving' \subseteq serving
  BY FinishedIsLast DEF Inv, CoreRunsScripts, IsLast
<1> DEFINE f == m.frame
           mine == {s \in Scripts : core.scripts[s].object = f.entity /\ Runs(core, s)}
           well == {s \in mine : RunHandlers(core.scripts[s].program, core.scripts[s].state, f.type).ok}
           Taken(c) == /\ Stores({}, c)
                       /\ IF c.ok THEN Answer(f, [kind |-> "ack"]) ELSE Hangs(f)
                       /\ acked' = IF c.ok THEN acked \cup {<<s, f.what>> : s \in well} ELSE acked
<1>4. PICK fuse \in Writes(Cardinality(Scripts) + MaxPending), order \in SetToSeqs(mine) :
          Taken(RunScripts(Fused(fuse), order, f.type, {f.what}))
  BY DEF CoreRunsScripts
<1>5. Inv'
  <2>1. fuse \in Nat
    BY <1>4, WritesAre, ScriptsAssumption, QueueAssumption, FS_CardinalityType
  <2>2. PICK c : c = Fused(fuse)
    OBVIOUS
  <2>3. /\ Sound(W, TriesOf(applied, conn), over, c) /\ SameStores(core, c) /\ c.ok
        /\ KeptSound(c, Told)
    BY <1>1, <2>1, <2>2, FusedNow
  <2>4. PICK V : W \subseteq V /\ {f.what} \in SUBSET V
    <3>1. W \subseteq W \cup {f.what} /\ {f.what} \in SUBSET (W \cup {f.what})
      OBVIOUS
    <3>2. QED BY <3>1
  <2>5. Sound(V, TriesOf(applied, conn), over, c)
    BY <2>3, <2>4, SoundWider
  <2>6. PICK d : d = RunScripts(c, order, f.type, {f.what})
    OBVIOUS
  <2>7. mine \in SUBSET Scripts
    OBVIOUS
  <2>8. Taken(d)
    BY <1>4, <2>2, <2>6
  <2>9. \A s \in well : s \in mine /\ Runs(core, s)
                        /\ RunHandlers(core.scripts[s].program, core.scripts[s].state, f.type).ok
    OBVIOUS
  <2>10. order \in SetToSeqs(mine)
    BY <1>4
  <2> HIDE DEF f, mine, well
  <2>11. /\ Len(order) \in Nat
         /\ \A i \in 1 .. Len(order) : order[i] \in Scripts
         /\ \A i, j \in 1 .. Len(order) : i # j => order[i] # order[j]
         /\ \A s \in mine : \E i \in 1 .. Len(order) : order[i] = s
    BY <2>7, <2>10, OrderIs
  <2>12. TriesOf(applied, conn) \in [Nat -> Nat]
    BY <1>1, TriesNowTyped
  <2>13. /\ Goes(V, TriesOf(applied, conn), over, c, d)
         /\ d.ok => \A i \in 1 .. Len(order) : Served(c, d, order[i], f.type, {f.what})
    BY <2>4, <2>5, <2>6, <2>11, <2>12, RunScriptsKeep
  <2>14. Sound(V, TriesOf(applied, conn), over, d) /\ core.next <= d.next /\ KeptSound(d, Told)
    BY <2>3, <2>13, GoneNow
  <2>15. core' = Settled(d) /\ NextBounded(d)
         /\ (IF d.ok THEN Answer(f, [kind |-> "ack"]) ELSE Hangs(f))
         /\ acked' = IF d.ok THEN acked \cup {<<s, f.what>> : s \in well} ELSE acked
    BY <2>8 DEF Stores
  <2>16. ConnInv' /\ HandKept
    BY <1>2, <1>3, <2>15, ConnAcknowledges DEF Inv, f
  <2>17. ASSUME d.ok, NEW s \in well
         PROVE HasGot(d.scripts[s], {f.what}) /\ HasGot(d.scriptsFile[s], {f.what})
    <3>1. PICK i \in 1 .. Len(order) : order[i] = s
      BY <2>9, <2>11
    <3>2. Served(c, d, s, f.type, {f.what})
      BY <2>13, <2>17, <3>1
    <3>3. Runs(c, s) /\ RunHandlers(c.scripts[s].program, c.scripts[s].state, f.type).ok
      BY <2>3, <2>9 DEF Runs, SameStores, SameScripts
    <3>4. QED BY <3>2, <3>3 DEF Served
  <2>18. KeptSound(d, Told') /\ ServingSound'
    <3>1. ServingSound' /\ Promised(serving') \subseteq Promised(serving)
      BY <1>3 DEF Inv, ServingSound, Promised
    <3>2. Told' = acked' \cup Promised(serving')
      BY DEF Told, Promised, WillTell
    <3>3. SUFFICES ASSUME NEW g \in Told'
                   PROVE /\ g[1] \in Scripts
                         /\ HasGot(d.scripts[g[1]], {g[2]}) /\ HasGot(d.scriptsFile[g[1]], {g[2]})
      BY <3>1 DEF KeptSound
    <3>4. CASE g \in Told
      BY <2>14, <3>4 DEF KeptSound
    <3>5. ASSUME d.ok, NEW s \in well, g = <<s, f.what>>
          PROVE /\ g[1] \in Scripts
                /\ HasGot(d.scripts[g[1]], {g[2]}) /\ HasGot(d.scriptsFile[g[1]], {g[2]})
      <4>1. g[1] = s /\ g[2] = f.what /\ s \in Scripts
        BY <2>7, <2>9, <3>5
      <4>2. QED BY <2>17, <3>5, <4>1
    <3>6. g \in Told \/ (d.ok /\ \E s \in well : g = <<s, f.what>>)
      BY <2>15, <3>1, <3>2, <3>3 DEF Told
    <3>7. QED BY <3>4, <3>5, <3>6
  <2>19. QED BY <1>1, <1>2, <2>14, <2>15, <2>16, <2>18, CoreWorks
<1>6. QED BY <1>5

----------------------------------------------------------------------------
LEMMA InitInv == Init => Inv
<1> SUFFICES ASSUME Init PROVE Inv
  OBVIOUS
<1>1. NoScript \in ScriptOver({})
  <2>1. 1 \in Ids
    <3>1. Cardinality(Ids) \in Nat /\ Cardinality(Ids) # 0
      BY IdsAssumption, FS_CardinalityType, FS_EmptySet
    <3>2. QED BY <3>1, IdsAssumption
  <2>2. QED BY <2>1 DEF ScriptOver, NoScript, States
<1>2. PICK t : t = [s \in Scripts |-> NoScript]
  OBVIOUS
<1>3. t \in [Scripts -> ScriptOver({})]
  BY <1>1, <1>2
<1>4. core = [scripts |-> t, scriptsFile |-> t, queue |-> {}, queueFile |-> {}, next |-> 1,
              ok |-> TRUE, fuse |-> 0]
  BY <1>2 DEF Init
<1>5. core \in CoreOver({})
  BY <1>3, <1>4 DEF CoreOver
<1>6. /\ conn = [open |-> FALSE, generation |-> 0, stage |-> "idle", reply |-> NoReply]
      /\ registered = 0 /\ frames = {} /\ serving = {} /\ acked = {} /\ over = {}
      /\ applied = [a \in Actions |-> 0]
  BY DEF Init
<1>7. conn.reply.kind = "none"
  BY <1>6 DEF NoReply
<1>8. ConnInv
  <2>1. conn \in ConnOver({NoReply})
    BY <1>6 DEF ConnOver, Stages
  <2>2. ~conn.open /\ conn.generation = 0
    BY <1>6
  <2>3. QED BY <1>6, <1>7, <2>1, <2>2 DEF ConnInv
<1>9. ~InHand(conn)
  BY <1>7 DEF InHand
<1>10. \A id \in Nat : TriesOf(applied, conn)[id] = 0
  <2>1. SUFFICES ASSUME NEW id \in Nat PROVE TriesOf(applied, conn)[id] = 0
    OBVIOUS
  <2>2. InTheHand(conn, id) = 0
    BY <1>9 DEF InTheHand
  <2>3. TriesOf(applied, conn)[id] = IF id \in Actions THEN applied[id] + 0 ELSE 0
    BY <2>2 DEF TriesOf
  <2>4. QED BY <1>6, <2>3
<1>11. StoresSound(core, TriesOf(applied, conn), over)
  <2>1. QueueSound({}, 1, TriesOf(applied, conn), over)
    BY FS_EmptySet, QueueAssumption DEF QueueSound
  <2>2. /\ core.ok /\ core.queue = {} /\ core.queueFile = {} /\ core.next = 1
    BY <1>4
  <2>3. QED BY <1>6, <1>10, <2>1, <2>2 DEF StoresSound
<1>12. NextBounded(core) /\ core.ok /\ core.fuse = 0
  <2>1. Cardinality(Actions) \in Nat
    BY ActionsAssumption, FS_CardinalityType
  <2>2. QED BY <1>4, <2>1 DEF NextBounded
<1>13. /\ applied \in [Actions -> Nat] /\ over \subseteq Actions
       /\ \A id \in Nat : TriesOf(applied, conn)[id] <= MaxAttempts
  <2>1. applied \in [Actions -> Nat] /\ over \subseteq Actions
    BY <1>6
  <2>2. \A id \in Nat : TriesOf(applied, conn)[id] <= MaxAttempts
    <3>1. 0 <= MaxAttempts
      BY QueueAssumption
    <3>2. QED BY <1>10, <3>1
  <2>3. QED BY <2>1, <2>2
<1>14. CoreSound({}, core, applied, conn, over)
  BY <1>5, <1>11, <1>12, <1>13 DEF CoreSound, Sound
<1>15. HandSound(core, conn, over) /\ KeptSound(core, Told) /\ ServingSound
  BY <1>6, <1>9 DEF HandSound, KeptSound, Told, Promised, ServingSound
<1>16. QED BY <1>8, <1>14, <1>15 DEF Inv, CoreInv

LEMMA NextInv == Inv /\ [Next]_vars => Inv'
<1> SUFFICES ASSUME Inv, [Next]_vars PROVE Inv'
  OBVIOUS
<1>1. ASSUME UNCHANGED <<core, applied, over, acked, registered, frames, serving, conn>>
      PROVE Inv'
  <2>1. ConnInv' /\ HandKept
    BY <1>1, ConnUnchanged DEF Inv
  <2>2. QED BY <1>1, <2>1, WorldWorks
<1>2. CASE SceneNext /\ UNCHANGED <<batch, cursor, lives, applied, coreVars, registered, frames, conn>>
  BY <1>1, <1>2 DEF coreVars
<1>3. CASE \/ \E f \in frames : CoreChecks(f)
           \/ \E m \in serving : CoreLeases(m) \/ CoreGives(m) \/ CoreConfirms(m) \/ CoreRunsScripts(m)
  BY <1>3, CoreChecksKeeps, CoreLeasesKeeps, CoreGivesKeeps, CoreConfirmsKeeps, CoreRunsScriptsKeeps
<1>4. CASE \E u \in Users, s \in Scripts, id \in Ids, program \in Sources : CreateScript(u, s, id, program)
  BY <1>4, CreateScriptKeeps
<1>5. CASE \E u \in Users, s \in Scripts : ScriptEvent(u, s)
  BY <1>5, ScriptEventKeeps
<1>6. CASE \E s \in Scripts : MaintenanceRuns(s) \/ TimerComesDue(s)
  BY <1>6, MaintenanceRunsKeeps, TimerComesDueKeeps
<1>7. CASE MaintenanceBegins
  BY <1>7, MaintenanceBeginsKeeps
<1>8. CASE CoreCrash
  BY <1>8, CoreCrashKeeps
<1>9. CASE LeaseRunsOut
  BY <1>9, LeaseRunsOutKeeps
<1>10. CASE Lapse
  BY <1>1, <1>10 DEF Lapse, worldVars
<1>11. CASE Connect
  BY <1>11, ConnectKeeps
<1>12. CASE Drop
  BY <1>12, DropKeeps
<1>13. CASE Poll
  BY <1>13, PollKeeps
<1>14. CASE WorldLooks
  BY <1>14, WorldLooksKeeps
<1>15. CASE WorldApplies
  BY <1>15, WorldAppliesKeeps
<1>16. CASE Hears
  BY <1>16, HearsKeeps
<1>17. CASE ReadEvents
  BY <1>1, <1>17 DEF ReadEvents, coreVars
<1>18. CASE SendEvent
  BY <1>18, SendEventKeeps
<1>19. CASE WorldCrash
  BY <1>19, WorldCrashKeeps
<1>20. CASE UNCHANGED vars
  BY <1>1, <1>20 DEF vars, worldVars
<1>21. QED
  BY <1>2, <1>3, <1>4, <1>5, <1>6, <1>7, <1>8, <1>9, <1>10, <1>11, <1>12, <1>13, <1>14, <1>15, <1>16,
     <1>17, <1>18, <1>19, <1>20 DEF Next, Sources

(* The inductive invariant.  The queue in memory and the one on file hold  *)
(* each action once, no more than fit, none that the owner of the Region   *)
(* has had taken off, and each counts at least as many tries as the World  *)
(* applied or has in hand; at most one message of the open connection is   *)
(* on its way to the Core or served, and the World then has nothing in     *)
(* hand, while threads of earlier connections go on; what a script was, or *)
(* will be, told is in memory and on file (world_action_queue.cpp,         *)
(* script_runtime.cpp, and their use in apps/core/main.cpp and             *)
(* apps/world/main.cpp).                                                   *)
THEOREM ScriptWorldInvariant == Spec => []Inv
<1>1. QED BY InitInv, NextInv, PTL DEF Spec

(* However often connections are lost, leases run out, writes throw and    *)
(* the Core restarts, the World applies no action more often than          *)
(* MaxAttempts (world_action_queue.cpp: lease counts the try on file       *)
(* before the World gets the action).                                      *)
THEOREM AppliedIsBounded == Spec => []AppliedWithinAttempts
<1>1. Inv => AppliedWithinAttempts
  <2>1. SUFFICES ASSUME Inv, NEW a \in Actions PROVE applied[a] <= MaxAttempts
    BY DEF AppliedWithinAttempts
  <2>2. PICK W : CoreSound(W, core, applied, conn, over)
    BY <2>1 DEF Inv, CoreInv
  <2>3. applied[a] \in Nat /\ \A id \in Nat : TriesOf(applied, conn)[id] <= MaxAttempts
    BY <2>1, <2>2 DEF CoreSound
  <2>4. a \in Nat /\ a \in Actions
    BY <2>1, ActionsAssumption, FS_CardinalityType
  <2>5. PICK n \in Nat : n = InTheHand(conn, a)
    BY DEF InTheHand
  <2>6. TriesOf(applied, conn)[a] = applied[a] + n
    BY <2>4, <2>5 DEF TriesOf
  <2>7. applied[a] + n <= MaxAttempts
    BY <2>3, <2>4, <2>6
  <2>8. QED BY <2>3, <2>5, <2>7, QueueAssumption
<1>2. QED BY <1>1, ScriptWorldInvariant, PTL

(* What the Core has told the World that it gave to a script is on file,   *)
(* for good (script_runtime.cpp: execute_event, apply_world_result).       *)
THEOREM AcknowledgedForGood == Spec => []AcknowledgedIsKept
<1>1. Inv => AcknowledgedIsKept
  BY DEF Inv, Told, KeptSound, HasGot, AcknowledgedIsKept
<1>2. QED BY <1>1, ScriptWorldInvariant, PTL

(* An action that a connection which owned the Region then has had taken   *)
(* off the queue is not applied again, by whatever connection and after    *)
(* whatever restart, and whatever threads of connections that owned the    *)
(* Region before are still at work on (world_action_queue.cpp: ack;        *)
(* apps/core/main.cpp: script_action_result).                              *)
THEOREM DoneForGood == Spec => DoneIsDone
<1>1. Inv /\ [Next]_vars => [\A a \in over : applied'[a] = applied[a]]_vars
  <2> SUFFICES ASSUME Inv, [Next]_vars, NEW a \in over PROVE applied'[a] = applied[a]
    OBVIOUS
  <2>1. CASE applied' = applied
    BY <2>1
  <2>2. CASE WorldApplies
    <3>1. PICK W : CoreSound(W, core, applied, conn, over)
      BY DEF Inv, CoreInv
    <3>2. applied \in [Actions -> Nat] /\ a \in Actions
      BY <3>1 DEF CoreSound
    <3>3. InHand(conn)
      BY <2>2 DEF WorldApplies, InHand
    <3>4. conn.reply.action.id \notin over
      BY <3>3 DEF Inv, CoreInv, HandSound
    <3>5. applied' = applied \/ applied' = [applied EXCEPT ![conn.reply.action.id] = @ + 1]
      BY <2>2 DEF WorldApplies
    <3>6. QED BY <3>2, <3>4, <3>5
  <2>3. CASE Next /\ ~WorldApplies
    <3>1. CASE \/ \E f \in frames : CoreChecks(f)
               \/ \E m \in serving : CoreLeases(m) \/ CoreGives(m) \/ CoreConfirms(m) \/ CoreRunsScripts(m)
      BY <3>1 DEF CoreChecks, CoreLeases, CoreGives, CoreConfirms, CoreRunsScripts, worldVars
    <3>2. CASE \E u \in Users, s \in Scripts, id \in Ids, program \in Sources : CreateScript(u, s, id, program)
      BY <3>2 DEF CreateScript, worldVars
    <3>3. CASE \/ \E u \in Users, s \in Scripts : ScriptEvent(u, s)
               \/ \E s \in Scripts : MaintenanceRuns(s) \/ TimerComesDue(s)
      BY <3>3 DEF ScriptEvent, MaintenanceRuns, TimerComesDue, worldVars
    <3>4. CASE MaintenanceBegins \/ CoreCrash \/ LeaseRunsOut \/ Lapse \/ Poll \/ WorldLooks
      BY <3>4 DEF MaintenanceBegins, CoreCrash, LeaseRunsOut, Lapse, Poll, WorldLooks, worldVars
    <3>5. CASE Connect \/ Drop \/ Hears \/ ReadEvents \/ SendEvent \/ WorldCrash
      BY <3>5 DEF Connect, Drop, Hears, ReadEvents, SendEvent, WorldCrash
    <3>6. CASE SceneNext /\ UNCHANGED <<batch, cursor, lives, applied, coreVars, registered, frames, conn>>
      BY <3>6
    <3>7. QED
      BY <2>3, <3>1, <3>2, <3>3, <3>4, <3>5, <3>6 DEF Next, Sources
  <2>4. CASE UNCHANGED vars
    BY <2>4 DEF vars, worldVars
  <2>5. QED BY <2>2, <2>3, <2>4
<1>2. QED BY <1>1, ScriptWorldInvariant, PTL DEF Spec, DoneIsDone

----------------------------------------------------------------------------
(* The World: its scene, what it has read of the events, and what it has   *)
(* in hand.                                                                *)
SentInv == conn.stage = "sent" => Len(batch) > 0
SeenInv == conn.reply.kind = "seen" => conn.reply.entity \in Entity
WorldInv ==
    /\ SceneInv
    /\ lapsed \subseteq Actions /\ due \subseteq Scripts
    /\ batch \in Seq(Event) /\ cursor \in Nat
    /\ \A f \in frames : f.kind \in {"poll", "result", "event"}
    /\ \A m \in serving : m.frame.kind \in {"poll", "result", "event"}
    /\ SentInv /\ SeenInv

LEMMA EventsSinceTyped ==
  ASSUME NEW s \in RegionRuntime, NEW n
  PROVE EventsSince(s, n) \in Seq(Event)
<1>1. PICK events \in Seq(Event) : events = s.events
  BY DEF RegionRuntime
<1>2. PICK N : N = {i \in DOMAIN events : events[i].sequence > n}
  OBVIOUS
<1>3. PICK m \in Nat : DOMAIN events = 1 .. m
  OBVIOUS
<1>4. IsFiniteSet(N) /\ \A i \in N : i \in Nat /\ i \in 1 .. m
  BY <1>2, <1>3, FS_Interval, FS_Subset
<1>5. PICK k \in Nat : k = Cardinality(N)
  BY <1>4, FS_CardinalityType
<1>6. Ascending(N) \in [1 .. k -> N]
  BY <1>4, <1>5, AscendingThere DEF Ascending
<1>7. PICK order \in [1 .. k -> N] : order = Ascending(N) /\ DOMAIN order = 1 .. k
  BY <1>6
<1>8. \A j \in 1 .. k : events[order[j]] \in Event
  BY <1>3, <1>4
<1>9. PICK since \in [1 .. k -> Event] : since = [j \in 1 .. k |-> events[order[j]]]
  BY <1>8
<1>10. EventsSince(s, n) = since
  BY <1>1, <1>2, <1>7, <1>9 DEF EventsSince
<1>11. QED BY <1>10

LEMMA Stored ==
  ASSUME budget \in [Bounded -> Nat], NEW kinds \in SUBSET Bounded, NEW c, Stores(kinds, c)
  PROVE budget' \in [Bounded -> Nat]
<1>1. PICK all \in SUBSET Bounded : Spends(all)
  <2>1. kinds \cup (IF c.ok THEN {} ELSE {"throw"}) \in SUBSET Bounded
    BY DEF Bounded
  <2>2. QED BY <2>1 DEF Stores
<1>2. QED BY <1>1, Spent

(* The connection is lost or as it was, or it holds an answer.             *)
Quiet == \/ conn' = conn
         \/ conn'.stage = "idle" /\ conn'.reply.kind = "none"
         \/ conn'.stage = conn.stage /\ conn'.reply.kind # "seen"

(* The Core gets no new messages.                                          *)
KindsKept == /\ frames' \subseteq frames
             /\ \A m \in serving' : m.frame \in frames \/ \E n \in serving : m.frame = n.frame

LEMMA LostIsQuiet ==
  ASSUME ConnInv, conn' = Unconnected(conn)
  PROVE conn'.stage = "idle" /\ conn'.reply.kind = "none"
<1>1. PICK R : conn \in ConnOver(R)
  BY DEF ConnInv
<1>2. conn'.stage = "idle" /\ conn'.reply = NoReply
  BY <1>1 DEF Unconnected, ConnOver
<1>3. QED BY <1>2 DEF NoReply

LEMMA AnswerIsQuiet ==
  ASSUME ConnInv, NEW f, NEW reply, reply.kind # "seen", Answer(f, reply)
  PROVE Quiet
<1>1. PICK R : conn \in ConnOver(R)
  BY DEF ConnInv
<1>2. conn' \in {conn, [conn EXCEPT !.reply = reply]}
  BY DEF Answer
<1>3. conn' = [conn EXCEPT !.reply = reply] => conn'.stage = conn.stage /\ conn'.reply = reply
  BY <1>1 DEF ConnOver
<1>4. QED BY <1>2, <1>3 DEF Quiet

LEMMA HangsIsQuiet ==
  ASSUME ConnInv, NEW f, Hangs(f)
  PROVE Quiet
BY LostIsQuiet DEF Hangs, Quiet

LEMMA StartsIsQuiet ==
  ASSUME ConnInv, NEW c, CoreStarts(c)
  PROVE Quiet /\ KindsKept /\ due' = {}
BY LostIsQuiet DEF CoreStarts, Quiet, KindsKept

(* Steps of the Core leave the World as it is.                             *)
LEMMA WorldWaits ==
  ASSUME WorldInv, UNCHANGED worldVars, budget' \in [Bounded -> Nat], lapsed' \subseteq Actions, due' \subseteq Scripts,
         KindsKept, Quiet
  PROVE WorldInv'
<1>1. UNCHANGED sceneVars /\ batch' = batch /\ cursor' = cursor
  BY DEF worldVars
<1>2. SceneInv'
  BY <1>1, SceneUnchanged DEF WorldInv
<1>3. SentInv' /\ SeenInv'
  BY <1>1 DEF Quiet, WorldInv, SentInv, SeenInv
<1>4. QED BY <1>1, <1>2, <1>3 DEF WorldInv, KindsKept

LEMMA BudgetIs ==
  ASSUME WorldInv
  PROVE budget \in [Bounded -> Nat]
BY SceneHas DEF WorldInv

LEMMA CoreServes ==
  ASSUME Inv, WorldInv, \/ \E f \in frames : CoreChecks(f)
                        \/ \E m \in serving : CoreLeases(m) \/ CoreGives(m) \/ CoreConfirms(m) \/ CoreRunsScripts(m)
  PROVE WorldInv'
<1>1. \A kind \in {"error", "ack"} : [kind |-> kind].kind # "seen"
  OBVIOUS
<1>2. {} \in SUBSET Bounded
  OBVIOUS
<1>3. ConnInv
  BY DEF Inv
<1>4. UNCHANGED worldVars /\ UNCHANGED lapsed /\ UNCHANGED due
  BY DEF CoreChecks, CoreLeases, CoreGives, CoreConfirms, CoreRunsScripts
<1>5. budget' \in [Bounded -> Nat] /\ Quiet /\ KindsKept
  <2>1. ASSUME NEW f \in frames, CoreChecks(f)
        PROVE budget' \in [Bounded -> Nat] /\ Quiet /\ KindsKept
    <3>1. UNCHANGED budget /\ frames' = frames \ {f}
      BY <2>1 DEF CoreChecks
    <3>2. conn' = conn \/ \E kind \in {"ack", "error"} : Answer(f, [kind |-> kind])
      BY <2>1 DEF CoreChecks
    <3>3. Quiet
      BY <1>1, <1>3, <3>2, AnswerIsQuiet DEF Quiet
    <3>4. serving' = serving \/ \E a, stage : serving' = serving \cup {[frame |-> f, action |-> a, stage |-> stage]}
      BY <2>1 DEF CoreChecks
    <3>5. KindsKept
      BY <3>1, <3>4 DEF KindsKept
    <3>6. QED BY <3>1, <3>3, <3>5, BudgetIs
  <2>2. ASSUME NEW m \in serving, CoreLeases(m)
        PROVE budget' \in [Bounded -> Nat] /\ Quiet /\ KindsKept
    <3>1. Leased(core).kind # "seen"
      BY DEF Leased
    <3>2. (\E c : Stores({}, c)) /\ (Answer(m.frame, Leased(core)) \/ Hangs(m.frame))
      BY <2>2 DEF CoreLeases
    <3>3. KindsKept
      BY <2>2 DEF CoreLeases, Finished, KindsKept
    <3>4. QED BY <1>2, <1>3, <3>1, <3>2, <3>3, BudgetIs, Stored, AnswerIsQuiet, HangsIsQuiet
  <2>3. ASSUME NEW m \in serving, CoreGives(m)
        PROVE budget' \in [Bounded -> Nat] /\ Quiet /\ KindsKept
    <3>1. (\E c : Stores({}, c)) /\ UNCHANGED <<frames, conn>>
      BY <2>3 DEF CoreGives
    <3>2. PICK stage : serving' = (serving \ {m}) \cup {[m EXCEPT !.stage = stage]}
      BY <2>3 DEF CoreGives
    <3>3. PICK F : m \in ServedOver(F)
      BY DEF Inv, ServingSound
    <3>4. [m EXCEPT !.stage = stage].frame = m.frame
      BY <3>3 DEF ServedOver
    <3>5. KindsKept
      BY <3>1, <3>2, <3>4 DEF KindsKept
    <3>6. QED BY <1>2, <3>1, <3>5, BudgetIs, Stored DEF Quiet
  <2>4. ASSUME NEW m \in serving, CoreConfirms(m) \/ CoreRunsScripts(m)
        PROVE budget' \in [Bounded -> Nat] /\ Quiet /\ KindsKept
    <3>1. (\E c : Stores({}, c)) /\ (Answer(m.frame, [kind |-> "ack"]) \/ Hangs(m.frame))
      BY <2>4 DEF CoreConfirms, CoreRunsScripts
    <3>2. KindsKept
      BY <2>4 DEF CoreConfirms, CoreRunsScripts, Finished, KindsKept
    <3>3. QED BY <1>1, <1>2, <1>3, <3>1, <3>2, BudgetIs, Stored, AnswerIsQuiet, HangsIsQuiet
  <2>5. QED BY <2>1, <2>2, <2>3, <2>4
<1>6. QED BY <1>4, <1>5, WorldWaits DEF WorldInv

LEMMA RequestKeeps ==
  ASSUME WorldInv, \/ \E u \in Users, s \in Scripts, id \in Ids, program \in Sources : CreateScript(u, s, id, program)
                   \/ \E u \in Users, s \in Scripts : ScriptEvent(u, s)
  PROVE WorldInv'
<1>1. \E c : Stores({"request"}, c)
  BY DEF CreateScript, ScriptEvent
<1>2. budget' \in [Bounded -> Nat]
  <2>1. {"request"} \in SUBSET Bounded
    BY DEF Bounded
  <2>2. QED BY <1>1, <2>1, BudgetIs, Stored
<1>3. UNCHANGED worldVars /\ UNCHANGED <<lapsed, due, frames, serving, conn>>
  BY DEF CreateScript, ScriptEvent
<1>4. QED BY <1>2, <1>3, WorldWaits DEF WorldInv, Quiet, KindsKept

LEMMA MaintainedWaits ==
  ASSUME Inv, WorldInv, UNCHANGED worldVars, lapsed' = lapsed, NEW c, NEW rest \in SUBSET Scripts, Maintained(c, rest)
  PROVE WorldInv'
<1>1. CASE Stores({}, c) /\ due' = rest /\ UNCHANGED <<registered, frames, serving, conn>>
  <2>1. budget' \in [Bounded -> Nat]
    BY <1>1, BudgetIs, Stored
  <2>2. QED BY <1>1, <2>1, WorldWaits DEF WorldInv, Quiet, KindsKept
<1>2. CASE Spends({"throw"}) /\ CoreStarts(c)
  <2>1. {"throw"} \in SUBSET Bounded
    BY DEF Bounded
  <2>2. budget' \in [Bounded -> Nat]
    BY <1>2, <2>1, BudgetIs, Spent
  <2>3. Quiet /\ KindsKept /\ due' = {}
    BY <1>2, StartsIsQuiet DEF Inv
  <2>4. QED BY <2>2, <2>3, WorldWaits DEF WorldInv
<1>3. QED BY <1>1, <1>2 DEF Maintained

LEMMA MaintenanceKeeps ==
  ASSUME Inv, WorldInv, MaintenanceBegins \/ CoreCrash \/ \E s \in Scripts : MaintenanceRuns(s)
  PROVE WorldInv'
<1>1. CASE MaintenanceBegins
  <2>1. PICK rest \in SUBSET Scripts : \E c : Maintained(c, rest)
    BY <1>1 DEF MaintenanceBegins
  <2>2. QED BY <1>1, <2>1, MaintainedWaits DEF MaintenanceBegins
<1>2. ASSUME NEW s \in Scripts, MaintenanceRuns(s) PROVE WorldInv'
  <2>1. PICK c : Maintained(c, due \ {s})
    BY <1>2 DEF MaintenanceRuns
  <2>2. due \ {s} \in SUBSET Scripts
    BY DEF WorldInv
  <2>3. QED BY <1>2, <2>1, <2>2, MaintainedWaits DEF MaintenanceRuns
<1>3. CASE CoreCrash
  <2>1. {"core"} \in SUBSET Bounded
    BY DEF Bounded
  <2>2. Spends({"core"}) /\ CoreStarts(core) /\ UNCHANGED worldVars /\ UNCHANGED lapsed
    BY <1>3 DEF CoreCrash
  <2>3. budget' \in [Bounded -> Nat]
    BY <2>1, <2>2, BudgetIs, Spent
  <2>4. Quiet /\ KindsKept /\ due' = {}
    BY <2>2, StartsIsQuiet DEF Inv
  <2>5. QED BY <2>2, <2>3, <2>4, WorldWaits DEF WorldInv
<1>4. QED BY <1>1, <1>2, <1>3

LEMMA TimeGoesOn ==
  ASSUME WorldInv, (\E s \in Scripts : TimerComesDue(s)) \/ LeaseRunsOut \/ Lapse
  PROVE WorldInv'
<1>1. Spends({"time"}) \/ UNCHANGED budget
  BY DEF TimerComesDue, LeaseRunsOut, Lapse
<1>2. budget' \in [Bounded -> Nat]
  <2>1. {"time"} \in SUBSET Bounded
    BY DEF Bounded
  <2>2. QED BY <1>1, <2>1, BudgetIs, Spent
<1>3. UNCHANGED worldVars /\ UNCHANGED <<due, frames, serving, conn>>
  BY DEF TimerComesDue, LeaseRunsOut, Lapse
<1>4. lapsed' \subseteq Actions
  BY DEF TimerComesDue, LeaseRunsOut, Lapse, WorldInv
<1>5. QED BY <1>2, <1>3, <1>4, WorldWaits DEF WorldInv, Quiet, KindsKept

(* What the World has seen of an object, when it has looked.               *)
LEMMA SendsIs ==
  ASSUME ConnInv, NEW frame, NEW stage, Sends(frame, stage)
  PROVE conn'.stage = stage /\ conn'.reply.kind = "none" /\ frames' = frames \cup {frame}
<1>1. PICK R : conn \in ConnOver(R)
  BY DEF ConnInv
<1>2. conn'.stage = stage /\ conn'.reply = NoReply
  BY <1>1 DEF Sends, ConnOver
<1>3. QED BY <1>2 DEF Sends, NoReply

LEMMA LoopKeeps ==
  ASSUME WorldInv, UNCHANGED sceneVars, budget' \in [Bounded -> Nat], UNCHANGED <<lapsed, due, serving>>,
         batch' \in Seq(Event), cursor' \in Nat, \A f \in frames' : f.kind \in {"poll", "result", "event"},
         SentInv', SeenInv'
  PROVE WorldInv'
BY SceneUnchanged DEF WorldInv

LEMMA ConnectWaits ==
  ASSUME WorldInv, Connect
  PROVE WorldInv'
<1>1. budget' \in [Bounded -> Nat]
  <2>1. {"connect"} \in SUBSET Bounded
    BY DEF Bounded
  <2>2. QED BY <2>1, BudgetIs, Spent DEF Connect
<1>2. /\ conn' = [open |-> TRUE, generation |-> conn.generation + 1, stage |-> "idle", reply |-> NoReply]
      /\ UNCHANGED sceneVars /\ UNCHANGED <<batch, cursor, lapsed, due, serving, frames>>
  BY DEF Connect, coreVars
<1>3. SentInv' /\ SeenInv'
  BY <1>2 DEF SentInv, SeenInv, NoReply
<1>4. QED BY <1>1, <1>2, <1>3, LoopKeeps DEF WorldInv

LEMMA NoEvents == <<>> \in Seq(Event)
OBVIOUS

LEMMA DropWaits ==
  ASSUME Inv, WorldInv, Drop
  PROVE WorldInv'
<1>1. conn'.stage = "idle" /\ conn'.reply.kind = "none"
  BY LostIsQuiet DEF Inv, Drop
<1>2. UNCHANGED sceneVars /\ UNCHANGED <<cursor, lapsed, due, serving, budget>> /\ frames' \subseteq frames /\ batch' = <<>>
  BY DEF Drop, coreVars
<1>3. batch' \in Seq(Event)
  BY <1>2, NoEvents, Zenon
<1>4. SentInv' /\ SeenInv'
  BY <1>1 DEF SentInv, SeenInv
<1>5. QED BY <1>2, <1>3, <1>4, BudgetIs, LoopKeeps DEF WorldInv

LEMMA PollWaits ==
  ASSUME Inv, WorldInv, Poll
  PROVE WorldInv'
<1>1. budget' \in [Bounded -> Nat]
  <2>1. {"poll"} \in SUBSET Bounded
    BY DEF Bounded
  <2>2. QED BY <2>1, BudgetIs, Spent DEF Poll
<1>2. PICK frame : frame = [kind |-> "poll", generation |-> conn.generation] /\ frame.kind = "poll"
  <2>1. [kind |-> "poll", generation |-> conn.generation].kind = "poll"
    OBVIOUS
  <2>2. QED BY <2>1, Zenon
<1>3. conn'.stage = "polled" /\ conn'.reply.kind = "none" /\ frames' = frames \cup {frame}
  BY <1>2, SendsIs DEF Poll, Inv
<1>4. UNCHANGED sceneVars /\ UNCHANGED <<batch, cursor, lapsed, due, serving>>
  BY DEF Poll, coreVars, worldVars
<1>5. SentInv' /\ SeenInv'
  BY <1>3 DEF SentInv, SeenInv
<1>6. QED BY <1>1, <1>2, <1>3, <1>4, <1>5, LoopKeeps DEF WorldInv

LEMMA WorldLooksTyped ==
  ASSUME Inv, WorldInv, WorldLooks
  PROVE WorldInv'
<1>1. PICK a, seen : a = conn.reply.action /\ seen = region.entities[a.entity]
  OBVIOUS
<1>2. PICK R : conn \in ConnOver(R)
  BY DEF Inv, ConnInv
<1>3. seen \in Entity
  <2>1. a \in Entry
    BY <1>1 DEF WorldLooks, Inv, CoreInv, HandSound, InHand
  <2>2. a.entity \in Ids
    BY <2>1 DEF Entry
  <2>3. QED BY <1>1, <2>2, SceneHas DEF WorldInv, Scene
<1>4. UNCHANGED sceneVars /\ UNCHANGED <<batch, cursor, lapsed, due, serving, budget>>
  BY DEF WorldLooks, coreVars, worldVars
<1>5. CASE conn' = [conn EXCEPT !.reply = [kind |-> "seen", action |-> a, entity |-> seen]] /\ UNCHANGED frames
  <2>1. conn'.stage = conn.stage /\ conn'.reply = [kind |-> "seen", action |-> a, entity |-> seen]
    BY <1>2, <1>5 DEF ConnOver
  <2>2. SentInv' /\ SeenInv'
    BY <1>3, <1>4, <2>1 DEF SentInv, SeenInv, WorldInv
  <2>3. QED BY <1>4, <1>5, <2>2, BudgetIs, LoopKeeps DEF WorldInv
<1>6. CASE Sends([kind |-> "result", generation |-> conn.generation, id |-> a.id, ok |-> FALSE], "told")
  <2>1. PICK frame : /\ frame = [kind |-> "result", generation |-> conn.generation, id |-> a.id, ok |-> FALSE]
                     /\ frame.kind = "result"
    <3>1. [kind |-> "result", generation |-> conn.generation, id |-> a.id, ok |-> FALSE].kind = "result"
      OBVIOUS
    <3>2. QED BY <3>1, Zenon
  <2>2. conn'.stage = "told" /\ conn'.reply.kind = "none" /\ frames' = frames \cup {frame}
    BY <1>6, <2>1, SendsIs DEF Inv
  <2>3. SentInv' /\ SeenInv'
    BY <2>2 DEF SentInv, SeenInv
  <2>4. QED BY <1>4, <2>1, <2>2, <2>3, BudgetIs, LoopKeeps DEF WorldInv
<1>7. QED BY <1>1, <1>5, <1>6 DEF WorldLooks

(* What an action of a script does to the scene.                           *)
LEMMA ScriptActionWorks ==
  ASSUME NEW a \in Entry, NEW seen \in Entity, Sane(region), CanApply(a), NEW D
  PROVE Works(region, ApplyScriptAction(a, seen), D, {})
<1>1. a.entity \in Ids /\ a.type \in WorldActions
  BY DEF Entry
<1>2. a.type # "query" => Exists(region, a.entity)
  BY DEF CanApply
<1>3. seen.place \in Places /\ 1 - seen.place \in Places /\ seen.scale \in Looks /\ 1 - seen.scale \in Looks
  BY DEF Entity, Places, Looks
<1>4. CASE a.type = "move"
  BY <1>1, <1>2, <1>3, <1>4, UpdateTransformIs, RetouchWorks DEF ApplyScriptAction
<1>5. CASE a.type = "scale"
  BY <1>1, <1>2, <1>3, <1>5, UpdateTransformIs, RetouchWorks DEF ApplyScriptAction
<1>6. CASE a.type \in {"physical", "still"}
  <2>1. PICK enabled \in BOOLEAN : enabled = (a.type = "physical")
    OBVIOUS
  <2>2. CanSetPhysical(region, a.entity, enabled) /\ ApplyScriptAction(a, seen) = SetPhysical(region, a.entity, enabled)
    BY <1>6, <2>1 DEF CanApply, ApplyScriptAction
  <2>3. QED BY <1>1, <2>2, SetPhysicalIs, RetouchWorks
<1>7. CASE a.type \in {"material", "text", "force", "say"}
  <2>1. Exists(region, a.entity)
    BY <1>2, <1>7
  <2>2. ApplyScriptAction(a, seen) \in {SetPhysicsMaterial(region, a.entity), SetFloatingText(region, a.entity),
                                        ApplyForce(region, a.entity), Chat(region, a.entity)}
    BY <1>7 DEF ApplyScriptAction
  <2>3. QED BY <1>1, <2>1, <2>2, LookedAt, Noticed, RetouchWorks
<1>8. CASE a.type \in {"velocity", "query"}
  BY <1>8, SameWorks DEF ApplyScriptAction
<1>9. QED BY <1>1, <1>4, <1>5, <1>6, <1>7, <1>8 DEF WorldActions

LEMMA WorldAppliesTyped ==
  ASSUME Inv, WorldInv, WorldApplies
  PROVE WorldInv'
<1>1. PICK a, seen : a = conn.reply.action /\ seen = conn.reply.entity
  OBVIOUS
<1>2. a \in Entry /\ seen \in Entity
  BY <1>1 DEF WorldApplies, Inv, CoreInv, HandSound, InHand, WorldInv, SeenInv
<1>3. PICK frame : /\ frame = [kind |-> "result", generation |-> conn.generation, id |-> a.id, ok |-> CanApply(a)]
                   /\ frame.kind = "result"
  <2>1. [kind |-> "result", generation |-> conn.generation, id |-> a.id, ok |-> CanApply(a)].kind = "result"
    OBVIOUS
  <2>2. QED BY <2>1, Zenon
<1>4. /\ Sends(frame, "told")
      /\ region' = IF CanApply(a) THEN ApplyScriptAction(a, seen) ELSE region
      /\ UNCHANGED <<mayBuild, request, import, sceneFile, savedSequence, saver, disturbed>>
      /\ UNCHANGED <<batch, cursor, lapsed, due, serving, budget>>
  BY <1>1, <1>3 DEF WorldApplies, coreVars
<1>5. Works(region, region', disturbed, {})
  BY <1>2, <1>4, SceneHas, SameWorks, ScriptActionWorks DEF WorldInv
<1>6. SceneInv'
  <2>1. disturbed' = disturbed \cup ({} \cap ImportRoot)
    BY <1>4
  <2>2. /\ mayBuild' \subseteq Users /\ request' \in [Viewers -> Request] /\ \A v \in Viewers : Requested(request'[v])
        /\ budget' \in [Bounded -> Nat] /\ SceneInv
    BY <1>4, SceneHas DEF WorldInv, SceneInv
  <2>3. QED BY <1>4, <1>5, <2>1, <2>2, RegionMoves
<1>7. conn'.stage = "told" /\ conn'.reply.kind = "none" /\ frames' = frames \cup {frame}
  BY <1>4, SendsIs DEF Inv
<1>8. SentInv' /\ SeenInv'
  BY <1>7 DEF SentInv, SeenInv
<1>9. QED BY <1>3, <1>4, <1>6, <1>7, <1>8 DEF WorldInv

(* The first event of a batch.                                             *)
LEMMA BatchIs ==
  ASSUME batch \in Seq(Event), Len(batch) > 0
  PROVE Head(batch).sequence \in Nat /\ Tail(batch) \in Seq(Event)
<1>1. Head(batch) \in Event /\ Tail(batch) \in Seq(Event)
  OBVIOUS
<1>2. QED BY <1>1 DEF Event

LEMMA HearsTyped ==
  ASSUME Inv, WorldInv, Hears
  PROVE WorldInv'
<1>1. PICK R : conn \in ConnOver(R)
  BY DEF Inv, ConnInv
<1>2. conn'.stage = "idle" /\ conn'.reply.kind = "none"
  <2>1. CASE conn.reply.kind = "error"
    BY <2>1, LostIsQuiet DEF Hears, Inv
  <2>2. CASE conn.reply.kind # "error"
    <3>1. conn' = [conn EXCEPT !.stage = "idle", !.reply = NoReply]
      BY <2>2 DEF Hears
    <3>2. conn'.stage = "idle" /\ conn'.reply = NoReply
      BY <1>1, <3>1 DEF ConnOver
    <3>3. QED BY <3>2 DEF NoReply
  <2>3. QED BY <2>1, <2>2
<1>3. UNCHANGED sceneVars /\ UNCHANGED <<lapsed, due, serving, frames, budget>>
  BY DEF Hears, coreVars
<1>4. batch \in Seq(Event) /\ cursor \in Nat
  BY DEF WorldInv
<1>5. batch' \in Seq(Event) /\ cursor' \in Nat
  <2>1. CASE conn.stage = "sent" /\ conn.reply.kind = "ack"
    BY <1>4, <2>1, BatchIs DEF Hears, WorldInv, SentInv
  <2>2. CASE ~(conn.stage = "sent" /\ conn.reply.kind = "ack")
    <3>1. cursor' = cursor /\ batch' = IF conn.reply.kind = "error" THEN <<>> ELSE batch
      BY <2>2 DEF Hears
    <3>2. batch' \in Seq(Event)
      BY <1>4, <3>1, NoEvents, Zenon
    <3>3. QED BY <1>4, <3>1, <3>2
  <2>3. QED BY <2>1, <2>2
<1>6. SentInv' /\ SeenInv'
  BY <1>2 DEF SentInv, SeenInv
<1>7. QED BY <1>3, <1>5, <1>6, BudgetIs, LoopKeeps DEF WorldInv

LEMMA ReadEventsTyped ==
  ASSUME WorldInv, ReadEvents
  PROVE WorldInv'
<1>1. batch' \in Seq(Event)
  BY EventsSinceTyped, SceneHas, SaneHas DEF ReadEvents, WorldInv
<1>2. conn.stage = "idle" /\ UNCHANGED sceneVars /\ UNCHANGED <<cursor, lapsed, due, serving, frames, conn, budget>>
  BY DEF ReadEvents, Idle, coreVars
<1>3. SentInv' /\ SeenInv'
  BY <1>2 DEF SentInv, SeenInv, WorldInv
<1>4. QED BY <1>1, <1>2, <1>3, BudgetIs, LoopKeeps DEF WorldInv

LEMMA SendEventTyped ==
  ASSUME Inv, WorldInv, SendEvent
  PROVE WorldInv'
<1>1. Len(batch) > 0 /\ conn.stage = "idle"
  BY DEF SendEvent, Idle, WorldInv
<1>2. UNCHANGED sceneVars /\ UNCHANGED <<lapsed, due, serving, budget>>
  BY DEF SendEvent, coreVars
<1>3. CASE Head(batch).type \in Relayed
  <2>1. PICK frame : /\ frame = [kind |-> "event", generation |-> conn.generation, entity |-> Head(batch).entity,
                                 type |-> Head(batch).type, what |-> <<lives, Head(batch).sequence>>]
                     /\ frame.kind = "event"
    <3>1. [kind |-> "event", generation |-> conn.generation, entity |-> Head(batch).entity,
           type |-> Head(batch).type, what |-> <<lives, Head(batch).sequence>>].kind = "event"
      OBVIOUS
    <3>2. QED BY <3>1, Zenon
  <2>2. Sends(frame, "sent") /\ UNCHANGED <<cursor, batch>>
    BY <1>3, <2>1 DEF SendEvent
  <2>3. conn'.stage = "sent" /\ conn'.reply.kind = "none" /\ frames' = frames \cup {frame}
    BY <2>2, SendsIs DEF Inv
  <2>4. SentInv' /\ SeenInv'
    BY <1>1, <2>2, <2>3 DEF SentInv, SeenInv
  <2>5. QED BY <1>2, <2>1, <2>2, <2>3, <2>4, BudgetIs, LoopKeeps DEF WorldInv
<1>4. CASE Head(batch).type \notin Relayed
  <2>1. cursor' = Head(batch).sequence /\ batch' = Tail(batch) /\ UNCHANGED <<frames, conn>>
    BY <1>4 DEF SendEvent
  <2>2. batch' \in Seq(Event) /\ cursor' \in Nat
    BY <1>1, <2>1, BatchIs DEF WorldInv
  <2>3. SentInv' /\ SeenInv'
    BY <1>1, <2>1 DEF SentInv, SeenInv, WorldInv
  <2>4. QED BY <1>2, <2>1, <2>2, <2>3, BudgetIs, LoopKeeps DEF WorldInv
<1>5. QED BY <1>3, <1>4

LEMMA WorldCrashTyped ==
  ASSUME Inv, WorldInv, WorldCrash
  PROVE WorldInv'
<1>1. budget' \in [Bounded -> Nat]
  <2>1. {"world"} \in SUBSET Bounded
    BY DEF Bounded
  <2>2. QED BY <2>1, BudgetIs, Spent DEF WorldCrash
<1>2. SceneInv'
  BY <1>1, SceneRestartsKeeps DEF WorldCrash, WorldInv
<1>3. cursor' \in Nat
  <2>1. savedSequence' \in Nat
    BY <1>2 DEF SceneInv, SceneTypeOK
  <2>2. QED BY <2>1 DEF WorldCrash, SceneRestarts
<1>4. conn'.stage = "idle" /\ conn'.reply.kind = "none"
  BY LostIsQuiet DEF WorldCrash, Inv
<1>5. batch' = <<>> /\ frames' \subseteq frames /\ UNCHANGED <<lapsed, due, serving>>
  BY DEF WorldCrash, coreVars
<1>6. batch' \in Seq(Event)
  BY <1>5, NoEvents, Zenon
<1>7. SentInv' /\ SeenInv'
  BY <1>4 DEF SentInv, SeenInv
<1>8. QED BY <1>2, <1>3, <1>5, <1>6, <1>7 DEF WorldInv

----------------------------------------------------------------------------
LEMMA InitWorldInv == Init => WorldInv
<1> SUFFICES ASSUME Init PROVE WorldInv
  OBVIOUS
<1>1. SceneInv
  BY SceneInitSound DEF Init
<1>2. /\ lapsed = {} /\ due = {} /\ frames = {} /\ serving = {} /\ batch = <<>> /\ cursor = savedSequence
      /\ conn = [open |-> FALSE, generation |-> 0, stage |-> "idle", reply |-> NoReply]
  BY DEF Init
<1>3. conn.stage = "idle" /\ conn.reply.kind = "none"
  BY <1>2 DEF NoReply
<1>4. batch \in Seq(Event)
  BY <1>2, NoEvents, Zenon
<1>5. SentInv /\ SeenInv
  BY <1>3 DEF SentInv, SeenInv
<1>6. QED BY <1>1, <1>2, <1>4, <1>5, SceneHas DEF WorldInv

LEMMA NextWorldInv == Inv /\ WorldInv /\ [Next]_vars => WorldInv'
<1> SUFFICES ASSUME Inv, WorldInv, [Next]_vars PROVE WorldInv'
  OBVIOUS
<1>1. CASE SceneNext /\ UNCHANGED <<batch, cursor, lives, applied, coreVars, registered, frames, conn>>
  <2>1. SceneInv'
    BY <1>1, SceneNextKeeps DEF WorldInv
  <2>2. UNCHANGED <<batch, cursor, lapsed, due, frames, serving, conn>>
    BY <1>1 DEF coreVars
  <2>3. SentInv' /\ SeenInv'
    BY <2>2 DEF SentInv, SeenInv, WorldInv
  <2>4. QED BY <2>1, <2>2, <2>3 DEF WorldInv
<1>2. CASE \/ \E f \in frames : CoreChecks(f)
           \/ \E m \in serving : CoreLeases(m) \/ CoreGives(m) \/ CoreConfirms(m) \/ CoreRunsScripts(m)
  BY <1>2, CoreServes
<1>3. CASE \/ \E u \in Users, s \in Scripts, id \in Ids, program \in Sources : CreateScript(u, s, id, program)
           \/ \E u \in Users, s \in Scripts : ScriptEvent(u, s)
  BY <1>3, RequestKeeps
<1>4. CASE MaintenanceBegins \/ CoreCrash \/ \E s \in Scripts : MaintenanceRuns(s)
  BY <1>4, MaintenanceKeeps
<1>5. CASE (\E s \in Scripts : TimerComesDue(s)) \/ LeaseRunsOut \/ Lapse
  BY <1>5, TimeGoesOn
<1>6. CASE Connect
  BY <1>6, ConnectWaits
<1>7. CASE Drop
  BY <1>7, DropWaits
<1>8. CASE Poll
  BY <1>8, PollWaits
<1>9. CASE WorldLooks
  BY <1>9, WorldLooksTyped
<1>10. CASE WorldApplies
  BY <1>10, WorldAppliesTyped
<1>11. CASE Hears
  BY <1>11, HearsTyped
<1>12. CASE ReadEvents
  BY <1>12, ReadEventsTyped
<1>13. CASE SendEvent
  BY <1>13, SendEventTyped
<1>14. CASE WorldCrash
  BY <1>14, WorldCrashTyped
<1>15. CASE UNCHANGED vars
  <2>1. UNCHANGED worldVars /\ UNCHANGED <<budget, lapsed, due, frames, serving, conn>>
    BY <1>15 DEF vars
  <2>2. QED BY <2>1, BudgetIs, WorldWaits DEF WorldInv, Quiet, KindsKept
<1>16. QED
  BY <1>1, <1>2, <1>3, <1>4, <1>5, <1>6, <1>7, <1>8, <1>9, <1>10, <1>11, <1>12, <1>13, <1>14, <1>15
  DEF Next, Sources

(* The inductive invariant of the World.  Objects are as the code keeps    *)
(* them, and linksets flat, in the runtime, in the saved scene and in what *)
(* the saving thread has taken; the sequence of the saved scene is not     *)
(* ahead of the events, and so on for the thread's; what an import has yet *)
(* to do fits what is linked to its root (region_runtime.cpp, region       *)
(* _persistence.cpp, apps/world/main.cpp).                                 *)
THEOREM WorldInvariant == Spec => []WorldInv
<1>1. QED BY InitWorldInv, NextWorldInv, ScriptWorldInvariant, PTL DEF Spec

(* When there is nothing to save, the file holds the scene as it is,       *)
(* whatever changed while it was written, after failed writes and restarts *)
(* (region_persistence.cpp: the sequence is read before the objects).      *)
THEOREM SceneFileIsCurrent == Spec => []SavedIsSaved
<1>1. WorldInv => SavedIsSaved
  BY SceneIsSound DEF WorldInv
<1>2. QED BY <1>1, WorldInvariant, PTL

(* However viewers, scripts, imports and restarts interleave, a linkset is *)
(* one level deep, of one owner, and its link numbers differ - but for the *)
(* roots that changed before or while an import brought their members      *)
(* (region_runtime.cpp: link_objects, import_linkset).                     *)
THEOREM LinksetsStayFlat == Spec => []LinksetsAreFlat
<1>1. WorldInv => LinksetsAreFlat
  BY SceneIsSound DEF WorldInv
<1>2. QED BY <1>1, WorldInvariant, PTL

(* Every variable has its type; the queue holds each action once, and no   *)
(* more than fit, in memory and on file (world_action_queue.cpp).          *)
THEOREM ScriptWorldTyped == Spec => []TypeOK
<1>1. Inv /\ WorldInv => TypeOK
  <2> SUFFICES ASSUME Inv, WorldInv PROVE TypeOK
    OBVIOUS
  <2>1. PICK W : CoreSound(W, core, applied, conn, over)
    BY DEF Inv, CoreInv
  <2>2. /\ core \in CoreOver(W) /\ core.ok /\ core.fuse = 0 /\ NextBounded(core) /\ core.next \in Nat
        /\ QueueSound(core.queue, core.next, TriesOf(applied, conn), over)
        /\ QueueSound(core.queueFile, core.next, TriesOf(applied, conn), over)
        /\ applied \in [Actions -> Nat] /\ over \subseteq Actions
    BY <2>1 DEF CoreSound, Sound, StoresSound, CoreOver
  <2>3. ASSUME NEW file \in {core.scripts, core.scriptsFile}, NEW s \in Scripts
        PROVE /\ file[s].owner \in Users \cup {Nobody} /\ file[s].object \in Ids
              /\ file[s].program \in Programs \cup {<<>>} /\ file[s].state \in States
              /\ file[s].timer \in {"off", "set", "due"}
    <3>1. core.scripts \in [Scripts -> ScriptOver(W)] /\ core.scriptsFile \in [Scripts -> ScriptOver(W)]
      BY <2>2 DEF CoreOver
    <3>2. file[s] \in ScriptOver(W)
      BY <2>3, <3>1
    <3>3. QED BY <3>2 DEF ScriptOver
  <2>4. ASSUME NEW file \in {core.queue, core.queueFile}
        PROVE /\ file \subseteq ScriptWorldAction /\ Cardinality(file) <= MaxPending
              /\ \A a, b \in file : a.id = b.id => a = b
    <3>1. file \in SUBSET Entry
      BY <2>2, <2>4 DEF CoreOver
    <3>2. /\ \A a \in file : a.id < core.next
          /\ \A a, b \in file : a.id = b.id => a = b
          /\ Cardinality(file) <= MaxPending
      BY <2>2, <2>4 DEF QueueSound
    <3>3. ASSUME NEW a \in file PROVE a \in ScriptWorldAction
      <4>1. a \in Entry /\ a.id \in Nat \ {0} /\ a.id < core.next
        BY <3>1, <3>2, <3>3 DEF Entry
      <4>2. a.id \in Actions
        BY <2>2, <4>1, InActions
      <4>3. QED BY <4>1, <4>2 DEF Entry, ScriptWorldAction
    <3>4. QED BY <3>2, <3>3
  <2>5. conn.generation \in Nat /\ registered \in Nat
    BY DEF Inv, ConnInv, ConnOver
  <2>6. /\ SceneTypeOK /\ lapsed \subseteq Actions /\ due \subseteq Scripts /\ cursor \in Nat
        /\ \A f \in frames \cup {m.frame : m \in serving} : f.kind \in {"poll", "result", "event"}
    BY SceneIsSound DEF WorldInv
  <2>7. \A m \in serving :
           /\ m.stage \in {"checked", "good", "bad"}
           /\ IF m.frame.kind = "result" THEN m.action \in ScriptWorldAction ELSE m.action = Nothing
    BY DEF Inv, ServingSound, ServedOver
  <2>8. QED BY <2>2, <2>3, <2>4, <2>5, <2>6, <2>7 DEF TypeOK
<1>2. QED BY <1>1, ScriptWorldInvariant, WorldInvariant, PTL
=============================================================================
