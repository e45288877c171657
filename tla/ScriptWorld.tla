---------------------------- MODULE ScriptWorld ----------------------------
(***************************************************************************)
(* Scripts: they run in the Core (scripting/script_runtime.cpp,            *)
(* script_host.cpp, script_vm.cpp), what they do to objects goes through a *)
(* queue (world_action_queue.cpp) that the World polls, and what happens   *)
(* to objects comes back as events (apps/core/main.cpp: script_event,      *)
(* script_action_poll, script_action_result; apps/world/main.cpp).         *)
(*                                                                         *)
(* The World has one connection and waits for each answer.  It loses the   *)
(* connection at any time; the Core may yet find the last message of a     *)
(* lost connection.  The Core has a thread for each connection.  It looks  *)
(* whether the connection owns the Region, and what the message is about,  *)
(* and only then, in steps of their own, leases an action, runs scripts,   *)
(* gives a result to a script, takes an action off the queue: by then the  *)
(* connection may be lost and another thread serve the next one.  What an  *)
(* HTTP request, an event or a timer does to scripts is one step.          *)
(*                                                                         *)
(* A step ends early where a write throws: memory has changed then, the    *)
(* file has not, and what comes after is not done.  A thrown write ends a  *)
(* connection, fails a request, and in the maintenance thread, which       *)
(* catches nothing, ends the process.                                      *)
(*                                                                         *)
(* One Region, which the World's last connection owns; the generations of  *)
(* connections differ (module NodeRegistry).  What a script has seen       *)
(* stands for its variables and its event count.  Notifications, messages  *)
(* and chat between scripts are left out; bindings to other Regions change *)
(* in module ObjectCrossing.                                               *)
(***************************************************************************)
EXTENDS RegionScene

CONSTANTS
    Scripts, Actions,    \* identifiers; those of actions are 1..n, in the order of creation
    Programs,            \* what users write: functions from some <<state, event>> to Handled
    MaxPending, MaxAttempts

ASSUME QueueAssumption == MaxPending \in Nat \ {0} /\ MaxAttempts \in Nat \ {0}
ASSUME ActionsAssumption == IsFiniteSet(Actions) /\ Actions = 1 .. Cardinality(Actions)
ASSUME ScriptsAssumption == IsFiniteSet(Scripts)

VARIABLES
    core,          \* ScriptRuntime and ScriptWorldActionQueue, in memory and as files
    lapsed,        \* actions past their expiry
    due,           \* scripts whose timer the maintenance thread is about to serve
    registered,    \* generation of the connection that owns the Region, 0: none
    frames,        \* messages of the World that the Core has not taken
    serving,       \* messages that its threads are at work on
    conn,          \* the World's side of its connection
    batch, cursor, \* events the World is sending; the last one dealt with
    lives,         \* how often the World has started: events are counted anew
    applied,       \* history: how often each action has been applied to the scene
    over,          \* history: actions that the owner of the Region has had taken off the queue as done
    acked          \* history: what the Core has told the World it gave to a script

States == {"default", "open"}
WorldActions == {"move", "scale", "physical", "still", "material", "force", "velocity",
                "text", "say", "query"}
NeedLand == WorldActions \ {"text", "say", "query"}
HandlerEvents == Relayed \cup {"timer", "user", "state_entry", "state_exit"}
Handled == [ok: BOOLEAN, state: States, actions: Seq(WorldActions \cup {"timer", "stop", "notify"})]
ASSUME ProgramsAssumption == \A p \in Programs : \A h \in DOMAIN p : p[h] \in Handled

ScriptRecord == [owner: Users \cup {Nobody}, object: Ids, program: Programs \cup {<<>>}, state: States,
                 timer: {"off", "set", "due"}, seen: SUBSET (Nat \X Nat)]
NoScript == [owner |-> Nobody, object |-> 1, program |-> <<>>, state |-> "default",
             timer |-> "off", seen |-> {}]
ScriptWorldAction == [id: Actions, entity: Ids, owner: Users, script: Scripts,
                      type: WorldActions, attempts: 0 .. MaxAttempts, leased: BOOLEAN]
NoReply == [kind |-> "none"]
Nothing == [id |-> 0]
InHand(c) == c.reply.kind \in {"action", "seen"}
Unconnected(c) == [c EXCEPT !.open = FALSE, !.stage = "idle", !.reply = NoReply]

TypeOK ==
    /\ SceneTypeOK
    /\ \A file \in {core.scripts, core.scriptsFile} : \A s \in Scripts :
        /\ file[s].owner \in Users \cup {Nobody} /\ file[s].object \in Ids
        /\ file[s].program \in Programs \cup {<<>>} /\ file[s].state \in States
        /\ file[s].timer \in {"off", "set", "due"}
    /\ \A file \in {core.queue, core.queueFile} :
        /\ file \subseteq ScriptWorldAction /\ Cardinality(file) <= MaxPending
        /\ \A a, b \in file : a.id = b.id => a = b
    /\ core.ok /\ core.fuse = 0
    /\ lapsed \subseteq Actions /\ due \subseteq Scripts
    /\ registered \in Nat /\ conn.generation \in Nat /\ cursor \in Nat
    /\ \A f \in frames \cup {m.frame : m \in serving} : f.kind \in {"poll", "result", "event"}
    /\ \A m \in serving :
        /\ m.stage \in {"checked", "good", "bad"}
        /\ IF m.frame.kind = "result" THEN m.action \in ScriptWorldAction ELSE m.action = Nothing
    /\ applied \in [Actions -> Nat] /\ over \subseteq Actions

----------------------------------------------------------------------------
(* Stores.  Operators take the stores and give them changed.  The fuse     *)
(* says how many writes from now one throws, 0: none; ok, whether none     *)
(* has.                                                                    *)
Fused(fuse) == [core EXCEPT !.fuse = fuse]
Settled(c) == [c EXCEPT !.ok = TRUE, !.fuse = 0]
Burn(c) == IF c.fuse = 0 THEN c ELSE [c EXCEPT !.fuse = @ - 1, !.ok = c.fuse # 1]

PersistScripts(c) ==
    LET d == Burn(c) IN IF d.ok THEN [d EXCEPT !.scriptsFile = d.scripts] ELSE d
PersistQueue(c) ==
    LET d == Burn(c) IN IF d.ok THEN [d EXCEPT !.queueFile = d.queue] ELSE d

(* A step with at most n writes: all of them, or one of them throws.  A    *)
(* run of a script writes once itself and once for each action queued.     *)
Writes(n) == (IF budget["throw"] > 0 THEN 0 .. n ELSE {0})
NextBounded(c) == c.next <= Cardinality(Actions) + 1         \* bound
Stores(kinds, c) ==
    /\ core' = Settled(c) /\ NextBounded(c)
    /\ Spends(kinds \cup (IF c.ok THEN {} ELSE {"throw"}))

----------------------------------------------------------------------------
(* ScriptWorldActionQueue.  Its order is that of the identifiers.          *)
Find(c, id) == {a \in c.queue : a.id = id}
Without(queue, ids) == {a \in queue : a.id \notin ids}

Enqueue(c, entity, owner, script, type) ==
    IF ~c.ok \/ Cardinality(c.queue) >= MaxPending THEN c
    ELSE PersistQueue([c EXCEPT !.queue = @ \cup {[id |-> c.next, entity |-> entity, owner |-> owner,
                                                  script |-> script, type |-> type,
                                                  attempts |-> 0, leased |-> FALSE]},
                                !.next = @ + 1])

Exhausted(queue) == {a.id : a \in {b \in queue : b.attempts >= MaxAttempts /\ ~b.leased}}
Kept(c) == Without(c.queue, lapsed \cup Exhausted(c.queue))
Waiting(queue) == {a \in queue : ~a.leased /\ a.attempts < MaxAttempts}
First(queue) == CHOOSE a \in queue : \A b \in queue : a.id <= b.id

\* Mutant: a lease does not count as a try.
Lease_Uncounted(c) ==
    LET kept == Kept(c)
        first == First(Waiting(kept))
    IN IF Waiting(kept) = {} THEN IF kept = c.queue THEN c ELSE PersistQueue([c EXCEPT !.queue = kept])
       ELSE PersistQueue([c EXCEPT !.queue = (kept \ {first}) \cup {[first EXCEPT !.leased = TRUE]}])

(* The first action that waits is leased, and counted as tried.            *)
Lease(c) ==
    LET kept == Kept(c)
        first == First(Waiting(kept))
    IN IF Waiting(kept) = {} THEN IF kept = c.queue THEN c ELSE PersistQueue([c EXCEPT !.queue = kept])
       ELSE PersistQueue([c EXCEPT !.queue = (kept \ {first})
                                            \cup {[first EXCEPT !.attempts = @ + 1, !.leased = TRUE]}])
Leased(c) == IF Waiting(Kept(c)) = {} THEN [kind |-> "empty"]
             ELSE [kind |-> "action", action |-> First(Waiting(Kept(c)))]

Ack(c, id) == IF Find(c, id) = {} THEN c ELSE PersistQueue([c EXCEPT !.queue = Without(@, {id})])

(* A quarter of a second later it may be tried again.                      *)
Nack(c, id) ==
    LET rest == {a \in c.queue : ~(a.id = id /\ a.attempts >= MaxAttempts)}
    IN IF Find(c, id) = {} THEN c
       ELSE PersistQueue([c EXCEPT !.queue = {[a EXCEPT !.leased = @ \/ a.id = id] : a \in rest}])

PurgeExpired(c) ==
    IF Without(c.queue, lapsed) = c.queue THEN c
    ELSE PersistQueue([c EXCEPT !.queue = Without(@, lapsed)])

LoadQueue(file) == LET kept == Without(file, lapsed)
                   IN {a \in kept : Cardinality({b \in kept : b.id < a.id}) < MaxPending}

----------------------------------------------------------------------------
(* ScriptRuntime and the virtual machine.  A handler that is not there     *)
(* does nothing.  A script that changes its state leaves the old state and *)
(* enters the new one, which may change it again, eight times at most.     *)
Handler(program, state, event) ==
    IF <<state, event>> \in DOMAIN program THEN program[<<state, event>>]
    ELSE [ok |-> TRUE, state |-> state, actions |-> <<>>]

Transition(program, r) ==
    LET exit == Handler(program, r.before, "state_exit")
        entry == Handler(program, r.state, "state_entry")
    IN [ok |-> exit.ok /\ entry.ok, before |-> r.state, state |-> entry.state,
        actions |-> r.actions \o exit.actions \o entry.actions]

Follow(program, r) == IF r.ok /\ r.state # r.before THEN Transition(program, r) ELSE r

RunHandlers(program, state, event) ==
    LET first == Handler(program, state, event)
        after[n \in 0 .. 8] ==
            IF n = 0 THEN [ok |-> first.ok, before |-> state, state |-> first.state, actions |-> first.actions]
            ELSE Follow(program, after[n - 1])
        last == after[8]
    IN [last EXCEPT !.ok = @ /\ last.state = last.before]

(* The actions that the caller gets.  When the handler of the event itself *)
(* fails they are those it had collected; when one of a transition fails,  *)
(* none.                                                                   *)
Outcome(program, state, event) ==
    LET r == RunHandlers(program, state, event)
        first == Handler(program, state, event)
    IN IF r.ok THEN r.actions ELSE IF first.ok THEN <<>> ELSE first.actions

(* The last call that concerns the timer counts.                           *)
Timers(actions, old) ==
    LET calls == {i \in DOMAIN actions : actions[i] \in {"timer", "stop"}}
    IN IF calls = {} THEN old ELSE IF actions[Max(calls)] = "timer" THEN "set" ELSE "off"

\* Mutant: what a script has done is not written.
ExecuteEvent_Unsaved(c, s, event, what) ==
    LET script == c.scripts[s]
        r == RunHandlers(script.program, script.state, event)
    IN IF ~c.ok \/ ~r.ok THEN c
       ELSE [c EXCEPT !.scripts[s].state = r.state, !.scripts[s].seen = @ \cup what,
                      !.scripts[s].timer = Timers(r.actions, @)]

ExecuteEvent(c, s, event, what) ==
    LET script == c.scripts[s]
        r == RunHandlers(script.program, script.state, event)
    IN IF ~c.ok \/ ~r.ok THEN c
       ELSE PersistScripts([c EXCEPT !.scripts[s].state = r.state, !.scripts[s].seen = @ \cup what,
                                     !.scripts[s].timer = Timers(r.actions, @)])

(* ScriptHost: what is for the World is queued; the rest is not modelled.  *)
Apply(c, s, actions) ==
    LET script == c.scripts[s]
        after[n \in 0 .. Len(actions)] ==
            IF n = 0 THEN c
            ELSE IF actions[n] \in WorldActions
                 THEN Enqueue(after[n - 1], script.object, script.owner, s, actions[n]) ELSE after[n - 1]
    IN after[Len(actions)]

Runs(c, s) == c.scripts[s].owner # Nobody /\ c.scripts[s].program # <<>>
RunScript(c, s, event, what) ==
    IF ~c.ok \/ ~Runs(c, s) THEN c
    ELSE Apply(ExecuteEvent(c, s, event, what), s,
               Outcome(c.scripts[s].program, c.scripts[s].state, event))

RunScripts(c, order, event, what) ==
    LET after[n \in 0 .. Len(order)] ==
            IF n = 0 THEN c ELSE RunScript(after[n - 1], order[n], event, what)
    IN after[Len(order)]

ApplyWorldResult(c, s, what) == PersistScripts([c EXCEPT !.scripts[s].seen = @ \cup what])

DueTimers(c) ==
    IF ~c.ok \/ {s \in Scripts : c.scripts[s].timer = "due"} = {} THEN c
    ELSE PersistScripts([c EXCEPT !.scripts = [s \in Scripts |->
            [c.scripts[s] EXCEPT !.timer = IF @ = "due" THEN "set" ELSE @]]])

Upsert(c, s, record) == PersistScripts([c EXCEPT !.scripts[s] = record])
SetProgram(c, s, program) ==
    IF ~c.ok THEN c ELSE PersistScripts([c EXCEPT !.scripts[s].program = program])
RemoveScript(c, s) == IF ~c.ok THEN c ELSE PersistScripts([c EXCEPT !.scripts[s] = NoScript])

----------------------------------------------------------------------------
(* The end of a step of the Core.                                          *)
worldVars == <<sceneVars, batch, cursor, lives, applied>>
vars == <<worldVars, core, lapsed, due, registered, frames, serving, conn, over, acked, budget>>

Answer(f, reply) ==
    conn' = IF conn.generation = f.generation /\ conn.open THEN [conn EXCEPT !.reply = reply] ELSE conn

(* An exception ends the connection of the message.                        *)
Hangs(f) == conn' = IF conn.generation = f.generation THEN Unconnected(conn) ELSE conn

Finished(m) == serving' = serving \ {m} /\ UNCHANGED frames

\* Mutant: any connection speaks for the Region.
Owns_Anyway(f) == registered # 0
Owns(f) == f.generation = registered

CoreStarts(c) ==
    /\ core' = Settled([c EXCEPT !.scripts = c.scriptsFile, !.queue = LoadQueue(c.queueFile)])
    /\ due' = {} /\ registered' = 0 /\ frames' = {} /\ serving' = {}
    /\ conn' = IF InHand(conn) THEN conn ELSE Unconnected(conn)

----------------------------------------------------------------------------
(* The Core's threads serve messages of the World.  A thread looks first:  *)
(* a message of a connection that does not own the Region, or about an     *)
(* action that is not in the queue, is answered at once.                   *)
CoreChecks(f) ==
    /\ f \in frames /\ frames' = frames \ {f}
    /\ LET about == IF f.kind = "result" THEN Find(core, f.id) ELSE {Nothing} IN
       IF Owns(f) /\ about # {}
       THEN /\ \E a \in about : serving' = serving \cup {[frame |-> f, action |-> a,
                stage |-> IF f.kind # "result" \/ (f.ok /\ a.type = "query") THEN "checked"
                          ELSE IF f.ok THEN "good" ELSE "bad"]}
            /\ UNCHANGED conn
       ELSE /\ Answer(f, [kind |-> IF f.kind = "result" THEN "ack" ELSE "error"])
            /\ UNCHANGED serving
    /\ UNCHANGED <<worldVars, core, lapsed, due, registered, over, acked, budget>>

CoreLeases(m) ==
    /\ m.frame.kind = "poll" /\ Finished(m)
    /\ \E fuse \in Writes(1) :
        LET c == Lease(Fused(fuse)) IN
        /\ Stores({}, c)
        /\ IF c.ok THEN Answer(m.frame, Leased(core)) ELSE Hangs(m.frame)
    /\ UNCHANGED <<worldVars, lapsed, due, registered, over, acked>>

(* An answer to a query goes to the script; when it cannot be kept, for    *)
(* whatever reason, the action is tried again.                             *)
CoreGives(m) ==
    /\ m.frame.kind = "result" /\ m.stage = "checked"
    /\ \E fuse \in Writes(1) :
        LET known == core.scripts[m.action.script].owner # Nobody
            c == IF known THEN ApplyWorldResult(Fused(fuse), m.action.script, {<<0, m.action.id>>})
                 ELSE Fused(fuse)
        IN /\ Stores({}, c)
           /\ serving' = (serving \ {m})
                            \cup {[m EXCEPT !.stage = IF known /\ c.ok THEN "good" ELSE "bad"]}
    /\ UNCHANGED <<worldVars, lapsed, due, registered, frames, conn, over, acked>>

(* The action is done, or to be tried again; that it has left the queue in *)
(* the meantime is not noticed.                                            *)
CoreConfirms(m) ==
    /\ m.frame.kind = "result" /\ m.stage \in {"good", "bad"} /\ Finished(m)
    /\ \E fuse \in Writes(1) :
        LET a == m.action
            c == IF m.stage = "good" THEN Ack(Fused(fuse), a.id) ELSE Nack(Fused(fuse), a.id)
            done == m.stage = "good" /\ c.ok
        IN /\ Stores({}, c)
           /\ IF c.ok THEN Answer(m.frame, [kind |-> "ack"]) ELSE Hangs(m.frame)
           /\ over' = IF done /\ Find(core, a.id) # {} /\ Owns(m.frame) THEN over \cup {a.id} ELSE over
           /\ acked' = IF done /\ a.type = "query" THEN acked \cup {<<a.script, <<0, a.id>>>>} ELSE acked
    /\ UNCHANGED <<worldVars, lapsed, due, registered>>

(* The scripts of the object run one after the other (the code: in the     *)
(* order of their names).                                                  *)
CoreRunsScripts(m) ==
    /\ m.frame.kind = "event" /\ Finished(m)
    /\ LET f == m.frame
           mine == {s \in Scripts : core.scripts[s].object = f.entity /\ Runs(core, s)} IN
       \E fuse \in Writes(Cardinality(Scripts) + MaxPending), order \in SetToSeqs(mine) :
        LET c == RunScripts(Fused(fuse), order, f.type, {f.what})
            well == {s \in mine : RunHandlers(core.scripts[s].program, core.scripts[s].state, f.type).ok}
        IN /\ Stores({}, c)
           /\ IF c.ok THEN Answer(f, [kind |-> "ack"]) ELSE Hangs(f)
           /\ acked' = IF c.ok THEN acked \cup {<<s, f.what>> : s \in well} ELSE acked
    /\ UNCHANGED <<worldVars, lapsed, due, registered, over>>

----------------------------------------------------------------------------
(* Users write scripts and send them events, POST /v1/scripts and          *)
(* /v1/scripts/event.  The object is not looked at.  A source that does    *)
(* not compile (here <<>>) takes the script away again.                    *)
CreateScript(u, s, id, program) ==
    /\ core.scripts[s] = NoScript /\ core.scriptsFile[s] = NoScript
    /\ \E fuse \in Writes(3 + MaxPending) :
        LET new == Upsert(Fused(fuse), s, [NoScript EXCEPT !.owner = u, !.object = id])
        IN Stores({"request"}, IF program # <<>> THEN RunScript(SetProgram(new, s, program), s, "state_entry", {})
                               ELSE RemoveScript(new, s))
    /\ UNCHANGED <<worldVars, lapsed, due, registered, frames, serving, conn, over, acked>>

ScriptEvent(u, s) ==
    /\ core.scripts[s].owner = u
    /\ \E fuse \in Writes(1 + MaxPending) : Stores({"request"}, RunScript(Fused(fuse), s, "user", {}))
    /\ UNCHANGED <<worldVars, lapsed, due, registered, frames, serving, conn, over, acked>>

(* The maintenance thread purges the queue and takes the due timers, then  *)
(* runs their scripts.                                                     *)
Maintained(c, rest) ==
    /\ NextBounded(c)
    /\ \/ /\ c.ok /\ Stores({}, c) /\ due' = rest
          /\ UNCHANGED <<registered, frames, serving, conn>>
       \/ /\ ~c.ok /\ Spends({"throw"}) /\ CoreStarts(c)

MaintenanceBegins ==
    /\ due = {}
    /\ \E s \in Scripts : core.scripts[s].timer = "due"
    /\ \E fuse \in Writes(2) : Maintained(DueTimers(PurgeExpired(Fused(fuse))),
                                          {s \in Scripts : core.scripts[s].timer = "due"})
    /\ UNCHANGED <<worldVars, lapsed, over, acked>>

MaintenanceRuns(s) ==
    /\ s \in due
    /\ \E fuse \in Writes(1 + MaxPending) : Maintained(RunScript(Fused(fuse), s, "timer", {}), due \ {s})
    /\ UNCHANGED <<worldVars, lapsed, over, acked>>

CoreCrash ==
    /\ Spends({"core"}) /\ CoreStarts(core)
    /\ UNCHANGED <<worldVars, lapsed, over, acked>>

----------------------------------------------------------------------------
(* Time: a timer is due, a lease is over, an action expires.  Each is a    *)
(* moment that memory and file hold alike.                                 *)
TimerComesDue(s) ==
    /\ core.scripts[s].timer = "set"
    /\ Spends({"time"})
    /\ LET ring(file) == [file EXCEPT ![s].timer = IF @ = "set" THEN "due" ELSE @]
       IN core' = [core EXCEPT !.scripts = ring(@), !.scriptsFile = ring(@)]
    /\ UNCHANGED <<worldVars, lapsed, due, registered, frames, serving, conn, over, acked>>

LeaseRunsOut ==
    /\ \E given \in core.queue : given.leased /\
        LET free(file) == {[a EXCEPT !.leased = @ /\ a.id # given.id] : a \in file}
        IN core' = [core EXCEPT !.queue = free(@), !.queueFile = free(@)]
    /\ UNCHANGED <<worldVars, lapsed, due, registered, frames, serving, conn, over, acked, budget>>

Lapse ==
    /\ Spends({"time"})
    /\ \E id \in Actions \ lapsed : id < core.next /\ lapsed' = lapsed \cup {id}
    /\ UNCHANGED <<worldVars, core, due, registered, frames, serving, conn, over, acked>>

----------------------------------------------------------------------------
(* The World's main loop.                                                  *)
coreVars == <<core, lapsed, due, serving, over, acked>>

Connect ==
    /\ ~conn.open /\ Spends({"connect"})
    /\ conn' = [open |-> TRUE, generation |-> conn.generation + 1, stage |-> "idle", reply |-> NoReply]
    /\ registered' = conn.generation + 1
    /\ UNCHANGED <<sceneVars, batch, cursor, lives, applied, coreVars, frames>>

(* The World finds its connection lost when it uses it: it does not while  *)
(* it has an action in hand.  The last message is lost or on its way.      *)
Drop ==
    /\ conn.open /\ ~InHand(conn)
    /\ conn' = Unconnected(conn) /\ batch' = <<>>
    /\ frames' \in {frames, {}}
    /\ UNCHANGED <<sceneVars, cursor, lives, applied, coreVars, registered, budget>>

Idle == conn.open /\ conn.stage = "idle"
Sends(frame, stage) ==
    /\ frames' = frames \cup {frame}
    /\ conn' = [conn EXCEPT !.stage = stage, !.reply = NoReply]

Poll ==
    /\ Idle /\ batch = <<>> /\ Spends({"poll"})
    /\ Sends([kind |-> "poll", generation |-> conn.generation], "polled")
    /\ UNCHANGED <<worldVars, coreVars, registered>>

(* apply_script_action looks at the object and at the land, then calls the *)
(* runtime, which looks again; what it did not mean to change it writes as *)
(* it has seen it.                                                         *)
WorldLooks ==
    /\ conn.stage = "polled" /\ conn.reply.kind = "action"
    /\ LET a == conn.reply.action
           seen == region.entities[a.entity]
       IN IF seen # NoEntity /\ seen.owner = a.owner /\ (a.type \in NeedLand => a.owner \in mayBuild)
          THEN /\ conn' = [conn EXCEPT !.reply = [kind |-> "seen", action |-> a, entity |-> seen]]
               /\ UNCHANGED frames
          ELSE Sends([kind |-> "result", generation |-> conn.generation, id |-> a.id, ok |-> FALSE], "told")
    /\ UNCHANGED <<worldVars, coreVars, registered, budget>>

CanApply(a) ==
    /\ a.type # "query" => Exists(region, a.entity)
    /\ a.type \in {"force", "velocity", "material"} => CanPush(region, a.entity)
    /\ a.type \in {"physical", "still"} => CanSetPhysical(region, a.entity, a.type = "physical")

ApplyScriptAction(a, seen) ==
    CASE a.type = "move" -> UpdateTransform(region, a.entity, 1 - seen.place, seen.scale)
      [] a.type = "scale" -> UpdateTransform(region, a.entity, seen.place, 1 - seen.scale)
      [] a.type \in {"physical", "still"} -> SetPhysical(region, a.entity, a.type = "physical")
      [] a.type = "material" -> SetPhysicsMaterial(region, a.entity)
      [] a.type = "force" -> ApplyForce(region, a.entity)
      [] a.type = "text" -> SetFloatingText(region, a.entity)
      [] a.type = "say" -> Chat(region, a.entity)
      [] a.type \in {"velocity", "query"} -> region

WorldApplies ==
    /\ conn.reply.kind = "seen"
    /\ LET a == conn.reply.action
       IN /\ Sends([kind |-> "result", generation |-> conn.generation, id |-> a.id, ok |-> CanApply(a)], "told")
          /\ region' = IF CanApply(a) THEN ApplyScriptAction(a, conn.reply.entity) ELSE region
          /\ applied' = IF CanApply(a) THEN [applied EXCEPT ![a.id] = @ + 1] ELSE applied
    /\ UNCHANGED <<mayBuild, request, import, sceneFile, savedSequence, saver, disturbed,
                   batch, cursor, lives, coreVars, registered, budget>>

(* The answer that ends an exchange; an error ends the connection.         *)
Hears ==
    /\ conn.reply.kind \in {"empty", "ack", "error"}
    /\ conn' = IF conn.reply.kind = "error" THEN Unconnected(conn)
               ELSE [conn EXCEPT !.stage = "idle", !.reply = NoReply]
    /\ IF conn.stage = "sent" /\ conn.reply.kind = "ack"
       THEN cursor' = Head(batch).sequence /\ batch' = Tail(batch)
       ELSE UNCHANGED cursor /\ batch' = IF conn.reply.kind = "error" THEN <<>> ELSE batch
    /\ UNCHANGED <<sceneVars, lives, applied, coreVars, registered, frames, budget>>

ReadEvents ==
    /\ Idle /\ batch = <<>> /\ EventsSince(region, cursor) # <<>>
    /\ batch' = EventsSince(region, cursor)
    /\ UNCHANGED <<sceneVars, cursor, lives, applied, coreVars, registered, frames, conn, budget>>

SendEvent ==
    /\ Idle /\ batch # <<>>
    /\ IF Head(batch).type \in Relayed
       THEN /\ Sends([kind |-> "event", generation |-> conn.generation, entity |-> Head(batch).entity,
                      type |-> Head(batch).type, what |-> <<lives, Head(batch).sequence>>], "sent")
            /\ UNCHANGED <<cursor, batch>>
       ELSE /\ cursor' = Head(batch).sequence /\ batch' = Tail(batch)
            /\ UNCHANGED <<frames, conn>>
    /\ UNCHANGED <<sceneVars, lives, applied, coreVars, registered, budget>>

WorldCrash ==
    /\ Spends({"world"})
    /\ SceneRestarts
    /\ conn' = Unconnected(conn) /\ batch' = <<>> /\ lives' = lives + 1
    /\ cursor' = LatestSequence(region')
    /\ frames' \in {frames, {}}
    /\ UNCHANGED <<applied, coreVars, registered>>

----------------------------------------------------------------------------
Init ==
    /\ SceneInit /\ budget \in Budgets
    /\ core = [scripts |-> [s \in Scripts |-> NoScript], scriptsFile |-> [s \in Scripts |-> NoScript],
               queue |-> {}, queueFile |-> {}, next |-> 1, ok |-> TRUE, fuse |-> 0]
    /\ lapsed = {} /\ due = {} /\ registered = 0 /\ frames = {} /\ serving = {}
    /\ conn = [open |-> FALSE, generation |-> 0, stage |-> "idle", reply |-> NoReply]
    /\ batch = <<>> /\ cursor = savedSequence /\ lives = 1
    /\ applied = [a \in Actions |-> 0] /\ over = {} /\ acked = {}

Next ==
    \/ SceneNext /\ UNCHANGED <<batch, cursor, lives, applied, coreVars, registered, frames, conn>>
    \/ \E f \in frames : CoreChecks(f)
    \/ \E m \in serving : CoreLeases(m) \/ CoreGives(m) \/ CoreConfirms(m) \/ CoreRunsScripts(m)
    \/ \E u \in Users, s \in Scripts :
        \/ \E id \in Ids, program \in Programs \cup {<<>>} : CreateScript(u, s, id, program)
        \/ ScriptEvent(u, s)
    \/ \E s \in Scripts : MaintenanceRuns(s) \/ TimerComesDue(s)
    \/ MaintenanceBegins \/ CoreCrash \/ LeaseRunsOut \/ Lapse
    \/ Connect \/ Drop \/ Poll \/ WorldLooks \/ WorldApplies \/ Hears \/ ReadEvents \/ SendEvent \/ WorldCrash

Spec == Init /\ [][Next]_vars

----------------------------------------------------------------------------
(* An action is applied to the scene no more often than it may be tried,   *)
(* however often connections are lost, leases run out, writes throw and    *)
(* the Core restarts: a try is on file before the World hears of it        *)
(* (world_action_queue.cpp: lease, nack; docs/SCRIPT-WORLD-API-v2.md:50).  *)
AppliedWithinAttempts == \A a \in Actions : applied[a] <= MaxAttempts

(* Once the Core has taken an action off the queue as done, it is not      *)
(* applied again: not by a World that had it before, not after a restart   *)
(* of the Core, not because the last message of an old connection comes    *)
(* late (apps/core/main.cpp: script_action_result; world_action_queue.cpp: *)
(* ack).  Of connections that own the Region when that happens: the thread *)
(* of a connection that has been replaced since it looked takes off an     *)
(* action that the next connection may have leased, and will yet apply.    *)
DoneIsDone == [][\A a \in over : applied'[a] = applied[a]]_vars

(* What the Core has told the World that it gave to a script - an event,   *)
(* the answer to a query - is on file, and no crash of the Core or write   *)
(* that throws afterwards takes it back (script_runtime.cpp:               *)
(* execute_event, apply_world_result).                                     *)
AcknowledgedIsKept == \A k \in acked : core.scriptsFile[k[1]].owner # Nobody => k[2] \in core.scriptsFile[k[1]].seen
=============================================================================
