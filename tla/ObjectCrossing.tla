--------------------------- MODULE ObjectCrossing ---------------------------
(***************************************************************************)
(* The migration of a scene object between two Regions: the Core's         *)
(* ObjectCrossingStore (memory and file), the control-plane handlers of    *)
(* object_crossing_poll and object_crossing_result, the World Node loops   *)
(* that execute the commands, and the script bindings that follow an       *)
(* object.  One World Node loop per Region; when one node runs both        *)
(* Regions its loop alternates, which is a subset of these behaviours.     *)
(*                                                                         *)
(* An object is the root of a linkset; of an entity only the attributes    *)
(* RegionRuntime::import_linkset compares with the snapshot matter, and of *)
(* those the group, the one a user can change on an unlinked object.       *)
(***************************************************************************)
EXTENDS Naturals, FiniteSets

CONSTANTS
  Regions,      \* region ids
  Objects,      \* ids of the objects that exist before any crossing
  Crossings,    \* crossing ids, also the ids of the destination entities
  Groups,       \* values of an entity's group_id
  Gone,         \* the entity does not exist
  Home,         \* the Region each object is in
  Obj,          \* the object each crossing asks to move
  To,           \* the Region each crossing asks to move it to
  Rank,         \* the order in which crossings_, a hash map, is iterated
  MaxAttempts,  \* [crossing] object_max_attempts
  DiskMayFail,  \* a write of a store's file may throw
  UsersEdit,    \* users change groups and delete objects meanwhile
  MaxLate       \* bound: handlers still running for a broken connection

ASSUME CrossingAssumption ==
  /\ Objects \cap Crossings = {}
  /\ Gone \notin Groups
  /\ Home \in [Objects -> Regions]
  /\ Obj \in [Crossings -> Objects]
  /\ To \in [Crossings -> Regions]
  /\ \A c \in Crossings : To[c] # Home[Obj[c]]
  /\ Rank \in [Crossings -> Nat]
  /\ \A c, d \in Crossings : Rank[c] = Rank[d] => c = d
  /\ MaxAttempts \in Nat \ {0}
  /\ DiskMayFail \in BOOLEAN
  /\ UsersEdit \in BOOLEAN
  /\ MaxLate \in Nat

VARIABLES
  store,      \* ObjectCrossingStore::crossings_, in memory
  disk,       \* the object crossing file
  scene,      \* the entities of the Regions: each object at Home, each copy at To
  deleted,    \* history: objects of which a user deleted an entity
  link,       \* per Region, the World Node's control connection
  held,       \* per Region, the command its World Node is about to apply
  msgs,       \* results on their way to, or inside, a Core handler
  script,     \* ScriptRuntime: the entity each object's script is bound to
  scriptDisk  \* the script file

vars == <<store, disk, scene, deleted, link, held, msgs, script, scriptDisk>>

CrossingState == {"none", "prepared", "exported", "imported", "completed",
                  "cleanup_pending", "restore_pending", "rolled_back"}
Terminal      == {"completed", "rolled_back"}
Command       == {"export", "import", "remove", "cleanup", "restore"}

Entity   == Objects \cup Crossings
Snapshot == Groups \cup {Gone}

Record == [state    : CrossingState,
           created  : Nat,
           snapshot : Snapshot,
           attempts : [Command -> 0..MaxAttempts],
           erased   : BOOLEAN]

Held == [crossing : Crossings, command : Command, snapshot : Snapshot]
None == [command |-> "none"]

Message == [region : Regions, crossing : Crossings, command : Command,
            ok : BOOLEAN, snapshot : Snapshot,
            live  : BOOLEAN,   \* its World Node still waits for the ack
            stage : {"sent", "checked", "rebound"}]

State(c) == store[c].state

(***************************************************************************)
(* command_for_region: the state of a crossing names the command due and   *)
(* the Region it is due at; of the crossings due at a Region the one with  *)
(* the smallest created_unix is served, the first in iteration order among *)
(* those of the same second.                                               *)
(***************************************************************************)
\* Mutant: the source is asked to remove its entity as soon as it is exported.
Before_RemoveEarly(cmd) ==
  CASE cmd = "export"            -> "prepared"
    [] cmd \in {"import", "remove"} -> "exported"
    [] cmd = "cleanup"           -> "cleanup_pending"
    [] cmd = "restore"           -> "restore_pending"

Before(cmd) ==
  CASE cmd = "export"  -> "prepared"
    [] cmd = "import"  -> "exported"
    [] cmd = "remove"  -> "imported"
    [] cmd = "cleanup" -> "cleanup_pending"
    [] cmd = "restore" -> "restore_pending"

\* Mutant: a cleaned up crossing counts as rolled back without a restore.
After_NoRestore(cmd) ==
  CASE cmd = "export"               -> "exported"
    [] cmd = "import"               -> "imported"
    [] cmd = "remove"               -> "completed"
    [] cmd \in {"cleanup", "restore"} -> "rolled_back"

After(cmd) ==
  CASE cmd = "export"  -> "exported"
    [] cmd = "import"  -> "imported"
    [] cmd = "remove"  -> "completed"
    [] cmd = "cleanup" -> "restore_pending"
    [] cmd = "restore" -> "rolled_back"

Site(c, cmd) == IF cmd \in {"import", "cleanup"} THEN To[c] ELSE Home[Obj[c]]

Due(r, c, cmd) == State(c) = Before(cmd) /\ Site(c, cmd) = r

Older(c, d) ==
  \/ store[c].created < store[d].created
  \/ store[c].created = store[d].created /\ Rank[c] <= Rank[d]

DueFirst(r, c, cmd) ==
  /\ Due(r, c, cmd)
  /\ \A d \in Crossings, other \in Command : Due(r, d, other) => Older(c, d)

(***************************************************************************)
(* The initial state: no crossing yet, every object in its Region with its *)
(* script bound to it, no World Node connected.                            *)
(***************************************************************************)
NoRecord == [state |-> "none", created |-> 0, snapshot |-> Gone,
             attempts |-> [cmd \in Command |-> 0], erased |-> FALSE]

Init ==
  /\ store = [c \in Crossings |-> NoRecord]
  /\ disk = store
  /\ scene \in [Entity -> Snapshot]
  /\ \A o \in Objects : scene[o] # Gone
  /\ \A c \in Crossings : scene[c] = Gone
  /\ deleted = {}
  /\ link = [r \in Regions |-> "down"]
  /\ held = [r \in Regions |-> None]
  /\ msgs = {}
  /\ script = [o \in Objects |-> o]
  /\ scriptDisk = script

-----------------------------------------------------------------------------
(***************************************************************************)
(* persist_locked writes the whole store, after memory has changed.        *)
(***************************************************************************)
Saves == disk' = store'
SaveThrows == DiskMayFail /\ disk' = disk

(***************************************************************************)
(* POST /v1/world/object-crossings, both Regions online.  A write that     *)
(* throws takes the record out again, so only the successful call shows.   *)
(* created_unix is only ever compared: the clock may have moved or not     *)
(* since the last record.                                                  *)
(***************************************************************************)
Clock == {0} \cup {store[d].created : d \in Crossings}
             \cup {store[d].created + 1 : d \in Crossings}

Prepare(c) ==
  /\ State(c) = "none"
  /\ link[Home[Obj[c]]] # "down" /\ link[To[c]] # "down"
  /\ \E now \in Clock :
       /\ \A d \in Crossings : store[d].created <= now
       /\ store' = [store EXCEPT ![c] = [@ EXCEPT !.state = "prepared", !.created = now]]
  /\ Saves
  /\ UNCHANGED <<scene, deleted, link, held, msgs, script, scriptDisk>>

(***************************************************************************)
(* rollback (HTTP, by the owner) and maintenance (the Core's 1 s loop).    *)
(* Maintenance takes every record past its deadline and forgets every      *)
(* terminal one past its retention: any sets of such records.  Of a        *)
(* forgotten record the state is kept as history; no handler reads it,     *)
(* since a terminal record refuses everything as a missing one does.       *)
(* Nothing in the maintenance thread catches what persist_locked throws:   *)
(* that ends the process, which is CoreRestart.                            *)
(***************************************************************************)
\* Mutant: an exported crossing is declared rolled back, as v1 did.
Undone_Blind(record) ==
  [record EXCEPT !.state = IF @ \in {"prepared", "exported"} THEN "rolled_back"
                           ELSE "cleanup_pending"]

Undone(record) ==
  [record EXCEPT !.state = IF @ = "prepared" THEN "rolled_back" ELSE "cleanup_pending"]

Rollback(c) ==
  /\ State(c) \in {"prepared", "exported", "imported", "cleanup_pending"}
  /\ store' = [store EXCEPT ![c] = Undone(@)]
  /\ Saves \/ SaveThrows
  /\ UNCHANGED <<scene, deleted, link, held, msgs, script, scriptDisk>>

Maintenance(late, old) ==
  /\ late \cup old # {}
  /\ \A c \in late : State(c) \in {"prepared", "exported", "imported"}
  /\ \A c \in old : State(c) \in Terminal /\ ~ store[c].erased
  /\ store' = [c \in Crossings |->
                 IF c \in late THEN Undone(store[c])
                 ELSE [store[c] EXCEPT !.erased = @ \/ c \in old]]
  /\ Saves
  /\ UNCHANGED <<scene, deleted, link, held, msgs, script, scriptDisk>>

-----------------------------------------------------------------------------
(***************************************************************************)
(* The World Node of Region r: connect, poll, apply, send the result, wait *)
(* for the ack.  Registering the Region gives it a new node generation, so *)
(* a result the Core has not checked by then is stale and changes nothing; *)
(* one it has checked is still being handled, for MaxLate broken           *)
(* connections at most.                                                    *)
(***************************************************************************)
Connect(r) ==
  /\ link[r] = "down" /\ held[r] = None
  /\ Cardinality({m \in msgs : ~ m.live /\ m.stage # "sent"}) <= MaxLate
  /\ link' = [link EXCEPT ![r] = "idle"]
  /\ msgs' = {m \in msgs : ~ (m.region = r /\ m.stage = "sent")}
  /\ UNCHANGED <<store, disk, scene, deleted, held, script, scriptDisk>>

Poll(r) ==
  /\ link[r] = "idle"
  /\ \E c \in Crossings, cmd \in Command :
       /\ DueFirst(r, c, cmd)
       /\ held' = [held EXCEPT ![r] = [crossing |-> c, command |-> cmd,
                                       snapshot |-> store[c].snapshot]]
  /\ link' = [link EXCEPT ![r] = "busy"]
  /\ UNCHANGED <<store, disk, scene, deleted, msgs, script, scriptDisk>>

\* The command is applied; a result is sent if the connection still stands.
Reply(r, ok, snapshot) ==
  /\ held' = [held EXCEPT ![r] = None]
  /\ msgs' = IF link[r] = "busy"
             THEN msgs \cup {[region |-> r, crossing |-> held[r].crossing,
                              command |-> held[r].command, ok |-> ok,
                              snapshot |-> snapshot, live |-> TRUE,
                              stage |-> "sent"]}
             ELSE msgs
  /\ UNCHANGED <<store, disk, deleted, link, script, scriptDisk>>

Target(c, cmd) == IF cmd \in {"import", "cleanup"} THEN c ELSE Obj[c]

ApplyExport(r) ==
  /\ held[r].command = "export"
  /\ LET found == scene[Obj[held[r].crossing]]
     IN  Reply(r, found # Gone, found)
  /\ UNCHANGED scene

\* import and restore: an entity equal to the snapshot is already there, any
\* other entity with that id is a collision.
ApplyImport(r) ==
  /\ held[r].command \in {"import", "restore"}
  /\ LET e  == Target(held[r].crossing, held[r].command)
         ok == scene[e] \in {Gone, held[r].snapshot}
     IN  /\ scene' = IF ok THEN [scene EXCEPT ![e] = held[r].snapshot] ELSE scene
         /\ Reply(r, ok, Gone)

\* remove and cleanup: an entity that is not there is no error.
ApplyRemove(r) ==
  /\ held[r].command \in {"remove", "cleanup"}
  /\ scene' = [scene EXCEPT ![Target(held[r].crossing, held[r].command)] = Gone]
  /\ Reply(r, TRUE, Gone)

\* The connection breaks; what was on its way over it may be lost with it, or
\* still be applied (a command) or handled (a result) afterwards.
Disconnect(r, lost) ==
  /\ link[r] # "down"
  /\ link' = [link EXCEPT ![r] = "down"]
  /\ held' = IF lost THEN [held EXCEPT ![r] = None] ELSE held
  /\ msgs' = {IF m.region = r THEN [m EXCEPT !.live = FALSE] ELSE m :
                m \in {n \in msgs : ~ (lost /\ n.region = r /\ n.stage = "sent")}}
  /\ UNCHANGED <<store, disk, scene, deleted, script, scriptDisk>>

-----------------------------------------------------------------------------
(***************************************************************************)
(* The Core's handler of object_crossing_result.  It compares the result   *)
(* with the command due now, and only then calls the stores, each under a  *)
(* lock of its own: rollback and maintenance run in between.               *)
(***************************************************************************)
Acked(m) == /\ msgs' = msgs \ {m}
            /\ link' = IF m.live THEN [link EXCEPT ![m.region] = "idle"] ELSE link

\* An exception ends the connection's thread.
Thrown(m) == /\ msgs' = msgs \ {m}
             /\ link' = IF m.live THEN [link EXCEPT ![m.region] = "down"] ELSE link

CoreAccept(m) ==
  /\ m.stage = "sent"
  /\ DueFirst(m.region, m.crossing, m.command)
  /\ msgs' = (msgs \ {m}) \cup {[m EXCEPT !.stage = "checked"]}
  /\ UNCHANGED <<store, disk, scene, deleted, link, held, script, scriptDisk>>

\* Mutant: a result that is not expected any more gets no ack.
CoreMissingOrStale_NoAck(m) ==
  /\ m.stage = "sent"
  /\ ~ DueFirst(m.region, m.crossing, m.command)
  /\ msgs' = msgs \ {m}
  /\ UNCHANGED <<store, disk, scene, deleted, link, held, script, scriptDisk>>

CoreMissingOrStale(m) ==
  /\ m.stage = "sent"
  /\ ~ DueFirst(m.region, m.crossing, m.command)
  /\ Acked(m)
  /\ UNCHANGED <<store, disk, scene, deleted, held, script, scriptDisk>>

\* Mutant: scripts follow the export instead of the removal.
CoreRebind_AtExport(m) ==
  /\ m.stage = "checked" /\ m.ok /\ m.command \in {"export", "remove"}
  /\ script' = [script EXCEPT ![Obj[m.crossing]] = m.crossing]
  /\ scriptDisk' = script'
  /\ msgs' = (msgs \ {m}) \cup {[m EXCEPT !.stage = "rebound"]}
  /\ UNCHANGED <<store, disk, scene, deleted, link, held>>

\* scripts->rebind_objects, before record_remove.
CoreRebind(m) ==
  /\ m.stage = "checked" /\ m.ok /\ m.command = "remove"
  /\ script' = [o \in Objects |->
                  IF o = Obj[m.crossing] /\ script[o] = o THEN m.crossing ELSE script[o]]
  /\ \/ /\ scriptDisk' = script'
        /\ msgs' = (msgs \ {m}) \cup {[m EXCEPT !.stage = "rebound"]}
        /\ UNCHANGED link
     \/ /\ DiskMayFail
        /\ Thrown(m)
        /\ UNCHANGED scriptDisk
  /\ UNCHANGED <<store, disk, scene, deleted, held>>

\* Mutant: the removal is recorded before the scripts are rebound.
Recordable_BeforeRebind(m) == m.ok /\ m.stage = "checked"

Recordable(m) ==
  m.ok /\ m.stage = IF m.command = "remove" THEN "rebound" ELSE "checked"

\* record_export, record_import, record_remove, record_cleanup, record_restore.
\* The handler catches what record_export and record_import throw.
Recorded(record, m) ==
  [record EXCEPT !.state = After(m.command),
                 !.snapshot = IF m.command = "export" THEN m.snapshot ELSE @]

\* Mutant: a result is recorded whatever has become of the crossing.
CoreRecord_Unguarded(m) ==
  /\ Recordable(m)
  /\ store' = [store EXCEPT ![m.crossing] = Recorded(@, m)]
  /\ Saves /\ Acked(m)
  /\ UNCHANGED <<scene, deleted, held, script, scriptDisk>>

CoreRecord(m) ==
  /\ Recordable(m)
  /\ State(m.crossing) = Before(m.command)
  /\ store' = [store EXCEPT ![m.crossing] = Recorded(@, m)]
  /\ \/ Saves /\ Acked(m)
     \/ SaveThrows /\ IF m.command \in {"export", "import"} THEN Acked(m) ELSE Thrown(m)
  /\ UNCHANGED <<scene, deleted, held, script, scriptDisk>>

\* Already recorded, or no longer recordable: nothing changes.
CoreRecordRefused(m) ==
  /\ Recordable(m) \/ (~ m.ok /\ m.stage = "checked")
  /\ State(m.crossing) # Before(m.command)
  /\ Acked(m)
  /\ UNCHANGED <<store, disk, scene, deleted, held, script, scriptDisk>>

\* Mutant: the attempts of the phases retried for ever are counted for ever.
Rejected_Unbounded(record, cmd) ==
  LET n == record.attempts[cmd] + 1
  IN  [record EXCEPT
         !.attempts[cmd] = n,
         !.state = IF n < MaxAttempts \/ cmd \in {"cleanup", "restore"} THEN @
                   ELSE IF cmd = "remove" THEN "cleanup_pending" ELSE "rolled_back"]

\* reject_command: the attempts of a phase saturate; an exhausted export or
\* import gives up, an exhausted remove turns to reconciliation, cleanup and
\* restore are retried for ever.
Rejected(record, cmd) ==
  LET n == IF record.attempts[cmd] < MaxAttempts
           THEN record.attempts[cmd] + 1 ELSE record.attempts[cmd]
  IN  [record EXCEPT
         !.attempts[cmd] = n,
         !.state = IF n < MaxAttempts \/ cmd \in {"cleanup", "restore"} THEN @
                   ELSE IF cmd = "remove" THEN "cleanup_pending" ELSE "rolled_back"]

CoreReject(m) ==
  /\ ~ m.ok /\ m.stage = "checked"
  /\ State(m.crossing) = Before(m.command)
  /\ store' = [store EXCEPT ![m.crossing] = Rejected(@, m.command)]
  /\ \/ Saves /\ Acked(m)
     \/ SaveThrows /\ Thrown(m)
  /\ UNCHANGED <<scene, deleted, held, script, scriptDisk>>

\* The Core process dies and starts again on its files.  A World Node that
\* has received a command still applies it.
CoreRestart(lost) ==
  /\ store' = disk
  /\ script' = scriptDisk
  /\ msgs' = {}
  /\ link' = [r \in Regions |-> "down"]
  /\ held' = [r \in Regions |-> IF r \in lost THEN None ELSE held[r]]
  /\ UNCHANGED <<disk, scene, deleted, scriptDisk>>

-----------------------------------------------------------------------------
(***************************************************************************)
(* Users, through the Scene server: set_object_permissions changes the     *)
(* group, remove_entity deletes.                                           *)
(***************************************************************************)
Regroup(e, g) ==
  /\ UsersEdit
  /\ scene[e] \in Groups \ {g}
  /\ scene' = [scene EXCEPT ![e] = g]
  /\ UNCHANGED <<store, disk, deleted, link, held, msgs, script, scriptDisk>>

Delete(e) ==
  /\ UsersEdit
  /\ scene[e] # Gone
  /\ scene' = [scene EXCEPT ![e] = Gone]
  /\ deleted' = deleted \cup {IF e \in Objects THEN e ELSE Obj[e]}
  /\ UNCHANGED <<store, disk, link, held, msgs, script, scriptDisk>>

-----------------------------------------------------------------------------
CoreHandles(m) ==
  \/ CoreAccept(m) \/ CoreMissingOrStale(m) \/ CoreRebind(m)
  \/ CoreRecord(m) \/ CoreRecordRefused(m) \/ CoreReject(m)

Apply(r) == ApplyExport(r) \/ ApplyImport(r) \/ ApplyRemove(r)

Next ==
  \/ \E c \in Crossings : Prepare(c) \/ Rollback(c)
  \/ \E late, old \in SUBSET Crossings : Maintenance(late, old)
  \/ \E r \in Regions : Connect(r) \/ Poll(r) \/ Apply(r)
  \/ \E r \in Regions, lost \in BOOLEAN : Disconnect(r, lost)
  \/ \E m \in msgs : CoreHandles(m)
  \/ \E lost \in SUBSET Regions : CoreRestart(lost)
  \/ \E e \in Entity : Delete(e) \/ \E g \in Groups : Regroup(e, g)

Spec == Init /\ [][Next]_vars

(***************************************************************************)
(* The World Node's loop and the Core's connection threads keep running;   *)
(* nothing makes a user, an expiry or a failure happen.                    *)
(***************************************************************************)
Fairness ==
  \A r \in Regions :
    /\ WF_vars(Connect(r))
    /\ WF_vars(Poll(r))
    /\ WF_vars(Apply(r))
    /\ WF_vars(\E m \in msgs : m.region = r /\ CoreHandles(m))

FairSpec == Spec /\ Fairness

-----------------------------------------------------------------------------
(***************************************************************************)
(* Properties.                                                             *)
(***************************************************************************)
TypeOK ==
  /\ store \in [Crossings -> Record]
  /\ disk \in [Crossings -> Record]
  /\ scene \in [Entity -> Snapshot]
  /\ deleted \subseteq Objects
  /\ link \in [Regions -> {"down", "idle", "busy"}]
  /\ held \in [Regions -> Held \cup {None}]
  /\ msgs \subseteq Message
  /\ script \in [Objects -> Entity]
  /\ scriptDisk \in [Objects -> Entity]

CrossingsOf(o) == {c \in Crossings : Obj[c] = o}

\* No step of the protocol loses an object: unless a user deleted it, it is
\* in its Region, or a copy is at a destination, or a reconciliation that
\* restores it from the snapshot is pending.  Any number of crossings may
\* ask for the same object, connections break and the Core restarts anywhere
\* between remove_linkset, the stores and the acks.
NoLoss ==
  \A o \in Objects \ deleted :
    \/ scene[o] # Gone
    \/ \E c \in CrossingsOf(o) :
         scene[c] # Gone \/ State(c) \in {"cleanup_pending", "restore_pending"}

\* A completed crossing has carried the script with it, in memory and in the
\* script file, so no restart finds the object moved and its script left
\* behind: record_remove comes after rebind_objects has persisted.
CompletedCarriesScript ==
  \A c \in Crossings :
    /\ State(c) = "completed" => script[Obj[c]] # Obj[c]
    /\ disk[c].state = "completed" => scriptDisk[Obj[c]] # Obj[c]

\* A script is only ever bound to a destination entity whose import the Core
\* has recorded.
BoundOnlyAfterImport ==
  \A c \in Crossings :
    script[Obj[c]] = c => State(c) \notin {"none", "prepared", "exported"}

\* The source entity of a crossing disappears by the protocol only after some
\* crossing of it had its import recorded, whatever is lost or restarted.
SourceRemovedAfterImport ==
  [][\A o \in Objects \ deleted' :
       scene[o] # Gone /\ scene'[o] = Gone =>
         \E c \in CrossingsOf(o) :
           State(c) \in {"imported", "completed", "cleanup_pending",
                         "restore_pending"}]_vars

\* The states of a crossing are never walked backwards: a duplicate, late or
\* stale result, a rollback or a restart moves no transaction to an earlier
\* phase, and nothing leaves a terminal state.
Onward(s) ==
  CASE s = "none"            -> CrossingState
    [] s = "prepared"        -> CrossingState \ {"none"}
    [] s = "exported"        -> CrossingState \ {"none", "prepared"}
    [] s = "imported"        -> {"imported", "completed", "cleanup_pending",
                                 "restore_pending", "rolled_back"}
    [] s = "cleanup_pending" -> {"cleanup_pending", "restore_pending", "rolled_back"}
    [] s = "restore_pending" -> {"restore_pending", "rolled_back"}
    [] OTHER                 -> {s}

NeverBackwards ==
  [][\A c \in Crossings : store'[c].state \in Onward(State(c))]_vars

-----------------------------------------------------------------------------
(***************************************************************************)
(* The inductive invariant behind NoLoss, NeverBackwards and               *)
(* SourceRemovedAfterImport, for a disk that does not fail.  The source    *)
(* entity may be gone only while a crossing covers it: its copy is known   *)
(* to have arrived, or the restore that brings the source back is still to *)
(* be applied.  A remove command in flight keeps that true until it is     *)
(* applied, because the restore of the same crossing is applied by the     *)
(* same World Node loop.                                                   *)
(***************************************************************************)
Arrived(c) == scene[c] # Gone \/ Obj[c] \in deleted

RestoreAcked(c) ==
  \E m \in msgs : m.crossing = c /\ m.command = "restore" /\ m.ok

Covers(c) == \/ State(c) \in {"imported", "completed", "cleanup_pending"}
             \/ State(c) = "restore_pending" /\ ~ RestoreAcked(c)

HeldInv(r) ==
  LET h == held[r]
  IN  h # None =>
        /\ r = Site(h.crossing, h.command)
        /\ State(h.crossing) \in Onward(Before(h.command))
        /\ h.command \in {"import", "restore"} => h.snapshot # Gone
        /\ h.command = "remove" => Covers(h.crossing)

MessageInv(m) ==
  /\ State(m.crossing) \in Onward(Before(m.command))
  /\ m.ok /\ m.command = "export" => m.snapshot # Gone
  /\ m.ok /\ m.command = "import" /\ State(m.crossing) = "exported" => Arrived(m.crossing)

CrossingInv(c) ==
  /\ State(c) \in {"exported", "imported", "cleanup_pending", "restore_pending"}
       => store[c].snapshot # Gone
  /\ State(c) \in {"imported", "completed"} => Arrived(c)

\* The source of an object may be gone only while a crossing covers it, and
\* what that takes of the store, its file, the World Node loops and the
\* results on their way.
LossInv ==
  /\ disk = store
  /\ \A r \in Regions : HeldInv(r)
  /\ \A m \in msgs : MessageInv(m)
  /\ \A c \in Crossings : CrossingInv(c)
  /\ \A o \in Objects \ deleted :
       scene[o] = Gone => \E c \in CrossingsOf(o) : Covers(c)

\* Once connections and the Core stay up, every crossing reaches an outcome,
\* whatever was lost, rolled back or expired before: no crossing waits for
\* ever behind another one in command_for_region, and no retry starves it.
Failure == \/ \E r \in Regions, lost \in BOOLEAN : Disconnect(r, lost)
           \/ \E lost \in SUBSET Regions : CoreRestart(lost)

Settles ==
  <>[][~ Failure]_vars =>
    \A c \in Crossings : State(c) = "prepared" ~> State(c) \in Terminal

-----------------------------------------------------------------------------
(***************************************************************************)
(* What the documents say and the code does not do.                        *)
(***************************************************************************)
\* OBJECT-CROSSING-v2: an exported transaction is not blindly declared rolled
\* back, since the destination may have imported it; so no copy stays behind
\* at the destination of a crossing that was rolled back.
NoCopyLeftBehind ==
  \A c \in Crossings : State(c) = "rolled_back" => scene[c] = Gone
=============================================================================
