------------------------ MODULE ObjectCrossingProofs ------------------------
(***************************************************************************)
(* Theorems about ObjectCrossing, for every set of Regions, objects and    *)
(* crossings and every choice of requests: its types, and that no object   *)
(* is lost.                                                                *)
(***************************************************************************)
EXTENDS ObjectCrossingRefinement, TLAPS

USE DEF State, Terminal

LEMMA StateTypes ==
  /\ \A cmd \in Command : Before(cmd) \in CrossingState
  /\ \A cmd \in Command : After(cmd) \in CrossingState
BY DEF Command, Before, After, CrossingState

LEMMA SiteTypes ==
  /\ \A c \in Crossings, cmd \in Command : Site(c, cmd) \in Regions
  /\ \A c \in Crossings, cmd \in Command : Target(c, cmd) \in Entity
  /\ \A c \in Crossings : Obj[c] \in Objects
BY CrossingAssumption DEF Site, Target, Entity

LEMMA RecordUpdates ==
  ASSUME NEW record \in Record
  PROVE  /\ \A s \in CrossingState : [record EXCEPT !.state = s] \in Record
         /\ \A s \in CrossingState, n \in Nat :
              [record EXCEPT !.state = s, !.created = n] \in Record
         /\ \A s \in CrossingState, p \in Snapshot :
              [record EXCEPT !.state = s, !.snapshot = p] \in Record
         /\ \A e \in BOOLEAN : [record EXCEPT !.erased = e] \in Record
         /\ record.state \in CrossingState
         /\ record.created \in Nat
         /\ record.snapshot \in Snapshot
         /\ record.erased \in BOOLEAN
BY DEF Record

LEMMA UndoneType ==
  ASSUME NEW record \in Record
  PROVE  Undone(record) \in Record
BY DEF Undone, Record, CrossingState

LEMMA RecordedType ==
  ASSUME NEW record \in Record, NEW m \in Message
  PROVE  Recorded(record, m) \in Record
<1>1. After(m.command) \in CrossingState /\ m.snapshot \in Snapshot
  BY StateTypes DEF Message
<1>2. QED BY <1>1 DEF Recorded, Record

LEMMA RejectedType ==
  ASSUME NEW record \in Record, NEW cmd \in Command
  PROVE  Rejected(record, cmd) \in Record
<1> DEFINE n == IF record.attempts[cmd] < MaxAttempts
                THEN record.attempts[cmd] + 1 ELSE record.attempts[cmd]
<1>1. n \in 0..MaxAttempts
  BY CrossingAssumption DEF Record
<1>2. [record.attempts EXCEPT ![cmd] = n] \in [Command -> 0..MaxAttempts]
  BY <1>1 DEF Record
<1> DEFINE s == IF n < MaxAttempts \/ cmd \in {"cleanup", "restore"} THEN record.state
                ELSE IF cmd = "remove" THEN "cleanup_pending" ELSE "rolled_back"
<1>3. s \in CrossingState
  BY DEF Record, CrossingState
<1>4. Rejected(record, cmd) =
        [record EXCEPT !.attempts = [record.attempts EXCEPT ![cmd] = n], !.state = s]
  BY DEF Rejected, Record
<1> HIDE DEF n, s
<1>5. QED BY <1>2, <1>3, <1>4 DEF Record

(***************************************************************************)
(* The typing invariant is inductive as it stands.                         *)
(***************************************************************************)
LEMMA InitType == Init => TypeOK
BY CrossingAssumption
   DEF Init, TypeOK, NoRecord, Record, CrossingState, Snapshot, Entity, None

LEMMA StepType == TypeOK /\ [Next]_vars => TypeOK'
<1> SUFFICES ASSUME TypeOK, [Next]_vars PROVE TypeOK'
  OBVIOUS
<1> USE DEF TypeOK
<1>1. ASSUME NEW c \in Crossings, Prepare(c) PROVE TypeOK'
  <2>1. PICK now \in Clock :
          store' = [store EXCEPT ![c] =
                      [store[c] EXCEPT !.state = "prepared", !.created = now]]
    BY <1>1 DEF Prepare
  <2>2. now \in Nat
    <3>1. \A d \in Crossings : store[d].created \in Nat
      BY DEF Record
    <3>2. QED BY <3>1 DEF Clock
  <2>3. store' \in [Crossings -> Record]
    BY <2>1, <2>2, RecordUpdates DEF CrossingState
  <2>4. QED BY <2>3, <1>1 DEF Prepare, Saves
<1>2. ASSUME NEW c \in Crossings, Rollback(c) PROVE TypeOK'
  <2>1. store' \in [Crossings -> Record]
    BY <1>2, UndoneType DEF Rollback
  <2>2. QED BY <2>1, <1>2 DEF Rollback, Saves, SaveThrows
<1>3. ASSUME NEW late \in SUBSET Crossings, NEW old \in SUBSET Crossings,
             Maintenance(late, old) PROVE TypeOK'
  <2>1. store' \in [Crossings -> Record]
    <3>1. \A c \in Crossings : store'[c] \in Record
      BY <1>3, UndoneType, RecordUpdates DEF Maintenance
    <3>2. QED BY <3>1, <1>3 DEF Maintenance
  <2>2. QED BY <2>1, <1>3 DEF Maintenance, Saves
<1>4. ASSUME NEW r \in Regions, Connect(r) PROVE TypeOK'
  BY <1>4 DEF Connect
<1>5. ASSUME NEW r \in Regions, Poll(r) PROVE TypeOK'
  <2>1. PICK c \in Crossings, cmd \in Command :
          held' = [held EXCEPT ![r] = [crossing |-> c, command |-> cmd,
                                       snapshot |-> store[c].snapshot]]
    BY <1>5 DEF Poll
  <2>2. held' \in [Regions -> Held \cup {None}]
    BY <2>1 DEF Record, Held
  <2>3. QED BY <2>2, <1>5 DEF Poll
<1>6. ASSUME NEW r \in Regions, NEW ok \in BOOLEAN, NEW s \in Snapshot,
             held[r] \in Held, Reply(r, ok, s),
             scene' \in [Entity -> Snapshot] PROVE TypeOK'
  <2>1. msgs' \subseteq Message
    <3> DEFINE m == [region |-> r, crossing |-> held[r].crossing,
                     command |-> held[r].command, ok |-> ok, snapshot |-> s,
                     live |-> TRUE, stage |-> "sent"]
    <3>1. held[r].crossing \in Crossings /\ held[r].command \in Command
      BY <1>6 DEF Held
    <3>2. m \in Message
      BY <1>6, <3>1 DEF Message
    <3>3. msgs' \in {msgs, msgs \cup {m}}
      BY <1>6 DEF Reply
    <3>4. QED BY <3>2, <3>3
  <2>2. held' \in [Regions -> Held \cup {None}]
    BY <1>6 DEF Reply
  <2>3. QED BY <2>1, <2>2, <1>6 DEF Reply
<1>7. ASSUME NEW r \in Regions, held[r].command \in Command PROVE held[r] \in Held
  BY <1>7 DEF None, Command
<1>8. ASSUME NEW r \in Regions, ApplyExport(r) PROVE TypeOK'
  <2>1. held[r] \in Held
    BY <1>7, <1>8 DEF ApplyExport, Command
  <2>2. scene[Obj[held[r].crossing]] \in Snapshot
    BY <2>1, SiteTypes DEF Held, Entity
  <2>3. QED BY <2>1, <2>2, <1>6, <1>8 DEF ApplyExport
<1>9. ASSUME NEW r \in Regions, ApplyImport(r) PROVE TypeOK'
  <2>1. held[r] \in Held
    BY <1>7, <1>9 DEF ApplyImport, Command
  <2>2. scene' \in [Entity -> Snapshot]
    BY <2>1, <1>9 DEF ApplyImport, Held
  <2> DEFINE ok == scene[Target(held[r].crossing, held[r].command)]
                      \in {Gone, held[r].snapshot}
  <2>3. Reply(r, ok, Gone) /\ ok \in BOOLEAN
    BY <1>9 DEF ApplyImport
  <2> HIDE DEF ok
  <2>4. QED BY <2>1, <2>2, <2>3, <1>6 DEF Snapshot
<1>10. ASSUME NEW r \in Regions, ApplyRemove(r) PROVE TypeOK'
  <2>1. held[r] \in Held
    BY <1>7, <1>10 DEF ApplyRemove, Command
  <2>2. scene' \in [Entity -> Snapshot]
    BY <2>1, <1>10 DEF ApplyRemove, Snapshot
  <2>3. QED BY <2>1, <2>2, <1>6, <1>10 DEF ApplyRemove, Snapshot
<1>11. ASSUME NEW r \in Regions, NEW lost \in BOOLEAN, Disconnect(r, lost)
       PROVE TypeOK'
  <2>1. msgs' \subseteq Message
    BY <1>11, ZenonT(60) DEF Disconnect, Message
  <2>2. held' \in [Regions -> Held \cup {None}]
    BY <1>11 DEF Disconnect
  <2>3. QED BY <2>1, <2>2, <1>11 DEF Disconnect
<1>12. ASSUME NEW m \in msgs, CoreHandles(m) PROVE TypeOK'
  <2>0. m \in Message
    OBVIOUS
  <2>1. \A s \in {"checked", "rebound"} : [m EXCEPT !.stage = s] \in Message
    BY <2>0 DEF Message
  <2>2. (Acked(m) \/ Thrown(m)) =>
          /\ msgs' \subseteq Message
          /\ link' \in [Regions -> {"down", "idle", "busy"}]
    BY <2>0 DEF Acked, Thrown, Message
  <2>3. CASE CoreAccept(m)
    BY <2>1, <2>3 DEF CoreAccept
  <2>4. CASE CoreMissingOrStale(m)
    BY <2>2, <2>4 DEF CoreMissingOrStale
  <2>5. CASE CoreRebind(m)
    <3>1. script' \in [Objects -> Entity]
      BY <2>0, <2>5 DEF CoreRebind, Entity, Message
    <3>2. QED BY <3>1, <2>1, <2>2, <2>5 DEF CoreRebind
  <2>6. CASE CoreRecord(m)
    <3>1. store' \in [Crossings -> Record]
      BY <2>0, <2>6, RecordedType DEF CoreRecord, Message
    <3>2. QED BY <3>1, <2>2, <2>6 DEF CoreRecord, Saves, SaveThrows
  <2>7. CASE CoreRecordRefused(m)
    BY <2>2, <2>7 DEF CoreRecordRefused
  <2>8. CASE CoreReject(m)
    <3>1. store' \in [Crossings -> Record]
      BY <2>0, <2>8, RejectedType DEF CoreReject, Message
    <3>2. QED BY <3>1, <2>2, <2>8 DEF CoreReject, Saves, SaveThrows
  <2>9. QED BY <2>3, <2>4, <2>5, <2>6, <2>7, <2>8, <1>12 DEF CoreHandles
<1>13. ASSUME NEW lost \in SUBSET Regions, CoreRestart(lost) PROVE TypeOK'
  BY <1>13 DEF CoreRestart
<1>14. ASSUME NEW e \in Entity, NEW g \in Groups, Regroup(e, g) PROVE TypeOK'
  BY <1>14 DEF Regroup, Snapshot
<1>15. ASSUME NEW e \in Entity, Delete(e) PROVE TypeOK'
  BY <1>15, SiteTypes DEF Delete, Snapshot, Entity
<1>16. CASE UNCHANGED vars
  BY <1>16 DEF vars
<1>17. QED
  BY <1>1, <1>2, <1>3, <1>4, <1>5, <1>8, <1>9, <1>10, <1>11, <1>12, <1>13,
     <1>14, <1>15, <1>16 DEF Next, Apply

\* Type correctness of the store, its file, the scenes, the World Node loops
\* and the messages.
THEOREM TypeCorrect == Spec => []TypeOK
<1>1. QED BY InitType, StepType, PTL DEF Spec

HIDE DEF Terminal

----------------------------------------------------------------------------
(***************************************************************************)
(* No crossing loses an object, however many crossings ask for it: for     *)
(* every set of Regions, objects and crossings, a disk that does not fail  *)
(* and any number of broken connections and Core restarts.                 *)
(*                                                                         *)
(* The argument: a crossing only goes onward (Advances), so a command or a *)
(* result in flight finds its crossing at or past the phase it belongs to. *)
(* The source is removed by a command that was due once the import had     *)
(* been recorded, hence the copy had arrived; the copy is only taken away  *)
(* by a cleanup, after which the restore is still to come; and the restore *)
(* cannot be overtaken by the remove, since both are applied by the World  *)
(* Node of the source Region, one at a time.                               *)
(***************************************************************************)

(***************************************************************************)
(* Phases.                                                                 *)
(***************************************************************************)
LEMMA OnwardFacts ==
  /\ \A s \in CrossingState : s \in Onward(s)
  /\ \A s, t, u \in CrossingState :
       t \in Onward(s) /\ u \in Onward(t) => u \in Onward(s)
BY DEF Onward, CrossingState

LEMMA UndoneFields ==
  ASSUME NEW record \in Record
  PROVE  /\ Undone(record).state =
              IF record.state = "prepared" THEN "rolled_back" ELSE "cleanup_pending"
         /\ Undone(record).snapshot = record.snapshot
BY DEF Undone, Record

LEMMA RecordedFields ==
  ASSUME NEW record \in Record, NEW m \in Message
  PROVE  /\ Recorded(record, m).state = After(m.command)
         /\ Recorded(record, m).snapshot =
              IF m.command = "export" THEN m.snapshot ELSE record.snapshot
BY DEF Recorded, Record

LEMMA RejectedFields ==
  ASSUME NEW record \in Record, NEW cmd \in Command
  PROVE  /\ Rejected(record, cmd).snapshot = record.snapshot
         /\ \/ Rejected(record, cmd).state = record.state
            \/ cmd = "remove" /\ Rejected(record, cmd).state = "cleanup_pending"
            \/ /\ cmd \in {"export", "import"}
               /\ Rejected(record, cmd).state = "rolled_back"
BY DEF Rejected, Record, Command

(***************************************************************************)
(* What a step may do to a crossing, and which result makes it do so.      *)
(***************************************************************************)
Ok(c, cmd) == {m \in msgs : m.crossing = c /\ m.command = cmd /\ m.ok}

Advances(c) ==
  \/ /\ State(c) = "prepared" /\ State(c)' = "exported"
     /\ \E m \in Ok(c, "export") : store'[c].snapshot = m.snapshot
  \/ /\ store'[c].snapshot = store[c].snapshot
     /\ \/ State(c)' = State(c)
        \/ State(c) = "none" /\ State(c)' = "prepared"
        \/ State(c) = "prepared" /\ State(c)' = "rolled_back"
        \/ /\ State(c) = "exported" /\ State(c)' = "rolled_back"
           /\ \E m \in msgs : m.crossing = c /\ m.command = "import" /\ ~ m.ok
        \/ State(c) \in {"exported", "imported"} /\ State(c)' = "cleanup_pending"
        \/ State(c) = "exported" /\ State(c)' = "imported" /\ Ok(c, "import") # {}
        \/ State(c) = "imported" /\ State(c)' = "completed" /\ Ok(c, "remove") # {}
        \/ State(c) = "cleanup_pending" /\ State(c)' = "restore_pending" /\ Ok(c, "cleanup") # {}
        \/ State(c) = "restore_pending" /\ State(c)' = "rolled_back" /\ RestoreAcked(c)

LEMMA StepAdvances ==
  ASSUME TypeOK, ~ DiskMayFail, disk = store, [Next]_vars
  PROVE  disk' = store' /\ \A c \in Crossings : Advances(c)
<1> USE DEF Advances
<1>0. \A c \in Crossings : store[c] \in Record
  BY DEF TypeOK
<1>1. ASSUME store' = store, disk' = disk
      PROVE  disk' = store' /\ \A c \in Crossings : Advances(c)
  BY <1>1
<1>2. ASSUME NEW d \in Crossings, Prepare(d)
      PROVE  disk' = store' /\ \A c \in Crossings : Advances(c)
  <2>1. disk' = store'
    BY <1>2 DEF Prepare, Saves
  <2>2. /\ State(d) = "none" /\ State(d)' = "prepared"
        /\ store'[d].snapshot = store[d].snapshot
        /\ \A c \in Crossings \ {d} : store'[c] = store[c]
    BY <1>0, <1>2 DEF Prepare, TypeOK, Record
  <2>3. QED BY <2>1, <2>2
<1>3. ASSUME NEW d \in Crossings, Rollback(d)
      PROVE  disk' = store' /\ \A c \in Crossings : Advances(c)
  <2>1. disk' = store'
    BY <1>3 DEF Rollback, Saves, SaveThrows
  <2>2. /\ State(d) \in {"prepared", "exported", "imported", "cleanup_pending"}
        /\ store'[d] = Undone(store[d])
        /\ \A c \in Crossings \ {d} : store'[c] = store[c]
    BY <1>3 DEF Rollback, TypeOK
  <2>3. QED BY <1>0, <2>1, <2>2, UndoneFields
<1>4. ASSUME NEW late \in SUBSET Crossings, NEW old \in SUBSET Crossings,
             Maintenance(late, old)
      PROVE  disk' = store' /\ \A c \in Crossings : Advances(c)
  <2>1. disk' = store'
    BY <1>4 DEF Maintenance, Saves
  <2>2. \A c \in late : /\ State(c) \in {"prepared", "exported", "imported"}
                        /\ store'[c] = Undone(store[c])
    BY <1>4 DEF Maintenance
  <2>3. \A c \in Crossings \ late : /\ store'[c].state = store[c].state
                                    /\ store'[c].snapshot = store[c].snapshot
    BY <1>0, <1>4 DEF Maintenance, Record
  <2>4. QED BY <1>0, <2>1, <2>2, <2>3, UndoneFields
<1>5. ASSUME NEW m \in msgs, CoreRecord(m)
      PROVE  disk' = store' /\ \A c \in Crossings : Advances(c)
  <2> DEFINE d == m.crossing
  <2>0. m \in Message /\ d \in Crossings /\ m.command \in Command
    BY DEF TypeOK, Message
  <2>1. disk' = store'
    BY <1>5 DEF CoreRecord, Saves, SaveThrows
  <2>2. /\ m.ok
        /\ State(d) = Before(m.command)
        /\ store'[d] = Recorded(store[d], m)
        /\ \A c \in Crossings \ {d} : store'[c] = store[c]
    BY <1>5, <2>0 DEF CoreRecord, Recordable, TypeOK
  <2>3. /\ State(d)' = After(m.command)
        /\ store'[d].snapshot =
             IF m.command = "export" THEN m.snapshot ELSE store[d].snapshot
    BY <1>0, <2>0, <2>2, RecordedFields
  <2>4. m \in Ok(d, m.command)
    BY <2>2 DEF Ok
  <2>5. Advances(d)
    BY <2>0, <2>2, <2>3, <2>4 DEF Command, Before, After, Ok, RestoreAcked
  <2>6. QED BY <2>1, <2>2, <2>5
<1>6. ASSUME NEW m \in msgs, CoreReject(m)
      PROVE  disk' = store' /\ \A c \in Crossings : Advances(c)
  <2> DEFINE d == m.crossing
  <2>0. d \in Crossings /\ m.command \in Command
    BY DEF TypeOK, Message
  <2>1. disk' = store'
    BY <1>6 DEF CoreReject, Saves, SaveThrows
  <2>2. /\ State(d) = Before(m.command) /\ ~ m.ok
        /\ store'[d] = Rejected(store[d], m.command)
        /\ \A c \in Crossings \ {d} : store'[c] = store[c]
    BY <1>6, <2>0 DEF CoreReject, TypeOK
  <2>3. Advances(d)
    BY <1>0, <2>0, <2>2, RejectedFields DEF Command, Before
  <2>4. QED BY <2>1, <2>2, <2>3
<1>7. ASSUME NEW m \in msgs, CoreHandles(m)
      PROVE  disk' = store' /\ \A c \in Crossings : Advances(c)
  BY <1>1, <1>5, <1>6, <1>7
     DEF CoreHandles, CoreAccept, CoreMissingOrStale, CoreRebind, CoreRecordRefused
<1>8. ASSUME NEW r \in Regions, Connect(r) \/ Poll(r) \/ Apply(r)
      PROVE  store' = store /\ disk' = disk
  BY <1>8 DEF Connect, Poll, Apply, ApplyExport, ApplyImport, ApplyRemove, Reply
<1>9. ASSUME \/ \E r \in Regions, lost \in BOOLEAN : Disconnect(r, lost)
             \/ \E lost \in SUBSET Regions : CoreRestart(lost)
             \/ \E e \in Entity : Delete(e) \/ \E g \in Groups : Regroup(e, g)
             \/ UNCHANGED vars
      PROVE  store' = store /\ disk' = disk
  BY <1>9 DEF Disconnect, CoreRestart, Delete, Regroup, vars
<1>10. QED BY <1>1, <1>2, <1>3, <1>4, <1>7, <1>8, <1>9 DEF Next

LEMMA AdvancesOnward ==
  ASSUME TypeOK, TypeOK', NEW c \in Crossings, Advances(c)
  PROVE  State(c)' \in Onward(State(c))
<1>1. State(c) \in CrossingState /\ State(c)' \in CrossingState
  BY DEF TypeOK, Record
<1>2. QED BY <1>1 DEF Advances, Onward, CrossingState

(***************************************************************************)
(* The parts of LossInv are kept by every step that brings no new result   *)
(* and takes nothing from a scene.                                         *)
(***************************************************************************)
SameResult(m, n) == /\ m.crossing = n.crossing /\ m.command = n.command
                    /\ m.ok = n.ok /\ m.snapshot = n.snapshot

ArrivedKept(c) ==
  Arrived(c) /\ State(c)' \in {"exported", "imported", "completed"} => Arrived(c)'

LEMMA CoversKept ==
  ASSUME TypeOK, LossInv, NEW c \in Crossings, Advances(c),
         RestoreAcked(c)' => RestoreAcked(c), Covers(c)
  PROVE  Covers(c)'
<1>1. \A m \in msgs : m.command = "restore" => State(m.crossing) # "cleanup_pending"
  BY DEF LossInv, MessageInv, Onward, Before
<1>2. RestoreAcked(c) => State(c) # "cleanup_pending"
  BY <1>1 DEF RestoreAcked
<1>3. QED BY <1>2 DEF Covers, Advances

LEMMA CrossingKept ==
  ASSUME TypeOK, LossInv, NEW c \in Crossings, Advances(c), ArrivedKept(c)
  PROVE  CrossingInv(c)'
<1>1. CrossingInv(c)
  BY DEF LossInv
<1>2. \A m \in Ok(c, "export") : m.snapshot # Gone
  BY DEF LossInv, MessageInv, Ok
<1>3. State(c) = "exported" /\ Ok(c, "import") # {} => Arrived(c)
  BY DEF LossInv, MessageInv, Ok
<1>4. QED BY <1>1, <1>2, <1>3 DEF CrossingInv, Advances, ArrivedKept

LEMMA HeldKept ==
  ASSUME TypeOK, TypeOK', LossInv, NEW r \in Regions, held'[r] = held[r],
         \A c \in Crossings : Advances(c),
         \A c \in Crossings : Covers(c) => Covers(c)'
  PROVE  HeldInv(r)'
<1> SUFFICES ASSUME held[r] # None PROVE HeldInv(r)'
  BY DEF HeldInv
<1> DEFINE c == held[r].crossing
           cmd == held[r].command
<1>1. c \in Crossings /\ cmd \in Command
  BY DEF TypeOK, Held
<1>2. HeldInv(r)
  BY DEF LossInv
<1>3. State(c)' \in Onward(State(c))
  BY <1>1, AdvancesOnward
<1>4. /\ State(c) \in CrossingState /\ State(c)' \in CrossingState
      /\ Before(cmd) \in CrossingState
  BY <1>1, StateTypes DEF TypeOK, Record
<1>5. State(c)' \in Onward(Before(cmd))
  BY <1>2, <1>3, <1>4, OnwardFacts DEF HeldInv
<1>6. Covers(c) => Covers(c)'
  BY <1>1
<1>7. QED BY <1>2, <1>5, <1>6 DEF HeldInv

LEMMA MessageKept ==
  ASSUME TypeOK, TypeOK', LossInv, NEW m \in msgs, NEW n, SameResult(n, m),
         \A c \in Crossings : Advances(c),
         \A c \in Crossings : ArrivedKept(c)
  PROVE  /\ State(n.crossing)' \in Onward(Before(n.command))
         /\ n.ok /\ n.command = "export" => n.snapshot # Gone
         /\ n.ok /\ n.command = "import" /\ State(n.crossing)' = "exported"
              => Arrived(n.crossing)'
<1> DEFINE c == m.crossing
           cmd == m.command
<1>1. c \in Crossings /\ cmd \in Command
  BY DEF TypeOK, Message
<1>2. MessageInv(m)
  BY DEF LossInv
<1>3. State(c)' \in Onward(State(c))
  BY <1>1, AdvancesOnward
<1>4. /\ State(c) \in CrossingState /\ State(c)' \in CrossingState
      /\ Before(cmd) \in CrossingState
  BY <1>1, StateTypes DEF TypeOK, Record
<1>5. State(c)' \in Onward(Before(cmd))
  BY <1>2, <1>3, <1>4, OnwardFacts DEF MessageInv
<1>6. cmd = "import" /\ State(c)' = "exported" => State(c) = "exported"
  BY <1>2, <1>3, <1>4 DEF MessageInv, Onward, Before, CrossingState
<1>7. Arrived(c) /\ State(c)' = "exported" => Arrived(c)'
  BY <1>1 DEF ArrivedKept
<1>8. QED BY <1>2, <1>5, <1>6, <1>7 DEF MessageInv, SameResult

LEMMA QuietStep ==
  ASSUME TypeOK, TypeOK', LossInv, disk' = store',
         \A c \in Crossings : Advances(c),
         \A c \in Crossings : ArrivedKept(c),
         \A r \in Regions : held'[r] = held[r] \/ held'[r] = None,
         \A n \in msgs' : \E m \in msgs : SameResult(n, m),
         \A o \in Objects \ deleted' : o \notin deleted /\ (scene'[o] = Gone => scene[o] = Gone)
  PROVE  LossInv'
<1>1. \A c \in Crossings : RestoreAcked(c)' => RestoreAcked(c)
  BY DEF RestoreAcked, SameResult
<1>2. \A c \in Crossings : Covers(c) => Covers(c)'
  BY <1>1, CoversKept
<1>3. \A c \in Crossings : CrossingInv(c)'
  BY CrossingKept
<1>4. \A r \in Regions : HeldInv(r)'
  <2> SUFFICES ASSUME NEW r \in Regions PROVE HeldInv(r)'
    OBVIOUS
  <2>1. CASE held'[r] = held[r]
    BY <1>2, <2>1, HeldKept
  <2>2. CASE held'[r] = None
    BY <2>2 DEF HeldInv
  <2>3. QED BY <2>1, <2>2
<1>5. \A n \in msgs' : MessageInv(n)'
  BY MessageKept DEF MessageInv
<1>6. \A o \in Objects \ deleted' :
        scene'[o] = Gone => \E c \in CrossingsOf(o) : Covers(c)'
  BY <1>2 DEF LossInv, CrossingsOf
<1>7. QED BY <1>3, <1>4, <1>5, <1>6 DEF LossInv, CrossingsOf

(***************************************************************************)
(* The steps of a World Node that receives or has applied a command.       *)
(***************************************************************************)
LEMMA PollStep ==
  ASSUME TypeOK, TypeOK', LossInv, NEW r \in Regions, Poll(r),
         \A c \in Crossings : Advances(c)
  PROVE  LossInv'
<1>1. /\ store' = store /\ disk' = disk /\ scene' = scene
      /\ deleted' = deleted /\ msgs' = msgs
  BY DEF Poll
<1>2. PICK c \in Crossings, cmd \in Command :
        /\ DueFirst(r, c, cmd)
        /\ held' = [held EXCEPT ![r] = [crossing |-> c, command |-> cmd,
                                       snapshot |-> store[c].snapshot]]
  BY DEF Poll
<1>3. State(c) = Before(cmd) /\ r = Site(c, cmd)
  BY <1>2 DEF DueFirst, Due
<1>4. \A d \in Crossings : (Covers(d) <=> Covers(d)')
  BY <1>1 DEF Covers, RestoreAcked
<1>5. held'[r] = [crossing |-> c, command |-> cmd, snapshot |-> store[c].snapshot]
  BY <1>2 DEF TypeOK
<1>6. HeldInv(r)'
  <2>1. State(c) \in Onward(Before(cmd))
    BY <1>2, <1>3, StateTypes, OnwardFacts
  <2>2. cmd \in {"import", "restore"} => store[c].snapshot # Gone
    BY <1>3 DEF LossInv, CrossingInv, Before
  <2>3. cmd = "remove" => Covers(c)'
    BY <1>3, <1>4 DEF Covers, Before
  <2>4. QED BY <1>1, <1>3, <1>5, <2>1, <2>2, <2>3 DEF HeldInv
<1>7. \A s \in Regions \ {r} : HeldInv(s)'
  <2> SUFFICES ASSUME NEW s \in Regions \ {r} PROVE HeldInv(s)'
    OBVIOUS
  <2>1. held'[s] = held[s]
    BY <1>2 DEF TypeOK
  <2>2. QED BY <2>1, <1>4, HeldKept
<1>8. \A m \in msgs' : MessageInv(m)'
  BY <1>1 DEF LossInv, MessageInv, Arrived
<1>9. \A d \in Crossings : CrossingInv(d)'
  BY <1>1 DEF LossInv, CrossingInv, Arrived
<1>10. QED BY <1>1, <1>4, <1>6, <1>7, <1>8, <1>9 DEF LossInv, CrossingsOf

LEMMA AppliedStep ==
  ASSUME TypeOK, TypeOK', LossInv, NEW r \in Regions, held[r] \in Held,
         NEW c, c = held[r].crossing,
         NEW ok \in BOOLEAN, NEW snapshot, Reply(r, ok, snapshot), store' = store,
         \A d \in Crossings : ArrivedKept(d),
         ok /\ held[r].command = "export" => snapshot # Gone,
         ok /\ held[r].command = "import" => Arrived(c)',
         ok /\ held[r].command = "restore" => scene'[Obj[c]] # Gone,
         \A o \in Objects :
           scene'[o] = Gone =>
             \/ scene[o] = Gone
             \/ held[r].command = "remove" /\ o = Obj[c]
  PROVE  LossInv'
<1> DEFINE cmd == held[r].command
<1>1. disk' = store' /\ deleted' = deleted
  BY DEF Reply, LossInv
<1>2. PICK new : /\ msgs' \subseteq msgs \cup {new}
                 /\ new.crossing = c /\ new.command = cmd
                 /\ new.ok = ok /\ new.snapshot = snapshot
  <2> DEFINE new == [region |-> r, crossing |-> c, command |-> cmd, ok |-> ok,
                     snapshot |-> snapshot, live |-> TRUE, stage |-> "sent"]
  <2>1. msgs' \subseteq msgs \cup {new}
    BY DEF Reply
  <2>2. /\ new.crossing = c /\ new.command = cmd
        /\ new.ok = ok /\ new.snapshot = snapshot
    OBVIOUS
  <2> HIDE DEF new
  <2>3. QED BY <2>1, <2>2
<1>3. /\ held'[r] = None
      /\ \A s \in Regions \ {r} : held'[s] = held[s]
  BY DEF Reply, TypeOK
<1>4. c \in Crossings /\ cmd \in Command
  BY DEF Held
<1>5. held[r] # None
  BY <1>4 DEF None, Command
<1>6. HeldInv(r)
  BY DEF LossInv
<1>7. \A d \in Crossings : Advances(d)
  BY DEF Advances
<1>8. \A d \in Crossings : Covers(d) /\ ~ (d = c /\ cmd = "restore" /\ ok) => Covers(d)'
  <2> SUFFICES ASSUME NEW d \in Crossings, Covers(d), ~ (d = c /\ cmd = "restore" /\ ok)
               PROVE  Covers(d)'
    OBVIOUS
  <2>1. RestoreAcked(d)' => RestoreAcked(d)
    BY <1>2 DEF RestoreAcked
  <2>2. QED BY <2>1, <1>7, CoversKept
<1>9. \A s \in Regions : HeldInv(s)'
  <2> SUFFICES ASSUME NEW s \in Regions PROVE HeldInv(s)'
    OBVIOUS
  <2>1. CASE s = r
    BY <1>3, <2>1 DEF HeldInv
  <2>2. CASE s # r /\ held[s] = None
    BY <1>3, <2>2 DEF HeldInv
  <2>3. CASE s # r /\ held[s] # None
    <3> DEFINE d == held[s].crossing
    <3>1. HeldInv(s) /\ held'[s] = held[s] /\ d \in Crossings
      BY <1>3, <2>3 DEF LossInv, TypeOK, Held
    <3>2. held[s].command = "remove" /\ cmd = "restore" => d # c
      BY <1>5, <1>6, <2>3, <3>1 DEF HeldInv, Site
    <3>3. held[s].command = "remove" => Covers(d)'
      BY <1>8, <2>3, <3>1, <3>2 DEF HeldInv
    <3>4. QED BY <2>3, <3>1, <3>3 DEF HeldInv
  <2>4. QED BY <2>1, <2>2, <2>3
<1>10. \A m \in msgs' : MessageInv(m)'
  <2>1. \A m \in msgs : MessageInv(m)'
    BY <1>7, MessageKept DEF MessageInv, SameResult
  <2>2. MessageInv(new)'
    BY <1>2, <1>5, <1>6 DEF HeldInv, MessageInv
  <2>3. QED BY <1>2, <2>1, <2>2
<1>11. \A d \in Crossings : CrossingInv(d)'
  BY <1>7, CrossingKept
<1>12. \A o \in Objects \ deleted' :
         scene'[o] = Gone => \E d \in CrossingsOf(o) : Covers(d)'
  <2> SUFFICES ASSUME NEW o \in Objects \ deleted', scene'[o] = Gone
               PROVE  \E d \in CrossingsOf(o) : Covers(d)'
    OBVIOUS
  <2>1. \A d \in CrossingsOf(o) : Covers(d) => Covers(d)'
    BY <1>8 DEF CrossingsOf
  <2>2. CASE scene[o] = Gone
    BY <1>1, <2>1, <2>2 DEF LossInv
  <2>3. CASE cmd = "remove" /\ o = Obj[c]
    BY <1>4, <1>5, <1>6, <2>1, <2>3 DEF HeldInv, CrossingsOf
  <2>4. QED BY <2>2, <2>3
<1>13. QED BY <1>1, <1>9, <1>10, <1>11, <1>12 DEF LossInv, CrossingsOf

LEMMA ApplyStep ==
  ASSUME TypeOK, TypeOK', LossInv, NEW r \in Regions, Apply(r)
  PROVE  LossInv'
<1> PICK c : c = held[r].crossing
  OBVIOUS
<1> DEFINE cmd == held[r].command
<1>0. ASSUME cmd \in Command
      PROVE  held[r] \in Held /\ c \in Crossings /\ held[r] # None
  BY <1>0 DEF TypeOK, None, Command, Held
<1>1. \A d \in Crossings : d \in Entity /\ d \notin Objects
  BY CrossingAssumption DEF Entity
<1>2. HeldInv(r)
  BY DEF LossInv
<1>3. CASE ApplyExport(r)
  <2>1. store' = store /\ scene' = scene /\ deleted' = deleted
    BY <1>3 DEF ApplyExport, Reply
  <2>2. cmd = "export"
    BY <1>3 DEF ApplyExport
  <2> DEFINE ok == scene[Obj[c]] # Gone
  <2>3. Reply(r, ok, scene[Obj[c]]) /\ ok \in BOOLEAN
    BY <1>3 DEF ApplyExport
  <2>4. ok => scene[Obj[c]] # Gone
    OBVIOUS
  <2>5. \A d \in Crossings : ArrivedKept(d)
    BY <2>1 DEF ArrivedKept, Arrived
  <2>6. held[r] \in Held
    BY <1>0, <2>2 DEF Command
  <2> HIDE DEF ok
  <2>7. QED BY <2>1, <2>2, <2>3, <2>4, <2>5, <2>6, AppliedStep
<1>4. CASE ApplyImport(r)
  <2>1. cmd \in {"import", "restore"} /\ cmd \in Command
    BY <1>4 DEF ApplyImport, Command
  <2>2. held[r] \in Held /\ c \in Crossings /\ held[r] # None
    BY <1>0, <2>1
  <2>3. store' = store /\ deleted' = deleted
    BY <1>4 DEF ApplyImport, Reply
  <2> DEFINE e  == Target(c, cmd)
             ok == scene[e] \in {Gone, held[r].snapshot}
  <2>4. /\ Reply(r, ok, Gone) /\ ok \in BOOLEAN
        /\ scene' = IF ok THEN [scene EXCEPT ![e] = held[r].snapshot] ELSE scene
    BY <1>4 DEF ApplyImport
  <2>5. held[r].snapshot # Gone /\ e \in Entity
    BY <1>2, <2>1, <2>2, SiteTypes DEF HeldInv
  <2> HIDE DEF ok
  <2>6. \A f \in Entity : scene'[f] = Gone => scene[f] = Gone
    BY <2>4, <2>5 DEF TypeOK
  <2>7. ok => scene'[e] # Gone
    BY <2>4, <2>5 DEF TypeOK
  <2>8. \A d \in Crossings : ArrivedKept(d)
    BY <1>1, <2>3, <2>6 DEF ArrivedKept, Arrived
  <2>9. ok /\ cmd = "import" => Arrived(c)'
    BY <2>7 DEF Arrived, Target
  <2>10. ok /\ cmd = "restore" => scene'[Obj[c]] # Gone
    BY <2>7 DEF Target
  <2>11. \A o \in Objects : scene'[o] = Gone => scene[o] = Gone
    BY <2>6 DEF Entity
  <2>12. cmd # "export"
    BY <2>1
  <2>13. QED BY <2>2, <2>3, <2>4, <2>8, <2>9, <2>10, <2>11, <2>12, AppliedStep
<1>5. CASE ApplyRemove(r)
  <2>1. cmd \in {"remove", "cleanup"} /\ cmd \in Command
    BY <1>5 DEF ApplyRemove, Command
  <2>2. held[r] \in Held /\ c \in Crossings /\ held[r] # None
    BY <1>0, <2>1
  <2>3. store' = store /\ deleted' = deleted /\ Reply(r, TRUE, Gone)
    BY <1>5 DEF ApplyRemove, Reply
  <2> DEFINE e == Target(c, cmd)
  <2>4. scene' = [scene EXCEPT ![e] = Gone]
    BY <1>5 DEF ApplyRemove
  <2>5. cmd = "cleanup" => State(c) \notin {"exported", "imported", "completed"}
    BY <1>2, <2>2 DEF HeldInv, Onward, Before
  <2>6. \A d \in Crossings : ArrivedKept(d)
    <3> SUFFICES ASSUME NEW d \in Crossings PROVE ArrivedKept(d)
      OBVIOUS
    <3>1. CASE cmd = "cleanup" /\ d = c
      BY <2>3, <2>5, <3>1 DEF ArrivedKept
    <3>2. CASE ~ (cmd = "cleanup" /\ d = c)
      <4>1. d # e
        BY <1>1, <2>1, <2>2, <3>2, SiteTypes DEF Target
      <4>2. scene'[d] = scene[d]
        BY <1>1, <2>4, <4>1 DEF TypeOK
      <4>3. QED BY <2>3, <4>2 DEF ArrivedKept, Arrived
    <3>3. QED BY <3>1, <3>2
  <2>7. \A o \in Objects :
          scene'[o] = Gone => scene[o] = Gone \/ (cmd = "remove" /\ o = Obj[c])
    <3> SUFFICES ASSUME NEW o \in Objects, scene'[o] = Gone, scene[o] # Gone
                 PROVE  cmd = "remove" /\ o = Obj[c]
      OBVIOUS
    <3>1. o = e
      BY <2>4 DEF TypeOK, Entity
    <3>2. QED BY <1>1, <2>1, <2>2, <3>1 DEF Target
  <2>8. cmd \notin {"export", "import", "restore"}
    BY <2>1
  <2>9. QED BY <2>2, <2>3, <2>6, <2>7, <2>8, AppliedStep
<1>6. QED BY <1>3, <1>4, <1>5 DEF Apply

(***************************************************************************)
(* LossInv is inductive, and implies NoLoss.                               *)
(***************************************************************************)
LEMMA InitLoss == Init => LossInv
<1> SUFFICES ASSUME Init PROVE LossInv
  OBVIOUS
<1>1. \A c \in Crossings : State(c) = "none"
  BY DEF Init, NoRecord
<1>2. \A o \in Objects : scene[o] # Gone
  BY DEF Init
<1>3. QED BY <1>1, <1>2 DEF Init, LossInv, HeldInv, MessageInv, CrossingInv

LEMMA StepLoss ==
  ASSUME ~ DiskMayFail, TypeOK, LossInv, [Next]_vars
  PROVE  LossInv'
<1>1. TypeOK'
  BY StepType
<1>2. disk = store
  BY DEF LossInv
<1>3. disk' = store' /\ \A c \in Crossings : Advances(c)
  BY <1>2, StepAdvances
<1>4. ASSUME scene' = scene, deleted' = deleted,
             \A r \in Regions : held'[r] = held[r] \/ held'[r] = None,
             \A n \in msgs' : \E m \in msgs : SameResult(n, m)
      PROVE  LossInv'
  <2>1. \A c \in Crossings : ArrivedKept(c)
    BY <1>4 DEF ArrivedKept, Arrived
  <2>2. QED BY <1>1, <1>3, <1>4, <2>1, QuietStep
<1>5. \A m \in msgs : SameResult(m, m)
  BY DEF SameResult
<1>6. ASSUME NEW c \in Crossings, Prepare(c) \/ Rollback(c) PROVE LossInv'
  BY <1>4, <1>5, <1>6 DEF Prepare, Rollback
<1>7. ASSUME NEW late \in SUBSET Crossings, NEW old \in SUBSET Crossings,
             Maintenance(late, old) PROVE LossInv'
  BY <1>4, <1>5, <1>7 DEF Maintenance
<1>8. ASSUME NEW r \in Regions, Connect(r) PROVE LossInv'
  BY <1>4, <1>5, <1>8 DEF Connect
<1>9. ASSUME NEW r \in Regions, NEW lost \in BOOLEAN, Disconnect(r, lost) PROVE LossInv'
  <2>1. \A m \in msgs : SameResult([m EXCEPT !.live = FALSE], m)
    BY DEF SameResult, TypeOK, Message
  <2>2. \A n \in msgs' : \E m \in msgs : SameResult(n, m)
    BY <1>5, <1>9, <2>1 DEF Disconnect
  <2>3. \A s \in Regions : held'[s] = held[s] \/ held'[s] = None
    BY <1>9 DEF Disconnect, TypeOK
  <2>4. QED BY <1>4, <1>9, <2>2, <2>3 DEF Disconnect
<1>10. ASSUME NEW m \in msgs, CoreHandles(m) PROVE LossInv'
  <2>1. scene' = scene /\ deleted' = deleted /\ held' = held
    BY <1>10 DEF CoreHandles, CoreAccept, CoreMissingOrStale, CoreRebind, CoreRecord,
                 CoreRecordRefused, CoreReject
  <2>2. msgs' \subseteq msgs \cup {[m EXCEPT !.stage = "checked"], [m EXCEPT !.stage = "rebound"]}
    BY <1>10 DEF CoreHandles, CoreAccept, CoreMissingOrStale, CoreRebind, CoreRecord,
                 CoreRecordRefused, CoreReject, Acked, Thrown
  <2>3. \A s : SameResult([m EXCEPT !.stage = s], m)
    BY DEF SameResult, TypeOK, Message
  <2>4. \A n \in msgs' : \E k \in msgs : SameResult(n, k)
    BY <1>5, <2>2, <2>3
  <2>5. QED BY <1>4, <2>1, <2>4
<1>11. ASSUME NEW lost \in SUBSET Regions, CoreRestart(lost) PROVE LossInv'
  BY <1>4, <1>11 DEF CoreRestart
<1>12. ASSUME NEW e \in Entity, NEW g \in Groups, Regroup(e, g) PROVE LossInv'
  <2>1. \A f \in Entity : scene'[f] = Gone <=> scene[f] = Gone
    BY <1>12, CrossingAssumption DEF Regroup, TypeOK
  <2>2. \A c \in Crossings : ArrivedKept(c)
    BY <1>12, <2>1 DEF ArrivedKept, Arrived, Regroup, Entity
  <2>3. QED BY <1>1, <1>3, <1>5, <1>12, <2>1, <2>2, QuietStep DEF Regroup, Entity
<1>13. ASSUME NEW e \in Entity, Delete(e) PROVE LossInv'
  <2>1. \A f \in Entity \ {e} : scene'[f] = scene[f]
    BY <1>13 DEF Delete, TypeOK
  <2>2. deleted' = deleted \cup {IF e \in Objects THEN e ELSE Obj[e]}
    BY <1>13 DEF Delete
  <2>3. \A c \in Crossings : ArrivedKept(c)
    BY <2>1, <2>2, CrossingAssumption DEF ArrivedKept, Arrived, Entity
  <2>4. \A o \in Objects \ deleted' : o \notin deleted /\ scene'[o] = scene[o]
    BY <2>1, <2>2 DEF Entity
  <2>5. QED BY <1>1, <1>3, <1>5, <1>13, <2>3, <2>4, QuietStep DEF Delete
<1>14. CASE UNCHANGED vars
  BY <1>4, <1>5, <1>14 DEF vars
<1>15. QED
  BY <1>1, <1>3, <1>6, <1>7, <1>8, <1>9, <1>10, <1>11, <1>12, <1>13, <1>14,
     PollStep, ApplyStep DEF Next

LEMMA LossInvImpliesNoLoss == LossInv => NoLoss
BY DEF LossInv, NoLoss, CrossingInv, Covers, Arrived, CrossingsOf

\* The inductive invariant holds in every reachable state.
THEOREM LossInvariant ==
  ASSUME ~ DiskMayFail
  PROVE  Spec => [](TypeOK /\ LossInv)
<1>1. Init => TypeOK /\ LossInv
  BY InitType, InitLoss
<1>2. TypeOK /\ LossInv /\ [Next]_vars => (TypeOK /\ LossInv)'
  BY StepType, StepLoss
<1>3. QED BY <1>1, <1>2, PTL DEF Spec

\* No step of the protocol loses an object: record_*, reject_command,
\* rollback, maintenance and apply_object_crossing_command in any order.
THEOREM ObjectsNotLost ==
  ASSUME ~ DiskMayFail
  PROVE  Spec => []NoLoss
<1>1. QED BY LossInvariant, LossInvImpliesNoLoss, PTL

\* No duplicate, late or stale result, rollback, expiry or restart takes a
\* crossing back to an earlier phase or out of a terminal one.
THEOREM PhasesNeverBackwards ==
  ASSUME ~ DiskMayFail
  PROVE  Spec => NeverBackwards
<1>1. TypeOK /\ LossInv /\ [Next]_vars =>
        [\A c \in Crossings : store'[c].state \in Onward(State(c))]_vars
  <2> SUFFICES ASSUME TypeOK, LossInv, [Next]_vars
               PROVE  \A c \in Crossings : store'[c].state \in Onward(State(c))
    OBVIOUS
  <2>1. \A c \in Crossings : Advances(c)
    BY StepAdvances DEF LossInv
  <2>2. TypeOK'
    BY StepType
  <2>3. QED BY <2>1, <2>2, AdvancesOnward
<1>2. QED BY <1>1, LossInvariant, PTL DEF Spec, NeverBackwards

\* remove_linkset runs at the source only after the Core recorded the import
\* of a crossing of that object.
THEOREM RemovedOnlyAfterImport ==
  ASSUME ~ DiskMayFail
  PROVE  Spec => SourceRemovedAfterImport
<1> DEFINE Removal == \A o \in Objects \ deleted' :
       scene[o] # Gone /\ scene'[o] = Gone =>
         \E c \in CrossingsOf(o) :
           State(c) \in {"imported", "completed", "cleanup_pending", "restore_pending"}
<1>1. TypeOK /\ LossInv /\ [Next]_vars => [Removal]_vars
  <2> SUFFICES ASSUME TypeOK, LossInv, [Next]_vars,
                      NEW o \in Objects \ deleted', scene[o] # Gone, scene'[o] = Gone
               PROVE  \E c \in CrossingsOf(o) :
                        State(c) \in {"imported", "completed", "cleanup_pending",
                                      "restore_pending"}
    OBVIOUS
  <2>1. o \in Entity
    BY DEF Entity
  <2>2. ASSUME NEW r \in Regions, ApplyImport(r) PROVE FALSE
    <3>1. held[r].command \in {"import", "restore"} /\ held[r] # None
      BY <2>2 DEF ApplyImport, None
    <3>2. held[r].snapshot # Gone
      BY <3>1 DEF LossInv, HeldInv
    <3>3. QED BY <2>1, <2>2, <3>2 DEF ApplyImport, TypeOK
  <2>3. ASSUME NEW r \in Regions, ApplyRemove(r)
        PROVE  \E c \in CrossingsOf(o) : Covers(c)
    <3> DEFINE c == held[r].crossing
    <3>1. held[r].command \in {"remove", "cleanup"} /\ held[r] # None
      BY <2>3 DEF ApplyRemove, None
    <3>2. c \in Crossings /\ HeldInv(r)
      BY <3>1 DEF TypeOK, LossInv, Held
    <3>3. o = Target(c, held[r].command)
      BY <2>1, <2>3 DEF ApplyRemove, TypeOK
    <3>4. held[r].command = "remove" /\ o = Obj[c]
      BY <3>1, <3>2, <3>3, CrossingAssumption DEF Target
    <3>5. QED BY <3>1, <3>2, <3>4 DEF HeldInv, CrossingsOf
  <2>4. ASSUME NEW e \in Entity, Delete(e) PROVE FALSE
    BY <2>1, <2>4 DEF Delete, TypeOK
  <2>5. ASSUME NEW e \in Entity, NEW g \in Groups, Regroup(e, g) PROVE FALSE
    BY <2>1, <2>5, CrossingAssumption DEF Regroup, TypeOK
  <2>6. \E r \in Regions : ApplyRemove(r)
    BY <2>2, <2>4, <2>5
       DEF Next, vars, Prepare, Rollback, Maintenance, Connect, Poll, Apply, ApplyExport,
           Disconnect, CoreHandles, CoreAccept, CoreMissingOrStale, CoreRebind, CoreRecord,
           CoreRecordRefused, CoreReject, CoreRestart
  <2>7. QED BY <2>3, <2>6 DEF Covers
<1>2. QED BY <1>1, LossInvariant, PTL DEF Spec, SourceRemovedAfterImport

----------------------------------------------------------------------------
(***************************************************************************)
(* Scripts follow their object, also when writes fail.  Of a message that  *)
(* waits to be recorded after rebind_objects the script file already has   *)
(* the script elsewhere, and neither memory nor the file ever binds it to  *)
(* the source entity again.                                                *)
(***************************************************************************)
CarriedInv ==
  /\ \A o \in Objects : script[o] = o => scriptDisk[o] = o
  /\ \A m \in msgs : m.stage = "rebound" => scriptDisk[Obj[m.crossing]] # Obj[m.crossing]
  /\ \A c \in Crossings : "completed" \in {store[c].state, disk[c].state} => scriptDisk[Obj[c]] # Obj[c]

\* What the Core's handler leaves of the scripts, and a restart.
LEMMA ScriptsStep ==
  ASSUME TypeOK, [Next]_vars
  PROVE  \/ UNCHANGED <<script, scriptDisk>> /\ \A m \in msgs : ~ CoreRebind(m)
         \/ \E m \in msgs : CoreRebind(m)
         \/ script' = scriptDisk /\ scriptDisk' = scriptDisk /\ msgs' = {}
BY DEF Next, vars, Prepare, Rollback, Maintenance, Connect, Poll, Apply, ApplyExport, ApplyImport, ApplyRemove,
       Reply, Disconnect, CoreHandles, CoreAccept, CoreMissingOrStale, CoreRebind, CoreRecord, CoreRecordRefused,
       CoreReject, CoreRestart, Delete, Regroup

LEMMA RebindMoves ==
  ASSUME TypeOK, NEW m \in msgs, CoreRebind(m)
  PROVE  /\ m.crossing \in Crossings /\ Obj[m.crossing] \in Objects
         /\ \A o \in Objects : script'[o] = IF o = Obj[m.crossing] /\ script[o] = o THEN m.crossing ELSE script[o]
         /\ script'[Obj[m.crossing]] # Obj[m.crossing]
         /\ \/ scriptDisk' = script'
            \/ DiskMayFail /\ scriptDisk' = scriptDisk /\ msgs' = msgs \ {m}
         /\ \A n \in msgs' : n \in msgs \/ (scriptDisk' = script' /\ n.crossing = m.crossing)
<1>1. m \in Message
  BY DEF TypeOK
<1>2. m.crossing \in Crossings /\ Obj[m.crossing] \in Objects /\ m.crossing \notin Objects
  BY <1>1, CrossingAssumption DEF Message
<1>3. [m EXCEPT !.stage = "rebound"].crossing = m.crossing
  BY <1>1 DEF Message
<1>4. QED BY <1>2, <1>3 DEF CoreRebind, Thrown

\* A crossing is recorded as completed with a result whose scripts are rebound.
LEMMA CompletedStep ==
  ASSUME TypeOK, [Next]_vars, NEW c \in Crossings, "completed" \in {store'[c].state, disk'[c].state}
  PROVE  \/ "completed" \in {store[c].state, disk[c].state}
         \/ \E m \in msgs : m.stage = "rebound" /\ m.crossing = c
<1>0. store[c] \in Record
  BY DEF TypeOK
<1>1. disk' \in {store', disk}
  BY DEF Next, vars, Prepare, Rollback, Maintenance, Connect, Poll, Apply, ApplyExport, ApplyImport, ApplyRemove,
     Reply, Disconnect, CoreHandles, CoreAccept, CoreMissingOrStale, CoreRebind, CoreRecord,
     CoreRecordRefused, CoreReject, CoreRestart, Delete, Regroup, Saves, SaveThrows
<1>2. CASE store' = disk \/ store'[c].state = store[c].state \/ store'[c].state # "completed"
  BY <1>1, <1>2
<1>3. CASE store' # disk /\ store'[c].state # store[c].state /\ store'[c].state = "completed"
  <2>1. \A d \in Crossings : ~ Prepare(d) /\ ~ Rollback(d)
    <3> SUFFICES ASSUME NEW d \in Crossings, Prepare(d) \/ Rollback(d) PROVE FALSE
      OBVIOUS
    <3>1. CASE Prepare(d)
      <4>1. State(d)' = "prepared" /\ \A e \in Crossings \ {d} : store'[e] = store[e]
        BY <3>1, ZenonT(60) DEF Prepare, TypeOK, Record
      <4>2. QED BY <1>3, <4>1
    <3>2. CASE Rollback(d)
      <4>1. store'[d] = Undone(store[d]) /\ \A e \in Crossings \ {d} : store'[e] = store[e]
        BY <3>2 DEF Rollback, TypeOK
      <4>2. QED BY <1>0, <1>3, <4>1, UndoneFields
    <3>3. QED BY <3>1, <3>2
  <2>2. \A late, old \in SUBSET Crossings : ~ Maintenance(late, old)
    <3> SUFFICES ASSUME NEW late \in SUBSET Crossings, NEW old \in SUBSET Crossings, Maintenance(late, old)
                 PROVE FALSE
      OBVIOUS
    <3>1. store'[c].state \in {store[c].state, "rolled_back", "cleanup_pending"}
      BY <1>0 DEF Maintenance, Undone, TypeOK, Record
    <3>2. QED BY <1>3, <3>1
  <2>3. \E m \in msgs : CoreRecord(m) \/ CoreReject(m)
    BY <1>3, <2>1, <2>2 DEF Next, vars, Connect, Poll, Apply, ApplyExport, ApplyImport,
       ApplyRemove, Reply, Disconnect, CoreHandles, CoreAccept, CoreMissingOrStale, CoreRebind,
       CoreRecordRefused, CoreRestart, Delete, Regroup
  <2>4. PICK m \in msgs : CoreRecord(m) \/ CoreReject(m)
    BY <2>3
  <2>5. m \in Message /\ m.crossing \in Crossings /\ m.command \in Command /\ store[m.crossing] \in Record
    BY DEF TypeOK, Message
  <2>6. m.crossing = c
    BY <1>3, <2>4, <2>5 DEF CoreRecord, CoreReject, TypeOK
  <2>7. CASE CoreReject(m)
    <3>1. store'[c] = Rejected(store[c], m.command)
      BY <2>5, <2>6, <2>7 DEF CoreReject, TypeOK
    <3>2. QED BY <1>3, <2>5, <2>6, <3>1, RejectedFields
  <2>8. CASE CoreRecord(m)
    <3>1. store'[c] = Recorded(store[c], m)
      BY <2>5, <2>6, <2>8 DEF CoreRecord, TypeOK
    <3>2. After(m.command) = "completed"
      BY <1>3, <2>5, <2>6, <3>1, RecordedFields
    <3>3. m.command = "remove"
      BY <2>5, <3>2 DEF After, Command
    <3>4. QED BY <2>6, <2>8, <3>3 DEF CoreRecord, Recordable
  <2>9. QED BY <2>4, <2>7, <2>8
<1>4. QED BY <1>2, <1>3

\* A message that says "rebound" was so before, or it has just been rebound.
LEMMA ReboundStep ==
  ASSUME TypeOK, [Next]_vars, NEW n \in msgs', n.stage = "rebound"
  PROVE  \/ \E m \in msgs : m.stage = "rebound" /\ m.crossing = n.crossing
         \/ \E m \in msgs : CoreRebind(m) /\ n.crossing = m.crossing /\ scriptDisk' = script'
<1>0. \A m \in msgs : /\ [m EXCEPT !.live = FALSE].stage = m.stage
                      /\ [m EXCEPT !.live = FALSE].crossing = m.crossing
                      /\ [m EXCEPT !.stage = "checked"].stage = "checked"
  BY DEF TypeOK, Message
<1>1. ASSUME NEW r \in Regions, NEW ok, NEW snapshot, Reply(r, ok, snapshot)
      PROVE  n \in msgs
  BY <1>1 DEF Reply
<1>2. CASE \E r \in Regions : Apply(r)
  BY <1>1, <1>2 DEF Apply, ApplyExport, ApplyImport, ApplyRemove
<1>3. CASE \E r \in Regions, lost \in BOOLEAN : Disconnect(r, lost)
  <2>1. PICK r \in Regions, lost \in BOOLEAN : Disconnect(r, lost)
    BY <1>3
  <2>2. PICK m \in msgs : n = IF m.region = r THEN [m EXCEPT !.live = FALSE] ELSE m
    BY <2>1 DEF Disconnect
  <2>3. m.stage = "rebound" /\ m.crossing = n.crossing
    BY <1>0, <2>2
  <2>4. QED BY <2>3
<1>4. CASE \E m \in msgs : CoreAccept(m)
  BY <1>0, <1>4 DEF CoreAccept
<1>5. CASE \E m \in msgs : CoreRebind(m)
  BY <1>5, RebindMoves
<1>6. CASE msgs' \subseteq msgs
  BY <1>6
<1>7. QED
  BY <1>2, <1>3, <1>4, <1>5, <1>6
     DEF Next, vars, Prepare, Rollback, Maintenance, Connect, Poll, CoreHandles, CoreMissingOrStale, CoreRecord,
         CoreRecordRefused, CoreReject, CoreRestart, Delete, Regroup, Acked, Thrown

LEMMA StepCarried == TypeOK /\ CarriedInv /\ [Next]_vars => CarriedInv'
<1> SUFFICES ASSUME TypeOK, CarriedInv, [Next]_vars PROVE CarriedInv'
  OBVIOUS
<1>1. \A o \in Objects : /\ script'[o] = o => scriptDisk'[o] = o
                         /\ scriptDisk'[o] = o => scriptDisk[o] = o
  <2>1. CASE \E m \in msgs : CoreRebind(m)
    <3>1. PICK m \in msgs : CoreRebind(m)
      BY <2>1
    <3>2. \A o \in Objects : script'[o] = o => script[o] = o
      BY <3>1, RebindMoves
    <3>3. QED BY <3>1, <3>2, RebindMoves DEF CarriedInv
  <2>2. CASE UNCHANGED <<script, scriptDisk>>
    BY <2>2 DEF CarriedInv
  <2>3. QED BY <2>1, <2>2, ScriptsStep
<1>2. \A c \in Crossings : Obj[c] \in Objects
  BY CrossingAssumption
<1>3. \A n \in msgs' : n.stage = "rebound" => scriptDisk'[Obj[n.crossing]] # Obj[n.crossing]
  <2> SUFFICES ASSUME NEW n \in msgs', n.stage = "rebound"
               PROVE  scriptDisk'[Obj[n.crossing]] # Obj[n.crossing]
    OBVIOUS
  <2>1. CASE \E m \in msgs : m.stage = "rebound" /\ m.crossing = n.crossing
    <3>1. PICK m \in msgs : m.stage = "rebound" /\ m.crossing = n.crossing
      BY <2>1
    <3>2. m.crossing \in Crossings
      BY DEF TypeOK, Message
    <3>3. QED BY <1>1, <1>2, <3>1, <3>2 DEF CarriedInv
  <2>2. CASE \E m \in msgs : CoreRebind(m) /\ n.crossing = m.crossing /\ scriptDisk' = script'
    BY <2>2, RebindMoves
  <2>3. QED BY <2>1, <2>2, ReboundStep
<1>4. \A c \in Crossings : "completed" \in {store'[c].state, disk'[c].state} => scriptDisk'[Obj[c]] # Obj[c]
  <2> SUFFICES ASSUME NEW c \in Crossings, "completed" \in {store'[c].state, disk'[c].state}
               PROVE  scriptDisk'[Obj[c]] # Obj[c]
    OBVIOUS
  <2>1. scriptDisk[Obj[c]] # Obj[c]
    BY CompletedStep DEF CarriedInv
  <2>2. QED BY <1>1, <1>2, <2>1
<1>5. QED BY <1>1, <1>3, <1>4 DEF CarriedInv

\* A completed crossing has carried the script with it, in memory and in the
\* script file, whatever writes fail and wherever the Core restarts: the
\* handler rebinds and persists the scripts before it records the removal.
THEOREM ScriptsAreCarried == Spec => []CompletedCarriesScript
<1>1. Init => CarriedInv
  BY DEF Init, CarriedInv, NoRecord
<1>2. TypeOK /\ CarriedInv => CompletedCarriesScript
  BY CrossingAssumption DEF CarriedInv, CompletedCarriesScript
<1>3. QED BY <1>1, <1>2, StepCarried, TypeCorrect, PTL DEF Spec

\* While the disk does not fail, memory and file of the scripts agree, and a
\* script bound to a copy is one of a crossing whose import is recorded.
BoundInv == script = scriptDisk /\ BoundOnlyAfterImport

LEMMA StepBound ==
  ASSUME ~ DiskMayFail, TypeOK, TypeOK', LossInv, BoundInv, [Next]_vars
  PROVE  BoundInv'
<1>1. \A c \in Crossings : State(c) \notin {"none", "prepared", "exported"}
                             => State(c)' \notin {"none", "prepared", "exported"}
  <2> SUFFICES ASSUME NEW c \in Crossings, State(c) \notin {"none", "prepared", "exported"}
               PROVE  State(c)' \notin {"none", "prepared", "exported"}
    OBVIOUS
  <2>1. Advances(c)
    BY StepAdvances DEF LossInv
  <2>2. State(c)' \in Onward(State(c)) /\ State(c) \in CrossingState
    BY <2>1, AdvancesOnward DEF TypeOK, Record
  <2>3. QED BY <2>2 DEF Onward, CrossingState
<1>2. CASE script' = script /\ scriptDisk' = scriptDisk
  BY <1>1, <1>2 DEF BoundInv, BoundOnlyAfterImport
<1>3. CASE \E m \in msgs : CoreRebind(m)
  <2>1. PICK m \in msgs : CoreRebind(m)
    BY <1>3
  <2>2. scriptDisk' = script'
    BY <2>1, RebindMoves
  <2>3. State(m.crossing) \notin {"none", "prepared", "exported"}
    BY <2>1 DEF CoreRebind, LossInv, MessageInv, Before, Onward
  <2>4. \A c \in Crossings : script'[Obj[c]] = c => script[Obj[c]] = c \/ c = m.crossing
    BY <2>1, RebindMoves, CrossingAssumption
  <2>5. QED BY <1>1, <2>2, <2>3, <2>4 DEF BoundInv, BoundOnlyAfterImport
<1>4. CASE script' = scriptDisk /\ scriptDisk' = scriptDisk
  BY <1>1, <1>4 DEF BoundInv, BoundOnlyAfterImport
<1>5. QED BY <1>2, <1>3, <1>4, ScriptsStep

\* Scripts are bound to a copy only after the Core has recorded its import,
\* also after a restart on the files.
THEOREM BoundAfterImport ==
  ASSUME ~ DiskMayFail
  PROVE  Spec => []BoundOnlyAfterImport
<1>1. Init => BoundInv
  BY CrossingAssumption DEF Init, BoundInv, BoundOnlyAfterImport
<1>2. TypeOK /\ LossInv /\ BoundInv /\ [Next]_vars => BoundInv'
  BY StepType, StepBound
<1>3. BoundInv => BoundOnlyAfterImport
  BY DEF BoundInv
<1>4. QED BY <1>1, <1>2, <1>3, LossInvariant, PTL DEF Spec

----------------------------------------------------------------------------
(***************************************************************************)
(* ObjectCrossing implements ObjectMove, when every crossing has an object *)
(* of its own, no user edits objects meanwhile and the disk is reliable.   *)
(*                                                                         *)
(* What LossInv does not say is what becomes of the copy.  There is one    *)
(* snapshot of an object, so no import meets an entity it differs from;    *)
(* and the World Node of the destination, which applies one command at a   *)
(* time, holds no import any more once it has cleaned up.                  *)
(***************************************************************************)
Alone ==
  /\ ~ DiskMayFail /\ ~ UsersEdit
  /\ \A c, d \in Crossings : Obj[c] = Obj[d] => c = d

Importing(c) == \E r \in Regions : held[r].command = "import" /\ held[r].crossing = c
Removing(c)  == \E r \in Regions : held[r].command = "remove" /\ held[r].crossing = c

\* What is known of the object of a crossing, wherever it is known.
Known(c) ==
  ({scene[Obj[c]], scene[c], store[c].snapshot}
     \cup {m.snapshot : m \in {n \in msgs : n.crossing = c}}
     \cup {held[r].snapshot : r \in {s \in Regions : held[s].command # "none" /\ held[s].crossing = c}}) \ {Gone}

CopyInv(c) ==
  /\ \A g, h \in Known(c) : g = h
  /\ State(c) \in {"none", "prepared", "restore_pending", "rolled_back"} => scene[c] = Gone /\ ~ Importing(c)
  /\ State(c) = "completed" => scene[Obj[c]] = Gone
  /\ Importing(c) => /\ scene[Obj[c]] # Gone \/ scene[c] # Gone
                     /\ Removing(c) => scene[c] # Gone

ResultInv(m) ==
  /\ m.command = "import" => m.ok
  /\ m.command = "cleanup" => scene[m.crossing] = Gone /\ ~ Importing(m.crossing)
  /\ m.command = "remove" /\ State(m.crossing) = "imported" => scene[Obj[m.crossing]] = Gone

MoveInv ==
  /\ deleted = {}
  /\ \A c \in Crossings : CopyInv(c)
  /\ \A m \in msgs : ResultInv(m)

LEMMA NoneHasNoCommand == \A r \in Regions : held[r].command # "none" => held[r] # None
BY DEF None

\* A crossing that does not cover its object has it in the source Region.
LEMMA SourceInPlace ==
  ASSUME Alone, LossInv, MoveInv, NEW c \in Crossings, ~ Covers(c)
  PROVE  scene[Obj[c]] # Gone
<1>1. Obj[c] \in Objects \ deleted
  BY CrossingAssumption DEF MoveInv
<1>2. \A d \in CrossingsOf(Obj[c]) : d = c
  BY DEF CrossingsOf, Alone
<1>3. QED BY <1>1, <1>2 DEF LossInv

\* Every step but those of a World Node's command only takes crossings onward.
LEMMA QuietMove ==
  ASSUME Alone, TypeOK, TypeOK', LossInv, MoveInv,
         \A c \in Crossings : Advances(c), scene' = scene, deleted' = deleted,
         \A r \in Regions : held'[r] = held[r] \/ held'[r] = None,
         \A n \in msgs' : \E m \in msgs : SameResult(n, m)
  PROVE  MoveInv'
<1>1. \A c \in Crossings : Importing(c)' => Importing(c)
  BY DEF Importing, None
<1>2. \A c \in Crossings : Removing(c)' => Removing(c)
  BY DEF Removing, None
<1>3. ASSUME NEW c \in Crossings
      PROVE  Known(c)' \subseteq Known(c)
  <2>1. store'[c].snapshot = store[c].snapshot \/ \E m \in msgs : m.crossing = c /\ store'[c].snapshot = m.snapshot
    BY <1>3 DEF Advances, Ok
  <2>2. \A n \in msgs' : n.crossing = c => \E m \in msgs : m.crossing = c /\ n.snapshot = m.snapshot
    BY DEF SameResult
  <2>3. \A r \in Regions : held'[r].command # "none" => held'[r] = held[r]
    BY DEF None
  <2>4. QED BY <2>1, <2>2, <2>3 DEF Known
<1>4. ASSUME NEW c \in Crossings
      PROVE  CopyInv(c)'
  <2>1. Advances(c) /\ CopyInv(c)
    BY <1>4 DEF MoveInv
  <2>2. /\ Ok(c, "cleanup") # {} => scene[c] = Gone /\ ~ Importing(c)
        /\ State(c) = "imported" /\ Ok(c, "remove") # {} => scene[Obj[c]] = Gone
        /\ \A m \in msgs : m.crossing = c /\ m.command = "import" => m.ok
    BY DEF MoveInv, ResultInv, Ok
  <2>3. State(c)' \in {"none", "prepared", "restore_pending", "rolled_back"} => scene[c] = Gone /\ ~ Importing(c)
    BY <2>1, <2>2 DEF Advances, CopyInv
  <2>4. State(c)' = "completed" => scene[Obj[c]] = Gone
    BY <2>1, <2>2 DEF Advances, CopyInv
  <2>5. QED BY <1>1, <1>2, <1>3, <2>1, <2>3, <2>4 DEF CopyInv
<1>5. ASSUME NEW n \in msgs'
      PROVE  ResultInv(n)'
  <2>1. PICK m \in msgs : SameResult(n, m)
    OBVIOUS
  <2>2. m.crossing \in Crossings /\ m.command \in Command
    BY DEF TypeOK, Message
  <2>3. ResultInv(m) /\ MessageInv(m) /\ Advances(m.crossing)
    BY <2>2 DEF MoveInv, LossInv
  <2>4. m.command = "remove" /\ State(m.crossing)' = "imported" => State(m.crossing) = "imported"
    BY <2>3 DEF MessageInv, Before, Onward, Advances
  <2>5. QED BY <1>1, <2>1, <2>2, <2>3, <2>4 DEF ResultInv, SameResult
<1>6. QED BY <1>4, <1>5 DEF MoveInv

LEMMA PollMove ==
  ASSUME Alone, TypeOK, TypeOK', LossInv, MoveInv, NEW r \in Regions, Poll(r)
  PROVE  MoveInv'
<1>1. store' = store /\ scene' = scene /\ deleted' = deleted /\ msgs' = msgs
  BY DEF Poll
<1>2. PICK c \in Crossings, cmd \in Command :
        /\ DueFirst(r, c, cmd)
        /\ held' = [held EXCEPT ![r] = [crossing |-> c, command |-> cmd,
                                       snapshot |-> store[c].snapshot]]
  BY DEF Poll
<1>3. State(c) = Before(cmd)
  BY <1>2 DEF DueFirst, Due
<1>4. /\ held'[r].crossing = c /\ held'[r].command = cmd /\ held'[r].snapshot = store[c].snapshot
      /\ \A s \in Regions \ {r} : held'[s] = held[s]
  BY <1>2 DEF TypeOK
<1>5. ASSUME NEW d \in Crossings
      PROVE  /\ Importing(d)' => Importing(d) \/ (d = c /\ cmd = "import" /\ State(c) = "exported")
             /\ Removing(d)' => Removing(d) \/ (d = c /\ cmd = "remove" /\ State(c) = "imported")
  BY <1>3, <1>4 DEF Importing, Removing, Before
<1>6. ASSUME NEW d \in Crossings
      PROVE  Known(d)' \subseteq Known(d)
  BY <1>1, <1>4 DEF Known
<1>7. Removing(c) => State(c) # "exported"
  BY NoneHasNoCommand DEF Removing, LossInv, HeldInv, Covers
<1>8. State(c) = "exported" => scene[Obj[c]] # Gone
  BY SourceInPlace DEF Covers
<1>9. State(c) = "imported" => scene[c] # Gone
  BY DEF LossInv, CrossingInv, Arrived, MoveInv
<1>10. ASSUME NEW d \in Crossings
       PROVE  CopyInv(d)'
  <2>1. CopyInv(d) /\ State(d)' = State(d)
    BY <1>1 DEF MoveInv
  <2>2. State(d) \in {"none", "prepared", "restore_pending", "rolled_back"} => ~ Importing(d)'
    BY <1>5, <2>1 DEF CopyInv
  <2>3. Importing(d)' => /\ scene[Obj[d]] # Gone \/ scene[d] # Gone
                         /\ Removing(d)' => scene[d] # Gone
    BY <1>5, <1>7, <1>8, <1>9, <2>1 DEF CopyInv
  <2>4. QED BY <1>1, <1>6, <2>1, <2>2, <2>3 DEF CopyInv
<1>11. ASSUME NEW m \in msgs'
       PROVE  ResultInv(m)'
  <2>1. m \in msgs /\ m.crossing \in Crossings /\ ResultInv(m) /\ MessageInv(m)
    BY <1>1 DEF TypeOK, Message, MoveInv, LossInv
  <2>2. m.command = "cleanup" => State(m.crossing) # "exported"
    BY <2>1 DEF MessageInv, Onward, Before
  <2>3. m.command = "cleanup" => ~ Importing(m.crossing)'
    BY <1>5, <2>1, <2>2 DEF ResultInv
  <2>4. QED BY <1>1, <2>1, <2>3 DEF ResultInv
<1>12. QED BY <1>1, <1>10, <1>11 DEF MoveInv

\* What the World Node of a Region does to the source entity and the copy of
\* the crossing whose command it holds; no other crossing is concerned.
LEMMA AppliedMove ==
  ASSUME Alone, TypeOK, LossInv, MoveInv, NEW r \in Regions, Apply(r)
  PROVE  LET c == held[r].crossing
             cmd == held[r].command
         IN  /\ store' = store /\ deleted' = deleted /\ held[r] \in Held
             /\ held'[r] = None /\ \A s \in Regions \ {r} : held'[s] = held[s]
             /\ \A d \in Crossings \ {c} : scene'[d] = scene[d] /\ scene'[Obj[d]] = scene[Obj[d]]
             /\ \E new \in Message :
                  /\ msgs' \subseteq msgs \cup {new}
                  /\ new.crossing = c /\ new.command = cmd
                  /\ new.snapshot \in {Gone, scene[Obj[c]]}
                  /\ cmd = "import" => new.ok
             /\ \/ cmd = "export" /\ scene'[c] = scene[c] /\ scene'[Obj[c]] = scene[Obj[c]]
                \/ /\ cmd = "import" /\ held[r].snapshot # Gone
                   /\ scene'[c] = held[r].snapshot /\ scene'[Obj[c]] = scene[Obj[c]]
                \/ /\ cmd = "restore" /\ held[r].snapshot # Gone
                   /\ scene'[Obj[c]] = held[r].snapshot /\ scene'[c] = scene[c]
                \/ cmd = "remove" /\ scene'[Obj[c]] = Gone /\ scene'[c] = scene[c]
                \/ cmd = "cleanup" /\ scene'[c] = Gone /\ scene'[Obj[c]] = scene[Obj[c]]
<1> DEFINE c == held[r].crossing
           cmd == held[r].command
<1>1. cmd \in Command
  BY DEF Apply, ApplyExport, ApplyImport, ApplyRemove, Command
<1>2. held[r] \in Held /\ c \in Crossings /\ held[r] # None
  BY <1>1 DEF TypeOK, None, Command, Held
<1>3. HeldInv(r) /\ CopyInv(c)
  BY <1>2 DEF LossInv, MoveInv
<1>4. /\ c \in Entity /\ Obj[c] \in Entity /\ c # Obj[c]
      /\ \A d \in Crossings \ {c} : d # Obj[c] /\ Obj[d] # c /\ Obj[d] # Obj[c] /\ d \in Entity /\ Obj[d] \in Entity
  BY <1>2, CrossingAssumption DEF Entity, Alone
<1>5. scene \in [Entity -> Snapshot]
  BY DEF TypeOK
<1>6. ASSUME NEW ok \in BOOLEAN, NEW snapshot \in {Gone, scene[Obj[c]]}, Reply(r, ok, snapshot),
             cmd = "import" => ok
      PROVE  /\ store' = store /\ deleted' = deleted
             /\ held'[r] = None /\ \A s \in Regions \ {r} : held'[s] = held[s]
             /\ \E new \in Message :
                  /\ msgs' \subseteq msgs \cup {new}
                  /\ new.crossing = c /\ new.command = cmd
                  /\ new.snapshot \in {Gone, scene[Obj[c]]}
                  /\ cmd = "import" => new.ok
  <2> DEFINE new == [region |-> r, crossing |-> c, command |-> cmd, ok |-> ok,
                     snapshot |-> snapshot, live |-> TRUE, stage |-> "sent"]
  <2>1. msgs' \subseteq msgs \cup {new}
    BY <1>6 DEF Reply
  <2>2. snapshot \in Snapshot
    BY <1>4, <1>5 DEF Snapshot
  <2>3. /\ new \in Message /\ new.crossing = c /\ new.command = cmd
        /\ new.snapshot = snapshot /\ new.ok = ok
    BY <1>1, <1>2, <2>2 DEF Message
  <2>4. store' = store /\ deleted' = deleted /\ held'[r] = None /\ \A s \in Regions \ {r} : held'[s] = held[s]
    BY <1>6 DEF Reply, TypeOK
  <2> HIDE DEF new, c, cmd
  <2>5. QED BY <1>6, <2>1, <2>3, <2>4
<1>7. CASE ApplyExport(r)
  <2>1. cmd = "export" /\ Reply(r, scene[Obj[c]] # Gone, scene[Obj[c]]) /\ scene' = scene
    BY <1>7 DEF ApplyExport
  <2> HIDE DEF c, cmd
  <2>2. QED BY <1>2, <1>6, <2>1 DEF c, cmd
<1>8. CASE ApplyImport(r)
  <2> DEFINE e  == Target(c, cmd)
             ok == scene[e] \in {Gone, held[r].snapshot}
  <2>1. /\ cmd \in {"import", "restore"} /\ Reply(r, ok, Gone)
        /\ scene' = IF ok THEN [scene EXCEPT ![e] = held[r].snapshot] ELSE scene
    BY <1>8 DEF ApplyImport
  <2>2. held[r].snapshot # Gone
    BY <1>2, <1>3, <2>1 DEF HeldInv
  <2>3. e = IF cmd = "import" THEN c ELSE Obj[c]
    BY <2>1 DEF Target
  <2>4. held[r].snapshot \in Known(c)
    BY <1>1, <2>2 DEF Known, Command
  <2>5. scene[e] # Gone => scene[e] \in Known(c)
    BY <2>3 DEF Known
  <2>6. ok
    BY <1>3, <2>4, <2>5 DEF CopyInv
  <2>7. scene' = [scene EXCEPT ![e] = held[r].snapshot]
    BY <2>1, <2>6
  <2>8. /\ \A d \in Crossings \ {c} : scene'[d] = scene[d] /\ scene'[Obj[d]] = scene[Obj[d]]
        /\ cmd = "import" => scene'[c] = held[r].snapshot /\ scene'[Obj[c]] = scene[Obj[c]]
        /\ cmd = "restore" => scene'[Obj[c]] = held[r].snapshot /\ scene'[c] = scene[c]
    BY <1>4, <1>5, <2>3, <2>7
  <2>9. Reply(r, TRUE, Gone)
    BY <2>1, <2>6
  <2> HIDE DEF c, cmd, ok, e
  <2>10. QED BY <1>2, <1>6, <2>1, <2>2, <2>8, <2>9 DEF c, cmd
<1>9. CASE ApplyRemove(r)
  <2> DEFINE e == Target(c, cmd)
  <2>1. cmd \in {"remove", "cleanup"} /\ Reply(r, TRUE, Gone) /\ scene' = [scene EXCEPT ![e] = Gone]
    BY <1>9 DEF ApplyRemove
  <2>2. e = IF cmd = "cleanup" THEN c ELSE Obj[c]
    BY <2>1 DEF Target
  <2>3. /\ \A d \in Crossings \ {c} : scene'[d] = scene[d] /\ scene'[Obj[d]] = scene[Obj[d]]
        /\ cmd = "cleanup" => scene'[c] = Gone /\ scene'[Obj[c]] = scene[Obj[c]]
        /\ cmd = "remove" => scene'[Obj[c]] = Gone /\ scene'[c] = scene[c]
    BY <1>4, <1>5, <2>1, <2>2
  <2> HIDE DEF c, cmd, e
  <2>4. QED BY <1>2, <1>6, <2>1, <2>3 DEF c, cmd
<1>10. QED BY <1>7, <1>8, <1>9 DEF Apply

LEMMA ApplyKeepsMove ==
  ASSUME Alone, TypeOK, TypeOK', LossInv, MoveInv, NEW r \in Regions, Apply(r)
  PROVE  MoveInv'
<1> PICK c, cmd : c = held[r].crossing /\ cmd = held[r].command
  OBVIOUS
<1>1. /\ store' = store /\ deleted' = deleted /\ held[r] \in Held
      /\ held'[r] = None /\ \A s \in Regions \ {r} : held'[s] = held[s]
      /\ \A d \in Crossings \ {c} : scene'[d] = scene[d] /\ scene'[Obj[d]] = scene[Obj[d]]
      /\ \/ cmd = "export" /\ scene'[c] = scene[c] /\ scene'[Obj[c]] = scene[Obj[c]]
         \/ /\ cmd = "import" /\ held[r].snapshot # Gone
            /\ scene'[c] = held[r].snapshot /\ scene'[Obj[c]] = scene[Obj[c]]
         \/ /\ cmd = "restore" /\ held[r].snapshot # Gone
            /\ scene'[Obj[c]] = held[r].snapshot /\ scene'[c] = scene[c]
         \/ cmd = "remove" /\ scene'[Obj[c]] = Gone /\ scene'[c] = scene[c]
         \/ cmd = "cleanup" /\ scene'[c] = Gone /\ scene'[Obj[c]] = scene[Obj[c]]
  BY AppliedMove
<1>2. PICK new \in Message : /\ msgs' \subseteq msgs \cup {new}
                             /\ new.crossing = c /\ new.command = cmd
                             /\ new.snapshot \in {Gone, scene[Obj[c]]}
                             /\ cmd = "import" => new.ok
  BY AppliedMove
<1>3. c \in Crossings /\ cmd \in Command /\ held[r] # None /\ cmd # "none"
  BY <1>1 DEF Held, Command, None
<1>4. HeldInv(r) /\ CopyInv(c)
  BY <1>3 DEF LossInv, MoveInv
<1>5. /\ r = Site(c, cmd) /\ State(c) \in Onward(Before(cmd))
  BY <1>3, <1>4 DEF HeldInv
<1>6. \A d \in Crossings : /\ Importing(d)' => Importing(d)
                           /\ Removing(d)' => Removing(d)
  BY <1>1 DEF Importing, Removing, None
\* The World Node of the destination applies one command at a time.
<1>7. cmd \in {"import", "cleanup"} => ~ Importing(c)'
  <2>1. \A s \in Regions : held[s].command = "import" /\ held[s].crossing = c => s = To[c]
    BY NoneHasNoCommand DEF LossInv, HeldInv, Site
  <2>2. cmd \in {"import", "cleanup"} => r = To[c]
    BY <1>5 DEF Site
  <2>3. QED BY <1>1, <2>1, <2>2 DEF Importing, None
<1>8. cmd = "import" => Importing(c)
  BY DEF Importing
<1>9. cmd = "remove" => Removing(c)
  BY DEF Removing
<1>10. held[r].snapshot # Gone => held[r].snapshot \in Known(c)
  BY <1>3 DEF Known
<1>11. ASSUME NEW d \in Crossings
       PROVE  Known(d)' \subseteq Known(d)
  <2>1. store'[d].snapshot = store[d].snapshot
    BY <1>1
  <2>2. {scene'[d], scene'[Obj[d]]} \subseteq {scene[d], scene[Obj[d]], Gone} \cup Known(d)
    BY <1>1, <1>10
  <2>3. \A n \in msgs' : n.crossing = d => n.snapshot \in {m.snapshot : m \in {k \in msgs : k.crossing = d}}
                                                        \cup {Gone, scene[Obj[d]]}
    BY <1>2
  <2>4. \A s \in Regions : held'[s].command # "none" => held'[s] = held[s]
    BY <1>1 DEF None
  <2>5. QED BY <2>1, <2>2, <2>3, <2>4 DEF Known
<1>12. cmd = "import" => State(c) \in {"exported", "imported", "completed", "cleanup_pending"}
  BY <1>4, <1>5, <1>8 DEF CopyInv, Onward, Before, CrossingState
<1>13. /\ cmd = "restore" => State(c) \notin {"imported", "completed"}
       /\ cmd = "cleanup" => State(c) \in {"cleanup_pending", "restore_pending", "rolled_back"}
  BY <1>5 DEF Onward, Before
<1>14. ASSUME NEW d \in Crossings
       PROVE  CopyInv(d)'
  <2>1. CASE d # c
    <3>1. CopyInv(d) /\ scene'[d] = scene[d] /\ scene'[Obj[d]] = scene[Obj[d]] /\ State(d)' = State(d)
      BY <1>1, <2>1 DEF MoveInv
    <3>2. QED BY <1>6, <1>11, <3>1 DEF CopyInv
  <2>2. CASE d = c
    <3>1. State(c)' = State(c)
      BY <1>1
    <3>2. State(c) \in {"none", "prepared", "restore_pending", "rolled_back"} => scene'[c] = Gone /\ ~ Importing(c)'
      BY <1>1, <1>3, <1>4, <1>6, <1>12 DEF CopyInv
    <3>3. State(c) = "completed" => scene'[Obj[c]] = Gone
      BY <1>1, <1>3, <1>4, <1>13 DEF CopyInv
    <3>4. Importing(c)' => /\ scene'[Obj[c]] # Gone \/ scene'[c] # Gone
                           /\ Removing(c)' => scene'[c] # Gone
      <4> SUFFICES ASSUME Importing(c)' PROVE /\ scene'[Obj[c]] # Gone \/ scene'[c] # Gone
                                              /\ Removing(c)' => scene'[c] # Gone
        OBVIOUS
      <4>1. /\ scene[Obj[c]] # Gone \/ scene[c] # Gone
            /\ Removing(c) => scene[c] # Gone
            /\ Removing(c)' => Removing(c)
        BY <1>3, <1>4, <1>6 DEF CopyInv
      <4>2. cmd \in {"export", "restore", "remove"}
        BY <1>1, <1>7
      <4>3. QED BY <1>1, <1>9, <4>1, <4>2
    <3>5. QED BY <1>3, <1>4, <1>11, <2>2, <3>1, <3>2, <3>3, <3>4 DEF CopyInv
  <2>3. QED BY <2>1, <2>2
<1>15. ASSUME NEW m \in msgs
       PROVE  ResultInv(m)'
  <2> DEFINE d == m.crossing
  <2>1. d \in Crossings /\ ResultInv(m) /\ MessageInv(m)
    BY DEF TypeOK, Message, MoveInv, LossInv
  <2>2. State(d)' = State(d)
    BY <1>1
  <2>3. m.command = "cleanup" => scene'[d] = Gone /\ ~ Importing(d)'
    BY <1>1, <1>6, <1>8, <2>1 DEF ResultInv
  <2>4. m.command = "remove" /\ State(d) = "imported" => scene'[Obj[d]] = Gone
    BY <1>1, <1>13, <2>1 DEF ResultInv
  <2>5. QED BY <2>1, <2>2, <2>3, <2>4 DEF ResultInv
<1>16. ResultInv(new)'
  <2>1. cmd = "cleanup" => scene'[c] = Gone /\ ~ Importing(c)'
    BY <1>1, <1>7
  <2>2. cmd = "remove" => scene'[Obj[c]] = Gone
    BY <1>1
  <2>3. QED BY <1>2, <2>1, <2>2 DEF ResultInv
<1>17. \A m \in msgs' : ResultInv(m)'
  BY <1>2, <1>15, <1>16
<1>18. QED BY <1>1, <1>14, <1>17 DEF MoveInv

LEMMA StepMove ==
  ASSUME Alone, TypeOK, LossInv, MoveInv, [Next]_vars
  PROVE  MoveInv'
<1>1. TypeOK'
  BY StepType
<1>2. \A c \in Crossings : Advances(c)
  BY StepAdvances DEF LossInv, Alone
<1>3. \A m \in msgs : SameResult(m, m)
  BY DEF SameResult
<1>4. ASSUME scene' = scene, deleted' = deleted,
             \A r \in Regions : held'[r] = held[r] \/ held'[r] = None,
             \A n \in msgs' : \E m \in msgs : SameResult(n, m)
      PROVE  MoveInv'
  BY <1>1, <1>2, <1>4, QuietMove
<1>5. ASSUME NEW c \in Crossings, Prepare(c) \/ Rollback(c) PROVE MoveInv'
  BY <1>3, <1>4, <1>5 DEF Prepare, Rollback
<1>6. ASSUME NEW late \in SUBSET Crossings, NEW old \in SUBSET Crossings, Maintenance(late, old) PROVE MoveInv'
  BY <1>3, <1>4, <1>6 DEF Maintenance
<1>7. ASSUME NEW r \in Regions, Connect(r) PROVE MoveInv'
  BY <1>3, <1>4, <1>7 DEF Connect
<1>8. ASSUME NEW r \in Regions, NEW lost \in BOOLEAN, Disconnect(r, lost) PROVE MoveInv'
  <2>1. \A m \in msgs : SameResult([m EXCEPT !.live = FALSE], m)
    BY DEF SameResult, TypeOK, Message
  <2>2. \A n \in msgs' : \E m \in msgs : SameResult(n, m)
    BY <1>3, <1>8, <2>1 DEF Disconnect
  <2>3. \A s \in Regions : held'[s] = held[s] \/ held'[s] = None
    BY <1>8 DEF Disconnect, TypeOK
  <2>4. QED BY <1>4, <1>8, <2>2, <2>3 DEF Disconnect
<1>9. ASSUME NEW m \in msgs, CoreHandles(m) PROVE MoveInv'
  <2>1. scene' = scene /\ deleted' = deleted /\ held' = held
    BY <1>9 DEF CoreHandles, CoreAccept, CoreMissingOrStale, CoreRebind, CoreRecord,
                 CoreRecordRefused, CoreReject
  <2>2. msgs' \subseteq msgs \cup {[m EXCEPT !.stage = "checked"], [m EXCEPT !.stage = "rebound"]}
    BY <1>9 DEF CoreHandles, CoreAccept, CoreMissingOrStale, CoreRebind, CoreRecord,
                 CoreRecordRefused, CoreReject, Acked, Thrown
  <2>3. \A s : SameResult([m EXCEPT !.stage = s], m)
    BY DEF SameResult, TypeOK, Message
  <2>4. \A n \in msgs' : \E k \in msgs : SameResult(n, k)
    BY <1>3, <2>2, <2>3
  <2>5. QED BY <1>4, <2>1, <2>4
<1>10. ASSUME NEW lost \in SUBSET Regions, CoreRestart(lost) PROVE MoveInv'
  BY <1>4, <1>10 DEF CoreRestart
<1>11. \A e \in Entity : ~ Delete(e) /\ \A g \in Groups : ~ Regroup(e, g)
  BY DEF Delete, Regroup, Alone
<1>12. CASE UNCHANGED vars
  BY <1>3, <1>4, <1>12 DEF vars
<1>13. QED
  BY <1>1, <1>5, <1>6, <1>7, <1>8, <1>9, <1>10, <1>11, <1>12, PollMove, ApplyKeepsMove DEF Next

LEMMA InitMove == Alone /\ Init => MoveInv
<1> SUFFICES ASSUME Alone, Init PROVE MoveInv
  OBVIOUS
<1>1. deleted = {} /\ msgs = {} /\ \A r \in Regions : held[r] = None
  BY DEF Init
<1>2. ASSUME NEW c \in Crossings PROVE CopyInv(c)
  <2>1. scene[c] = Gone /\ State(c) = "none" /\ store[c].snapshot = Gone
    BY DEF Init, NoRecord
  <2>2. ~ Importing(c)
    BY <1>1 DEF Importing, None
  <2>3. Known(c) \subseteq {scene[Obj[c]]}
    BY <1>1, <2>1 DEF Known, None
  <2>4. QED BY <2>1, <2>2, <2>3 DEF CopyInv
<1>3. QED BY <1>1, <1>2 DEF MoveInv

----------------------------------------------------------------------------
(***************************************************************************)
(* The steps, seen as those of ObjectMove.                                 *)
(***************************************************************************)
Result == [c \in Crossings |-> Outcome(State(c))]
Here   == {c \in Crossings : scene[Obj[c]] # Gone}
There  == {c \in Crossings : scene[c] # Gone}

\* A step changes one crossing, or undoes several (Maintenance).
LEMMA OneOrUndone ==
  ASSUME TypeOK, disk = store, [Next]_vars
  PROVE  \/ \E c \in Crossings : \A d \in Crossings \ {c} : store'[d] = store[d]
         \/ \A d \in Crossings : State(d)' \in {State(d), "rolled_back", "cleanup_pending"}
<1>0. \A d \in Crossings : store[d] \in Record
  BY DEF TypeOK
<1>1. CASE store' = store
  BY <1>1
<1>2. ASSUME NEW c \in Crossings, Prepare(c) \/ Rollback(c)
      PROVE  \A d \in Crossings \ {c} : store'[d] = store[d]
  BY <1>2 DEF Prepare, Rollback, TypeOK
<1>3. ASSUME NEW late \in SUBSET Crossings, NEW old \in SUBSET Crossings, Maintenance(late, old)
      PROVE  \A d \in Crossings : State(d)' \in {State(d), "rolled_back", "cleanup_pending"}
  BY <1>0, <1>3 DEF Maintenance, Undone, Record
<1>4. ASSUME NEW m \in msgs, CoreHandles(m)
      PROVE  /\ m.crossing \in Crossings
             /\ \A d \in Crossings \ {m.crossing} : store'[d] = store[d]
  <2>1. m.crossing \in Crossings
    BY DEF TypeOK, Message
  <2>2. QED BY <1>4, <2>1 DEF CoreHandles, CoreAccept, CoreMissingOrStale, CoreRebind, CoreRecord,
                 CoreRecordRefused, CoreReject, TypeOK
<1>5. CASE \/ \E r \in Regions : Connect(r) \/ Poll(r) \/ Apply(r)
           \/ \E r \in Regions, lost \in BOOLEAN : Disconnect(r, lost)
           \/ \E lost \in SUBSET Regions : CoreRestart(lost)
           \/ \E e \in Entity : Delete(e) \/ \E g \in Groups : Regroup(e, g)
           \/ UNCHANGED vars
  BY <1>1, <1>5 DEF Connect, Poll, Apply, ApplyExport, ApplyImport, ApplyRemove, Reply, Disconnect, CoreRestart,
                    Delete, Regroup, vars
<1>6. QED BY <1>2, <1>3, <1>4, <1>5 DEF Next

\* A step of the Core: crossings are opened, moved or given up.
LEMMA CoreMoves ==
  ASSUME Alone, TypeOK, TypeOK', LossInv, MoveInv, [Next]_vars, scene' = scene
  PROVE  Move!MoveNext
<1> DEFINE Undo == {c \in Crossings : Outcome(State(c)) = "open" /\ Outcome(State(c)') = "undoing"}
           Stay == {c \in Crossings : Outcome(State(c)) # "stayed" /\ Outcome(State(c)') = "stayed"}
<1>1. disk = store /\ \A c \in Crossings : Advances(c)
  BY StepAdvances DEF LossInv, Alone
<1>2. Here' = Here /\ There' = There
  BY DEF Here, There
<1>3. \A c \in Crossings : Result[c] = Outcome(State(c)) /\ Result'[c] = Outcome(State(c)')
  BY DEF Result
<1>4. \A c \in Crossings : ~ Covers(c) => c \in Here
  BY SourceInPlace DEF Here
<1>5. \A c \in Crossings : State(c) \in {"prepared", "restore_pending"} => c \notin There
  BY DEF MoveInv, CopyInv, There
<1>6. \A c \in Stay : Result[c] \in {"open", "undoing"} /\ c \in Here \ There
  <2> SUFFICES ASSUME NEW c \in Crossings, c \in Stay
               PROVE  Result[c] \in {"open", "undoing"} /\ c \in Here \ There
    OBVIOUS
  <2>1. State(c) # "rolled_back" /\ State(c)' = "rolled_back"
    BY DEF Outcome
  <2>2. ~ \E m \in msgs : m.crossing = c /\ m.command = "import" /\ ~ m.ok
    BY DEF MoveInv, ResultInv
  <2>3. State(c) = "prepared" \/ (State(c) = "restore_pending" /\ RestoreAcked(c))
    BY <1>1, <2>1, <2>2 DEF Advances
  <2>4. ~ Covers(c)
    BY <2>3 DEF Covers
  <2>5. QED BY <1>3, <1>4, <1>5, <2>3, <2>4 DEF Outcome
<1>7. \A c \in Undo : Result[c] = "open"
  BY <1>3
\* What becomes of a crossing, in ObjectMove's words.
<1>8. ASSUME NEW c \in Crossings
      PROVE  \/ Result'[c] = Result[c]
             \/ Result[c] = "open" /\ Result'[c] = "undoing"
             \/ Result[c] # "stayed" /\ Result'[c] = "stayed"
             \/ Result[c] = "idle" /\ Result'[c] = "open" /\ State(c)' = "prepared"
             \/ /\ Result[c] = "open" /\ Result'[c] = "moved" /\ State(c)' = "completed"
                /\ c \in There \ Here
  <2>1. Advances(c)
    BY <1>1
  <2>2. State(c) = "imported" => c \in There
    BY DEF LossInv, CrossingInv, Arrived, MoveInv, There
  <2>3. State(c) = "imported" /\ Ok(c, "remove") # {} => c \notin Here
    BY DEF MoveInv, ResultInv, Ok, Here
  <2>4. QED BY <1>3, <2>1, <2>2, <2>3 DEF Advances, Outcome
<1>9. CASE \A c \in Crossings : \/ Result'[c] = Result[c]
                                \/ Result[c] = "open" /\ Result'[c] = "undoing"
                                \/ Result[c] # "stayed" /\ Result'[c] = "stayed"
  <2>1. Result' = [c \in Crossings |-> IF c \in Stay THEN "stayed" ELSE IF c \in Undo THEN "undoing" ELSE Result[c]]
    <3>1. \A c \in Crossings :
            Result'[c] = IF c \in Stay THEN "stayed" ELSE IF c \in Undo THEN "undoing" ELSE Result[c]
      BY <1>3, <1>9
    <3>2. Result' = [c \in Crossings |-> Result'[c]]
      BY DEF Result
    <3> HIDE DEF Undo, Stay
    <3>3. QED BY <3>1, <3>2
  <2>2. Undo \in SUBSET Crossings /\ Stay \in SUBSET Crossings
    OBVIOUS
  <2> HIDE DEF Undo, Stay
  <2>3. Move!GiveUp(Undo, Stay)
    BY <1>2, <1>6, <1>7, <2>1, <2>2 DEF Move!GiveUp, Result, Here, There
  <2>4. QED BY <2>2, <2>3 DEF Move!MoveNext
<1>10. CASE \E c \in Crossings : \/ Result[c] = "idle" /\ Result'[c] = "open" /\ State(c)' = "prepared"
                                 \/ /\ Result[c] = "open" /\ Result'[c] = "moved" /\ State(c)' = "completed"
                                    /\ c \in There \ Here
  <2>1. PICK c \in Crossings : \/ Result[c] = "idle" /\ Result'[c] = "open" /\ State(c)' = "prepared"
                               \/ /\ Result[c] = "open" /\ Result'[c] = "moved" /\ State(c)' = "completed"
                                  /\ c \in There \ Here
    BY <1>10
  <2>2. State(c)' \notin {State(c), "rolled_back", "cleanup_pending"}
    BY <1>3, <2>1
  <2>3. \A d \in Crossings \ {c} : store'[d] = store[d]
    <3>1. PICK e \in Crossings : \A d \in Crossings \ {e} : store'[d] = store[d]
      BY <1>1, <2>2, OneOrUndone
    <3>2. QED BY <2>2, <3>1
  <2>4. Result' = [Result EXCEPT ![c] = Result'[c]]
    <3>1. \A d \in Crossings \ {c} : Result'[d] = Result[d]
      BY <1>3, <2>3
    <3>2. QED BY <3>1 DEF Result
  <2>5. Move!Open(c) \/ Move!Moved(c)
    BY <1>2, <2>1, <2>4 DEF Move!Open, Move!Moved, Result, Here, There
  <2>6. QED BY <2>5 DEF Move!MoveNext
<1>11. QED BY <1>8, <1>9, <1>10

\* A World Node applies a command.
LEMMA WorldMoves ==
  ASSUME Alone, TypeOK, LossInv, MoveInv, NEW r \in Regions, Apply(r)
  PROVE  Move!MoveNext \/ UNCHANGED <<Result, Here, There>>
<1> PICK c, cmd : c = held[r].crossing /\ cmd = held[r].command
  OBVIOUS
<1>1. /\ store' = store /\ held[r] \in Held
      /\ \A d \in Crossings \ {c} : scene'[d] = scene[d] /\ scene'[Obj[d]] = scene[Obj[d]]
      /\ \/ cmd = "export" /\ scene'[c] = scene[c] /\ scene'[Obj[c]] = scene[Obj[c]]
         \/ /\ cmd = "import" /\ held[r].snapshot # Gone
            /\ scene'[c] = held[r].snapshot /\ scene'[Obj[c]] = scene[Obj[c]]
         \/ /\ cmd = "restore" /\ held[r].snapshot # Gone
            /\ scene'[Obj[c]] = held[r].snapshot /\ scene'[c] = scene[c]
         \/ cmd = "remove" /\ scene'[Obj[c]] = Gone /\ scene'[c] = scene[c]
         \/ cmd = "cleanup" /\ scene'[c] = Gone /\ scene'[Obj[c]] = scene[Obj[c]]
  BY AppliedMove
<1>2. c \in Crossings /\ held[r] # None
  BY <1>1 DEF Held, Command, None
<1>3. HeldInv(r) /\ CopyInv(c) /\ CrossingInv(c)
  BY <1>2 DEF LossInv, MoveInv
<1>4. State(c) \in Onward(Before(cmd)) /\ State(c) \in CrossingState
  BY <1>2, <1>3 DEF HeldInv, TypeOK, Record
<1>5. Result' = Result /\ Result[c] = Outcome(State(c))
  BY <1>1, <1>2 DEF Result
<1>6. ~ Covers(c) => scene[Obj[c]] # Gone
  BY <1>2, SourceInPlace
<1>7. CASE cmd = "export"
  BY <1>1, <1>2, <1>5, <1>7 DEF Here, There
<1>8. CASE cmd = "import"
  <2>1. Here' = Here /\ There' = There \cup {c}
    BY <1>1, <1>2, <1>8 DEF Here, There
  <2>2. CASE c \in There
    BY <1>5, <2>1, <2>2
  <2>3. CASE c \notin There
    <3>1. Importing(c) /\ scene[c] = Gone
      BY <1>2, <1>8, <2>3 DEF Importing, There
    <3>2. State(c) \in {"exported", "cleanup_pending"}
      BY <1>3, <1>4, <1>8, <3>1 DEF CopyInv, CrossingInv, Arrived, MoveInv, Onward, Before, CrossingState
    <3>3. c \in Here
      BY <1>2, <1>3, <3>1 DEF CopyInv, Here
    <3>4. Move!CopyThere(c)
      BY <1>5, <2>1, <3>2, <3>3 DEF Move!CopyThere, Result, Here, There, Outcome
    <3>5. QED BY <1>2, <3>4 DEF Move!MoveNext
  <2>4. QED BY <2>2, <2>3
<1>9. CASE cmd = "restore"
  <2>1. There' = There /\ Here' = Here \cup {c}
    BY <1>1, <1>2, <1>9 DEF Here, There
  <2>2. CASE c \in Here
    BY <1>5, <2>1, <2>2
  <2>3. CASE c \notin Here
    <3>1. State(c) = "restore_pending"
      BY <1>2, <1>4, <1>6, <1>9, <2>3 DEF Covers, Here, Onward, Before
    <3>2. c \notin There
      BY <1>3, <3>1 DEF CopyInv, There
    <3>3. Move!PutBackHere(c)
      BY <1>5, <2>1, <3>1, <3>2 DEF Move!PutBackHere, Result, Here, There, Outcome
    <3>4. QED BY <1>2, <3>3 DEF Move!MoveNext
  <2>4. QED BY <2>2, <2>3
<1>10. CASE cmd = "remove"
  <2>1. There' = There /\ Here' = Here \ {c}
    BY <1>1, <1>2, <1>10 DEF Here, There
  <2>2. CASE c \notin Here
    BY <1>5, <2>1, <2>2
  <2>3. CASE c \in Here
    <3>1. State(c) \in {"imported", "cleanup_pending", "restore_pending"}
      BY <1>2, <1>3, <1>10, <2>3 DEF HeldInv, Covers, CopyInv, Here
    <3>2. State(c) = "imported" => c \in There
      BY <1>2, <1>3 DEF CrossingInv, Arrived, MoveInv, There
    <3>3. Move!TakeFromHere(c)
      BY <1>5, <2>1, <3>1, <3>2, SMTT(30) DEF Move!TakeFromHere, Result, Here, There, Outcome
    <3>4. QED BY <1>2, <3>3 DEF Move!MoveNext
  <2>4. QED BY <2>2, <2>3
<1>11. CASE cmd = "cleanup"
  <2>1. Here' = Here /\ There' = There \ {c}
    BY <1>1, <1>2, <1>11 DEF Here, There
  <2>2. CASE c \notin There
    BY <1>5, <2>1, <2>2
  <2>3. CASE c \in There
    <3>1. State(c) = "cleanup_pending"
      BY <1>3, <1>4, <1>11, <2>3 DEF CopyInv, There, Onward, Before
    <3>2. Move!TakeFromThere(c)
      BY <1>5, <2>1, <3>1 DEF Move!TakeFromThere, Result, Here, There, Outcome
    <3>3. QED BY <1>2, <3>2 DEF Move!MoveNext
  <2>4. QED BY <2>2, <2>3
<1>12. QED BY <1>1, <1>7, <1>8, <1>9, <1>10, <1>11

\* With an object for each crossing, no user edits and a reliable disk, every
\* behaviour of the Core and the World Nodes is one of ObjectMove: the object
\* is moved or stays, and the crossing says which.
THEOREM CrossingImplementsMove ==
  ASSUME Alone
  PROVE  Spec => MoveImplemented
<1>1. Init => Move!MoveInit
  BY CrossingAssumption DEF Init, NoRecord, Outcome, Move!MoveInit
<1>2. TypeOK /\ LossInv /\ MoveInv /\ [Next]_vars => [Move!MoveNext]_(Move!moveVars)
  <2> SUFFICES ASSUME TypeOK, LossInv, MoveInv, [Next]_vars
               PROVE  Move!MoveNext \/ UNCHANGED <<Result, Here, There>>
    BY DEF Move!moveVars, Result, Here, There
  <2>1. CASE \E r \in Regions : Apply(r)
    BY <2>1, WorldMoves
  <2>2. CASE scene' = scene
    BY <2>2, StepType, CoreMoves
  <2>3. scene' = scene \/ \E r \in Regions : Apply(r)
    BY DEF Next, vars, Prepare, Rollback, Maintenance, Connect, Poll, Disconnect, CoreHandles, CoreAccept,
           CoreMissingOrStale, CoreRebind, CoreRecord, CoreRecordRefused, CoreReject, CoreRestart, Delete,
           Regroup, Alone
  <2>4. QED BY <2>1, <2>2, <2>3
<1>3. Spec => [](TypeOK /\ LossInv)
  BY LossInvariant DEF Alone
<1>4. Init => MoveInv
  BY InitMove
<1>5. TypeOK /\ LossInv /\ MoveInv /\ [Next]_vars => MoveInv'
  BY StepMove
<1>6. QED BY <1>1, <1>2, <1>3, <1>4, <1>5, PTL DEF Spec, MoveImplemented, Move!MoveSpec
=============================================================================
