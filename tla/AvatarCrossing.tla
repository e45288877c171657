--------------------------- MODULE AvatarCrossing ---------------------------
(***************************************************************************)
(* The reservations with which an avatar goes from a Region to the next:   *)
(* src/src/core/crossing_store.cpp and the requests of the viewer on it    *)
(* (admin_http_server.inc, /v1/viewer/handoff).  A crossing is prepared    *)
(* when the handoff is asked for, reserved and completed by the viewer     *)
(* after it has joined the destination, rolled back by the viewer or by    *)
(* its expiry, and forgotten a day after its end.  The store keeps no      *)
(* avatar in its place: what it promises is that a crossing ends once.     *)
(*                                                                         *)
(* An operation changes memory, then writes the whole store to its file.   *)
(* When the write throws, memory has changed, the file has not and the     *)
(* client is told of an error.  The carried state (motion, appearance,     *)
(* scripts) is opaque to the store and left out, and so is abort, which    *)
(* nothing calls.                                                          *)
(***************************************************************************)
EXTENDS LandStores

CONSTANTS Crossings     \* identifiers of crossings

VARIABLES
    crossings, crossingsFile,
    spent,        \* identifiers that have been drawn
    age,          \* of each: "young", "lapsed" (expires_unix is past), "aged" (a day after its end)
    drawn,        \* how many reservation tokens have been drawn for each
    held,         \* history: the tokens that answers gave to the viewer
    answered      \* history: <<k, s>> when an answer said that crossing k has ended as s

crossingVars == <<crossings, crossingsFile, spent, age, drawn, held, answered>>

CrossingState == {"none", "prepared", "reserved", "completed", "rolled_back"}
Open == {"prepared", "reserved"}
Ended == {"completed", "rolled_back"}
RegionCrossing == [state: CrossingState, user: Users \cup {Nobody},
                   to: Regions \cup {Nowhere}, token: Nat]
NoCrossing == [state |-> "none", user |-> Nobody, to |-> Nowhere, token |-> 0]

CrossingTypeOK ==
    /\ {crossings, crossingsFile} \subseteq [Crossings -> RegionCrossing]
    /\ spent \subseteq Crossings
    /\ age \in [Crossings -> {"young", "lapsed", "aged"}]
    /\ drawn \in [Crossings -> Nat]
    /\ held \in [Crossings -> SUBSET Nat]
    /\ answered \subseteq Crossings \X Ended

CrossingInit ==
    /\ crossings = [k \in Crossings |-> NoCrossing] /\ crossingsFile = crossings
    /\ spent = {} /\ answered = {}
    /\ age = [k \in Crossings |-> "young"]
    /\ drawn = [k \in Crossings |-> 0] /\ held = [k \in Crossings |-> {}]

----------------------------------------------------------------------------
WriteCrossings == crossingsFile' = crossings'
ReadCrossings  == crossings' = crossingsFile

Lapsed(k) == age[k] # "young"
\* Mutant: it is taken back to before it was prepared.
RolledBack_Aborted(c) == IF c.state \in Open THEN [c EXCEPT !.state = "aborted"] ELSE c
RolledBack(c) == IF c.state \in Open THEN [c EXCEPT !.state = "rolled_back"] ELSE c

Prepared(u, to, k) ==
    /\ k \notin spent
    /\ spent' = spent \cup {k}
    /\ crossings' = [crossings EXCEPT ![k] = [state |-> "prepared", user |-> u, to |-> to, token |-> 0]]
    /\ UNCHANGED <<age, drawn, held, answered>>

(* Who asks, and for which Region, must be what the crossing says.         *)
Bound(u, to, k) == crossings[k].state # "none" /\ crossings[k].user = u /\ crossings[k].to = to

CrossingRequest(answer) ==
    /\ \/ Succeeds("crossing") /\ WriteCrossings /\ answer
       \/ Throws("crossing") /\ UNCHANGED <<crossingsFile, held, answered>>
    /\ UNCHANGED <<landVars, spent, age>>

NoAnswer == UNCHANGED <<held, answered>>

(* A request for a crossing whose time is over rolls it back if it is      *)
(* open, writes the store in any case, and is refused.                     *)
TooLate(u, to, k) ==
    /\ Bound(u, to, k) /\ Lapsed(k)
    /\ crossings' = [crossings EXCEPT ![k] = RolledBack(@)]
    /\ UNCHANGED drawn
    /\ CrossingRequest(NoAnswer)

Reserve(u, to, k) ==
    /\ Bound(u, to, k) /\ ~Lapsed(k)
    /\ crossings[k].state = "prepared"
    /\ drawn' = [drawn EXCEPT ![k] = @ + 1]
    /\ crossings' = [crossings EXCEPT ![k].state = "reserved", ![k].token = drawn'[k]]
    /\ CrossingRequest(held' = [held EXCEPT ![k] = @ \cup {drawn'[k]}] /\ UNCHANGED answered)

(* Asked again, the reservation answers with the token it has and writes   *)
(* nothing.                                                                *)
ReserveAgain(u, to, k) ==
    /\ Bound(u, to, k) /\ ~Lapsed(k)
    /\ crossings[k].state = "reserved"
    /\ crossings[k].token \notin held[k]
    /\ held' = [held EXCEPT ![k] = @ \cup {crossings[k].token}]
    /\ UNCHANGED <<landVars, counted, crossings, crossingsFile, spent, age, drawn, answered>>

Complete(u, to, k, token) ==
    /\ Bound(u, to, k) /\ ~Lapsed(k)
    /\ crossings[k].state = "reserved"
    /\ token \in held[k] /\ token = crossings[k].token
    /\ crossings' = [crossings EXCEPT ![k].state = "completed"]
    /\ UNCHANGED drawn
    /\ CrossingRequest(answered' = answered \cup {<<k, "completed">>} /\ UNCHANGED held)

\* Mutant: whatever has not been rolled back is.
Rollback_Completed(u, k) ==
    /\ crossings[k].user = u
    /\ crossings[k].state \notin {"none", "rolled_back"}
    /\ crossings' = [crossings EXCEPT ![k].state = "rolled_back"]
    /\ UNCHANGED drawn
    /\ CrossingRequest(answered' = answered \cup {<<k, "rolled_back">>} /\ UNCHANGED held)

(* The time of the crossing plays no part.                                 *)
Rollback(u, k) ==
    /\ crossings[k].user = u
    /\ crossings[k].state \in Open
    /\ crossings' = [crossings EXCEPT ![k] = RolledBack(@)]
    /\ UNCHANGED drawn
    /\ CrossingRequest(answered' = answered \cup {<<k, "rolled_back">>} /\ UNCHANGED held)

(* Asked again, the rollback answers from memory and writes nothing: also  *)
(* when the write of the first one threw.                                  *)
RollbackAgain(u, k) ==
    /\ crossings[k].user = u
    /\ crossings[k].state = "rolled_back"
    /\ <<k, "rolled_back">> \notin answered
    /\ answered' = answered \cup {<<k, "rolled_back">>}
    /\ UNCHANGED <<landVars, counted, crossings, crossingsFile, spent, age, drawn, held>>

----------------------------------------------------------------------------
(* Time, the maintenance thread, a restart.                                *)
Lapse(k) ==
    /\ k \in spent /\ age[k] = "young"
    /\ age' = [age EXCEPT ![k] = "lapsed"]
    /\ UNCHANGED <<landVars, counted, crossings, crossingsFile, spent, drawn, held, answered>>

ADay(k) ==
    /\ age[k] = "lapsed" /\ crossings[k].state \in Ended
    /\ age' = [age EXCEPT ![k] = "aged"]
    /\ UNCHANGED <<landVars, counted, crossings, crossingsFile, spent, drawn, held, answered>>

Purged(k) ==
    IF age[k] = "aged" /\ crossings[k].state \in Ended THEN NoCrossing
    ELSE IF Lapsed(k) THEN RolledBack(crossings[k]) ELSE crossings[k]

(* It writes only what it has changed.  A write of its that throws ends    *)
(* the Core: that is a restart before the write.                           *)
PurgeExpired ==
    /\ \E k \in Crossings : Purged(k) # crossings[k]
    /\ crossings' = [k \in Crossings |-> Purged(k)]
    /\ WriteCrossings
    /\ UNCHANGED <<landVars, counted, spent, age, drawn, held, answered>>

(* The ends are dated in the file: one that was not written is not old.    *)
CrossingRestart ==
    /\ ReadCrossings
    /\ age' = [k \in Crossings |-> IF age[k] = "aged" /\ crossingsFile[k].state \in Open THEN "lapsed" ELSE age[k]]
    /\ UNCHANGED <<crossingsFile, spent, drawn, held, answered>>

CrossingChange ==
    \/ \E u \in Users, k \in Crossings :
          \/ \E to \in Regions : \/ TooLate(u, to, k) \/ Reserve(u, to, k) \/ ReserveAgain(u, to, k)
                                 \/ \E token \in held[k] : Complete(u, to, k, token)
          \/ Rollback(u, k) \/ RollbackAgain(u, k)
    \/ \E k \in Crossings : Lapse(k) \/ ADay(k)
    \/ PurgeExpired

----------------------------------------------------------------------------
(* What the viewer was told of a crossing stands, whatever viewer, expiry  *)
(* and maintenance do at the same time and wherever the Core restarts: an  *)
(* end that was answered is the end that memory and file show until they   *)
(* forget the crossing, and a token that was answered is the token of the  *)
(* reservation as long as there is one (docs/REGION-CROSSING-v3.md:24,     *)
(* "Completed, rolled-back and aborted transactions are terminal").  It    *)
(* does not hold once a write of the store has thrown: the repeated call   *)
(* then answers from memory what no file holds (crossing_store.cpp:234).   *)
AnswersStand ==
    ~thrown =>
        \A k \in Crossings, c \in {crossings, crossingsFile} :
            /\ \A s \in Ended : <<k, s>> \in answered => c[k].state = s \/ (c[k].state = "none" /\ age[k] = "aged")
            /\ c[k].state = "reserved" => held[k] = {c[k].token}
=============================================================================
