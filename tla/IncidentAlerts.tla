---------------------------- MODULE IncidentAlerts ----------------------------
(***************************************************************************)
(* The incident markers of unified notifications: send_incident,           *)
(* observe_incident and recover_incident_group of notifications/unified.py *)
(* over IncidentTracker of digest_snapshot/unified_contract.py.            *)
(*                                                                         *)
(* An alert is reserved in its incident's marker before it is sent, and is *)
(* never sent again for the same reservation.  Runs (cycles, the receipt   *)
(* heartbeat, probes) share the markers and the index of their group, and  *)
(* write them by compare-and-set on the version they read.  A run's        *)
(* observations carry one time stamp, and runs may observe out of order.   *)
(*                                                                         *)
(* A definition marked "Bug:" is a fault the properties must find.         *)
(***************************************************************************)
EXTENDS Naturals, FiniteSets

CONSTANTS
    Run,       \* runs that report incidents of one target
    StampOf,   \* when a run observed
    Reason,    \* incident reasons
    Grouped,   \* those of the group whose index is modelled; the others are
               \* recovered by name
    Severity,  \* ranks of an alert
    Tries,     \* attempts of one compare-and-set (8 in the code)
    SkipOwn,   \* may a recovery skip the issues of its own run? (skip_current_run)
    MaxAlerts, \* bound: alerts of one run
    NoRun

ASSUME AlertAssumption ==
    /\ StampOf \in [Run -> Nat \ {0}]
    /\ Severity \subseteq Nat /\ Grouped \subseteq Reason
    /\ Tries \in Nat \ {0} /\ MaxAlerts \in Nat
    /\ SkipOwn \subseteq BOOLEAN
    /\ NoRun \notin Run

Pc == {"idle", "read", "write", "advance", "stamp", "index", "list", "send", "record",
       "deliver", "named", "next", "recovered", "over"}
Delivery == {"not_attempted", "pending", "uncertain"}
Action == {"none", "send", "duplicate", "recovered"}

VARIABLES
    marker,   \* the marker of each incident; version 0: there is none
    index,    \* the reasons of the group, each with the run that raised it
    pc, reason, severity, \* the observation a run is making; severity 0: recovery
    seen, listed, \* what the run read of marker and index
    tries, action, generation, todo, made, \* locals of the run
    sends,    \* history: the alerts handed to the channel
    broken,   \* history: reservations whose run failed or lost a write
    reservedAt, \* history: the stamp of each incident's last reservation
    cleared   \* history: what a recovery set out to clear, but for what it has found
              \* active since

store == <<marker, index>>
local == <<reason, severity, seen, listed, tries, action, generation, todo, made>>
history == <<sends, broken, reservedAt, cleared>>
vars == <<store, pc, local, history>>

NoMarker == [version |-> 0, active |-> FALSE, severity |-> 0, generation |-> 0,
             delivery |-> "not_attempted", observed |-> 0]
\* What the recovery by name of an earlier healthy run has left.
LeftClear == [NoMarker EXCEPT !.version = 1]
NoIndex == [version |-> 0, raisedBy |-> [r \in Reason |-> NoRun]]

Init ==
    /\ \E m \in {NoMarker, LeftClear} :
          marker = [r \in Reason |-> IF r \in Grouped THEN NoMarker ELSE m]
    /\ index = NoIndex
    /\ pc = [w \in Run |-> "idle"]
    /\ \E r \in Reason : reason = [w \in Run |-> r]
    /\ severity = [w \in Run |-> 0]
    /\ seen = [w \in Run |-> NoMarker]
    /\ listed = [w \in Run |-> NoIndex]
    /\ tries = [w \in Run |-> 0]
    /\ action = [w \in Run |-> "none"]
    /\ generation = [w \in Run |-> 0]
    /\ todo = [w \in Run |-> {}]
    /\ made = [w \in Run |-> 0]
    /\ sends = {} /\ broken = {}
    /\ reservedAt = [r \in Reason |-> 0]
    /\ cleared = [w \in Run |-> {}]

GoTo(w, label) == pc' = [pc EXCEPT ![w] = label]
Recovering(w) == severity[w] = 0
\* The run goes on with its recovery, or with its next alert.
Finish(w) ==
    GoTo(w, IF ~Recovering(w) THEN "idle" ELSE IF reason[w] \in Grouped THEN "next" ELSE "named")
\* An error ends the observation, and the recovery it belongs to.
Abort(w) == GoTo(w, IF Recovering(w) THEN "over" ELSE "idle")

Reservation(w) == <<reason[w], generation[w]>>
Break(w) == broken' = IF action[w] = "send" THEN broken \union {Reservation(w)} ELSE broken

-----------------------------------------------------------------------------
(* What a run does: alerts, and once it is healthy a group recovery.       *)

Alert(w) ==
    \E r \in Reason, s \in Severity \ {0} :
        /\ pc[w] = "idle" /\ made[w] < MaxAlerts
        /\ made' = [made EXCEPT ![w] = @ + 1]
        /\ reason' = [reason EXCEPT ![w] = r]
        /\ severity' = [severity EXCEPT ![w] = s]
        /\ action' = [action EXCEPT ![w] = "none"]
        /\ tries' = [tries EXCEPT ![w] = 0]
        /\ GoTo(w, "read")
        /\ UNCHANGED <<store, seen, listed, generation, todo, history>>

\* recover_runtime: the reasons it knows by name, then the group.
Recover(w) ==
    /\ pc[w] = "idle"
    /\ GoTo(w, "named")
    /\ severity' = [severity EXCEPT ![w] = 0]
    /\ todo' = [todo EXCEPT ![w] = Reason \ Grouped]
    /\ cleared' = [cleared EXCEPT ![w] = Reason \ Grouped]
    /\ UNCHANGED <<store, reason, seen, listed, tries, action, generation, made, sends,
                   broken, reservedAt>>

\* What the index lists, but for the issues the run raised itself.
Listed(w, skip) ==
    {r \in Grouped : index.raisedBy[r] # NoRun /\ ~(skip /\ index.raisedBy[r] = w)}

\* recover_incident_group reads the index once.
RecoverGroup(w) ==
    /\ pc[w] = "named" /\ todo[w] = {}
    /\ GoTo(w, "next")
    /\ \E skip \in SkipOwn :
          /\ todo' = [todo EXCEPT ![w] = Listed(w, skip)]
          /\ cleared' = [cleared EXCEPT ![w] = @ \union Listed(w, skip)]
    /\ UNCHANGED <<store, reason, severity, seen, listed, tries, action, generation, made,
                   sends, broken, reservedAt>>

RecoverNext(w) ==
    \E r \in todo[w] :
        /\ pc[w] \in {"named", "next"}
        /\ GoTo(w, "read")
        /\ reason' = [reason EXCEPT ![w] = r]
        /\ todo' = [todo EXCEPT ![w] = @ \ {r}]
        /\ action' = [action EXCEPT ![w] = "none"]
        /\ tries' = [tries EXCEPT ![w] = 0]
        /\ UNCHANGED <<store, severity, seen, listed, generation, made, history>>

\* A probe or a receipt recovers by name only.
Recovered(w) ==
    /\ pc[w] \in {"named", "next"} /\ todo[w] = {}
    /\ GoTo(w, "recovered")
    /\ UNCHANGED <<store, local, history>>

-----------------------------------------------------------------------------
(* observe_incident.                                                       *)

\* Bug: an observation of the same instant is out of order as well.
StaleAtEqual(observed, w) == observed >= StampOf[w]
\* Bug: observations are taken in the order they arrive.
NeverStale(observed, w) == FALSE
\* _OrderedStore.read refuses a marker that was observed later.
Stale(observed, w) == observed > StampOf[w]

\* A recovery that finds m active does not clear it.
Finds(w, m) ==
    cleared' = IF Recovering(w) /\ m.active THEN [cleared EXCEPT ![w] = @ \ {reason[w]}] ELSE cleared

ReadMarker(w) ==
    LET m == marker[reason[w]]
    IN /\ pc[w] = "read"
       /\ IF Stale(m.observed, w)
          THEN Finish(w) /\ Finds(w, m) /\ UNCHANGED seen
          ELSE GoTo(w, "write") /\ seen' = [seen EXCEPT ![w] = m] /\ UNCHANGED cleared
       /\ UNCHANGED <<store, reason, severity, listed, tries, action, generation, todo, made,
                      sends, broken, reservedAt>>

\* IncidentTracker.observe: what the observation makes of the marker.
Outcome(w) ==
    IF Recovering(w) THEN "recovered"
    ELSE IF seen[w].active /\ severity[w] <= seen[w].severity THEN "duplicate"
    ELSE "send"

\* Bug: a recovery starts the count of the incident anew.
Restarted(m, outcome, s) ==
    [version |-> m.version, observed |-> m.observed,
     active |-> outcome # "recovered",
     severity |-> IF outcome = "recovered" THEN 0 ELSE s,
     generation |-> IF outcome = "recovered" THEN 0
                    ELSE IF outcome = "send" THEN m.generation + 1 ELSE m.generation,
     delivery |-> IF outcome = "send" THEN "pending" ELSE m.delivery]
Observed(m, outcome, s) ==
    [version |-> m.version, observed |-> m.observed,
     active |-> outcome # "recovered",
     severity |-> IF outcome = "recovered" THEN 0 ELSE s,
     generation |-> IF outcome = "send" THEN m.generation + 1 ELSE m.generation,
     delivery |-> IF outcome = "send" THEN "pending" ELSE m.delivery]

\* What the store holds after m was written over old.
Written(m, old, delivery, stamp) ==
    [version |-> old.version + 1, observed |-> stamp, active |-> m.active,
     severity |-> m.severity, generation |-> m.generation, delivery |-> delivery]

\* Bug: the version read is not compared.
WinsAlways(m, read) == TRUE
\* compare_and_set: nobody has written since the read.
Wins(m, read) == m.version = read.version

\* Bug: one attempt too many.
MayRetryOnceMore(n) == n < Tries
MayRetry(n) == n + 1 < Tries

WriteMarker(w) ==
    LET r == reason[w]
        new == Observed(seen[w], Outcome(w), severity[w])
        needed == seen[w].version = 0 \/ new # seen[w]
        wins == Wins(marker[r], seen[w])
    IN /\ pc[w] = "write"
       /\ IF needed /\ ~wins
          THEN /\ tries' = [tries EXCEPT ![w] = @ + 1]
               /\ IF MayRetry(tries[w]) THEN GoTo(w, "read") ELSE Abort(w)
               /\ UNCHANGED <<marker, action, generation, reservedAt>>
          ELSE /\ marker' = IF needed
                            THEN [marker EXCEPT ![r] = Written(new, @, new.delivery, StampOf[w])]
                            ELSE marker
               /\ action' = [action EXCEPT ![w] = Outcome(w)]
               /\ generation' = [generation EXCEPT ![w] = new.generation]
               /\ reservedAt' = [reservedAt EXCEPT ![r] =
                                   IF Outcome(w) = "send" THEN StampOf[w] ELSE @]
               /\ GoTo(w, "advance")
               /\ UNCHANGED tries
       /\ UNCHANGED <<index, reason, severity, seen, listed, todo, made, sends, broken, cleared>>

\* Only a fresh reservation is sent.
AfterIndex(w) == IF action[w] = "send" THEN "send" ELSE "idle"

\* An alert of the group is entered in its index.
AfterMarker(w) ==
    IF Recovering(w) THEN Finish(w)
    ELSE GoTo(w, IF reason[w] \in Grouped THEN "index" ELSE AfterIndex(w))

\* _OrderedStore.advance: the marker carries the stamp of its last observation.
Advance(w) ==
    LET m == marker[reason[w]]
    IN /\ pc[w] = "advance"
       /\ IF Stale(m.observed, w) THEN Finish(w)
          ELSE IF m.observed # StampOf[w] THEN GoTo(w, "stamp")
          ELSE AfterMarker(w)
       /\ seen' = [seen EXCEPT ![w] = m]
       /\ Finds(w, m)
       /\ UNCHANGED <<store, reason, severity, listed, tries, action, generation, todo, made,
                      sends, broken, reservedAt>>

\* A lost race is an error of the observation, not retried.
Stamp(w) ==
    LET r == reason[w]
    IN /\ pc[w] = "stamp"
       /\ IF Wins(marker[r], seen[w])
          THEN /\ marker' = [marker EXCEPT ![r] = Written(seen[w], @, seen[w].delivery, StampOf[w])]
               /\ AfterMarker(w)
               /\ UNCHANGED broken
          ELSE /\ Abort(w)
               /\ Break(w)
               /\ UNCHANGED marker
       /\ UNCHANGED <<index, local, sends, reservedAt, cleared>>

\* The group index names the run that raised a reason last.
ReadIndex(w) ==
    /\ pc[w] = "index"
    /\ listed' = [listed EXCEPT ![w] = index]
    /\ GoTo(w, IF index.raisedBy[reason[w]] # w THEN "list"
               ELSE AfterIndex(w))
    /\ UNCHANGED <<store, reason, severity, seen, tries, action, generation, todo, made, history>>

WriteIndex(w) ==
    /\ pc[w] = "list"
    /\ IF Wins(index, listed[w])
       THEN /\ index' = [version |-> index.version + 1,
                         raisedBy |-> [listed[w].raisedBy EXCEPT ![reason[w]] = w]]
            /\ GoTo(w, AfterIndex(w))
            /\ UNCHANGED broken
       ELSE /\ GoTo(w, "idle")
            /\ Break(w)
            /\ UNCHANGED index
    /\ UNCHANGED <<marker, local, sends, reservedAt, cleared>>

-----------------------------------------------------------------------------
(* send_incident and record_delivery.                                      *)

\* The channel may or may not deliver; its boolean answer is no receipt.
Send(w) ==
    /\ pc[w] = "send"
    /\ sends' = sends \union {[reservation |-> Reservation(w), run |-> w, alert |-> made[w]]}
    /\ GoTo(w, "record")
    /\ UNCHANGED <<store, local, broken, reservedAt, cleared>>

\* Bug: the marker may have moved on to another reservation.
AnyTransition(m, g) == TRUE
SameTransition(m, g) == m.generation = g

ReadDelivery(w) ==
    LET m == marker[reason[w]]
    IN /\ pc[w] = "record"
       /\ GoTo(w, IF SameTransition(m, generation[w]) THEN "deliver" ELSE "idle")
       /\ seen' = [seen EXCEPT ![w] = m]
       /\ UNCHANGED <<store, reason, severity, listed, tries, action, generation, todo, made,
                      history>>

WriteDelivery(w) ==
    LET r == reason[w]
    IN /\ pc[w] = "deliver"
       /\ GoTo(w, "idle")
       /\ marker' = IF Wins(marker[r], seen[w])
                    THEN [marker EXCEPT ![r] = Written(seen[w], @, "uncertain", seen[w].observed)]
                    ELSE marker
       /\ UNCHANGED <<index, local, history>>

\* A storage call that raises, before or after it took effect, ends the
\* observation; a crash ends the run.
Fail(w) ==
    /\ pc[w] \notin {"idle", "recovered", "over"}
    /\ GoTo(w, "over") \/ Abort(w)
    /\ IF pc[w] \in {"advance", "stamp", "index", "list", "send"} THEN Break(w) ELSE UNCHANGED broken
    /\ UNCHANGED <<store, local, sends, reservedAt, cleared>>

Step(w) ==
    \/ Alert(w) \/ Recover(w) \/ RecoverGroup(w) \/ RecoverNext(w) \/ Recovered(w)
    \/ ReadMarker(w) \/ WriteMarker(w) \/ Advance(w) \/ Stamp(w) \/ ReadIndex(w) \/ WriteIndex(w)
    \/ Send(w) \/ ReadDelivery(w) \/ WriteDelivery(w) \/ Fail(w)

Next == \E w \in Run : Step(w)

Spec == Init /\ [][Next]_vars

-----------------------------------------------------------------------------
(* Properties.                                                             *)

Marker ==
    [version : Nat, active : BOOLEAN, severity : Severity \union {0}, generation : Nat,
     delivery : Delivery, observed : Nat]
Index == [version : Nat, raisedBy : [Reason -> Run \union {NoRun}]]

\* Markers, index and the locals of the runs have their types, and a
\* compare-and-set is tried at most Tries times.
TypeOK ==
    /\ marker \in [Reason -> Marker] /\ index \in Index
    /\ pc \in [Run -> Pc]
    /\ reason \in [Run -> Reason] /\ severity \in [Run -> Severity \union {0}]
    /\ seen \in [Run -> Marker] /\ listed \in [Run -> Index]
    /\ tries \in [Run -> 0 .. Tries] /\ action \in [Run -> Action]
    /\ generation \in [Run -> Nat] /\ todo \in [Run -> SUBSET Reason]
    /\ made \in [Run -> 0 .. MaxAlerts]
    /\ sends \subseteq [reservation : Reason \X Nat, run : Run, alert : Nat]
    /\ broken \subseteq Reason \X Nat /\ reservedAt \in [Reason -> Nat]
    /\ cleared \in [Run -> SUBSET Reason]
    /\ \A w \in Run : pc[w] \in {"read", "write"} => tries[w] < Tries

\* However runs overlap, fail and repeat their alerts, one reservation is
\* handed to the channel once ("pending/uncertain is never blindly resent",
\* IncidentTracker).
SentOnce == \A a, b \in sends : a.reservation = b.reservation => a = b

\* Its inductive form: what a run read is the marker or an older one; no two
\* runs hold the same reservation, and none that was sent.
ReadsAreOld ==
    \A w \in Run :
        pc[w] \in {"write", "stamp", "deliver"} =>
            LET m == marker[reason[w]]
            IN seen[w].version <= m.version /\ (seen[w].version = m.version => seen[w] = m)
Holds(w) ==
    action[w] = "send" /\ pc[w] \in {"advance", "stamp", "index", "list", "send"}
ReservedOnce ==
    /\ \A w \in Run : Holds(w) =>
          /\ generation[w] <= marker[reason[w]].generation
          /\ \A a \in sends : a.reservation # Reservation(w)
    /\ \A w \in Run : pc[w] = "send" => Holds(w)
    /\ \A v, w \in Run : Holds(v) /\ Holds(w) /\ v # w => Reservation(v) # Reservation(w)
    /\ \A a \in sends : a.reservation[2] <= marker[a.reservation[1]].generation
SendInv == TypeOK /\ ReadsAreOld /\ ReservedOnce /\ SentOnce

\* A marker that says an alert went out, its delivery uncertain, says it of
\* the reservation that was sent and not of a later one (record_delivery).
UncertainMeansSent ==
    \A r \in Reason :
        marker[r].delivery = "uncertain" =>
            \E a \in sends : a.reservation = <<r, marker[r].generation>>

\* An alert that was reserved and is neither sent nor on its way was lost for
\* a reason: its run failed or lost a write, or a later observation was first
\* (send_incident after observe_incident).
UnsentIsExplained ==
    \A r \in Reason :
        LET current == <<r, marker[r].generation>>
        IN marker[r].delivery = "pending" =>
              \/ \E a \in sends : a.reservation = current
              \/ current \in broken
              \/ marker[r].observed > reservedAt[r]
              \/ \E w \in Run : Holds(w) /\ Reservation(w) = current

\* What a completed recovery set out to clear is clear, unless it was
\* reserved again by an observation that is not earlier, or the recovery itself
\* found it active: kept so by a later observation, or reserved by an earlier
\* one between the recovery's reading and its stamp (recover_incident_group,
\* _OrderedStore.advance, which stamps what it finds).
ClearedStaysCleared ==
    \A w \in Run :
        pc[w] = "recovered" =>
            \A r \in cleared[w] : marker[r].active => reservedAt[r] >= StampOf[w]

\* The marker says of each alert what became of it: an uncertain one was
\* sent, an unsent one lost for a reason, and a cleared one stays clear
\* (record_delivery, send_incident, recover_incident_group).
MarkersAreTrue == UncertainMeansSent /\ UnsentIsExplained /\ ClearedStaysCleared

\* Its inductive form: a run writes over no later observation, records what
\* was sent, and while it holds the current reservation was the last to reserve.
ReadsInTime ==
    \A w \in Run : pc[w] \in {"write", "stamp"} => seen[w].observed <= StampOf[w]
DeliveriesAreSent ==
    \A w \in Run :
        /\ pc[w] \in {"record", "deliver"} => \E a \in sends : a.reservation = Reservation(w)
        /\ pc[w] = "deliver" => seen[w].generation = generation[w]
HoldersReserved ==
    \A w \in Run : Holds(w) =>
        /\ ~Recovering(w)
        /\ generation[w] = marker[reason[w]].generation => reservedAt[reason[w]] = StampOf[w]

\* What a recovery has worked off stays clear: later writes carry later stamps.
Observing == {"read", "write", "advance", "stamp"}
StaysClear(w, r) ==
    /\ StampOf[w] <= marker[r].observed
    /\ marker[r].active => reservedAt[r] >= StampOf[w]
WorkedOff(w) == cleared[w] \ (IF pc[w] \in Observing THEN todo[w] \union {reason[w]} ELSE todo[w])
RecoveriesClear ==
    \A w \in Run :
        /\ pc[w] \in {"named", "next", "recovered"} => Recovering(w)
        /\ pc[w] = "recovered" => todo[w] = {}
        /\ Recovering(w) /\ pc[w] \in Observing \union {"named", "next", "recovered"} =>
              \A r \in WorkedOff(w) : StaysClear(w, r)
        /\ Recovering(w) /\ pc[w] = "stamp" /\ reason[w] \in cleared[w] => ~seen[w].active
MarkInv ==
    ReadsInTime /\ DeliveriesAreSent /\ HoldersReserved /\ UncertainMeansSent /\ UnsentIsExplained /\ RecoveriesClear
=============================================================================
