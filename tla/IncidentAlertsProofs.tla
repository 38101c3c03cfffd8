------------------------- MODULE IncidentAlertsProofs -------------------------
(***************************************************************************)
(* An alert is sent once per reservation: the compare-and-set of a marker  *)
(* makes each generation the reservation of one run, and a run sends what  *)
(* it reserved at most once.  And the marker says of each alert what       *)
(* became of it, and of each recovery that it holds.                       *)
(***************************************************************************)
EXTENDS IncidentAlerts, TLAPS

\* What observe writes is a marker (IncidentTracker.observe); the count of
\* reservations never goes back.
LEMMA ObservedType ==
    ASSUME NEW m \in Marker, NEW o \in Action, NEW s \in Severity \union {0}
    PROVE  /\ Observed(m, o, s) \in Marker
           /\ Observed(m, o, s).version = m.version
           /\ Observed(m, o, s).generation =
                 IF o = "send" THEN m.generation + 1 ELSE m.generation
  BY AlertAssumption DEF Observed, Marker, Delivery, Action

\* What compare_and_set writes is a marker.
LEMMA WrittenType ==
    ASSUME NEW m \in Marker, NEW old \in Marker, NEW d \in Delivery, NEW t \in Nat
    PROVE  Written(m, old, d, t) \in Marker
  BY DEF Written, Marker

\* The initial markers and index are well typed.
LEMMA NoMarkerType == NoMarker \in Marker /\ LeftClear \in Marker /\ NoIndex \in Index
  BY DEF NoMarker, LeftClear, NoIndex, Marker, Index, Delivery

\* Every step keeps the types of the markers, the index and the runs.
LEMMA TypeInvariant == TypeOK /\ [Next]_vars => TypeOK'
<1> SUFFICES ASSUME TypeOK, [Next]_vars PROVE TypeOK'
    OBVIOUS
<1> USE AlertAssumption
<1>1. CASE UNCHANGED vars
    BY <1>1 DEF TypeOK, vars, store, local, history
<1>2. ASSUME NEW w \in Run, Alert(w) PROVE TypeOK'
    BY <1>2 DEF TypeOK, Alert, GoTo, store, history, Pc, Action
<1>3. ASSUME NEW w \in Run, Recover(w) PROVE TypeOK'
    BY <1>3 DEF TypeOK, Recover, GoTo, store, Pc
<1>4. ASSUME NEW w \in Run, RecoverGroup(w) PROVE TypeOK'
    BY <1>4 DEF TypeOK, RecoverGroup, Listed, GoTo, store, Pc
<1>5. ASSUME NEW w \in Run, RecoverNext(w) PROVE TypeOK'
    BY <1>5 DEF TypeOK, RecoverNext, GoTo, store, history, Pc, Action
<1>6. ASSUME NEW w \in Run, Recovered(w) PROVE TypeOK'
    BY <1>6 DEF TypeOK, Recovered, GoTo, store, local, history, Pc
<1>7. ASSUME NEW w \in Run, ReadMarker(w) PROVE TypeOK'
    BY <1>7 DEF TypeOK, ReadMarker, GoTo, Finish, Finds, store, Pc
<1>8. ASSUME NEW w \in Run, WriteMarker(w) PROVE TypeOK'
  <2> DEFINE r == reason[w]
             new == Observed(seen[w], Outcome(w), severity[w])
  <2>1. Outcome(w) \in Action /\ r \in Reason /\ seen[w] \in Marker
        BY DEF TypeOK, Outcome, Action
  <2>2. new \in Marker
        BY <2>1, ObservedType DEF TypeOK
  <2>3. Written(new, marker[r], new.delivery, StampOf[w]) \in Marker
    <3>1. marker[r] \in Marker /\ StampOf[w] \in Nat /\ new.delivery \in Delivery
        BY <2>1, <2>2 DEF TypeOK, Marker
    <3> QED BY <2>2, <3>1, WrittenType
  <2>4. marker' \in [Reason -> Marker]
    <3>1. \/ marker' = marker
          \/ marker' = [marker EXCEPT ![r] = Written(new, marker[r], new.delivery, StampOf[w])]
        BY <1>8 DEF WriteMarker
    <3> QED BY <2>1, <2>3, <3>1 DEF TypeOK
  <2>5. /\ pc' \in [Run -> Pc] /\ tries' \in [Run -> 0 .. Tries]
        /\ \A v \in Run : pc'[v] \in {"read", "write"} => tries'[v] < Tries
    <3>1. tries[w] \in Nat /\ tries[w] < Tries /\ pc[w] = "write"
        BY <1>8 DEF WriteMarker, TypeOK
    <3>2. \/ tries' = tries /\ pc' = [pc EXCEPT ![w] = "advance"]
          \/ /\ tries' = [tries EXCEPT ![w] = @ + 1]
             /\ \/ tries[w] + 1 < Tries /\ pc' = [pc EXCEPT ![w] = "read"]
                \/ pc' = [pc EXCEPT ![w] = "over"] \/ pc' = [pc EXCEPT ![w] = "idle"]
        BY <1>8 DEF WriteMarker, GoTo, Abort, MayRetry
    <3> QED BY <3>1, <3>2 DEF TypeOK, Pc
  <2>6. action' \in [Run -> Action] /\ generation' \in [Run -> Nat]
    <3>1. new.generation \in Nat
        BY <2>2 DEF Marker
    <3>2. \/ action' = action /\ generation' = generation
          \/ /\ action' = [action EXCEPT ![w] = Outcome(w)]
             /\ generation' = [generation EXCEPT ![w] = new.generation]
        BY <1>8 DEF WriteMarker
    <3> QED BY <2>1, <3>1, <3>2 DEF TypeOK
  <2>7. reservedAt' \in [Reason -> Nat]
        BY <1>8 DEF WriteMarker, TypeOK
  <2> QED
        BY <1>8, <2>4, <2>5, <2>6, <2>7 DEF WriteMarker, TypeOK
<1>9. ASSUME NEW w \in Run, Advance(w) PROVE TypeOK'
  <2>1. \E label \in Pc \ {"read", "write"} : pc' = [pc EXCEPT ![w] = label]
        BY <1>9 DEF Advance, AfterMarker, AfterIndex, GoTo, Finish, Pc
  <2> QED
        BY <1>9, <2>1 DEF TypeOK, Advance, Finds, store
<1>10. ASSUME NEW w \in Run, Stamp(w) PROVE TypeOK'
  <2> DEFINE r == reason[w]
  <2>1. Written(seen[w], marker[r], seen[w].delivery, StampOf[w]) \in Marker
    <3>1. /\ seen[w] \in Marker /\ marker[r] \in Marker
          /\ StampOf[w] \in Nat /\ seen[w].delivery \in Delivery
        BY DEF TypeOK, Marker
    <3> QED BY <3>1, WrittenType
  <2>2. marker' \in [Reason -> Marker] /\ broken' \subseteq Reason \X Nat
        BY <1>10, <2>1 DEF Stamp, TypeOK, Break, Reservation
  <2>3. \E label \in Pc \ {"read", "write"} : pc' = [pc EXCEPT ![w] = label]
        BY <1>10 DEF Stamp, AfterMarker, AfterIndex, Abort, Finish, GoTo, Pc
  <2>4. /\ pc' \in [Run -> Pc]
        /\ \A v \in Run : pc'[v] \in {"read", "write"} => tries[v] < Tries
        BY <2>3 DEF TypeOK
  <2> QED
        BY <1>10, <2>2, <2>4 DEF Stamp, TypeOK, local
<1>11. ASSUME NEW w \in Run, ReadIndex(w) PROVE TypeOK'
    BY <1>11 DEF TypeOK, ReadIndex, AfterIndex, GoTo, store, history, Pc
<1>12. ASSUME NEW w \in Run, WriteIndex(w) PROVE TypeOK'
  <2>1. \E label \in Pc \ {"read", "write"} : pc' = [pc EXCEPT ![w] = label]
        BY <1>12 DEF WriteIndex, AfterIndex, GoTo, Pc
  <2>2. /\ pc' \in [Run -> Pc]
        /\ \A v \in Run : pc'[v] \in {"read", "write"} => tries[v] < Tries
        BY <2>1 DEF TypeOK
  <2>3. index' \in Index
    <3> DEFINE raised == [listed[w].raisedBy EXCEPT ![reason[w]] = w]
    <3>1. index' = index \/ index' = [version |-> index.version + 1, raisedBy |-> raised]
        BY <1>12 DEF WriteIndex
    <3>2. raised \in [Reason -> Run \union {NoRun}]
      <4>1. listed[w].raisedBy \in [Reason -> Run \union {NoRun}] /\ reason[w] \in Reason
          BY DEF TypeOK, Index
      <4> QED BY <4>1
    <3>3. index \in Index /\ index.version + 1 \in Nat
        BY DEF TypeOK, Index
    <3> HIDE DEF raised
    <3> QED BY <3>1, <3>2, <3>3 DEF Index
  <2>4. broken' \subseteq Reason \X Nat
        BY <1>12 DEF WriteIndex, TypeOK, Break, Reservation
  <2> QED
        BY <1>12, <2>2, <2>3, <2>4 DEF WriteIndex, TypeOK, local
<1>13. ASSUME NEW w \in Run, Send(w) PROVE TypeOK'
    BY <1>13 DEF TypeOK, Send, Reservation, GoTo, store, local, Pc
<1>14. ASSUME NEW w \in Run, ReadDelivery(w) PROVE TypeOK'
    BY <1>14 DEF TypeOK, ReadDelivery, GoTo, store, history, Pc
<1>15. ASSUME NEW w \in Run, WriteDelivery(w) PROVE TypeOK'
  <2> DEFINE r == reason[w]
  <2>1. Written(seen[w], marker[r], "uncertain", seen[w].observed) \in Marker
    <3>1. /\ seen[w] \in Marker /\ marker[r] \in Marker
          /\ seen[w].observed \in Nat /\ "uncertain" \in Delivery
        BY DEF TypeOK, Marker, Delivery
    <3> QED BY <3>1, WrittenType
  <2> QED
        BY <1>15, <2>1 DEF TypeOK, WriteDelivery, GoTo, local, history, Pc
<1>16. ASSUME NEW w \in Run, Fail(w) PROVE TypeOK'
    BY <1>16 DEF TypeOK, Fail, Abort, Break, Reservation, GoTo, store, local, Pc
<1> QED
    BY <1>1, <1>2, <1>3, <1>4, <1>5, <1>6, <1>7, <1>8, <1>9, <1>10, <1>11, <1>12, <1>13,
       <1>14, <1>15, <1>16 DEF Next, Step

-----------------------------------------------------------------------------
(* Markers only move forward.                                              *)

\* A marker a step writes has a higher version and no lower generation:
\* compare_and_set succeeds on the marker the run read, and observe only
\* counts up.
LEMMA MarkersAdvance ==
    ASSUME TypeOK, ReadsAreOld, NEW w \in Run, Step(w), NEW r \in Reason
    PROVE  \/ marker'[r] = marker[r]
           \/ /\ marker'[r].version > marker[r].version
              /\ marker'[r].generation >= marker[r].generation
<1> USE AlertAssumption
<1>1. /\ marker \in [Reason -> Marker] /\ reason[w] \in Reason /\ seen[w] \in Marker
      /\ severity[w] \in Severity \union {0} /\ StampOf[w] \in Nat
    BY DEF TypeOK
<1>2. CASE WriteMarker(w)
  <2> DEFINE new == Observed(seen[w], Outcome(w), severity[w])
             old == marker[reason[w]]
             next == Written(new, old, new.delivery, StampOf[w])
  <2>1. marker' = marker
        \/ (Wins(old, seen[w]) /\ marker' = [marker EXCEPT ![reason[w]] = next])
        \/ (new = seen[w] /\ marker' = marker)
        BY <1>2 DEF WriteMarker
  <2>2. Outcome(w) \in Action
        BY DEF Outcome, Action
  <2>3. /\ new \in Marker /\ new.generation >= seen[w].generation
        BY <1>1, <2>2, ObservedType DEF Marker
  <2>4. /\ next.version = old.version + 1 /\ next.generation = new.generation
        BY DEF Written
  <2>5. Wins(old, seen[w]) => seen[w] = old
        BY <1>2 DEF WriteMarker, ReadsAreOld, Wins
  <2> HIDE DEF new, next
  <2> QED BY <1>1, <2>1, <2>3, <2>4, <2>5 DEF Marker
<1>3. CASE Stamp(w)
  <2> DEFINE old == marker[reason[w]]
             next == Written(seen[w], old, seen[w].delivery, StampOf[w])
  <2>1. marker' = marker
        \/ (Wins(old, seen[w]) /\ marker' = [marker EXCEPT ![reason[w]] = next])
        BY <1>3 DEF Stamp
  <2>2. next.version = old.version + 1 /\ next.generation = seen[w].generation
        BY DEF Written
  <2>3. Wins(old, seen[w]) => seen[w] = old
        BY <1>3 DEF Stamp, ReadsAreOld, Wins
  <2> HIDE DEF next
  <2> QED BY <1>1, <2>1, <2>2, <2>3 DEF Marker
<1>4. CASE WriteDelivery(w)
  <2> DEFINE old == marker[reason[w]]
             next == Written(seen[w], old, "uncertain", seen[w].observed)
  <2>1. marker' = marker
        \/ (Wins(old, seen[w]) /\ marker' = [marker EXCEPT ![reason[w]] = next])
        BY <1>4 DEF WriteDelivery
  <2>2. next.version = old.version + 1 /\ next.generation = seen[w].generation
        BY DEF Written
  <2>3. Wins(old, seen[w]) => seen[w] = old
        BY <1>4 DEF WriteDelivery, ReadsAreOld, Wins
  <2> HIDE DEF next
  <2> QED BY <1>1, <2>1, <2>2, <2>3 DEF Marker
<1>5. CASE UNCHANGED marker
    BY <1>5
<1> QED
    BY <1>2, <1>3, <1>4, <1>5 DEF Step, Alert, Recover, RecoverGroup, RecoverNext, Recovered,
       ReadMarker, Advance, ReadIndex, WriteIndex, Send, ReadDelivery, Fail, store

\* A step is of one run: the others keep their place and what they hold.
LEMMA OthersKeep ==
    ASSUME TypeOK, NEW w \in Run, Step(w), NEW v \in Run, v # w
    PROVE  /\ pc'[v] = pc[v] /\ reason'[v] = reason[v] /\ seen'[v] = seen[v]
           /\ action'[v] = action[v] /\ generation'[v] = generation[v]
<1>1. pc'[v] = pc[v]
    BY DEF TypeOK, Step, Alert, Recover, RecoverGroup, RecoverNext, Recovered, ReadMarker,
       WriteMarker, Advance, Stamp, ReadIndex, WriteIndex, Send, ReadDelivery, WriteDelivery,
       Fail, GoTo, Finish, Abort, AfterMarker
<1>2. reason'[v] = reason[v] /\ seen'[v] = seen[v]
    BY DEF TypeOK, Step, Alert, Recover, RecoverGroup, RecoverNext, Recovered, ReadMarker,
       WriteMarker, Advance, Stamp, ReadIndex, WriteIndex, Send, ReadDelivery, WriteDelivery,
       Fail, local
<1>3. action'[v] = action[v] /\ generation'[v] = generation[v]
    BY DEF TypeOK, Step, Alert, Recover, RecoverGroup, RecoverNext, Recovered, ReadMarker,
       WriteMarker, Advance, Stamp, ReadIndex, WriteIndex, Send, ReadDelivery, WriteDelivery,
       Fail, local
<1> QED BY <1>1, <1>2, <1>3

\* What a run read is the marker, or one that was there before it.
LEMMA ReadsStayOld == TypeOK /\ ReadsAreOld /\ [Next]_vars => ReadsAreOld'
<1> SUFFICES ASSUME TypeOK, ReadsAreOld, [Next]_vars PROVE ReadsAreOld'
    OBVIOUS
<1>1. CASE UNCHANGED vars
    BY <1>1 DEF ReadsAreOld, vars, store, local
<1>2. ASSUME NEW w \in Run, Step(w) PROVE ReadsAreOld'
  <2> SUFFICES ASSUME NEW v \in Run, pc'[v] \in {"write", "stamp", "deliver"}
               PROVE  LET m == marker'[reason'[v]]
                      IN /\ seen'[v].version <= m.version
                         /\ seen'[v].version = m.version => seen'[v] = m
      BY DEF ReadsAreOld
  <2>1. CASE v # w
    <3>1. /\ pc'[v] = pc[v] /\ reason'[v] = reason[v] /\ seen'[v] = seen[v]
          /\ reason[v] \in Reason
        BY <1>2, <2>1, OthersKeep DEF TypeOK
    <3>2. /\ seen[v].version <= marker[reason[v]].version
          /\ seen[v].version = marker[reason[v]].version => seen[v] = marker[reason[v]]
        BY <3>1 DEF ReadsAreOld
    <3>3. \/ marker'[reason[v]] = marker[reason[v]]
          \/ marker'[reason[v]].version > marker[reason[v]].version
        BY <1>2, <3>1, MarkersAdvance
    <3>4. /\ seen[v] \in Marker /\ marker[reason[v]] \in Marker
          /\ marker'[reason[v]] \in Marker
      <4>1. TypeOK'
          BY <1>2, TypeInvariant DEF Next
      <4> QED BY <3>1, <4>1 DEF TypeOK
    <3> QED BY <3>1, <3>2, <3>3, <3>4 DEF Marker
  <2>2. CASE v = w
    <3>1. marker' = marker /\ reason' = reason /\ seen'[w] = marker[reason[w]]
        BY <1>2, <2>2 DEF TypeOK, Step, Alert, Recover, RecoverGroup, RecoverNext, Recovered,
           ReadMarker, WriteMarker, Advance, Stamp, ReadIndex, WriteIndex, Send, ReadDelivery,
           WriteDelivery, Fail, GoTo, Finish, Abort, AfterMarker, AfterIndex, store
    <3>2. marker[reason[w]].version \in Nat
        BY DEF TypeOK, Marker
    <3> QED BY <2>2, <3>1, <3>2
  <2> QED BY <2>1, <2>2
<1> QED BY <1>1, <1>2 DEF Next

-----------------------------------------------------------------------------
(* One run holds a reservation, and sends it once.                         *)

\* A run that reserved nothing and sent nothing keeps at most what it held
\* (Advance, Stamp, ReadIndex, WriteIndex on the way to send_incident).
LEMMA QuietStep ==
    ASSUME TypeOK, ReservedOnce, SentOnce, NEW w \in Run,
           \A v \in Run : v # w => (Holds(v)' => Holds(v)) /\ Reservation(v)' = Reservation(v)
                                 /\ reason'[v] = reason[v] /\ generation'[v] = generation[v]
                                 /\ (pc'[v] = "send" => pc[v] = "send" /\ Holds(v)'),
           Holds(w)' => /\ Holds(w) /\ Reservation(w)' = Reservation(w)
                        /\ reason'[w] = reason[w] /\ generation'[w] = generation[w],
           pc'[w] = "send" => Holds(w)',
           sends' = sends,
           \A r \in Reason : /\ marker[r].generation \in Nat /\ marker'[r].generation \in Nat
                            /\ marker'[r].generation >= marker[r].generation
    PROVE  ReservedOnce' /\ SentOnce'
<1>1. \A v \in Run : Holds(v)' =>
          /\ Holds(v) /\ Reservation(v)' = Reservation(v)
          /\ generation'[v] = generation[v] /\ reason'[v] = reason[v]
    OBVIOUS
<1>2. \A v \in Run : Holds(v)' =>
          /\ generation'[v] <= marker'[reason'[v]].generation
          /\ \A a \in sends' : a.reservation # Reservation(v)'
  <2> SUFFICES ASSUME NEW v \in Run, Holds(v)'
               PROVE  /\ generation'[v] <= marker'[reason'[v]].generation
                      /\ \A a \in sends' : a.reservation # Reservation(v)'
      OBVIOUS
  <2>1. generation[v] <= marker[reason[v]].generation
        BY <1>1 DEF ReservedOnce
  <2>2. generation[v] \in Nat /\ reason[v] \in Reason
        BY DEF TypeOK
  <2>3. \A a \in sends : a.reservation # Reservation(v)
        BY <1>1 DEF ReservedOnce
  <2> QED BY <1>1, <2>1, <2>2, <2>3
<1>3. \A u, v \in Run : Holds(u)' /\ Holds(v)' /\ u # v => Reservation(u)' # Reservation(v)'
    BY <1>1 DEF ReservedOnce
<1>4. \A a \in sends' : a.reservation[2] <= marker'[a.reservation[1]].generation
  <2> SUFFICES ASSUME NEW a \in sends
               PROVE  a.reservation[2] <= marker'[a.reservation[1]].generation
      OBVIOUS
  <2>1. a.reservation[1] \in Reason /\ a.reservation[2] \in Nat
        BY DEF TypeOK
  <2>2. a.reservation[2] <= marker[a.reservation[1]].generation
        BY DEF ReservedOnce
  <2> QED BY <2>1, <2>2
<1>5. \A v \in Run : pc'[v] = "send" => Holds(v)'
    OBVIOUS
<1>6. SentOnce'
    BY DEF SentOnce
<1> QED BY <1>2, <1>3, <1>4, <1>5, <1>6 DEF ReservedOnce

\* The generations of the markers are counts, and none goes back.
LEMMA GenerationsGrow ==
    ASSUME TypeOK, ReadsAreOld, NEW w \in Run, Step(w), NEW r \in Reason
    PROVE  /\ marker[r].generation \in Nat /\ marker'[r].generation \in Nat
           /\ marker'[r].generation >= marker[r].generation
<1>1. TypeOK'
    BY TypeInvariant DEF Next
<1>2. marker[r] \in Marker /\ marker'[r] \in Marker
    BY <1>1 DEF TypeOK
<1> QED BY <1>2, MarkersAdvance DEF Marker

\* A reservation (WriteMarker of an alert to be sent) is the count after the
\* last one, which nobody holds and nobody sent.
LEMMA FreshReservation ==
    ASSUME TypeOK, ReadsAreOld, NEW w \in Run, WriteMarker(w), action'[w] = "send",
           pc'[w] = "advance"
    PROVE  generation'[w] = marker[reason[w]].generation + 1
           /\ marker'[reason[w]].generation = generation'[w]
           /\ reason' = reason /\ sends' = sends
<1> DEFINE old == marker[reason[w]]
           new == Observed(seen[w], Outcome(w), severity[w])
           next == Written(new, old, new.delivery, StampOf[w])
           needed == seen[w].version = 0 \/ new # seen[w]
<1>1. /\ marker \in [Reason -> Marker] /\ reason[w] \in Reason /\ seen[w] \in Marker
      /\ severity[w] \in Severity \union {0} /\ pc[w] = "write"
      /\ action \in [Run -> Action] /\ generation \in [Run -> Nat] /\ pc \in [Run -> Pc]
    BY DEF TypeOK, WriteMarker
<1>2. /\ ~(needed /\ ~Wins(old, seen[w]))
      /\ action' = [action EXCEPT ![w] = Outcome(w)]
      /\ generation' = [generation EXCEPT ![w] = new.generation]
      /\ needed => marker' = [marker EXCEPT ![reason[w]] = next]
  <2>1. ~(needed /\ ~Wins(old, seen[w]))
    <3>1. ASSUME needed /\ ~Wins(old, seen[w]) PROVE FALSE
      <4>1. GoTo(w, "read") \/ Abort(w)
          BY <3>1 DEF WriteMarker
      <4> QED BY <1>1, <4>1 DEF GoTo, Abort
    <3> QED BY <3>1
  <2> QED BY <2>1 DEF WriteMarker
<1>3. Outcome(w) = "send"
    BY <1>1, <1>2
<1>4. new.generation = seen[w].generation + 1 /\ seen[w].generation \in Nat
    BY <1>3 DEF Observed, TypeOK, Marker
<1>5. needed
    BY <1>4
<1>6. seen[w] = old
    BY <1>1, <1>2, <1>5 DEF ReadsAreOld, Wins
<1>7. next.generation = new.generation
    BY DEF Written
<1>8. reason' = reason /\ sends' = sends
    BY DEF WriteMarker
<1> HIDE DEF new, next, needed
<1> QED BY <1>1, <1>2, <1>4, <1>5, <1>6, <1>7, <1>8

\* Every step keeps one holder per reservation, and one alert sent for it.
LEMMA ReservedStaysOnce ==
    TypeOK /\ ReadsAreOld /\ ReservedOnce /\ SentOnce /\ [Next]_vars
        => ReservedOnce' /\ SentOnce'
<1> SUFFICES ASSUME TypeOK, ReadsAreOld, ReservedOnce, SentOnce, [Next]_vars
             PROVE  ReservedOnce' /\ SentOnce'
    OBVIOUS
<1>1. CASE UNCHANGED vars
    BY <1>1 DEF ReservedOnce, SentOnce, Holds, Reservation, vars, store, local, history
<1>2. ASSUME NEW w \in Run, Step(w) PROVE ReservedOnce' /\ SentOnce'
  <2>1. \A v \in Run : v # w =>
            /\ Holds(v)' => Holds(v)
            /\ Reservation(v)' = Reservation(v)
            /\ reason'[v] = reason[v] /\ generation'[v] = generation[v]
            /\ pc'[v] = "send" => pc[v] = "send" /\ Holds(v)'
    <3> SUFFICES ASSUME NEW v \in Run, v # w
                 PROVE  /\ Holds(v)' => Holds(v)
                        /\ Reservation(v)' = Reservation(v)
                        /\ reason'[v] = reason[v] /\ generation'[v] = generation[v]
                        /\ pc'[v] = "send" => pc[v] = "send" /\ Holds(v)'
        OBVIOUS
    <3>1. /\ pc'[v] = pc[v] /\ reason'[v] = reason[v]
          /\ action'[v] = action[v] /\ generation'[v] = generation[v]
        BY <1>2, OthersKeep
    <3> QED BY <3>1 DEF Holds, Reservation, ReservedOnce
  <2>2. \A r \in Reason : /\ marker[r].generation \in Nat /\ marker'[r].generation \in Nat
                         /\ marker'[r].generation >= marker[r].generation
        BY <1>2, GenerationsGrow
  <2>3. CASE Send(w)
    <3> DEFINE sent == [reservation |-> Reservation(w), run |-> w, alert |-> made[w]]
    <3>1. /\ sends' = sends \union {sent} /\ ~Holds(w)' /\ Holds(w)
          /\ marker' = marker /\ reason' = reason /\ generation' = generation
          /\ pc'[w] = "record"
      BY <2>3 DEF Send, GoTo, ReservedOnce, TypeOK, store, local, Holds
    <3>2. /\ generation[w] <= marker[reason[w]].generation
          /\ \A a \in sends : a.reservation # Reservation(w)
      BY <3>1 DEF ReservedOnce
    <3>3. \A v \in Run : v # w /\ Holds(v)' => Reservation(v)' # Reservation(w)
      BY <2>1, <3>1 DEF ReservedOnce
    <3>4. \A v \in Run : Holds(v)' =>
              /\ generation'[v] <= marker'[reason'[v]].generation
              /\ \A a \in sends' : a.reservation # Reservation(v)'
      BY <2>1, <3>1, <3>3 DEF ReservedOnce
    <3>5. \A u, v \in Run : Holds(u)' /\ Holds(v)' /\ u # v => Reservation(u)' # Reservation(v)'
      BY <2>1, <3>1 DEF ReservedOnce
    <3>6. \A a \in sends' : a.reservation[2] <= marker'[a.reservation[1]].generation
      BY <3>1, <3>2 DEF ReservedOnce, Reservation
    <3>7. \A v \in Run : pc'[v] = "send" => Holds(v)'
      BY <2>1, <3>1
    <3>8. SentOnce'
      BY <3>1, <3>2 DEF SentOnce
    <3> QED BY <3>4, <3>5, <3>6, <3>7, <3>8 DEF ReservedOnce
  <2>4. CASE WriteMarker(w) /\ action'[w] = "send" /\ pc'[w] = "advance"
    <3>1. /\ generation'[w] = marker[reason[w]].generation + 1
          /\ marker'[reason[w]].generation = generation'[w]
          /\ reason' = reason /\ sends' = sends /\ reason[w] \in Reason
          /\ marker[reason[w]].generation \in Nat
      BY <2>2, <2>4, FreshReservation DEF TypeOK
    <3>2. /\ \A v \in Run : generation[v] \in Nat /\ reason[v] \in Reason
          /\ \A a \in sends : a.reservation[1] \in Reason /\ a.reservation[2] \in Nat
      BY DEF TypeOK
    <3>3. \A a \in sends : a.reservation # Reservation(w)'
      <4>1. \A a \in sends : a.reservation[2] <= marker[a.reservation[1]].generation
        BY DEF ReservedOnce
      <4>2. Reservation(w)' = <<reason[w], marker[reason[w]].generation + 1>>
        BY <3>1 DEF Reservation
      <4> QED BY <3>1, <3>2, <4>1, <4>2
    <3>4. \A v \in Run : v # w /\ Holds(v)' => Reservation(v)' # Reservation(w)'
      <4> SUFFICES ASSUME NEW v \in Run, v # w, Holds(v)', Reservation(v)' = Reservation(w)'
                   PROVE  FALSE
        OBVIOUS
      <4>1. reason[v] = reason[w] /\ generation[v] = marker[reason[w]].generation + 1
        BY <2>1, <3>1 DEF Reservation
      <4>2. generation[v] <= marker[reason[v]].generation
        BY <2>1 DEF ReservedOnce
      <4> QED BY <3>1, <4>1, <4>2
    <3>5. \A v \in Run : Holds(v)' =>
              /\ generation'[v] <= marker'[reason'[v]].generation
              /\ \A a \in sends' : a.reservation # Reservation(v)'
      <4> SUFFICES ASSUME NEW v \in Run, Holds(v)'
                   PROVE  /\ generation'[v] <= marker'[reason'[v]].generation
                          /\ \A a \in sends' : a.reservation # Reservation(v)'
        OBVIOUS
      <4>1. CASE v = w
        BY <3>1, <3>3, <4>1
      <4>2. CASE v # w
        <5>1. /\ Holds(v) /\ Reservation(v)' = Reservation(v)
              /\ generation'[v] = generation[v] /\ reason'[v] = reason[v]
          BY <2>1, <4>2
        <5>2. /\ generation[v] <= marker[reason[v]].generation
              /\ \A a \in sends : a.reservation # Reservation(v)
          BY <5>1 DEF ReservedOnce
        <5> QED BY <2>2, <3>1, <3>2, <5>1, <5>2
      <4> QED BY <4>1, <4>2
    <3>6. \A u, v \in Run : Holds(u)' /\ Holds(v)' /\ u # v => Reservation(u)' # Reservation(v)'
      BY <2>1, <3>4 DEF ReservedOnce
    <3>7. \A a \in sends' : a.reservation[2] <= marker'[a.reservation[1]].generation
      <4> SUFFICES ASSUME NEW a \in sends
                   PROVE  a.reservation[2] <= marker'[a.reservation[1]].generation
        BY <3>1
      <4>1. a.reservation[2] <= marker[a.reservation[1]].generation
        BY DEF ReservedOnce
      <4> QED BY <2>2, <3>2, <4>1
    <3>8. \A v \in Run : pc'[v] = "send" => Holds(v)'
      BY <2>1, <2>4
    <3>9. SentOnce'
      BY <3>1 DEF SentOnce
    <3> QED BY <3>5, <3>6, <3>7, <3>8, <3>9 DEF ReservedOnce
  <2>5. CASE ~Send(w) /\ ~(WriteMarker(w) /\ action'[w] = "send" /\ pc'[w] = "advance")
    <3>1. Holds(w)' => /\ Holds(w) /\ Reservation(w)' = Reservation(w)
                       /\ reason'[w] = reason[w] /\ generation'[w] = generation[w]
      <4>1. CASE WriteMarker(w)
        <5>1. ~Holds(w)'
          BY <2>5, <4>1 DEF WriteMarker, TypeOK, GoTo, Abort, Holds
        <5> QED BY <5>1
      <4>2. CASE ~WriteMarker(w)
        BY <1>2, <2>5, <4>2 DEF TypeOK, Step, Alert, Recover, RecoverGroup, RecoverNext,
           Recovered, ReadMarker, Advance, Stamp, ReadIndex, WriteIndex, ReadDelivery,
           WriteDelivery, Fail, GoTo, Finish, Abort, AfterMarker, AfterIndex, Holds,
           Reservation, local
      <4> QED BY <4>1, <4>2
    <3>2. pc'[w] = "send" => Holds(w)'
      BY <1>2, <2>5 DEF TypeOK, Step, Alert, Recover, RecoverGroup, RecoverNext,
         Recovered, ReadMarker, WriteMarker, Advance, Stamp, ReadIndex, WriteIndex,
         ReadDelivery, WriteDelivery, Fail, GoTo, Finish, Abort, AfterMarker, AfterIndex,
         Holds, local
    <3>3. sends' = sends
      BY <1>2, <2>5 DEF Step, Alert, Recover, RecoverGroup, RecoverNext,
         Recovered, ReadMarker, WriteMarker, Advance, Stamp, ReadIndex, WriteIndex,
         ReadDelivery, WriteDelivery, Fail, history
    <3> QED BY <2>1, <2>2, <3>1, <3>2, <3>3, QuietStep
  <2> QED BY <2>3, <2>4, <2>5
<1> QED BY <1>1, <1>2 DEF Next

-----------------------------------------------------------------------------
(* The marker says of each alert what became of it.                        *)

\* A step is of one run: the others keep what they observe and clear.
LEMMA OthersKeepPlace ==
    ASSUME TypeOK, NEW w \in Run, Step(w), NEW v \in Run, v # w
    PROVE  /\ pc'[v] = pc[v] /\ reason'[v] = reason[v] /\ severity'[v] = severity[v]
           /\ todo'[v] = todo[v] /\ cleared'[v] = cleared[v]
<1>1. severity'[v] = severity[v] /\ todo'[v] = todo[v]
    BY DEF TypeOK, Step, Alert, Recover, RecoverGroup, RecoverNext, Recovered, ReadMarker,
       WriteMarker, Advance, Stamp, ReadIndex, WriteIndex, Send, ReadDelivery, WriteDelivery,
       Fail, local
<1>2. cleared'[v] = cleared[v]
    BY DEF TypeOK, Step, Alert, Recover, RecoverGroup, RecoverNext, Recovered, ReadMarker,
       WriteMarker, Advance, Stamp, ReadIndex, WriteIndex, Send, ReadDelivery, WriteDelivery,
       Fail, history, Finds
<1> QED BY <1>1, <1>2, OthersKeep

\* The three writes of a marker: each is over the marker the run read, since
\* compare_and_set compares the version (observe, advance, record_delivery).
ObservationWritten(w) ==
    /\ WriteMarker(w) /\ seen[w] = marker[reason[w]]
    /\ pc'[w] = "advance" /\ action'[w] = Outcome(w)
    /\ generation'[w] = Observed(seen[w], Outcome(w), severity[w]).generation
    /\ reservedAt' = [reservedAt EXCEPT ![reason[w]] =
                        IF Outcome(w) = "send" THEN StampOf[w] ELSE @]
    /\ marker' = [marker EXCEPT ![reason[w]] =
                    Written(Observed(seen[w], Outcome(w), severity[w]), @,
                            Observed(seen[w], Outcome(w), severity[w]).delivery, StampOf[w])]
StampWritten(w) ==
    /\ Stamp(w) /\ seen[w] = marker[reason[w]] /\ AfterMarker(w)
    /\ broken' = broken /\ reservedAt' = reservedAt
    /\ marker' = [marker EXCEPT ![reason[w]] = Written(seen[w], @, seen[w].delivery, StampOf[w])]
DeliveryWritten(w) ==
    /\ WriteDelivery(w) /\ seen[w] = marker[reason[w]]
    /\ reservedAt' = reservedAt
    /\ marker' = [marker EXCEPT ![reason[w]] =
                    Written(seen[w], @, "uncertain", seen[w].observed)]
Writes(w) == ObservationWritten(w) \/ StampWritten(w) \/ DeliveryWritten(w)

\* A step that is none of them leaves the markers and the reservations alone.
LEMMA MarkerWrites ==
    ASSUME TypeOK, ReadsAreOld, NEW w \in Run, Step(w), ~Writes(w)
    PROVE  marker' = marker /\ reservedAt' = reservedAt
<1>1. CASE WriteMarker(w)
  <2> DEFINE old == marker[reason[w]]
             new == Observed(seen[w], Outcome(w), severity[w])
             needed == seen[w].version = 0 \/ new # seen[w]
  <2>1. /\ pc[w] = "write" /\ action \in [Run -> Action] /\ generation \in [Run -> Nat]
        /\ pc \in [Run -> Pc] /\ seen[w].generation \in Nat
        /\ reason[w] \in Reason /\ reservedAt \in [Reason -> Nat]
      BY <1>1 DEF WriteMarker, TypeOK, Marker
  <2>2. CASE needed /\ ~Wins(old, seen[w])
      BY <1>1, <2>2 DEF WriteMarker
  <2>3. CASE ~needed
    <3>1. Outcome(w) # "send"
      <4> SUFFICES ASSUME Outcome(w) = "send" PROVE FALSE
          OBVIOUS
      <4>1. new.generation = seen[w].generation + 1
          BY DEF Observed
      <4> QED BY <2>1, <2>3, <4>1
    <3> HIDE DEF new
    <3>2. /\ marker' = marker
          /\ reservedAt' = [reservedAt EXCEPT ![reason[w]] =
                              IF Outcome(w) = "send" THEN StampOf[w] ELSE @]
        BY <1>1, <2>3 DEF WriteMarker, new
    <3> QED BY <2>1, <3>1, <3>2
  <2>4. CASE needed /\ Wins(old, seen[w])
    <3>1. seen[w] = old
        BY <2>1, <2>4 DEF ReadsAreOld, Wins
    <3>2. /\ GoTo(w, "advance")
          /\ action' = [action EXCEPT ![w] = Outcome(w)]
          /\ generation' = [generation EXCEPT ![w] = new.generation]
          /\ reservedAt' = [reservedAt EXCEPT ![reason[w]] =
                              IF Outcome(w) = "send" THEN StampOf[w] ELSE @]
          /\ marker' = [marker EXCEPT ![reason[w]] =
                          Written(new, @, new.delivery, StampOf[w])]
        BY <1>1, <2>4 DEF WriteMarker
    <3>3. ObservationWritten(w)
        BY <1>1, <2>1, <3>1, <3>2 DEF ObservationWritten, GoTo
    <3> QED BY <3>3 DEF Writes
  <2> QED BY <2>2, <2>3, <2>4
<1>2. CASE Stamp(w)
  <2>1. CASE Wins(marker[reason[w]], seen[w])
    <3>1. seen[w] = marker[reason[w]]
        BY <1>2, <2>1 DEF Stamp, ReadsAreOld, Wins
    <3>2. StampWritten(w)
        BY <1>2, <2>1, <3>1 DEF Stamp, StampWritten
    <3> QED BY <3>2 DEF Writes
  <2>2. CASE ~Wins(marker[reason[w]], seen[w])
      BY <1>2, <2>2 DEF Stamp
  <2> QED BY <2>1, <2>2
<1>3. CASE WriteDelivery(w)
  <2>1. CASE Wins(marker[reason[w]], seen[w])
    <3>1. seen[w] = marker[reason[w]]
        BY <1>3, <2>1 DEF WriteDelivery, ReadsAreOld, Wins
    <3>2. DeliveryWritten(w)
        BY <1>3, <2>1, <3>1 DEF WriteDelivery, DeliveryWritten, history
    <3> QED BY <3>2 DEF Writes
  <2>2. CASE ~Wins(marker[reason[w]], seen[w])
      BY <1>3, <2>2 DEF WriteDelivery, history
  <2> QED BY <2>1, <2>2
<1> QED
    BY <1>1, <1>2, <1>3 DEF Step, Alert, Recover, RecoverGroup, RecoverNext, Recovered,
       ReadMarker, Advance, ReadIndex, WriteIndex, Send, ReadDelivery, Fail, store, history

\* What a write leaves in the marker it writes; the other markers it leaves.
LEMMA WriteEffect ==
    ASSUME TypeOK, NEW w \in Run, Writes(w), NEW r \in Reason
    PROVE  /\ r # reason[w] => marker'[r] = marker[r] /\ reservedAt'[r] = reservedAt[r]
           /\ ObservationWritten(w) /\ r = reason[w] =>
                 /\ marker'[r].observed = StampOf[w]
                 /\ marker'[r].active <=> Outcome(w) # "recovered"
                 /\ Outcome(w) = "send" =>
                       /\ marker'[r].delivery = "pending" /\ reservedAt'[r] = StampOf[w]
                       /\ marker'[r].generation = marker[r].generation + 1
                 /\ Outcome(w) # "send" =>
                       /\ marker'[r].delivery = marker[r].delivery
                       /\ reservedAt'[r] = reservedAt[r]
                       /\ marker'[r].generation = marker[r].generation
                 /\ Outcome(w) = "duplicate" => marker[r].active
                 /\ generation'[w] = marker'[r].generation
           /\ StampWritten(w) /\ r = reason[w] =>
                 /\ marker'[r].observed = StampOf[w] /\ marker'[r].active = marker[r].active
                 /\ marker'[r].delivery = marker[r].delivery
                 /\ marker'[r].generation = marker[r].generation
                 /\ reservedAt'[r] = reservedAt[r]
           /\ DeliveryWritten(w) /\ r = reason[w] =>
                 /\ marker'[r].observed = marker[r].observed
                 /\ marker'[r].active = marker[r].active
                 /\ marker'[r].delivery = "uncertain"
                 /\ marker'[r].generation = marker[r].generation
                 /\ reservedAt'[r] = reservedAt[r]
<1>1. marker \in [Reason -> Marker] /\ reservedAt \in [Reason -> Nat] /\ reason[w] \in Reason
    BY DEF TypeOK
<1>2. r # reason[w] => marker'[r] = marker[r] /\ reservedAt'[r] = reservedAt[r]
    BY <1>1 DEF Writes, ObservationWritten, StampWritten, DeliveryWritten
<1>3. ASSUME ObservationWritten(w), r = reason[w]
      PROVE  /\ marker'[r].observed = StampOf[w]
             /\ marker'[r].active <=> Outcome(w) # "recovered"
             /\ Outcome(w) = "send" =>
                   /\ marker'[r].delivery = "pending" /\ reservedAt'[r] = StampOf[w]
                   /\ marker'[r].generation = marker[r].generation + 1
             /\ Outcome(w) # "send" =>
                   /\ marker'[r].delivery = marker[r].delivery
                   /\ reservedAt'[r] = reservedAt[r]
                   /\ marker'[r].generation = marker[r].generation
             /\ Outcome(w) = "duplicate" => marker[r].active
             /\ generation'[w] = marker'[r].generation
  <2> DEFINE new == Observed(seen[w], Outcome(w), severity[w])
  <2>1. /\ marker'[r] = Written(new, marker[r], new.delivery, StampOf[w])
        /\ reservedAt'[r] = IF Outcome(w) = "send" THEN StampOf[w] ELSE reservedAt[r]
        /\ seen[w] = marker[r] /\ generation'[w] = new.generation
      BY <1>1, <1>3 DEF ObservationWritten
  <2>2. /\ marker'[r].observed = StampOf[w] /\ marker'[r].active = new.active
        /\ marker'[r].delivery = new.delivery /\ marker'[r].generation = new.generation
      BY <2>1 DEF Written
  <2>3. /\ new.active <=> Outcome(w) # "recovered"
        /\ new.delivery = IF Outcome(w) = "send" THEN "pending" ELSE marker[r].delivery
        /\ new.generation = IF Outcome(w) = "send" THEN marker[r].generation + 1
                            ELSE marker[r].generation
      BY <2>1 DEF Observed
  <2>4. Outcome(w) = "duplicate" => marker[r].active
      BY <2>1 DEF Outcome
  <2> HIDE DEF new
  <2> QED BY <2>1, <2>2, <2>3, <2>4
<1>4. ASSUME StampWritten(w), r = reason[w]
      PROVE  /\ marker'[r].observed = StampOf[w] /\ marker'[r].active = marker[r].active
             /\ marker'[r].delivery = marker[r].delivery
             /\ marker'[r].generation = marker[r].generation
             /\ reservedAt'[r] = reservedAt[r]
    BY <1>1, <1>4 DEF StampWritten, Written
<1>5. ASSUME DeliveryWritten(w), r = reason[w]
      PROVE  /\ marker'[r].observed = marker[r].observed /\ marker'[r].active = marker[r].active
             /\ marker'[r].delivery = "uncertain"
             /\ marker'[r].generation = marker[r].generation
             /\ reservedAt'[r] = reservedAt[r]
    BY <1>1, <1>5 DEF DeliveryWritten, Written
<1> QED BY <1>2, <1>3, <1>4, <1>5

\* What a run read in time stays so: read and advance refuse a marker that was
\* observed later (_OrderedStore).
LEMMA ReadsStayInTime ==
    ASSUME TypeOK, ReadsInTime, NEW w \in Run, Step(w)
    PROVE  ReadsInTime'
<1> SUFFICES ASSUME NEW v \in Run, pc'[v] \in {"write", "stamp"}
             PROVE  seen'[v].observed <= StampOf[v]
    BY DEF ReadsInTime
<1>1. CASE v # w
    BY <1>1, OthersKeep DEF ReadsInTime
<1>2. CASE v = w
  <2>1. seen'[w] = marker[reason[w]] /\ ~Stale(marker[reason[w]].observed, w)
      BY <1>2 DEF TypeOK, Step, Alert, Recover, RecoverGroup, RecoverNext, Recovered,
         ReadMarker, WriteMarker, Advance, Stamp, ReadIndex, WriteIndex, Send, ReadDelivery,
         WriteDelivery, Fail, GoTo, Finish, Abort, AfterMarker, AfterIndex, store
  <2>2. marker[reason[w]].observed \in Nat /\ StampOf[w] \in Nat
      BY AlertAssumption DEF TypeOK, Marker
  <2> QED BY <1>2, <2>1, <2>2 DEF Stale
<1> QED BY <1>1, <1>2

\* A delivery is recorded of an alert that was sent (record_delivery).
LEMMA DeliveriesStaySent ==
    ASSUME TypeOK, DeliveriesAreSent, NEW w \in Run, Step(w)
    PROVE  DeliveriesAreSent'
<1>1. sends \subseteq sends'
    BY DEF Step, Alert, Recover, RecoverGroup, RecoverNext, Recovered, ReadMarker,
       WriteMarker, Advance, Stamp, ReadIndex, WriteIndex, Send, ReadDelivery, WriteDelivery,
       Fail, history
<1> SUFFICES ASSUME NEW v \in Run
             PROVE  /\ pc'[v] \in {"record", "deliver"} =>
                          \E a \in sends' : a.reservation = Reservation(v)'
                    /\ pc'[v] = "deliver" => seen'[v].generation = generation'[v]
    BY DEF DeliveriesAreSent
<1>2. CASE v # w
  <2>1. /\ pc'[v] = pc[v] /\ seen'[v] = seen[v] /\ generation'[v] = generation[v]
        /\ Reservation(v)' = Reservation(v)
      BY <1>2, OthersKeep DEF Reservation
  <2> QED BY <1>1, <2>1 DEF DeliveriesAreSent
<1>3. CASE v = w
  <2>1. CASE Send(w)
    <3>1. pc'[w] = "record" /\ Reservation(w)' = Reservation(w)
        BY <2>1 DEF Send, GoTo, TypeOK, local, Reservation
    <3>2. [reservation |-> Reservation(w), run |-> w, alert |-> made[w]] \in sends'
        BY <2>1 DEF Send
    <3> QED BY <1>3, <3>1, <3>2
  <2>2. CASE ReadDelivery(w)
    <3>1. /\ pc[w] = "record" /\ Reservation(w)' = Reservation(w)
          /\ pc'[w] = "deliver" => seen'[w].generation = generation'[w]
        BY <2>2 DEF ReadDelivery, GoTo, TypeOK, store, Reservation, SameTransition
    <3> QED BY <1>1, <1>3, <3>1 DEF DeliveriesAreSent
  <2>3. CASE ~Send(w) /\ ~ReadDelivery(w)
    <3>1. pc'[w] \notin {"record", "deliver"}
        BY <2>3 DEF TypeOK, Step, Alert, Recover, RecoverGroup, RecoverNext, Recovered,
           ReadMarker, WriteMarker, Advance, Stamp, ReadIndex, WriteIndex, WriteDelivery,
           Fail, GoTo, Finish, Abort, AfterMarker, AfterIndex
    <3> QED BY <1>3, <3>1
  <2> QED BY <2>1, <2>2, <2>3
<1> QED BY <1>2, <1>3

\* A run that holds a reservation after a step held it before, or has just
\* made it (WriteMarker of an alert to be sent).
LEMMA HoldersAfter ==
    ASSUME TypeOK, ReadsAreOld, NEW w \in Run, Step(w), NEW v \in Run, Holds(v)'
    PROVE  \/ /\ Holds(v) /\ Reservation(v)' = Reservation(v)
              /\ reason'[v] = reason[v] /\ generation'[v] = generation[v]
              /\ severity'[v] = severity[v]
           \/ v = w /\ ObservationWritten(w) /\ Outcome(w) = "send"
<1>1. CASE v # w
    BY <1>1, OthersKeep, OthersKeepPlace DEF Holds, Reservation
<1>2. CASE v = w /\ WriteMarker(w)
  <2>1. pc'[w] = "advance" /\ action'[w] = "send"
    <3>1. pc'[w] \in {"read", "idle", "over", "advance"}
        BY <1>2 DEF WriteMarker, TypeOK, GoTo, Abort
    <3> QED BY <1>2, <3>1 DEF Holds
  <2>2. marker'[reason[w]].generation = marker[reason[w]].generation + 1
      BY <1>2, <2>1, FreshReservation
  <2>3. marker' # marker
      BY <2>2 DEF TypeOK, Marker
  <2>4. Writes(w)
      BY <2>3, MarkerWrites
  <2>5. ObservationWritten(w)
    <3>1. pc[w] = "write"
        BY <1>2 DEF WriteMarker
    <3> QED BY <2>4, <3>1 DEF Writes, StampWritten, Stamp, DeliveryWritten, WriteDelivery
  <2> QED BY <1>2, <2>1, <2>5 DEF ObservationWritten
<1>3. CASE v = w /\ ~WriteMarker(w)
    BY <1>3 DEF TypeOK, Step, Alert, Recover, RecoverGroup, RecoverNext, Recovered,
       ReadMarker, Advance, Stamp, ReadIndex, WriteIndex, Send, ReadDelivery, WriteDelivery,
       Fail, GoTo, Finish, Abort, AfterMarker, AfterIndex, Holds, Reservation, local
<1> QED BY <1>1, <1>2, <1>3

\* A run that is to send or to stamp made the last reservation of its incident,
\* unless a later one was made (observe, send_incident).
LEMMA HoldersStayReserved ==
    ASSUME TypeOK, ReadsAreOld, ReservedOnce, HoldersReserved, NEW w \in Run, Step(w)
    PROVE  HoldersReserved'
<1> SUFFICES ASSUME NEW v \in Run, Holds(v)'
             PROVE  /\ ~Recovering(v)'
                    /\ generation'[v] = marker'[reason'[v]].generation =>
                          reservedAt'[reason'[v]] = StampOf[v]
    BY DEF HoldersReserved
<1>1. CASE v = w /\ ObservationWritten(w) /\ Outcome(w) = "send"
  <2>1. /\ reason'[w] = reason[w] /\ severity'[w] = severity[w] /\ ~Recovering(w)
        /\ reason[w] \in Reason
      BY <1>1 DEF ObservationWritten, WriteMarker, Outcome, TypeOK
  <2>2. reservedAt'[reason[w]] = StampOf[w]
      BY <1>1, <2>1, WriteEffect DEF Writes
  <2> QED BY <1>1, <2>1, <2>2 DEF Recovering
<1>2. CASE /\ Holds(v) /\ Reservation(v)' = Reservation(v)
           /\ reason'[v] = reason[v] /\ generation'[v] = generation[v]
           /\ severity'[v] = severity[v]
  <2> DEFINE r == reason[v]
  <2>1. /\ r \in Reason /\ generation[v] \in Nat
        /\ generation[v] <= marker[r].generation /\ ~Recovering(v)
        /\ generation[v] = marker[r].generation => reservedAt[r] = StampOf[v]
      BY <1>2 DEF TypeOK, ReservedOnce, HoldersReserved
  <2>2. /\ marker[r].generation \in Nat /\ marker'[r].generation \in Nat
        /\ marker'[r].generation >= marker[r].generation
      BY <2>1, GenerationsGrow
  <2>3. reservedAt'[r] = reservedAt[r] \/ marker'[r].generation = marker[r].generation + 1
    <3>1. CASE ~Writes(w)
        BY <3>1, MarkerWrites
    <3>2. CASE Writes(w)
        BY <2>1, <3>2, WriteEffect DEF Writes
    <3> QED BY <3>1, <3>2
  <2>4. ~Recovering(v)'
      BY <1>2, <2>1 DEF Recovering
  <2>5. ASSUME generation[v] = marker'[r].generation PROVE reservedAt'[r] = StampOf[v]
    <3>1. marker'[r].generation = marker[r].generation
        BY <2>1, <2>2, <2>5
    <3>2. reservedAt'[r] = reservedAt[r]
        BY <2>2, <2>3, <3>1
    <3> QED BY <2>1, <2>5, <3>1, <3>2
  <2> QED BY <1>2, <2>4, <2>5
<1> QED BY <1>1, <1>2, HoldersAfter

\* An uncertain delivery stays one of a reservation that was sent: only
\* record_delivery writes it, over the transition it is about.
LEMMA UncertainStaysSent ==
    ASSUME TypeOK, ReadsAreOld, DeliveriesAreSent, UncertainMeansSent, NEW w \in Run, Step(w)
    PROVE  UncertainMeansSent'
<1> SUFFICES ASSUME NEW r \in Reason, marker'[r].delivery = "uncertain"
             PROVE  \E a \in sends' : a.reservation = <<r, marker'[r].generation>>
    BY DEF UncertainMeansSent
<1>1. sends \subseteq sends'
    BY DEF Step, Alert, Recover, RecoverGroup, RecoverNext, Recovered, ReadMarker,
       WriteMarker, Advance, Stamp, ReadIndex, WriteIndex, Send, ReadDelivery, WriteDelivery,
       Fail, history
<1>2. CASE /\ marker'[r].delivery = marker[r].delivery
           /\ marker'[r].generation = marker[r].generation
    BY <1>1, <1>2 DEF UncertainMeansSent
<1>3. CASE DeliveryWritten(w) /\ r = reason[w]
  <2>1. pc[w] = "deliver" /\ seen[w] = marker[r]
      BY <1>3 DEF DeliveryWritten, WriteDelivery
  <2>2. \E a \in sends : a.reservation = <<r, marker[r].generation>>
      BY <1>3, <2>1 DEF DeliveriesAreSent, Reservation
  <2>3. marker'[r].generation = marker[r].generation
      BY <1>3, WriteEffect DEF Writes
  <2> QED BY <1>1, <2>2, <2>3
<1>4. CASE ObservationWritten(w) /\ r = reason[w] /\ Outcome(w) = "send"
    BY <1>4, WriteEffect DEF Writes
<1>5. CASE ~Writes(w) \/ r # reason[w]
    BY <1>2, <1>5, MarkerWrites, WriteEffect
<1>6. CASE Writes(w) /\ r = reason[w] /\ ~DeliveryWritten(w)
           /\ ~(ObservationWritten(w) /\ Outcome(w) = "send")
    BY <1>2, <1>6, WriteEffect DEF Writes
<1> QED BY <1>3, <1>4, <1>5, <1>6

\* A reservation that is not current any more, was sent, or was given up is no
\* longer held: what became of it is on record.
Explained(r) ==
    \/ \E a \in sends : a.reservation = <<r, marker[r].generation>>
    \/ <<r, marker[r].generation>> \in broken
    \/ marker[r].observed > reservedAt[r]
    \/ \E w \in Run : Holds(w) /\ Reservation(w) = <<r, marker[r].generation>>

\* A holder of the current reservation goes on with it, sends it, breaks it,
\* or finds that a later observation was first (Advance, Stamp, WriteIndex,
\* Fail).
LEMMA HolderAccounts ==
    ASSUME TypeOK, HoldersReserved, NEW w \in Run, Step(w), NEW v \in Run, Holds(v),
           generation[v] = marker[reason[v]].generation
    PROVE  \/ Holds(v)' /\ Reservation(v)' = Reservation(v)
           \/ \E a \in sends' : a.reservation = Reservation(v)
           \/ Reservation(v) \in broken'
           \/ /\ marker[reason[v]].observed > reservedAt[reason[v]]
              /\ marker' = marker /\ reservedAt' = reservedAt
<1>1. CASE v # w
    BY <1>1, OthersKeep DEF Holds, Reservation
<1>2. ASSUME v = w, Send(w) PROVE \E a \in sends' : a.reservation = Reservation(w)
  <2>1. [reservation |-> Reservation(w), run |-> w, alert |-> made[w]] \in sends'
      BY <1>2 DEF Send
  <2> QED BY <2>1
<1>3. CASE v = w /\ Advance(w) /\ Stale(marker[reason[w]].observed, w)
  <2>1. reservedAt[reason[w]] = StampOf[w]
      BY <1>3 DEF HoldersReserved
  <2>2. marker' = marker /\ reservedAt' = reservedAt
      BY <1>3 DEF Advance, store
  <2> QED BY <1>3, <2>1, <2>2 DEF Stale
<1>4. ASSUME v = w, Advance(w), ~Stale(marker[reason[w]].observed, w)
      PROVE  Holds(w)' /\ Reservation(w)' = Reservation(w)
  <2>1. pc'[w] \in {"stamp", "index", "send"}
    <3>1. ~Recovering(w) /\ action[w] = "send"
        BY <1>4 DEF HoldersReserved, Holds
    <3> QED BY <1>4, <3>1 DEF Advance, AfterMarker, AfterIndex, GoTo, TypeOK
  <2> QED BY <1>4, <2>1 DEF Advance, Holds, Reservation
<1>5. ASSUME v = w, Stamp(w)
      PROVE  \/ Holds(w)' /\ Reservation(w)' = Reservation(w)
             \/ Reservation(w) \in broken'
  <2>1. ~Recovering(w) /\ action[w] = "send"
      BY <1>5 DEF HoldersReserved, Holds
  <2>2. \/ pc'[w] \in {"index", "send"}
        \/ Reservation(w) \in broken'
      BY <1>5, <2>1 DEF Stamp, AfterMarker, AfterIndex, GoTo, TypeOK, Break
  <2> QED BY <1>5, <2>1, <2>2 DEF Stamp, Holds, Reservation, local
<1>6. ASSUME v = w, ReadIndex(w) \/ WriteIndex(w)
      PROVE  \/ Holds(w)' /\ Reservation(w)' = Reservation(w)
             \/ Reservation(w) \in broken'
  <2>1. action[w] = "send"
      BY <1>6 DEF Holds
  <2>2. \/ pc'[w] \in {"list", "send"}
        \/ Reservation(w) \in broken'
      BY <1>6, <2>1 DEF ReadIndex, WriteIndex, AfterIndex, GoTo, TypeOK, Break
  <2> QED BY <1>6, <2>1, <2>2 DEF ReadIndex, WriteIndex, Holds, Reservation, local
<1>7. ASSUME v = w, Fail(w) PROVE Reservation(w) \in broken'
    BY <1>7 DEF Fail, Holds, Break
<1>8. CASE v = w /\ ~(Send(w) \/ Advance(w) \/ Stamp(w) \/ ReadIndex(w) \/ WriteIndex(w)
                      \/ Fail(w))
  <2>1. pc[w] \in {"advance", "stamp", "index", "list", "send"}
      BY <1>8 DEF Holds
  <2> QED BY <1>8, <2>1 DEF Step, Alert, Recover, RecoverGroup, RecoverNext, Recovered,
         ReadMarker, WriteMarker, ReadDelivery, WriteDelivery
<1> QED BY <1>1, <1>2, <1>3, <1>4, <1>5, <1>6, <1>7, <1>8

\* An alert that was reserved stays accounted for.
LEMMA UnsentStaysExplained ==
    ASSUME TypeOK, ReadsAreOld, ReadsInTime, HoldersReserved, UnsentIsExplained,
           NEW w \in Run, Step(w)
    PROVE  UnsentIsExplained'
<1> SUFFICES ASSUME NEW r \in Reason, marker'[r].delivery = "pending" PROVE Explained(r)'
    BY DEF UnsentIsExplained, Explained
<1>0. /\ sends \subseteq sends' /\ broken \subseteq broken'
      /\ reason[w] \in Reason /\ reservedAt[r] \in Nat /\ StampOf[w] \in Nat
      /\ marker[r].observed \in Nat
  <2>1. sends \subseteq sends'
      BY DEF Step, Alert, Recover, RecoverGroup, RecoverNext, Recovered, ReadMarker,
         WriteMarker, Advance, Stamp, ReadIndex, WriteIndex, Send, ReadDelivery,
         WriteDelivery, Fail, history
  <2>2. broken \subseteq broken'
      BY DEF Step, Alert, Recover, RecoverGroup, RecoverNext, Recovered, ReadMarker,
         WriteMarker, Advance, Stamp, ReadIndex, WriteIndex, Send, ReadDelivery,
         WriteDelivery, Fail, Break, history
  <2> QED BY <2>1, <2>2, AlertAssumption DEF TypeOK, Marker
<1>1. ASSUME ObservationWritten(w), r = reason[w], Outcome(w) = "send" PROVE Explained(r)'
  <2>1. generation'[w] = marker'[r].generation
      BY <1>1, WriteEffect DEF Writes
  <2>2. Holds(w)' /\ reason'[w] = r
      BY <1>1 DEF ObservationWritten, WriteMarker, Holds
  <2> QED BY <2>1, <2>2 DEF Explained, Reservation
<1>2. ASSUME marker'[r].generation = marker[r].generation,
             marker'[r].delivery = marker[r].delivery,
             reservedAt'[r] = reservedAt[r],
             marker'[r].observed >= marker[r].observed, marker'[r].observed \in Nat
      PROVE  Explained(r)'
  <2> DEFINE current == <<r, marker[r].generation>>
  <2>1. Explained(r)
      BY <1>2 DEF UnsentIsExplained, Explained
  <2>2. CASE (\E a \in sends : a.reservation = current) \/ current \in broken
      BY <1>0, <1>2, <2>2 DEF Explained
  <2>3. CASE marker[r].observed > reservedAt[r]
    <3>1. marker'[r].observed > reservedAt'[r]
        BY <1>0, <1>2, <2>3
    <3> QED BY <3>1 DEF Explained
  <2>4. ASSUME NEW v \in Run, Holds(v), Reservation(v) = current PROVE Explained(r)'
    <3>1. reason[v] = r /\ generation[v] = marker[r].generation
        BY <2>4 DEF Reservation
    <3>2. \/ Holds(v)' /\ Reservation(v)' = Reservation(v)
          \/ \E a \in sends' : a.reservation = Reservation(v)
          \/ Reservation(v) \in broken'
          \/ /\ marker[r].observed > reservedAt[r]
             /\ marker' = marker /\ reservedAt' = reservedAt
        BY <2>4, <3>1, HolderAccounts
    <3>3. <<r, marker'[r].generation>> = Reservation(v)
        BY <1>2, <2>4
    <3> QED BY <3>2, <3>3, <2>4 DEF Explained
  <2> QED BY <2>1, <2>2, <2>3, <2>4 DEF Explained
<1>3. CASE ~Writes(w) \/ r # reason[w]
  <2>1. marker'[r] = marker[r] /\ reservedAt'[r] = reservedAt[r]
      BY <1>3, MarkerWrites, WriteEffect
  <2> QED BY <1>0, <1>2, <2>1
<1>4. CASE Writes(w) /\ r = reason[w] /\ ~DeliveryWritten(w)
           /\ ~(ObservationWritten(w) /\ Outcome(w) = "send")
  <2>1. seen[w].observed <= StampOf[w] /\ seen[w] = marker[r]
      BY <1>4 DEF Writes, ObservationWritten, StampWritten, WriteMarker, Stamp, ReadsInTime
  <2>2. /\ marker'[r].generation = marker[r].generation
        /\ marker'[r].delivery = marker[r].delivery
        /\ reservedAt'[r] = reservedAt[r] /\ marker'[r].observed = StampOf[w]
      BY <1>4, WriteEffect DEF Writes
  <2> QED BY <1>0, <1>2, <2>1, <2>2
<1>5. CASE DeliveryWritten(w) /\ r = reason[w]
    BY <1>5, WriteEffect DEF Writes
<1> QED BY <1>1, <1>3, <1>4, <1>5

\* What a recovery has cleared stays clear: later writes of the marker carry
\* later stamps, and only a reservation makes it active again (_OrderedStore,
\* observe).
LEMMA ClearStays ==
    ASSUME TypeOK, ReadsAreOld, ReadsInTime, NEW w \in Run, Step(w),
           NEW v \in Run, NEW r \in Reason, StaysClear(v, r)
    PROVE  StaysClear(v, r)'
<1>1. /\ StampOf[v] \in Nat /\ StampOf[w] \in Nat /\ marker[r].observed \in Nat
      /\ reservedAt[r] \in Nat
    BY AlertAssumption DEF TypeOK, Marker
<1>2. StampOf[v] <= marker[r].observed /\ (marker[r].active => reservedAt[r] >= StampOf[v])
    BY DEF StaysClear
<1>3. CASE marker'[r] = marker[r] /\ reservedAt'[r] = reservedAt[r]
    BY <1>2, <1>3 DEF StaysClear
<1>4. CASE Writes(w) /\ r = reason[w] /\ ~DeliveryWritten(w)
  <2>1. seen[w].observed <= StampOf[w] /\ seen[w] = marker[r]
      BY <1>4 DEF Writes, ObservationWritten, StampWritten, WriteMarker, Stamp, ReadsInTime
  <2>2. marker'[r].observed = StampOf[w] /\ StampOf[v] <= StampOf[w]
      BY <1>1, <1>2, <1>4, <2>1, WriteEffect DEF Writes
  <2>3. Outcome(w) \in {"recovered", "duplicate", "send"}
      BY DEF Outcome
  <2>4. marker'[r].active => reservedAt'[r] >= StampOf[v]
    <3>1. CASE StampWritten(w)
        BY <1>2, <1>4, <3>1, WriteEffect
    <3>2. CASE ObservationWritten(w) /\ Outcome(w) = "send"
        BY <1>4, <2>2, <3>2, WriteEffect
    <3>3. CASE ObservationWritten(w) /\ Outcome(w) = "duplicate"
        BY <1>2, <1>4, <3>3, WriteEffect
    <3>4. CASE ObservationWritten(w) /\ Outcome(w) = "recovered"
        BY <1>4, <3>4, WriteEffect
    <3> QED BY <1>4, <2>3, <3>1, <3>2, <3>3, <3>4 DEF Writes
  <2> QED BY <2>2, <2>4 DEF StaysClear
<1>5. CASE DeliveryWritten(w) /\ r = reason[w]
    BY <1>2, <1>5, WriteEffect DEF Writes, StaysClear
<1> QED BY <1>3, <1>4, <1>5, MarkerWrites, WriteEffect

\* The steps of a recovering run, by where they leave it.
Settling == Observing \union {"named", "next", "recovered"}

\* A recovery that leaves an incident has found it active, or leaves it clear
\* (ReadMarker, Advance and Stamp of recover_incident_group).
LEMMA WorkedOffAfter ==
    ASSUME TypeOK, ReadsAreOld, RecoveriesClear, NEW w \in Run, Step(w),
           severity'[w] = 0, pc'[w] \in Settling,
           NEW r \in WorkedOff(w)'
    PROVE  /\ r \in Reason
           /\ \/ Recovering(w) /\ pc[w] \in Settling /\ r \in WorkedOff(w)
              \/ StaysClear(w, r)'
<1>0. /\ cleared \in [Run -> SUBSET Reason] /\ todo \in [Run -> SUBSET Reason]
      /\ reason \in [Run -> Reason] /\ pc \in [Run -> Pc] /\ severity \in [Run -> Severity \union {0}]
      /\ marker \in [Reason -> Marker] /\ StampOf[w] \in Nat
      /\ marker[reason[w]].observed \in Nat
    BY AlertAssumption DEF TypeOK, Marker
<1>1. r \in cleared'[w] /\ r \in Reason
  <2>1. TypeOK'
      BY TypeInvariant DEF Next
  <2> QED BY <2>1 DEF WorkedOff, TypeOK
<1>2. CASE Recover(w)
  <2>1. pc'[w] = "named" /\ todo'[w] = cleared'[w]
      BY <1>0, <1>2 DEF Recover, GoTo
  <2> QED BY <2>1 DEF WorkedOff, Observing
<1>3. CASE RecoverGroup(w)
  <2>1. /\ pc[w] = "named" /\ pc'[w] = "next" /\ todo[w] = {} /\ severity'[w] = severity[w]
        /\ \E l : todo'[w] = l /\ cleared'[w] = cleared[w] \union l
      BY <1>0, <1>3 DEF RecoverGroup, GoTo
  <2>2. r \in WorkedOff(w)
      BY <2>1 DEF WorkedOff, Observing
  <2> QED BY <1>1, <2>1, <2>2 DEF Recovering, Settling
<1>4. CASE RecoverNext(w)
  <2>1. /\ pc[w] \in {"named", "next"} /\ pc'[w] = "read" /\ severity'[w] = severity[w]
        /\ cleared' = cleared /\ todo[w] = todo'[w] \union {reason'[w]}
      BY <1>0, <1>4 DEF RecoverNext, GoTo, history
  <2>2. r \in WorkedOff(w)
      BY <2>1 DEF WorkedOff, Observing
  <2> QED BY <1>1, <2>1, <2>2 DEF Recovering, Settling
<1>5. CASE Recovered(w)
  <2>1. /\ pc[w] \in {"named", "next"} /\ pc'[w] = "recovered" /\ severity'[w] = severity[w]
        /\ cleared' = cleared /\ todo' = todo
      BY <1>0, <1>5 DEF Recovered, GoTo, history, local
  <2>2. r \in WorkedOff(w)
      BY <2>1 DEF WorkedOff, Observing
  <2> QED BY <1>1, <2>1, <2>2 DEF Recovering, Settling
<1>6. CASE ReadMarker(w)
  <2>1. /\ pc[w] = "read" /\ severity' = severity /\ todo' = todo /\ reason' = reason
        /\ marker' = marker /\ cleared'[w] \subseteq cleared[w] /\ Recovering(w)
      BY <1>0, <1>6 DEF ReadMarker, Finds, store, Recovering
  <2>2. CASE r # reason[w] \/ pc'[w] = "write"
    <3>1. r \in WorkedOff(w)
        BY <2>1, <2>2 DEF WorkedOff, Observing
    <3> QED BY <1>1, <2>1, <3>1 DEF Settling, Observing
  <2>3. CASE r = reason[w] /\ pc'[w] # "write"
    <3>1. Stale(marker[r].observed, w) /\ Finds(w, marker[r])
        BY <1>0, <1>6, <2>3 DEF ReadMarker, GoTo
    <3>2. ~marker[r].active
        BY <1>0, <1>1, <2>1, <2>3, <3>1 DEF Finds
    <3>3. StampOf[w] <= marker[r].observed
        BY <1>0, <2>3, <3>1 DEF Stale
    <3> QED BY <1>1, <2>1, <3>2, <3>3 DEF StaysClear
  <2> QED BY <2>2, <2>3
<1>7. CASE WriteMarker(w)
  <2>1. /\ pc[w] = "write" /\ severity' = severity /\ todo' = todo /\ reason' = reason
        /\ cleared' = cleared
      BY <1>7 DEF WriteMarker
  <2>2. pc'[w] \in {"read", "advance"}
    <3>1. pc'[w] \in {"read", "over", "idle", "advance"}
        BY <1>0, <1>7 DEF WriteMarker, GoTo, Abort
    <3> QED BY <3>1 DEF Settling, Observing
  <2>3. r \in WorkedOff(w)
      BY <2>1, <2>2 DEF WorkedOff, Observing
  <2> QED BY <1>1, <2>1, <2>3 DEF Settling, Observing, Recovering
<1>8. CASE Advance(w)
  <2>1. /\ pc[w] = "advance" /\ severity' = severity /\ todo' = todo /\ reason' = reason
        /\ marker' = marker /\ cleared'[w] \subseteq cleared[w] /\ Recovering(w)
        /\ Finds(w, marker[reason[w]])
      BY <1>0, <1>8 DEF Advance, Finds, store, Recovering
  <2>2. CASE r # reason[w] \/ pc'[w] = "stamp"
    <3>1. r \in WorkedOff(w)
        BY <2>1, <2>2 DEF WorkedOff, Observing
    <3> QED BY <1>1, <2>1, <3>1 DEF Settling, Observing
  <2>3. CASE r = reason[w] /\ pc'[w] # "stamp"
    <3>1. ~marker[r].active
        BY <1>0, <1>1, <2>1, <2>3 DEF Finds
    <3>2. Stale(marker[r].observed, w) \/ marker[r].observed = StampOf[w]
        BY <1>0, <1>8, <2>3 DEF Advance, GoTo
    <3>3. StampOf[w] <= marker[r].observed
        BY <1>0, <2>3, <3>2 DEF Stale
    <3> QED BY <1>1, <2>1, <3>1, <3>3 DEF StaysClear
  <2> QED BY <2>2, <2>3
<1>9. CASE Stamp(w)
  <2>1. /\ pc[w] = "stamp" /\ severity' = severity /\ todo' = todo /\ reason' = reason
        /\ cleared' = cleared /\ Recovering(w)
      BY <1>9 DEF Stamp, local, Recovering
  <2>2. CASE r # reason[w]
    <3>1. r \in WorkedOff(w)
        BY <2>1, <2>2 DEF WorkedOff, Observing
    <3> QED BY <1>1, <2>1, <3>1 DEF Settling, Observing
  <2>3. CASE r = reason[w]
    <3>1. pc'[w] # "over"
        BY DEF Settling, Observing
    <3>2. StampWritten(w)
      <4>1. Wins(marker[reason[w]], seen[w])
          BY <1>0, <1>9, <2>1, <3>1 DEF Stamp, Abort, GoTo
      <4>2. seen[w] = marker[reason[w]]
          BY <2>1, <4>1 DEF ReadsAreOld, Wins
      <4> QED BY <1>9, <4>1, <4>2 DEF Stamp, StampWritten
    <3>3. ~seen[w].active /\ seen[w] = marker[r]
        BY <1>1, <2>1, <2>3, <3>2 DEF RecoveriesClear, StampWritten
    <3>4. marker'[r].observed = StampOf[w] /\ ~marker'[r].active
        BY <1>0, <2>3, <3>2, <3>3, WriteEffect DEF Writes
    <3> QED BY <1>0, <1>1, <3>4 DEF StaysClear
  <2> QED BY <2>2, <2>3
<1>10. CASE Alert(w)
  <2>1. severity'[w] # 0
      BY <1>0, <1>10 DEF Alert
  <2> QED BY <2>1
<1>11. CASE ReadIndex(w) \/ WriteIndex(w) \/ Send(w) \/ ReadDelivery(w) \/ WriteDelivery(w)
            \/ Fail(w)
  <2>1. pc'[w] \notin Settling
      BY <1>0, <1>11 DEF ReadIndex, WriteIndex, Send, ReadDelivery, WriteDelivery, Fail, GoTo,
         Abort, AfterIndex, Settling, Observing
  <2> QED BY <2>1
<1> QED BY <1>2, <1>3, <1>4, <1>5, <1>6, <1>7, <1>8, <1>9, <1>10, <1>11 DEF Step

\* What the recoveries have worked off stays clear, and a recovery ends with
\* nothing left to do.
LEMMA RecoveriesStayClear ==
    ASSUME TypeOK, ReadsAreOld, ReadsInTime, RecoveriesClear, NEW w \in Run, Step(w)
    PROVE  RecoveriesClear'
<1>1. ASSUME NEW v \in Run, v # w
      PROVE  /\ pc'[v] \in {"named", "next", "recovered"} => Recovering(v)'
             /\ pc'[v] = "recovered" => todo'[v] = {}
             /\ Recovering(v)' /\ pc'[v] = "stamp" /\ reason'[v] \in cleared'[v] =>
                   ~seen'[v].active
  <2>1. /\ pc'[v] = pc[v] /\ reason'[v] = reason[v] /\ severity'[v] = severity[v]
        /\ todo'[v] = todo[v] /\ cleared'[v] = cleared[v] /\ seen'[v] = seen[v]
      BY <1>1, OthersKeep, OthersKeepPlace
  <2> QED BY <2>1 DEF RecoveriesClear, Recovering
<1>2. /\ pc'[w] \in {"named", "next", "recovered"} => Recovering(w)'
      /\ pc'[w] = "recovered" => todo'[w] = {}
  <2>1. pc \in [Run -> Pc] /\ severity \in [Run -> Severity \union {0}]
      BY DEF TypeOK
  <2>2. CASE Recover(w)
      BY <2>1, <2>2 DEF Recover, GoTo, Recovering
  <2>3. CASE RecoverGroup(w) \/ Recovered(w)
      BY <2>1, <2>3 DEF RecoverGroup, Recovered, GoTo, Recovering, RecoveriesClear, local
  <2>4. CASE ReadMarker(w) \/ Advance(w)
      BY <2>1, <2>4 DEF ReadMarker, Advance, GoTo, Finish, AfterMarker, AfterIndex, Recovering
  <2>5. CASE WriteMarker(w) \/ Stamp(w)
      BY <2>1, <2>5 DEF WriteMarker, Stamp, GoTo, Finish, AfterMarker, AfterIndex, Abort,
         Recovering, local
  <2>6. CASE Alert(w) \/ RecoverNext(w) \/ ReadIndex(w) \/ WriteIndex(w) \/ Send(w)
             \/ ReadDelivery(w) \/ WriteDelivery(w) \/ Fail(w)
      BY <2>1, <2>6 DEF Alert, RecoverNext, ReadIndex, WriteIndex, Send, ReadDelivery,
         WriteDelivery, Fail, GoTo, Abort, AfterIndex
  <2> QED BY <2>2, <2>3, <2>4, <2>5, <2>6 DEF Step
<1>3. Recovering(w)' /\ pc'[w] = "stamp" /\ reason'[w] \in cleared'[w] => ~seen'[w].active
  <2> SUFFICES ASSUME Recovering(w)', pc'[w] = "stamp", reason'[w] \in cleared'[w]
               PROVE  ~seen'[w].active
      OBVIOUS
  <2>1. Advance(w)
      BY DEF TypeOK, Step, Alert, Recover, RecoverGroup, RecoverNext, Recovered, ReadMarker,
         WriteMarker, Stamp, ReadIndex, WriteIndex, Send, ReadDelivery, WriteDelivery, Fail,
         GoTo, Finish, Abort, AfterMarker, AfterIndex
  <2>2. /\ seen'[w] = marker[reason[w]] /\ reason' = reason /\ severity' = severity
        /\ Finds(w, marker[reason[w]])
      BY <2>1 DEF Advance, TypeOK
  <2> QED BY <2>2 DEF Finds, Recovering, TypeOK
<1>4. ASSUME NEW v \in Run, Recovering(v)', pc'[v] \in Settling, NEW r \in WorkedOff(v)'
      PROVE  StaysClear(v, r)'
  <2>1. CASE v # w
    <3>1. /\ pc'[v] = pc[v] /\ reason'[v] = reason[v] /\ severity'[v] = severity[v]
          /\ todo'[v] = todo[v] /\ cleared'[v] = cleared[v]
        BY <2>1, OthersKeepPlace
    <3>2. r \in WorkedOff(v) /\ Recovering(v) /\ pc[v] \in Settling
        BY <1>4, <3>1 DEF WorkedOff, Recovering
    <3>3. StaysClear(v, r) /\ r \in Reason
        BY <3>2 DEF RecoveriesClear, Settling, WorkedOff, TypeOK
    <3> QED BY <3>3, ClearStays
  <2>2. CASE v = w
    <3>1. /\ r \in Reason
          /\ \/ Recovering(w) /\ pc[w] \in Settling /\ r \in WorkedOff(w)
             \/ StaysClear(w, r)'
        BY <1>4, <2>2, WorkedOffAfter DEF Recovering
    <3>2. CASE Recovering(w) /\ pc[w] \in Settling /\ r \in WorkedOff(w)
      <4>1. StaysClear(w, r)
          BY <3>2 DEF RecoveriesClear, Settling
      <4> QED BY <2>2, <3>1, <4>1, ClearStays
    <3> QED BY <2>2, <3>1, <3>2
  <2> QED BY <2>1, <2>2
<1> QED BY <1>1, <1>2, <1>3, <1>4 DEF RecoveriesClear, Settling

\* Every step keeps what the markers say true.
LEMMA MarkersStayTrue ==
    TypeOK /\ ReadsAreOld /\ ReservedOnce /\ MarkInv /\ [Next]_vars => MarkInv'
<1> SUFFICES ASSUME TypeOK, ReadsAreOld, ReservedOnce, MarkInv, [Next]_vars PROVE MarkInv'
    OBVIOUS
<1>1. CASE UNCHANGED vars
  <2>1. ReadsInTime' /\ UncertainMeansSent'
      BY <1>1 DEF MarkInv, ReadsInTime, UncertainMeansSent, vars, store, local, history
  <2>2. \A w \in Run : (Holds(w)' <=> Holds(w)) /\ Reservation(w)' = Reservation(w)
      BY <1>1 DEF Holds, Reservation, vars, local
  <2>3. DeliveriesAreSent'
      BY <1>1, <2>2 DEF MarkInv, DeliveriesAreSent, vars, local, history
  <2>4. HoldersReserved' /\ UnsentIsExplained'
      BY <1>1, <2>2 DEF MarkInv, HoldersReserved, UnsentIsExplained, Recovering, vars, store,
         local, history
  <2>5. RecoveriesClear'
      BY <1>1 DEF MarkInv, RecoveriesClear, WorkedOff, StaysClear, Recovering, vars, store,
         local, history
  <2> QED BY <2>1, <2>3, <2>4, <2>5 DEF MarkInv
<1>2. ASSUME NEW w \in Run, Step(w) PROVE MarkInv'
    BY <1>2, ReadsStayInTime, DeliveriesStaySent, HoldersStayReserved, UncertainStaysSent,
       UnsentStaysExplained, RecoveriesStayClear DEF MarkInv
<1> QED BY <1>1, <1>2 DEF Next

-----------------------------------------------------------------------------
(* The theorems.                                                           *)

\* The initial state has no runs, no markers and no alerts.
LEMMA InitialState == Init => SendInv
<1> SUFFICES ASSUME Init PROVE SendInv
    OBVIOUS
<1>1. TypeOK
    BY AlertAssumption, NoMarkerType DEF Init, TypeOK, Pc, Action
<1>2. ReadsAreOld
    BY DEF Init, ReadsAreOld
<1>3. ReservedOnce /\ SentOnce
    BY DEF Init, ReservedOnce, SentOnce, Holds
<1> QED BY <1>1, <1>2, <1>3 DEF SendInv

\* The inductive invariant holds in every reachable state: the markers' type,
\* reads no newer than the marker, and one holder of each reservation
\* (send_incident over compare_and_set).
THEOREM SendInvHolds == Spec => []SendInv
<1>1. SendInv /\ [Next]_vars => SendInv'
    BY TypeInvariant, ReadsStayOld, ReservedStaysOnce DEF SendInv
<1> QED BY <1>1, InitialState, PTL DEF Spec

\* The types hold, and no compare-and-set is tried more than Tries times
\* (observe), for any runs, reasons and number of alerts.
THEOREM TypeCorrect == Spec => []TypeOK
<1>1. SendInv => TypeOK
    BY DEF SendInv
<1> QED BY <1>1, SendInvHolds, PTL

\* No reservation is handed to the channel twice (send_incident), for any
\* number of overlapping and failing runs and any order of their stamps.
THEOREM SentOnceHolds == Spec => []SentOnce
<1>1. SendInv => SentOnce
    BY DEF SendInv
<1> QED BY <1>1, SendInvHolds, PTL

\* No run has begun, and no marker has an alert to account for.
LEMMA MarkInitially == Init => MarkInv
<1> SUFFICES ASSUME Init PROVE MarkInv
    OBVIOUS
<1>1. \A r \in Reason : marker[r].delivery = "not_attempted"
    BY DEF Init, NoMarker, LeftClear
<1>2. ReadsInTime /\ DeliveriesAreSent /\ HoldersReserved
    BY DEF Init, ReadsInTime, DeliveriesAreSent, HoldersReserved, Holds
<1>3. UncertainMeansSent /\ UnsentIsExplained
    BY <1>1 DEF UncertainMeansSent, UnsentIsExplained
<1>4. RecoveriesClear
    BY DEF Init, RecoveriesClear, Observing
<1> QED BY <1>2, <1>3, <1>4 DEF MarkInv

\* The marker says of each alert what became of it, for any runs, stamps and
\* losses: an uncertain one was sent, an unsent one lost for a reason, and what
\* a recovery cleared stays clear (send_incident, record_delivery,
\* recover_incident_group).
THEOREM MarkersAreTrueHolds == Spec => []MarkersAreTrue
<1>1. SendInv /\ MarkInv /\ [Next]_vars => MarkInv'
    BY MarkersStayTrue DEF SendInv
<1>2. MarkInv => MarkersAreTrue
  <2> SUFFICES ASSUME MarkInv PROVE ClearedStaysCleared
      BY DEF MarkInv, MarkersAreTrue
  <2> SUFFICES ASSUME NEW w \in Run, pc[w] = "recovered", NEW r \in cleared[w], marker[r].active
               PROVE  reservedAt[r] >= StampOf[w]
      BY DEF ClearedStaysCleared
  <2>1. Recovering(w) /\ r \in WorkedOff(w)
      BY DEF MarkInv, RecoveriesClear, WorkedOff, Observing
  <2> QED BY <2>1 DEF MarkInv, RecoveriesClear, StaysClear
<1> QED BY <1>1, <1>2, MarkInitially, SendInvHolds, PTL DEF Spec
=============================================================================
