--------------------------- MODULE PaperObservation ---------------------------
(***************************************************************************)
(* The daily observation of the paper account: collector runs over a       *)
(* create-only store, and the watchdog that alerts on what they leave.     *)
(* Every object is created once; a run looks at the days that are due,     *)
(* repairs a marker, or claims an attempt and reads the account.  Runs may *)
(* overlap, last past midnight and end after any step.                     *)
(* A definition marked "Bug:" is a fault the properties must find.         *)
(*                                                                         *)
(* Source: scripts/paper_observation/core.py and __main__.py.              *)
(***************************************************************************)
EXTENDS Naturals, FiniteSets

CONSTANTS Collectors, \* runs of the collector, each again and again
          DayLength,  \* slots of a New York day
          DueAt,      \* the slot half an hour after the close
          Attempts,   \* slots of the ordinary attempts (45 min)
          Wait,       \* slots before the recovery (60 min)
          UtcAhead,   \* slots by which the UTC date is ahead
          Horizon,    \* the seven days of orders a recovery may still use
          Watched,    \* bound: days the watchdog looks at
          MaxTime     \* bound: the last slot

VARIABLES clock,
          snapshots, \* snapshots/US/{day}: the instant observed
          markers,   \* health/days/{day}
          t0,        \* t0.json: the day it names
          claims,    \* health/attempts and health/recovery
          stops,     \* health/stopped/{day}
          lost,      \* health/gaps/{day}
          collector, \* the runs
          gets,      \* history: account reads under each claim
          crossed,   \* history: days some run outlasted
          alerts,    \* alerts/{day}/{kind}: sent, ack and recovered
          sending    \* the watchdog: the incident it sends, or none

store == <<snapshots, markers, t0, claims, stops, lost>>
watch == <<alerts, sending>>
vars == <<clock, store, collector, gets, crossed, watch>>

Times == 0..MaxTime
DayOf(t) == t \div DayLength
Days == 0..DayOf(MaxTime)
DueOf(d) == d * DayLength + DueAt
UtcOf(t) == (t + UtcAhead) \div DayLength
Never == MaxTime + 1
NoDay == MaxTime + 1
Claim == {"attempt", "recovery"} \X Nat \X Nat
NoClaim == <<"attempt", NoDay, 0>>
Timing(d, t) == IF t = DueOf(d) THEN "on_time" ELSE "late"
Incident == Watched \X {"missing", "late", "stopped"}
NoIncident == <<NoDay, "missing">>
Idle == [pc |-> "idle", at |-> 0, todo |-> {}, gaps |-> {}, claim |-> NoClaim, day |-> NoDay, observed |-> Never]

OneRun == [pc : {"idle", "looking", "fetching", "storing", "marking", "marked"},
        at : Times, todo : SUBSET Days, gaps : SUBSET Days, claim : Claim,
        day : Days \cup {NoDay}, observed : Times \cup {Never}]
TypeOK ==
  /\ clock \in Times
  /\ snapshots \in [Days -> Times \cup {Never}] /\ markers \in [Days -> {"none", "on_time", "late"}]
  /\ t0 \in Days \cup {NoDay} /\ claims \subseteq Claim /\ stops \subseteq Days /\ lost \subseteq Days
  /\ collector \in [Collectors -> OneRun] /\ crossed \subseteq Days
  /\ alerts \in [Incident -> {"none", "sent", "acked", "recovered"}]
  /\ sending \in Incident \cup {NoIncident}

Init ==
  /\ clock = 0 /\ snapshots = [d \in Days |-> Never] /\ markers = [d \in Days |-> "none"]
  /\ t0 = NoDay /\ claims = {} /\ stops = {} /\ lost = {}
  /\ collector = [c \in Collectors |-> Idle] /\ gets = {} /\ crossed = {}
  /\ alerts = [i \in Incident |-> "none"] /\ sending = NoIncident

-----------------------------------------------------------------------------
(* Collector.run.                                                          *)
Active(c) == collector[c].pc # "idle"
Begin(c) ==
  /\ ~Active(c)
  /\ collector' = [collector EXCEPT ![c] = [Idle EXCEPT !.pc = "looking", !.at = clock,
                                              !.todo = {d \in Days : DueOf(d) <= clock}]]
  /\ UNCHANGED <<clock, store, gets, crossed, watch>>

(* The days in order: a marked day is done, a snapshot without its marker  *)
(* is completed, a day without either is a gap.                            *)
First(days) == CHOOSE d \in days : \A e \in days : d <= e
Look(c) ==
  LET run == collector[c]  d == First(run.todo)  rest == run.todo \ {d} IN
  /\ run.pc = "looking" /\ run.todo # {}
  /\ collector' = [collector EXCEPT ![c] =
       CASE markers[d] # "none" -> [run EXCEPT !.todo = rest]
         [] markers[d] = "none" /\ snapshots[d] # Never -> [run EXCEPT !.todo = rest, !.pc = "marking", !.day = d]
         [] OTHER -> [run EXCEPT !.todo = rest, !.gaps = @ \cup {d}]]
  /\ UNCHANGED <<clock, store, gets, crossed, watch>>

(* complete(): t0.json, then the day's marker, from the stored snapshot.   *)
\* Bug: t0.json is written anew.
NamedAnew(c) == collector[c].day
Named(c) == IF t0 = NoDay THEN collector[c].day ELSE t0
MarkT0(c) ==
  /\ collector[c].pc = "marking" /\ t0' = Named(c)
  /\ collector' = [collector EXCEPT ![c].pc = "marked"]
  /\ UNCHANGED <<clock, snapshots, markers, claims, stops, lost, gets, crossed, watch>>
\* Bug: the marker is written from what this run observed.
ObservedHere(c) == collector[c].observed
Observed(c) == snapshots[collector[c].day]
MarkDay(c) ==
  LET run == collector[c]  d == run.day IN
  /\ run.pc = "marked"
  /\ markers' = [markers EXCEPT ![d] = IF @ = "none" THEN Timing(d, Observed(c)) ELSE @]
  /\ collector' = [collector EXCEPT ![c] = IF run.claim = NoClaim THEN [run EXCEPT !.pc = "looking", !.day = NoDay] ELSE Idle]
  /\ UNCHANGED <<clock, snapshots, t0, claims, stops, lost, gets, crossed, watch>>

(* With all days looked at: nothing to do, the day was stopped, or too     *)
(* early for a recovery.                                                   *)
Today(c) == DayOf(collector[c].at)
Looked(c) == collector[c].pc = "looking" /\ collector[c].todo = {}
\* Several attempts a day, one per slot of the ordinary window.
Ordinary(c) ==
  Today(c) \in collector[c].gaps /\ collector[c].at < DueOf(Today(c)) + Attempts
Waiting(c) == \E d \in collector[c].gaps : collector[c].at < DueOf(d) + Wait
Recent(c) == {d \in collector[c].gaps : UtcOf(collector[c].at) <= d + Horizon}
Rest(c) ==
  /\ Looked(c)
  /\ \/ collector[c].gaps = {} \/ Today(c) \in stops \/ (~Ordinary(c) /\ Waiting(c))
  /\ collector' = [collector EXCEPT ![c] = Idle]
  /\ UNCHANGED <<clock, store, gets, crossed, watch>>

(* The claim is created before the account is read; whoever finds it there *)
(* ends.                                                                   *)
\* Bug: the claim is overwritten.
FreeOrNot(claim) == TRUE
Free(claim) == claim \notin claims
Take(c, claim) ==
  /\ claims' = claims \cup {claim}
  /\ collector' = [collector EXCEPT ![c] =
       IF Free(claim) THEN [collector[c] EXCEPT !.pc = "fetching", !.claim = claim] ELSE Idle]
  /\ UNCHANGED <<clock, snapshots, markers, t0, stops, gets, crossed, watch>>
Attempt(c) ==
  /\ Looked(c) /\ Today(c) \notin stops /\ Ordinary(c)
  /\ Take(c, <<"attempt", Today(c), collector[c].at - DueOf(Today(c))>>)
  /\ lost' = lost
\* Bug: today is given up before its recovery.
AllGaps(c) == collector[c].gaps
Older(c) == {d \in collector[c].gaps : d < Today(c)}
Recover(c) ==
  /\ Looked(c) /\ Today(c) \notin stops /\ collector[c].gaps # {} /\ ~Ordinary(c) /\ ~Waiting(c)
  /\ lost' = lost \cup Older(c)
  /\ \/ /\ Recent(c) # {} /\ Take(c, <<"recovery", UtcOf(collector[c].at), 0>>)
     \/ /\ Recent(c) = {} /\ collector' = [collector EXCEPT ![c] = Idle]
        /\ UNCHANGED <<clock, snapshots, markers, t0, claims, stops, gets, crossed, watch>>

(* The one read of the account: an observation of this moment, a refusal   *)
(* that stops the day, or a failure that does not.                         *)
Read(c) ==
  /\ collector[c].pc = "fetching" /\ gets' = gets \cup {<<c, collector[c].claim>>}
  /\ UNCHANGED <<clock, snapshots, markers, t0, claims, lost, crossed, watch>>
\* Bug: an observation of the next day is taken.
OfAnyDay(c) == TRUE
OfToday(c) == DayOf(clock) = Today(c)
Observe(c) ==
  /\ Read(c) /\ OfToday(c) /\ stops' = stops
  /\ collector' = [collector EXCEPT ![c].pc = "storing", ![c].observed = clock]
Refuse(c) ==
  /\ Read(c) /\ stops' = stops \cup {Today(c)} /\ collector' = [collector EXCEPT ![c] = Idle]
Fail(c) ==
  /\ Read(c) /\ stops' = stops /\ collector' = [collector EXCEPT ![c] = Idle]

(* Only today's gap gets a snapshot; an older one keeps nothing but the    *)
(* orders of seven days.                                                   *)
\* Bug: a later observation replaces the snapshot.
Replaced(d, t) == t
Kept(d, t) == IF snapshots[d] = Never THEN t ELSE snapshots[d]
Store(c) ==
  LET run == collector[c] IN
  /\ run.pc = "storing"
  /\ \/ /\ Today(c) \in run.gaps
        /\ snapshots' = [snapshots EXCEPT ![Today(c)] = Kept(Today(c), run.observed)]
        /\ collector' = [collector EXCEPT ![c].pc = "marking", ![c].day = Today(c)]
     \/ /\ Today(c) \notin run.gaps /\ snapshots' = snapshots
        /\ collector' = [collector EXCEPT ![c] = Idle]
  /\ UNCHANGED <<clock, markers, t0, claims, stops, lost, gets, crossed, watch>>
(* A run ends after any step: a store call that fails, the job's timeout.  *)
Crash(c) ==
  /\ Active(c) /\ collector' = [collector EXCEPT ![c] = Idle]
  /\ UNCHANGED <<clock, store, gets, crossed, watch>>

-----------------------------------------------------------------------------
(* Watchdog.run and notify, one incident at a time: the state is read, the *)
(* message sent, and the acknowledgement created, or not.                  *)
Holds(i) ==
  CASE i[2] = "missing" -> markers[i[1]] = "none"
    [] i[2] = "late" -> markers[i[1]] = "late"
    [] OTHER -> i[1] \in stops
Ripe(i) == DueOf(i[1]) + (IF i[2] = "stopped" THEN 0 ELSE Wait) <= clock
\* Bug: every acknowledged incident is closed.
ClosesAny(i) == alerts[i] = "acked"
Closes(i) == ~Holds(i) /\ alerts[i] = "acked"
Opens(i) == Holds(i) /\ alerts[i] \in {"none", "sent"}
Notify(i) ==
  /\ sending = NoIncident /\ Ripe(i) /\ (Opens(i) \/ Closes(i))
  /\ sending' = i /\ UNCHANGED <<clock, store, collector, gets, crossed, alerts>>
\* A send that fails, or an acknowledgement that is not stored, is tried again.
Acknowledge ==
  /\ sending # NoIncident /\ sending' = NoIncident
  /\ \/ alerts' = [alerts EXCEPT ![sending] = IF @ = "acked" THEN "recovered" ELSE "acked"]
     \/ alerts' = [alerts EXCEPT ![sending] = IF @ = "acked" THEN @ ELSE "sent"]
     \/ alerts' = alerts
  /\ UNCHANGED <<clock, store, collector, gets, crossed>>

Tick ==
  /\ clock < MaxTime /\ clock' = clock + 1
  /\ crossed' = crossed \cup {d \in Days : DayOf(clock + 1) # d /\ \E c \in Collectors : Active(c) /\ Today(c) = d}
  /\ UNCHANGED <<store, collector, gets, watch>>
Next ==
  \/ \E c \in Collectors :
       \/ Begin(c) \/ Look(c) \/ MarkT0(c) \/ MarkDay(c) \/ Rest(c) \/ Attempt(c) \/ Recover(c)
       \/ Observe(c) \/ Refuse(c) \/ Fail(c) \/ Store(c) \/ Crash(c)
  \/ \E i \in Incident : Notify(i)
  \/ Acknowledge \/ Tick
Spec == Init /\ [][Next]_vars

-----------------------------------------------------------------------------
(* A snapshot was observed on its own trading day and not before it was    *)
(* due: a late read never stands for an earlier day.                       *)
ObservedOnItsDay ==
  \A d \in Days : snapshots[d] # Never => DayOf(snapshots[d]) = d /\ DueOf(d) <= snapshots[d]

(* A marker tells of the stored snapshot: data precedes the marker, and    *)
(* whoever repairs it keeps the timing (complete).                         *)
MarkerTellsSnapshot ==
  \A d \in Days : markers[d] # "none" => snapshots[d] # Never /\ markers[d] = Timing(d, snapshots[d])

(* t0.json names the first day with a snapshot, whoever wrote it and after *)
(* whatever crash, unless a run outlasted that first day.                  *)
T0IsFirst ==
  t0 # NoDay => snapshots[t0] # Never /\ \A d \in Days : d < t0 /\ snapshots[d] # Never => d \in crossed

(* A day declared unrecoverable has no snapshot, unless a run outlasted it.*)
LostIsFinal == \A d \in lost : snapshots[d] # Never => d \in crossed

(* A claim gives at most one read of the account, with any number of runs. *)
OneGetPerClaim == \A g, h \in gets : g[2] = h[2] => g = h

(* What the watchdog told is so: a late day and a stopped day once alerted *)
(* stay so, and a recovery is told of a day that has its marker.           *)
AlertsAreTrue ==
  \A i \in Incident :
    /\ alerts[i] = "recovered" => ~Holds(i)
    /\ i[2] # "missing" /\ alerts[i] \in {"sent", "acked"} => Holds(i)

(* What makes them hold: time goes on under a run, and a run that outlasts *)
(* its day is known to have; a run has passed an earlier day that was      *)
(* observed in time only when t0.json was written; a claim is held by the  *)
(* one run that created it until that run reads the account.               *)
RunIsPast(c) ==
  LET run == collector[c] IN
  /\ run.at <= clock /\ (Today(c) < DayOf(clock) => Today(c) \in crossed)
  /\ \A d \in run.todo \cup run.gaps : DueOf(d) <= run.at
  /\ run.pc = "storing" => /\ run.observed \in Times /\ run.at <= run.observed /\ run.observed <= clock
                           /\ DayOf(run.observed) = Today(c)
PassesInOrder(c) ==
  LET run == collector[c] IN
  /\ \A d \in Days \ run.todo :
       d < Today(c) /\ snapshots[d] # Never /\ ~(run.pc = "marking" /\ run.day = d) => d \in crossed \/ t0 # NoDay
  /\ \A d \in run.gaps : d < Today(c) /\ snapshots[d] # Never => d \in crossed
  /\ run.pc \in {"fetching", "storing"} => run.todo = {}
  /\ run.pc \in {"marking", "marked"} => /\ run.day \in Days /\ run.day <= Today(c) /\ snapshots[run.day] # Never
                                         /\ \A d \in run.todo : run.day < d
  /\ run.pc = "marked" => t0 # NoDay
ClaimsAreHeld ==
  /\ \A g \in gets : g[2] \in claims
  /\ \A c \in Collectors : collector[c].pc = "fetching" =>
       /\ collector[c].claim \in claims /\ \A g \in gets : g[2] # collector[c].claim
       /\ \A b \in Collectors : collector[b].pc = "fetching" /\ collector[b].claim = collector[c].claim => b = c
ObservationInv ==
  /\ TypeOK /\ (\A c \in Collectors : Active(c) => RunIsPast(c) /\ PassesInOrder(c)) /\ ClaimsAreHeld
  /\ (\A d \in Days : snapshots[d] # Never => snapshots[d] <= clock) /\ (\A d \in lost : d < DayOf(clock))
  /\ \A d \in Days : markers[d] # "none" => t0 # NoDay
  /\ ObservedOnItsDay /\ MarkerTellsSnapshot /\ T0IsFirst /\ LostIsFinal /\ OneGetPerClaim

(* An incident that is being sent keeps the state it was opened in, and a  *)
(* closed one was about a missing marker.                                  *)
WatchInv ==
  /\ markers \in [Days -> {"none", "on_time", "late"}] /\ alerts \in [Incident -> {"none", "sent", "acked", "recovered"}]
  /\ \A i \in Incident : /\ alerts[i] = "recovered" => ~Holds(i) /\ i[2] = "missing"
                         /\ i[2] # "missing" /\ alerts[i] # "none" => Holds(i)
  /\ sending # NoIncident =>
       /\ sending \in Incident /\ alerts[sending] # "recovered" /\ (alerts[sending] = "acked" => ~Holds(sending))
       /\ sending[2] # "missing" => Holds(sending)
=============================================================================
