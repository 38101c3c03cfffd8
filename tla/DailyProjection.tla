--------------------------- MODULE DailyProjection ---------------------------
(***************************************************************************)
(* The daily runtime projection of the PAPER target: a publisher lists and *)
(* reads the execution reports, judges the business day from them, creates *)
(* the record of this observation in storage, sends the same record to the *)
(* receiver, and, when the schedule started it, creates the day's handoff. *)
(* Publishers overlap; reports are written meanwhile and are rewritten by  *)
(* their run; every read and write may fail, a write also after it took    *)
(* effect.  A definition marked "Bug:" is a fault the properties must find.*)
(*                                                                         *)
(* Source: scripts/publish_daily_runtime_projection.py,                    *)
(* scripts/daily_runtime_projection.py and, of                             *)
(* scripts/runtime_heartbeat_policy.py, classify_business_date_schedule.   *)
(***************************************************************************)
EXTENDS Integers, FiniteSets

CONSTANTS Publishers, \* runs of the publisher
          Scheduled,  \* those the schedule started, whose handoff is enabled
          Runs,       \* runs of the target
          Activity,   \* what they may report: anomalies, orders and quiet runs
          DayLength, DueAt, Grace, \* a business day, its slot, the publication grace
          Lookback,   \* RUNTIME_HEARTBEAT_LOOKBACK_HOURS
          MaxTime     \* bound: the last instant

VARIABLES now,     \* the clock
          reports, \* the reports in storage
          pub,     \* each publisher: where it stands, its record
          objects, \* the records in storage
          handoff, \* the record each day's handoff points to
          qrs,     \* the records the receiver stored
          acked    \* history: the records whose publisher exits with "recorded"

vars == <<now, reports, pub, objects, handoff, qrs, acked>>

Times == 0..MaxTime
DayOf(t) == t \div DayLength
Days == {DayOf(t) : t \in Times}
Anomaly == <<"unknown", "failed">>  \* the worst first; two of the four ranks
Unresolved == {"unknown"}
Anomalies == {Anomaly[i] : i \in DOMAIN Anomaly}
Order == {"submitted"}
Quiet == {"no_signal"}
Report == [run : Runs, at : Times, activity : Activity]
State == {"not_due", "within_grace", "due", "unevaluable"}
Status == Anomalies \cup Order \cup Quiet \cup State \cup {"conflict", "missing_report", "read_incomplete", "insufficient"}
Record == [day : Days, at : Times, status : Status, seen : SUBSET Report, failed : BOOLEAN]
NoRecord == [day |-> -1, at |-> -1, status |-> "none", seen |-> {}, failed |-> FALSE]
Ready == [pc |-> "ready", at |-> -1, mode |-> "none", record |-> NoRecord]
NoHandoff == -1

TypeOK ==
  /\ now \in Times /\ reports \subseteq Report
  /\ \A p \in Publishers :
       /\ pub[p].pc \in {"ready", "list", "over", "upload", "sync", "handoff"}
       /\ pub[p].mode \in {"none", "daily", "oneShot"}
       /\ pub[p].record = NoRecord \/ pub[p].record.status \in Status
  /\ \A o \in objects \cup qrs \cup acked : o.day \in Days /\ o.status \in Status
  /\ handoff \in [Days -> Times \cup {NoHandoff}]

Init ==
  /\ now = 0 /\ reports = {}
  /\ pub = [p \in Publishers |-> Ready]
  /\ objects = {} /\ qrs = {} /\ acked = {}
  /\ handoff = [d \in Days |-> NoHandoff]

Tick == now < MaxTime /\ now' = now + 1 /\ UNCHANGED <<reports, pub, objects, handoff, qrs, acked>>
(* A run reports what it did, and once more when that has changed. *)
Write(run, activity) ==
  /\ Cardinality({r \in reports : r.run = run}) < 2
  /\ reports' = reports \cup
       {[run |-> run, activity |-> activity,
         at |-> IF \E r \in reports : r.run = run THEN (CHOOSE r \in reports : r.run = run).at ELSE now]}
  /\ UNCHANGED <<now, pub, objects, handoff, qrs, acked>>

-----------------------------------------------------------------------------
(* classify_business_date_schedule on an open session. *)
Due(day) == day * DayLength + DueAt
Schedule(at, mode) ==
  IF mode = "oneShot" THEN "unevaluable"
  ELSE IF at < Due(DayOf(at)) THEN "not_due"
  ELSE IF at < Due(DayOf(at)) + Grace THEN "within_grace" ELSE "due"

(* _project_target: the runs of the day, and the unresolved ones of other  *)
(* days; a run that began after the observation is left out.               *)
Dated(seen, at) == {r \in seen : r.at <= at /\ DayOf(r.at) = DayOf(at)}
\* Bug: an unresolved run is forgotten with its day.
NothingCarried(seen, at) == {}
Carried(seen, at) == {r \in seen : r.at <= at /\ DayOf(r.at) # DayOf(at) /\ r.activity \in Unresolved}
Covering(seen, at, mode) ==
  IF mode = "oneShot" THEN {} ELSE {r \in Dated(seen, at) : Due(DayOf(at)) <= r.at}
Conflicts(rs) == \E q, r \in rs : q.run = r.run /\ q.activity # r.activity
Activities(rs) == {r.activity : r \in rs}
Worst(rs) ==
  Anomaly[CHOOSE i \in DOMAIN Anomaly : Anomaly[i] \in Activities(rs) /\ \A j \in 1..(i - 1) : Anomaly[j] \notin Activities(rs)]

(* _judge: the first that applies. *)
\* Bug: a day with failed reads is judged on what could be read.
JudgedOnRead(seen, at, mode, failed) ==
  IF Schedule(at, mode) = "due" THEN "missing_report" ELSE Schedule(at, mode)
Otherwise(seen, at, mode, failed) ==
  IF failed \/ mode = "oneShot" THEN "read_incomplete"
  ELSE IF Schedule(at, mode) = "due" THEN "missing_report" ELSE Schedule(at, mode)
Judge(seen, at, mode, failed) ==
  LET runs == Dated(seen, at) \cup Carried(seen, at)
      covering == Activities(Covering(seen, at, mode)) IN
  IF Activities(runs) \cap Anomalies # {} THEN Worst(runs)
  ELSE IF Conflicts(runs) THEN "conflict"
  ELSE IF covering \cap Order # {} THEN CHOOSE a \in covering \cap Order : TRUE
  ELSE IF \E a \in covering : covering = {a} THEN CHOOSE a \in covering : TRUE
  ELSE Otherwise(seen, at, mode, failed)

-----------------------------------------------------------------------------
At(p, pc) == pub[p].pc = pc
Goes(p, pc) == pub' = [pub EXCEPT ![p].pc = pc]
Ends(p) == pub' = [pub EXCEPT ![p] = [Ready EXCEPT !.pc = "over"]]

Begin(p, mode) ==
  /\ At(p, "ready")
  /\ pub' = [pub EXCEPT ![p] = [Ready EXCEPT !.pc = "list", !.at = now, !.mode = mode]]
  /\ UNCHANGED <<now, reports, objects, handoff, qrs, acked>>

(* publish: what is listed of the lookback, and read; then the record. *)
Listed(p) == {r \in reports : pub[p].at - Lookback <= r.at}
Observe(p, seen) ==
  /\ At(p, "list")
  /\ pub' = [pub EXCEPT ![p].pc = "upload", ![p].record =
       [day |-> DayOf(pub[p].at), at |-> pub[p].at, seen |-> seen, failed |-> seen # Listed(p),
        status |-> Judge(seen, pub[p].at, pub[p].mode, seen # Listed(p))]]
  /\ UNCHANGED <<now, reports, objects, handoff, qrs, acked>>

(* _upload: created only if there is none of this instant; an error may    *)
(* hide that it was created.                                               *)
\* Bug: the record is written over what is there.
Overwrites(p) == FALSE
Taken(p) == \E o \in objects : o.day = pub[p].record.day /\ o.at = pub[p].record.at
Kept(p) == {o \in objects : ~(o.day = pub[p].record.day /\ o.at = pub[p].record.at)}
\* Bug: an error of the write is taken for a success.
CreatesOrNot(p) == objects' \in {objects, Kept(p) \cup {pub[p].record}} /\ Goes(p, "sync")
Creates(p) == objects' = Kept(p) \cup {pub[p].record} /\ (Goes(p, "sync") \/ Ends(p))
Upload(p) ==
  /\ At(p, "upload")
  /\ IF Taken(p) THEN Ends(p) /\ UNCHANGED objects ELSE Creates(p)
  /\ UNCHANGED <<now, reports, handoff, qrs, acked>>

(* _sync_runtime_daily: only an answer that names the day counts as        *)
(* recorded; without one the handoff is still made.                        *)
\* Bug: an unknown answer counts as recorded.
AnyAnswer(p, answer) == acked' = acked \cup {pub[p].record}
Acknowledges(p, answer) == acked' = IF answer = "recorded" THEN acked \cup {pub[p].record} ELSE acked
Sync(p, answer) ==
  /\ At(p, "sync") /\ Goes(p, "handoff")
  /\ qrs' = IF answer = "lost" THEN qrs ELSE qrs \cup {pub[p].record}
  /\ Acknowledges(p, answer)
  /\ UNCHANGED <<now, reports, objects, handoff>>

(* _publish_handoff: the first of the day stays. *)
HandsOff(p) == handoff[pub[p].record.day] = NoHandoff
Handoff(p) ==
  /\ At(p, "handoff") /\ Ends(p)
  /\ handoff' = IF p \in Scheduled /\ HandsOff(p) THEN [handoff EXCEPT ![pub[p].record.day] = pub[p].record.at]
                ELSE handoff
  /\ UNCHANGED <<now, reports, objects, qrs, acked>>
(* A call fails without effect, or the process dies. *)
Fail(p) == ~At(p, "ready") /\ ~At(p, "over") /\ Ends(p) /\ UNCHANGED <<now, reports, objects, handoff, qrs, acked>>

Next ==
  \/ Tick
  \/ \E run \in Runs, activity \in Activity : Write(run, activity)
  \/ \E p \in Publishers :
       \/ \E mode \in {"daily", "oneShot"} : Begin(p, mode)
       \/ \E seen \in SUBSET Listed(p) : Observe(p, seen)
       \/ Upload(p) \/ Handoff(p) \/ Fail(p)
       \/ \E answer \in {"recorded", "unknown", "lost"} : Sync(p, answer)
Spec == Init /\ [][Next]_vars

-----------------------------------------------------------------------------
(* A record that names the day settled shows none of its own, and none of  *)
(* an earlier day that is still unresolved: an order whose fate is unknown *)
(* stays visible after midnight (_project_target, carried_unresolved).     *)
UnresolvedStaysVisible ==
  \A o \in objects : (\E r \in o.seen : r.at <= o.at /\ r.activity \in Unresolved) => o.status \in Unresolved

(* A record says that the day's report is missing only when everything was *)
(* read and the slot's grace was over, and no run had reported since it.   *)
MissingIsTrue ==
  \A o \in objects : o.status = "missing_report" =>
    /\ ~o.failed /\ Due(o.day) + Grace <= o.at
    /\ ~\E r \in o.seen : Due(o.day) <= r.at /\ r.at <= o.at

(* The receiver holds only records that storage holds, and a publisher     *)
(* that exits with "recorded" was told so of the record it created.        *)
AckedIsStored == acked \subseteq qrs /\ qrs \subseteq objects

(* The day's handoff points to a record of that day that exists, whatever  *)
(* failed on the way.                                                      *)
HandoffIsRecorded ==
  \A d \in Days : handoff[d] # NoHandoff => \E o \in objects : o.day = d /\ o.at = handoff[d]

(* What was created is never written again: neither a record, nor the      *)
(* handoff of a day (if_generation_match=0 in both).                       *)
CreatedStays ==
  /\ objects \subseteq objects'
  /\ \A d \in Days : handoff[d] # NoHandoff => handoff'[d] = handoff[d]

(* What makes them hold: a record is judged from what was read of its day, *)
(* and what is synced or handed off was created.                           *)
Post ==
  [pc : {"ready", "list", "over", "upload", "sync", "handoff"}, at : Times \cup {-1},
   mode : {"none", "daily", "oneShot"}, record : Record \cup {NoRecord}]
Judged(o) ==
  /\ o \in Record /\ o.day = DayOf(o.at)
  /\ \E mode \in {"daily", "oneShot"} : o.status = Judge(o.seen, o.at, mode, o.failed)
PublishersInv ==
  \A p \in Publishers :
    /\ pub[p].pc \notin {"ready", "over"} => pub[p].at \in Times /\ pub[p].mode \in {"daily", "oneShot"}
    /\ pub[p].pc \in {"upload", "sync", "handoff"} => Judged(pub[p].record)
    /\ pub[p].pc \in {"sync", "handoff"} => pub[p].record \in objects
DailyInv ==
  /\ now \in Times /\ reports \subseteq Report /\ pub \in [Publishers -> Post]
  /\ handoff \in [Days -> Times \cup {NoHandoff}]
  /\ PublishersInv /\ (\A o \in objects : Judged(o)) /\ AckedIsStored /\ HandoffIsRecorded
=============================================================================
