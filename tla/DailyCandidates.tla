--------------------------- MODULE DailyCandidates ---------------------------
(***************************************************************************)
(* The daily evidence of one target: persist_candidate, _export_projection *)
(* and emit_archived of notifications/unified.py.                          *)
(*                                                                         *)
(* Cycles, alerts, receipts and the archive merge what they observed of a  *)
(* run into one candidate state, and export its projection, which is what  *)
(* the digest reads.  State and export are two objects, each written by    *)
(* compare-and-set, from producers that overlap.                           *)
(*                                                                         *)
(* A definition marked "Bug:" is a fault the properties must find.         *)
(***************************************************************************)
EXTENDS Naturals, FiniteSets

CONSTANTS
    Producer,  \* processes that persist: service, heartbeat, exporter
    Run,       \* source runs of the business day
    Counts,    \* order counts a run may report
    MaxJobs,   \* bound: facts one producer persists
    Unknown, NoRun, NoSource, NoRow, NoReport

ASSUME CandidateAssumption ==
    /\ Counts \subseteq Nat /\ Unknown \notin Counts
    /\ NoRun \notin Run
    /\ MaxJobs \in Nat

Kind == {"routine_cycle", "healthy_heartbeat", "real_error"}
Count == Counts \union {Unknown}
Event == [run : Run, kind : Kind, count : Count]

\* A source is a run that executed, or one that was skipped.
Source == {s \in [ran : BOOLEAN, count : Count, alert : BOOLEAN] :
              IF s.ran THEN ~s.alert ELSE s.count = Unknown}

ASSUME SourceAssumption == NoSource \notin Source

\* What the digest shows of a run.
Shown == [alert : BOOLEAN, count : Count, events : SUBSET Event]

ASSUME RowAssumption == NoRow \notin Shown

\* How a fact is persisted: of a run that executed, of one that was skipped,
\* as an event alone, or as the proof that the window was idle.
How == {"ran", "skipped", "event", "idle"}
Job == [how : How, event : Event \union {NoRun}, alert : BOOLEAN]
Report == [how : {"ran", "skipped"}, kind : Kind, count : Count, alert : BOOLEAN]

Empty == [events |-> {}, sources |-> [r \in Run |-> NoSource], conflicts |-> {}, idle |-> FALSE]
IdleDay == [Empty EXCEPT !.idle = TRUE]
NoRows == [rows |-> [r \in Run |-> NoRow], idle |-> FALSE]

\* Where a producer stands in persist_candidate and _export_projection.
Pc == {"idle", "read", "first", "refused", "write", "export", "same", "check", "put"}

VARIABLES
    state,    \* the candidate state; version 0: there is none
    export,   \* its exported projection; at (history): the state it was checked against
    report,   \* the archived report of each run
    began,    \* the runs whose cycle persisted its own fact
    pc, job, seen, new, exportSeen, checked, made, \* locals of a producer
    accepted, \* history: the counts of executed runs that reached the state
    confirmed \* history: the jobs whose persist_candidate returned True

store == <<state, export>>
call == <<job, seen, new, exportSeen, checked>>
local == <<call, made>>
history == <<accepted, confirmed>>
vars == <<store, report, began, pc, local, history>>

NoState == [version |-> 0, value |-> Empty]
NoJob == [how |-> "idle", event |-> NoRun, alert |-> FALSE]

Init ==
    /\ state = NoState
    /\ export = [version |-> 0, value |-> NoRows, at |-> 0]
    /\ report = [r \in Run |-> NoReport]
    /\ began = {}
    /\ pc = [p \in Producer |-> "idle"]
    /\ job = [p \in Producer |-> NoJob]
    /\ seen = [p \in Producer |-> NoState]
    /\ new = [p \in Producer |-> Empty]
    /\ exportSeen = [p \in Producer |-> 0]
    /\ checked = [p \in Producer |-> 0]
    /\ made = [p \in Producer |-> 0]
    /\ accepted = {} /\ confirmed = {}

GoTo(p, label) == pc' = [pc EXCEPT ![p] = label]

\* The call of persist_candidate is over: nothing of it survives.
Return(p) ==
    /\ GoTo(p, "idle")
    /\ job' = [job EXCEPT ![p] = NoJob]
    /\ seen' = [seen EXCEPT ![p] = NoState]
    /\ new' = [new EXCEPT ![p] = Empty]
    /\ exportSeen' = [exportSeen EXCEPT ![p] = 0]
    /\ checked' = [checked EXCEPT ![p] = 0]

-----------------------------------------------------------------------------
(* Facts to persist.                                                       *)

Persist(p, j) ==
    /\ pc[p] = "idle" /\ made[p] < MaxJobs
    /\ made' = [made EXCEPT ![p] = @ + 1]
    /\ job' = [job EXCEPT ![p] = j]
    /\ GoTo(p, "read")
    /\ UNCHANGED <<store, report, seen, new, exportSeen, checked, history>>

\* A run persists its own fact before its report is archived: prepare_cycle,
\* and, when the run fails then or before, the alert of its failure.
Cycle(p) ==
    \E r \in Run, k \in {"routine_cycle", "real_error"}, c \in Count :
        /\ report[r] = NoReport
        /\ r \in began => k = "real_error" /\ c = Unknown
        /\ Persist(p, [how |-> "ran", event |-> [run |-> r, kind |-> k, count |-> c],
                       alert |-> FALSE])
        /\ began' = began \union {r}

\* The report is archived: of a run that executed, or of one that was skipped
\* in a closed market or for an unsupported account (which is an alert).
Archived(r) ==
    /\ report[r] = NoReport
    /\ \E f \in Report :
          /\ f.how = "skipped" => r \notin began
          /\ f.kind # "healthy_heartbeat"
          /\ f.how = "ran" => ~f.alert
          /\ report' = [report EXCEPT ![r] = f]
    /\ UNCHANGED <<store, began, pc, local, history>>

\* Bug: the facts of a skipped run are taken as they are.
AnyFacts(f) == TRUE
\* _archived_event: a skipped run has no execution facts.
Consistent(f) == f.how = "skipped" => f.count = Unknown /\ f.kind = "routine_cycle"

\* persist_archived_report, by the service itself, the receipt heartbeat or
\* the exporter of the completed window.
FromArchive(p) ==
    \E r \in Run :
        LET f == report[r]
        IN /\ f # NoReport
           /\ Consistent(f)
           /\ Persist(p, [how |-> f.how, event |-> [run |-> r, kind |-> f.kind, count |-> f.count],
                          alert |-> f.alert])
           /\ UNCHANGED began

\* An alert of a run, or (like "healthy_heartbeat") its receipt or a filled
\* order: an event that says nothing about what the run executed.
EventAlone(p) ==
    \E r \in Run, k \in {"healthy_heartbeat", "real_error"} :
        /\ Persist(p, [how |-> "event", event |-> [run |-> r, kind |-> k, count |-> Unknown],
                       alert |-> FALSE])
        /\ UNCHANGED began

\* emit_archived found no report, and none was due.
IdleWindow(p) ==
    /\ \A r \in Run : report[r] = NoReport
    /\ Persist(p, NoJob)
    /\ UNCHANGED began

-----------------------------------------------------------------------------
(* persist_candidate.                                                      *)

Known(c) == c # Unknown
CountOf(s) == IF s = NoSource THEN Unknown ELSE s.count

\* Bug: the latest count of a run replaces the one before.
Latest(old, c) == [ran |-> TRUE, count |-> c, alert |-> FALSE]
\* The first known count of a run is kept.
Ran(old, c) ==
    [ran |-> TRUE, count |-> IF Known(CountOf(old)) THEN CountOf(old) ELSE c, alert |-> FALSE]
SourceOf(old, j) ==
    IF j.how = "ran" THEN Ran(old, j.event.count)
    ELSE IF j.how = "skipped" THEN [ran |-> FALSE, count |-> j.event.count, alert |-> j.alert]
    ELSE old

\* Bug: a different count is not a conflict.
NeverContradicts(old, j) == FALSE
Contradicts(old, j) ==
    /\ j.how = "ran"
    /\ Known(CountOf(old)) /\ Known(j.event.count) /\ CountOf(old) # j.event.count

\* Bug: a proof of idleness overrides what ran.
IdleOverrides(v, j) == TRUE
\* A run either executed or was skipped, and an idle window has no run.
Admits(v, j) ==
    IF j.how = "idle" THEN \A r \in Run : v.sources[r] = NoSource
    ELSE LET old == v.sources[j.event.run]
         IN /\ j.how = "ran" => old = NoSource \/ old.ran
            /\ j.how = "skipped" => old \in {NoSource, SourceOf(old, j)}

Merged(v, j) ==
    IF j.how = "idle" THEN IdleDay
    ELSE LET r == j.event.run
         IN [events |-> v.events \union {j.event},
             sources |-> [v.sources EXCEPT ![r] = SourceOf(@, j)],
             conflicts |-> v.conflicts \union (IF Contradicts(v.sources[r], j) THEN {r} ELSE {}),
             idle |-> FALSE]

\* What the code makes of the state it read, unless it refuses.  (The time and
\* the kind of a source's last fact are left out: a write that changes nothing
\* else is none here.)
Merge(p, v) ==
    IF Admits(v, job[p])
    THEN GoTo(p, "write") /\ new' = [new EXCEPT ![p] = Merged(v, job[p])]
    ELSE GoTo(p, "refused") /\ UNCHANGED new

ReadState(p) ==
    /\ pc[p] = "read"
    /\ seen' = [seen EXCEPT ![p] = state]
    /\ IF state.version = 0 THEN GoTo(p, "first") /\ UNCHANGED new ELSE Merge(p, state.value)
    /\ UNCHANGED <<store, report, began, job, exportSeen, checked, made, history>>

\* An export without a state is a history nobody can explain.
ReadFirstExport(p) ==
    /\ pc[p] = "first"
    /\ IF export.version = 0 THEN Merge(p, Empty) ELSE GoTo(p, "refused") /\ UNCHANGED new
    /\ UNCHANGED <<store, report, began, job, seen, exportSeen, checked, made, history>>

\* Bug: the version read is not compared.
WinsAlways(version, read) == TRUE
\* compare_and_set: nobody has written since the read.
Wins(version, read) == version = read

WriteState(p) ==
    LET j == job[p]
        needed == seen[p].version = 0 \/ new[p] # seen[p].value
    IN /\ pc[p] = "write"
       /\ IF needed /\ ~Wins(state.version, seen[p].version)
          THEN /\ Return(p)
               /\ UNCHANGED <<state, accepted>>
          ELSE /\ GoTo(p, "export") /\ UNCHANGED call
               /\ state' = IF needed THEN [version |-> state.version + 1, value |-> new[p]] ELSE state
               /\ accepted' = IF j.how = "ran" THEN accepted \union {<<j.event.run, j.event.count>>}
                              ELSE accepted
       /\ UNCHANGED <<export, report, began, made, confirmed>>

-----------------------------------------------------------------------------
(* _export_projection.                                                     *)

\* A run's row: it is an alert when an event of it is, when its counts
\* contradict each other, or when it was skipped for an alert; a contradicted
\* count is unknown, and the events of a skipped run are left out.
Row(v, r) ==
    LET s == v.sources[r]
        events == {e \in v.events : e.run = r}
        conflict == r \in v.conflicts
    IN IF s = NoSource THEN NoRow
       ELSE IF ~s.ran THEN [alert |-> s.alert, count |-> Unknown, events |-> {}]
       ELSE [alert |-> conflict \/ \E e \in events : e.kind = "real_error",
             count |-> IF conflict THEN Unknown ELSE s.count, events |-> events]
Projection(v) == [rows |-> [r \in Run |-> Row(v, r)], idle |-> v.idle]

ReadExport(p) ==
    /\ pc[p] = "export"
    /\ exportSeen' = [exportSeen EXCEPT ![p] = export.version]
    /\ GoTo(p, IF export.version > 0 /\ export.value = Projection(new[p]) THEN "same" ELSE "check")
    /\ UNCHANGED <<store, report, began, job, seen, new, checked, made, history>>

\* Bug: the state is not read again.
NotChecked(v) == TRUE
IsLatest(v) == state.value = v

Check(p) ==
    /\ pc[p] = "check"
    /\ GoTo(p, IF IsLatest(new[p]) THEN "put" ELSE "refused")
    /\ checked' = [checked EXCEPT ![p] = state.version]
    /\ UNCHANGED <<store, report, began, job, seen, new, exportSeen, made, history>>

\* The export that was read is already the projection: nothing is written.
CheckSame(p) ==
    /\ pc[p] = "same"
    /\ IF IsLatest(new[p])
       THEN /\ Return(p)
            /\ confirmed' = confirmed \union {job[p]}
       ELSE /\ GoTo(p, "refused")
            /\ UNCHANGED <<call, confirmed>>
    /\ UNCHANGED <<store, report, began, made, accepted>>

\* The export was read before the state was read again: a write that wins
\* replaces no projection of a later state.  (The storage may raise although it
\* wrote.  Nothing is confirmed then, which changes nothing but the history.)
WriteExport(p) ==
    /\ pc[p] = "put"
    /\ Return(p)
    /\ IF Wins(export.version, exportSeen[p])
       THEN /\ export' = [version |-> export.version + 1, value |-> Projection(new[p]),
                          at |-> checked[p]]
            /\ confirmed' = confirmed \union {job[p]}
       ELSE UNCHANGED <<export, confirmed>>
    /\ UNCHANGED <<state, report, began, made, accepted>>

\* A storage call or a validation raises, before or after the call took
\* effect; the producer reports unconfirmed evidence and goes on.  A refused
\* fact raises too.
Fail(p) ==
    /\ pc[p] # "idle"
    /\ Return(p)
    /\ UNCHANGED <<store, report, began, made, history>>

Step(p) ==
    \/ Cycle(p) \/ FromArchive(p) \/ EventAlone(p) \/ IdleWindow(p)
    \/ ReadState(p) \/ ReadFirstExport(p) \/ WriteState(p)
    \/ ReadExport(p) \/ Check(p) \/ CheckSame(p) \/ WriteExport(p) \/ Fail(p)

Next == (\E p \in Producer : Step(p)) \/ \E r \in Run : Archived(r)

Spec == Init /\ [][Next]_vars

-----------------------------------------------------------------------------
(* Properties.                                                             *)

Value ==
    [events : SUBSET Event, sources : [Run -> Source \union {NoSource}],
     conflicts : SUBSET Run, idle : BOOLEAN]

\* State, export and locals have their types, and the export never claims a
\* state nobody wrote; in particular no skipped run
\* carries an order count (persist_candidate, _archived_event).
TypeOK ==
    /\ state.version \in Nat /\ state.value \in Value
    /\ export.version \in Nat /\ export.at \in 0 .. state.version
    /\ pc \in [Producer -> Pc]
    /\ job \in [Producer -> Job]
    /\ \A p \in Producer : seen[p].version \in 0 .. state.version /\ new[p] \in Value
    /\ exportSeen \in [Producer -> Nat] /\ checked \in [Producer -> Nat]
    /\ made \in [Producer -> 0 .. MaxJobs]

\* The digest never falls back to an older state of the day, whichever
\* producers overlap (the order of reads in _export_projection).
ExportMovesForward == [][export.at <= export'.at]_vars

\* What a producer was told is persisted is in the export, and stays there: a
\* routine cycle whose own message was deferred is in the digest ("only a
\* confirmed protected candidate write establishes successful deferral",
\* docs/unified-daily-notification.md).
ConfirmedIsExported ==
    \A j \in confirmed :
        j.how \in {"ran", "skipped"} =>
            LET row == export.value.rows[j.event.run]
            IN row # NoRow /\ (j.how = "ran" => j.event \in row.events)

\* A confirmed alert, or error, is in the digest as an alert.
ConfirmedAlertShows ==
    \A j \in confirmed :
        j.alert \/ (j.how = "ran" /\ j.event.kind = "real_error") =>
            LET row == export.value.rows[j.event.run] IN row # NoRow /\ row.alert

\* A run that was shown as an alert is never shown as healthy later in the
\* day (rows of persist_candidate).
AlertStays ==
    [][\A r \in Run :
          LET row == export.value.rows[r]
              later == export'.value.rows[r]
          IN row # NoRow /\ row.alert => later # NoRow /\ later.alert]_vars

\* What a producer was told stays told in every later digest of the day.
ConfirmedStays == [](ConfirmedIsExported /\ ConfirmedAlertShows) /\ AlertStays

\* A count is shown only while every count the day has accepted of the run is
\* the same or unknown: contradicting producers are not reconciled in favour
\* of one of them (notification_conflicts).
CountsAgree ==
    \A r \in Run :
        LET row == Row(state.value, r)
        IN row # NoRow /\ Known(row.count) =>
              \A a \in accepted : a[1] = r => a[2] \in {Unknown, row.count}
=============================================================================
