------------------------ MODULE DailyCandidatesProofs ------------------------
(***************************************************************************)
(* Proofs about DailyCandidates, for any producers, runs, counts and       *)
(* number of facts: the export never falls back to an older state, a count *)
(* that is shown was contradicted by no producer, and what a producer was  *)
(* told is persisted stays exported.                                       *)
(***************************************************************************)
EXTENDS DailyCandidates, TLAPS

-----------------------------------------------------------------------------
(* The export moves forward.                                               *)

\* What a producer that is about to write the export holds, while nobody
\* wrote the export since it read it, is at least as new as the export.
ExportInv ==
    /\ state.version \in Nat
    /\ export.version \in Nat /\ export.at \in Nat /\ export.at <= state.version
    /\ pc \in [Producer -> Pc]
    /\ exportSeen \in [Producer -> Nat] /\ checked \in [Producer -> Nat]
    /\ \A p \in Producer :
          /\ checked[p] <= state.version
          /\ exportSeen[p] <= export.version
          /\ pc[p] = "put" /\ exportSeen[p] = export.version => export.at <= checked[p]

\* The fields of the export that order it, when a step leaves it or writes it.
ExportStep ==
    \/ UNCHANGED export
    \/ /\ export'.version = export.version + 1
       /\ export'.at \in Nat /\ export.at <= export'.at /\ export'.at <= state'.version

\* ExportInv holds in the initial state: nothing is written or held.
LEMMA ExportInvInit == Init => ExportInv
BY DEF Init, ExportInv, NoState, Pc

\* Every step of a producer and of the archive keeps ExportInv, and leaves
\* the export or replaces it by one that is no older.
LEMMA ExportInvStep == ExportInv /\ [Next]_vars => ExportInv' /\ ExportStep
<1> SUFFICES ASSUME ExportInv, [Next]_vars
             PROVE  ExportInv' /\ ExportStep
    OBVIOUS
<1> USE DEF ExportInv, ExportStep, Pc
<1>1. CASE UNCHANGED vars
      BY <1>1 DEF vars, store, local, call
<1>2. ASSUME NEW r \in Run, Archived(r)
      PROVE  ExportInv' /\ ExportStep
      BY <1>2 DEF Archived, store, local, call
<1>3. ASSUME NEW p \in Producer, Step(p)
      PROVE  ExportInv' /\ ExportStep
  <2>1. ASSUME NEW j, Persist(p, j)
        PROVE  ExportInv' /\ ExportStep
        BY <2>1 DEF Persist, GoTo, store
  <2>2. CASE Cycle(p) \/ FromArchive(p) \/ EventAlone(p) \/ IdleWindow(p)
        BY <2>1, <2>2 DEF Cycle, FromArchive, EventAlone, IdleWindow
  <2>3. CASE ReadState(p) \/ ReadFirstExport(p)
        BY <2>3 DEF ReadState, ReadFirstExport, Merge, GoTo, store
  <2>4. CASE WriteState(p)
        BY <2>4 DEF WriteState, Return, GoTo, call
  <2>5. CASE ReadExport(p)
        BY <2>5 DEF ReadExport, GoTo, store
  <2>6. CASE Check(p)
        BY <2>6 DEF Check, GoTo, store
  <2>7. CASE CheckSame(p)
        BY <2>7 DEF CheckSame, Return, GoTo, store, call
  <2>8. CASE WriteExport(p)
        BY <2>8 DEF WriteExport, Wins, Return, GoTo
  <2>9. CASE Fail(p)
        BY <2>9 DEF Fail, Return, GoTo, store
  <2> QED
      BY <1>3, <2>2, <2>3, <2>4, <2>5, <2>6, <2>7, <2>8, <2>9 DEF Step
<1> QED
    BY <1>1, <1>2, <1>3 DEF Next

\* The digest never falls back to an older state of the day: _export_projection
\* reads the export before it reads the state again, and compares the version.
THEOREM ExportMovesForwardHolds == Spec => ExportMovesForward
<1>1. ExportInv /\ [Next]_vars => [export.at <= export'.at]_vars
      BY ExportInvStep DEF ExportInv, ExportStep
<1> QED
    BY <1>1, ExportInvInit, ExportInvStep, PTL DEF Spec, ExportMovesForward

-----------------------------------------------------------------------------
(* A shown count is contradicted by nobody.                                *)

Ranned(s) == s # NoSource /\ s.ran

\* A value of the state: its sources are sources, and only a run that
\* executed has contradicting counts.
Sourced(v) ==
    /\ v.sources \in [Run -> Source \union {NoSource}]
    /\ v.conflicts \subseteq {r \in Run : Ranned(v.sources[r])}

\* w keeps what v knows of the runs that executed.
Keeps(v, w) ==
    /\ v.conflicts \subseteq w.conflicts
    /\ \A r \in Run : Ranned(v.sources[r]) =>
          /\ Ranned(w.sources[r])
          /\ Known(v.sources[r].count) => w.sources[r].count = v.sources[r].count

\* v accounts for a count a producer reported of a run that executed.
Accounts(v, r, c) ==
    /\ Ranned(v.sources[r])
    /\ c = Unknown \/ r \in v.conflicts \/ v.sources[r].count = c

\* A fact about a run names the run, and one about a skipped run has no count.
Fact == {j \in Job : /\ j.how # "idle" => j.event \in Event
                     /\ j.how = "skipped" => j.event.count = Unknown}

\* A producer that read the state works on a value that the state has kept,
\* and that is the state itself unless the version changed.
ReaderInv(p) ==
    /\ pc[p] \in {"first", "write"} =>
          /\ seen[p].version \in Nat /\ seen[p].version <= state.version
          /\ Sourced(seen[p].value) /\ Keeps(seen[p].value, state.value)
          /\ seen[p].version = 0 => seen[p].value = Empty
          /\ seen[p].version = state.version => seen[p].value = state.value
    /\ pc[p] = "write" =>
          Admits(seen[p].value, job[p]) /\ new[p] = Merged(seen[p].value, job[p])
    /\ pc[p] = "first" => seen[p].version = 0

\* The types the argument needs.
Typed ==
    /\ pc \in [Producer -> Pc] /\ job \in [Producer -> Fact]
    /\ DOMAIN seen = Producer /\ DOMAIN new = Producer
    /\ report \in [Run -> Report \union {NoReport}]
    /\ state.version \in Nat /\ Sourced(state.value)
    /\ state.version = 0 => state.value = Empty
    /\ accepted \subseteq Run \X Count

\* The state accounts for every count the day accepted.
CountInv ==
    /\ Typed
    /\ \A p \in Producer : ReaderInv(p)
    /\ \A a \in accepted : Accounts(state.value, a[1], a[2])

\* Knowing is transitive, and what is accounted for stays so.
LEMMA KeepsTransitive ==
    ASSUME NEW u, NEW v, NEW w, Keeps(u, v), Keeps(v, w)
    PROVE  Keeps(u, w)
BY DEF Keeps, Known

LEMMA AccountsKept ==
    ASSUME NEW v, NEW w, NEW r \in Run, NEW c, Keeps(v, w), Accounts(v, r, c)
    PROVE  Accounts(w, r, c)
BY DEF Keeps, Accounts, Known

\* persist_candidate's merge forgets nothing of a run that executed, and
\* accounts for the count it merges.
LEMMA MergedKeeps ==
    ASSUME NEW v, NEW j \in Fact, Sourced(v), Admits(v, j)
    PROVE  /\ Sourced(Merged(v, j)) /\ Keeps(v, Merged(v, j))
           /\ j.how = "ran" => Accounts(Merged(v, j), j.event.run, j.event.count)
<1>1. CASE j.how = "idle"
  <2>1. \A q \in Run : v.sources[q] = NoSource
        BY <1>1 DEF Admits
  <2>2. Merged(v, j).sources = [q \in Run |-> NoSource] /\ Merged(v, j).conflicts = {}
        BY <1>1 DEF Merged, IdleDay, Empty
  <2>3. v.conflicts = {}
        BY <2>1 DEF Sourced, Ranned
  <2> QED
      BY <1>1, <2>1, <2>2, <2>3 DEF Sourced, Keeps, Ranned
<1>2. CASE j.how # "idle"
  <2> DEFINE r == j.event.run
             s == SourceOf(v.sources[r], j)
             w == Merged(v, j)
  <2>1. r \in Run /\ j.event.count \in Count /\ j.how \in How /\ j.alert \in BOOLEAN
        BY <1>2 DEF Fact, Job, Event
  <2>2. /\ v.sources \in [Run -> Source \union {NoSource}]
        /\ v.sources[r] \in Source \union {NoSource}
        BY <2>1 DEF Sourced
  <2>3. /\ s \in Source \union {NoSource}
        /\ Ranned(v.sources[r]) =>
              Ranned(s) /\ (Known(v.sources[r].count) => s.count = v.sources[r].count)
        /\ j.how = "ran" => Ranned(s)
    <3>1. CASE j.how = "ran"
      <4> DEFINE c == IF Known(CountOf(v.sources[r])) THEN CountOf(v.sources[r]) ELSE j.event.count
      <4>1. s = [ran |-> TRUE, count |-> c, alert |-> FALSE]
            BY <3>1 DEF SourceOf, Ran
      <4>2. s.count = c
            BY <4>1
      <4>3. CountOf(v.sources[r]) \in Count
            BY <2>2 DEF CountOf, Source, Count
      <4>4. s.count \in Count
            BY <2>1, <4>2, <4>3
      <4>5. s \in Source /\ s.ran
            BY <4>1, <4>4 DEF Source
      <4>6. Ranned(s)
            BY <4>5, SourceAssumption DEF Ranned
      <4> QED
          BY <4>2, <4>5, <4>6 DEF Ranned, CountOf
    <3>2. CASE j.how = "skipped"
      <4>1. s = [ran |-> FALSE, count |-> Unknown, alert |-> j.alert]
            BY <3>2 DEF SourceOf, Fact
      <4>2. s \in Source
            BY <2>1, <4>1 DEF Source, Count
      <4>3. v.sources[r] \in {NoSource, s}
            BY <1>2, <3>2 DEF Admits
      <4>4. ~Ranned(v.sources[r])
            BY <4>1, <4>3 DEF Ranned
      <4> QED
          BY <3>2, <4>2, <4>4
    <3>3. CASE j.how = "event"
          BY <2>2, <3>3 DEF SourceOf
    <3> QED
        BY <1>2, <2>1, <3>1, <3>2, <3>3 DEF How
  <2>4. /\ w.sources = [v.sources EXCEPT ![r] = s]
        /\ w.conflicts = v.conflicts \union (IF Contradicts(v.sources[r], j) THEN {r} ELSE {})
        BY <1>2 DEF Merged
  <2>5. Contradicts(v.sources[r], j) => Ranned(s)
        BY <2>3 DEF Contradicts
  <2>6. Sourced(w)
        BY <2>1, <2>2, <2>3, <2>4, <2>5 DEF Sourced
  <2>7. Keeps(v, w)
        BY <2>1, <2>2, <2>3, <2>4 DEF Keeps
  <2>8. j.how = "ran" => Accounts(w, r, j.event.count)
    <3> SUFFICES ASSUME j.how = "ran" PROVE Accounts(w, r, j.event.count)
        OBVIOUS
    <3>1. w.sources[r] = s /\ Ranned(s)
          BY <2>1, <2>2, <2>3, <2>4
    <3>2. s.count = IF Known(CountOf(v.sources[r])) THEN CountOf(v.sources[r]) ELSE j.event.count
          BY DEF SourceOf, Ran
    <3>3. j.event.count = Unknown \/ s.count = j.event.count \/ Contradicts(v.sources[r], j)
          BY <3>2 DEF Contradicts, Known
    <3>4. Contradicts(v.sources[r], j) => r \in w.conflicts
          BY <2>4
    <3> QED
        BY <3>1, <3>3, <3>4 DEF Accounts
  <2> QED
      BY <2>6, <2>7, <2>8
<1> QED
    BY <1>1, <1>2

\* Nothing is accepted in the initial state.
LEMMA CountInvInit == Init => CountInv
<1> SUFFICES ASSUME Init PROVE CountInv
    OBVIOUS
<1>1. Sourced(Empty)
      BY DEF Sourced, Empty, Ranned
<1>2. NoJob \in Fact
      BY DEF NoJob, Fact, Job, How
<1> QED
    BY <1>1, <1>2 DEF Init, CountInv, Typed, ReaderInv, NoState, Pc

\* Every step keeps CountInv: persist_candidate writes its merge only over the
\* value it read, or finds that the value already holds it.
LEMMA CountInvStep == CountInv /\ [Next]_vars => CountInv'
<1> SUFFICES ASSUME CountInv, [Next]_vars
             PROVE  CountInv'
    OBVIOUS
<1> USE DEF CountInv
<1>1. CASE UNCHANGED vars
      BY <1>1 DEF vars, store, local, call, history, Typed, ReaderInv
<1>2. ASSUME NEW r \in Run, Archived(r)
      PROVE  CountInv'
  <2>1. report' \in [Run -> Report \union {NoReport}]
        BY <1>2 DEF Archived, Typed
  <2> QED
      BY <1>2, <2>1 DEF Archived, store, local, call, history, Typed, ReaderInv
<1>3. ASSUME NEW p \in Producer, Step(p)
      PROVE  CountInv'
  <2>1. ASSUME NEW j \in Fact, Persist(p, j)
        PROVE  CountInv'
        BY <2>1 DEF Persist, GoTo, store, history, Typed, ReaderInv, Pc
  <2>2. CASE Cycle(p) \/ EventAlone(p) \/ IdleWindow(p)
    <3>1. ASSUME NEW r \in Run, NEW k \in Kind, NEW c \in Count, NEW h \in {"ran", "event"}
          PROVE  [how |-> h, event |-> [run |-> r, kind |-> k, count |-> c], alert |-> FALSE] \in Fact
          BY DEF Fact, Job, Event, How
    <3>2. NoJob \in Fact
          BY DEF NoJob, Fact, Job, How
    <3> QED
        BY <2>1, <2>2, <3>1, <3>2 DEF Cycle, EventAlone, IdleWindow, Kind, Count
  <2>3. CASE FromArchive(p)
    <3>1. PICK r \in Run :
              LET f == report[r]
              IN /\ f # NoReport
                 /\ Consistent(f)
                 /\ Persist(p, [how |-> f.how,
                                event |-> [run |-> r, kind |-> f.kind, count |-> f.count],
                                alert |-> f.alert])
          BY <2>3 DEF FromArchive
    <3>2. report[r] \in Report
          BY <3>1 DEF Typed
    <3>3. [how |-> report[r].how,
           event |-> [run |-> r, kind |-> report[r].kind, count |-> report[r].count],
           alert |-> report[r].alert] \in Fact
          BY <3>1, <3>2 DEF Fact, Job, Event, How, Report, Consistent
    <3> QED
        BY <2>1, <3>1, <3>3
  <2>5. CASE ReadState(p)
    <3>1. seen'[p] = state /\ \A q \in Producer \ {p} : seen'[q] = seen[q]
          BY <2>5 DEF ReadState, Typed
    <3>2. Keeps(state.value, state.value)
          BY DEF Keeps
    <3>3. CASE state.version = 0
          BY <2>5, <3>1, <3>2, <3>3 DEF ReadState, GoTo, store, history, Typed, ReaderInv, Pc
    <3>4. CASE state.version # 0
          BY <2>5, <3>1, <3>2, <3>4 DEF ReadState, Merge, GoTo, store, history, Typed, ReaderInv, Pc
    <3> QED
        BY <3>3, <3>4
  <2>6. CASE ReadFirstExport(p)
    <3>1. seen[p].value = Empty
          BY <2>6 DEF ReadFirstExport, ReaderInv
    <3> QED
        BY <2>6, <3>1 DEF ReadFirstExport, Merge, GoTo, store, history, Typed, ReaderInv, Pc
  <2>7. CASE WriteState(p)
    <3> DEFINE j == job[p]
               needed == seen[p].version = 0 \/ new[p] # seen[p].value
    <3>1. /\ pc[p] = "write" /\ j \in Fact /\ Sourced(new[p])
          /\ Keeps(seen[p].value, new[p])
          /\ j.how = "ran" => Accounts(new[p], j.event.run, j.event.count)
          BY <2>7, MergedKeeps DEF WriteState, ReaderInv, Typed
    <3>2. j.how = "ran" => j.event.run \in Run /\ j.event.count \in Count
          BY <3>1 DEF Fact, Event
    <3>3. CASE needed /\ ~Wins(state.version, seen[p].version)
      <4>1. NoJob \in Fact
            BY DEF NoJob, Fact, Job, How
      <4> QED
          BY <2>7, <3>3, <4>1 DEF WriteState, Return, GoTo, Typed, ReaderInv, Pc
    <3>4. CASE needed /\ Wins(state.version, seen[p].version)
      <4>1. state' = [version |-> state.version + 1, value |-> new[p]]
            BY <2>7, <3>4 DEF WriteState
      <4>2. seen[p].value = state.value /\ Keeps(state.value, new[p])
            BY <3>1, <3>4 DEF Wins, ReaderInv
      <4>3. Typed'
            BY <2>7, <3>1, <3>2, <3>4, <4>1 DEF WriteState, GoTo, call, Typed, Pc
      <4>4. ASSUME NEW q \in Producer
            PROVE  ReaderInv(q)'
        <5>1. pc'[q] \in {"first", "write"} => q # p /\ pc'[q] = pc[q]
              BY <2>7, <3>4 DEF WriteState, GoTo, Typed
        <5>2. seen' = seen /\ new' = new /\ job' = job
              BY <2>7, <3>4 DEF WriteState, call
        <5>3. Keeps(seen[q].value, state.value) => Keeps(seen[q].value, state'.value)
              BY <4>1, <4>2, KeepsTransitive
        <5> QED
            BY <4>1, <5>1, <5>2, <5>3 DEF ReaderInv, Typed
      <4>5. \A a \in accepted : Accounts(new[p], a[1], a[2])
            BY <4>2, AccountsKept DEF Typed
      <4> QED
          BY <2>7, <3>1, <3>4, <4>1, <4>3, <4>4, <4>5 DEF WriteState
    <3>5. CASE ~needed
      <4>1. state' = state
            BY <2>7, <3>5 DEF WriteState
      <4>2. j.how = "ran" => Accounts(state.value, j.event.run, j.event.count)
            BY <3>1, <3>2, <3>5, AccountsKept DEF ReaderInv
      <4>3. Typed' /\ \A q \in Producer : ReaderInv(q)'
            BY <2>7, <3>1, <3>2, <3>5, <4>1 DEF WriteState, GoTo, call, Typed, ReaderInv, Pc
      <4> QED
          BY <2>7, <3>1, <3>5, <4>1, <4>2, <4>3 DEF WriteState
    <3> QED
        BY <3>3, <3>4, <3>5
  <2>8. CASE Return(p) /\ UNCHANGED <<state, report, accepted>>
    <3>1. NoJob \in Fact
          BY DEF NoJob, Fact, Job, How
    <3> QED
        BY <2>8, <3>1 DEF Return, GoTo, Typed, ReaderInv, Pc
  <2>9. CASE ReadExport(p) \/ Check(p) \/ CheckSame(p) \/ WriteExport(p) \/ Fail(p)
    <3>1. CASE Return(p)
          BY <2>8, <2>9, <3>1 DEF ReadExport, Check, CheckSame, WriteExport, Fail, store, history
    <3>2. CASE ~Return(p)
          BY <2>9, <3>2
             DEF ReadExport, Check, CheckSame, WriteExport, Fail, GoTo, store, call, history,
                 Typed, ReaderInv, Pc
    <3> QED
        BY <3>1, <3>2
  <2> QED
      BY <1>3, <2>2, <2>3, <2>5, <2>6, <2>7, <2>9 DEF Step
<1> QED
    BY <1>1, <1>2, <1>3 DEF Next

\* CountInv holds of every reachable state.
THEOREM CountInvHolds == Spec => []CountInv
BY CountInvInit, CountInvStep, PTL DEF Spec

\* A count of a run that the digest is shown was contradicted by no producer
\* whose evidence persist_candidate accepted (notification_conflicts).
THEOREM CountsAgreeHolds == Spec => []CountsAgree
<1>1. CountInv => CountsAgree
  <2> SUFFICES ASSUME CountInv, NEW r \in Run,
                      Row(state.value, r) # NoRow, Known(Row(state.value, r).count),
                      NEW a \in accepted, a[1] = r
               PROVE  a[2] \in {Unknown, Row(state.value, r).count}
      BY DEF CountsAgree
  <2>1. Accounts(state.value, r, a[2])
        BY DEF CountInv
  <2> QED
      BY <2>1 DEF Row, Accounts, Ranned, Known
<1> QED
    BY <1>1, CountInvHolds, PTL

-----------------------------------------------------------------------------
(* What was confirmed stays in the export.                                 *)

\* A later row of a run is there, is an alert when the row was one, and has
\* the events of the row.
ShowsRow(row, later) ==
    row # NoRow => later # NoRow /\ (row.alert => later.alert) /\ row.events \subseteq later.events
ShowsAll(rows, later) == \A r \in Run : ShowsRow(rows[r], later[r])

\* A value of the state with the events of its day.
Whole(v) == Sourced(v) /\ v.events \subseteq Event

\* w has grown from v: no run with a source lost it, its events or its
\* conflict.  (Events of a run without a source may go: an idle window.)
Grows(v, w) ==
    \A r \in Run : v.sources[r] # NoSource =>
        /\ w.sources[r] # NoSource /\ w.sources[r].ran = v.sources[r].ran
        /\ ~v.sources[r].ran => w.sources[r] = v.sources[r]
        /\ {e \in v.events : e.run = r} \subseteq w.events
        /\ r \in v.conflicts => r \in w.conflicts

\* The rows show the fact of job j.
Tells(rows, j) ==
    LET row == rows[j.event.run]
    IN /\ j.how \in {"ran", "skipped"} => row # NoRow
       /\ j.how = "ran" => j.event \in row.events
       /\ j.alert \/ (j.how = "ran" /\ j.event.kind = "real_error") => row # NoRow /\ row.alert

\* Only the fact of a skipped run is an alert by itself.
AlertSkipped(f) == f.alert => f.how = "skipped"

\* A producer's value is one that the state has grown from, and it tells the
\* producer's fact; the export it found equal still shows as much, and the
\* export it is about to replace shows no more.
ExporterInv(p) ==
    /\ AlertSkipped(job[p])
    /\ pc[p] \in {"first", "write"} => Whole(seen[p].value) /\ Grows(seen[p].value, state.value)
    /\ pc[p] \in {"export", "same", "check", "put"} =>
          /\ Whole(new[p]) /\ Grows(new[p], state.value)
          /\ Tells(Projection(new[p]).rows, job[p])
    /\ pc[p] = "same" => ShowsAll(Projection(new[p]).rows, export.value.rows)
    /\ pc[p] = "put" /\ exportSeen[p] = export.version =>
          ShowsAll(export.value.rows, Projection(new[p]).rows)

\* The export shows no more than the state, and every confirmed fact.
ConfirmInv ==
    /\ Whole(state.value)
    /\ \A r \in Run : report[r] # NoReport => AlertSkipped(report[r])
    /\ \A p \in Producer : ExporterInv(p)
    /\ ShowsAll(export.value.rows, Projection(state.value).rows)
    /\ \A j \in confirmed : j \in Fact /\ AlertSkipped(j) /\ Tells(export.value.rows, j)

\* Growing is transitive, and so is showing; what was told stays told.
LEMMA GrowsTransitive ==
    ASSUME NEW u, NEW v, NEW w, Grows(u, v), Grows(v, w)
    PROVE  Grows(u, w)
<1> SUFFICES ASSUME NEW r \in Run, u.sources[r] # NoSource
             PROVE  /\ w.sources[r] # NoSource /\ w.sources[r].ran = u.sources[r].ran
                    /\ ~u.sources[r].ran => w.sources[r] = u.sources[r]
                    /\ {e \in u.events : e.run = r} \subseteq w.events
                    /\ r \in u.conflicts => r \in w.conflicts
    BY DEF Grows
<1> QED
    BY DEF Grows

LEMMA ShowsTransitive ==
    ASSUME NEW a, NEW b, NEW c, ShowsAll(a, b), ShowsAll(b, c)
    PROVE  ShowsAll(a, c)
BY DEF ShowsAll, ShowsRow

LEMMA TellsStays ==
    ASSUME NEW rows, NEW later, NEW j \in Fact, AlertSkipped(j), ShowsAll(rows, later), Tells(rows, j)
    PROVE  Tells(later, j)
<1>1. CASE j.how \in {"ran", "skipped"}
  <2>1. j.event.run \in Run
        BY <1>1 DEF Fact, Event
  <2> QED
      BY <1>1, <2>1 DEF Tells, ShowsAll, ShowsRow
<1>2. CASE j.how \notin {"ran", "skipped"}
      BY <1>2 DEF Tells, AlertSkipped
<1> QED
    BY <1>1, <1>2

\* The row of a run is what the digest shows of it (_export_projection).
LEMMA RowShown ==
    ASSUME NEW v, Whole(v), NEW r \in Run
    PROVE  /\ v.sources[r] = NoSource => Row(v, r) = NoRow
           /\ v.sources[r] # NoSource => Row(v, r) \in Shown /\ Row(v, r) # NoRow
<1>1. CASE v.sources[r] = NoSource
      BY <1>1 DEF Row
<1>2. CASE v.sources[r] # NoSource
  <2>1. v.sources[r] \in Source /\ v.sources[r].alert \in BOOLEAN /\ v.sources[r].count \in Count
        BY <1>2 DEF Whole, Sourced, Source
  <2>2. {e \in v.events : e.run = r} \in SUBSET Event
        BY DEF Whole
  <2>3. Unknown \in Count
        BY DEF Count
  <2>4. Row(v, r) \in Shown
        BY <1>2, <2>1, <2>2, <2>3 DEF Row, Shown
  <2> QED
      BY <1>2, <2>4, RowAssumption
<1> QED
    BY <1>1, <1>2

\* What has grown shows all that it showed.
LEMMA GrowsShows ==
    ASSUME NEW v, NEW w, Whole(v), Whole(w), Grows(v, w)
    PROVE  ShowsAll(Projection(v).rows, Projection(w).rows)
<1>1. SUFFICES ASSUME NEW r \in Run, Row(v, r) # NoRow
               PROVE  /\ Row(w, r) # NoRow /\ (Row(v, r).alert => Row(w, r).alert)
                      /\ Row(v, r).events \subseteq Row(w, r).events
      BY DEF ShowsAll, ShowsRow, Projection
<1>2. v.sources[r] # NoSource /\ w.sources[r] # NoSource
      BY <1>1, RowShown DEF Grows
<1>3. Row(w, r) # NoRow
      BY <1>2, RowShown
<1>4. CASE v.sources[r].ran
  <2>1. w.sources[r].ran
        BY <1>2, <1>4 DEF Grows
  <2>2. /\ {e \in v.events : e.run = r} \subseteq {e \in w.events : e.run = r}
        /\ r \in v.conflicts => r \in w.conflicts
        BY <1>2 DEF Grows
  <2>3. /\ Row(v, r).events = {e \in v.events : e.run = r}
        /\ Row(v, r).alert = (r \in v.conflicts \/ \E e \in {f \in v.events : f.run = r} : e.kind = "real_error")
        BY <1>2, <1>4 DEF Row
  <2>4. /\ Row(w, r).events = {e \in w.events : e.run = r}
        /\ Row(w, r).alert = (r \in w.conflicts \/ \E e \in {f \in w.events : f.run = r} : e.kind = "real_error")
        BY <1>2, <2>1 DEF Row
  <2> QED
      BY <1>3, <2>2, <2>3, <2>4
<1>5. CASE ~v.sources[r].ran
      BY <1>2, <1>3, <1>5 DEF Grows, Row
<1> QED
    BY <1>4, <1>5

\* persist_candidate's merge grows the value it read, and tells its fact.
LEMMA MergedGrows ==
    ASSUME NEW v, NEW j \in Fact, Whole(v), Admits(v, j), AlertSkipped(j)
    PROVE  /\ Whole(Merged(v, j)) /\ Grows(v, Merged(v, j))
           /\ Tells(Projection(Merged(v, j)).rows, j)
<1> DEFINE w == Merged(v, j)
           r == j.event.run
           s == SourceOf(v.sources[r], j)
<1>1. Sourced(w)
      BY MergedKeeps DEF Whole
<1>2. CASE j.how = "idle"
  <2>1. \A q \in Run : v.sources[q] = NoSource
        BY <1>2 DEF Admits
  <2>2. w.events = {}
        BY <1>2 DEF Merged, IdleDay, Empty
  <2>3. Whole(w) /\ Grows(v, w)
        BY <1>1, <2>1, <2>2 DEF Whole, Grows
  <2> QED
      BY <1>2, <2>3 DEF Tells, AlertSkipped
<1>3. CASE j.how # "idle"
  <2>1. r \in Run /\ j.event \in Event /\ j.how \in {"ran", "skipped", "event"}
        BY <1>3 DEF Fact, Event, Job, How
  <2>2. /\ w.events = v.events \union {j.event}
        /\ w.sources = [v.sources EXCEPT ![r] = s]
        /\ v.conflicts \subseteq w.conflicts
        BY <1>3 DEF Merged
  <2>3. w.sources[r] = s /\ \A q \in Run \ {r} : w.sources[q] = v.sources[q]
        BY <2>1, <2>2 DEF Whole, Sourced
  <2>4. Whole(w)
        BY <1>1, <2>1, <2>2 DEF Whole
  <2>5. /\ j.how = "ran" => s.ran = TRUE
        /\ j.how = "skipped" => s.ran = FALSE /\ s.alert = j.alert
        /\ j.how = "event" => s = v.sources[r]
        BY DEF SourceOf, Ran
  <2>6. j.how \in {"ran", "skipped"} => s # NoSource
    <3> SUFFICES ASSUME j.how \in {"ran", "skipped"} PROVE s # NoSource
        OBVIOUS
    <3>1. s \in Source
      <4>1. j.event.count \in Count /\ j.alert \in BOOLEAN /\ v.sources[r] \in Source \union {NoSource}
            BY <1>3, <2>1 DEF Event, Fact, Job, Whole, Sourced
      <4>2. CASE j.how = "ran"
        <5>1. CountOf(v.sources[r]) \in Count
              BY <4>1 DEF CountOf, Source, Count
        <5> QED
            BY <4>1, <4>2, <5>1 DEF SourceOf, Ran, Source
      <4>3. CASE j.how = "skipped"
        <5>1. s = [ran |-> FALSE, count |-> Unknown, alert |-> j.alert]
              BY <4>3 DEF SourceOf, Fact
        <5> QED
            BY <4>1, <5>1 DEF Source, Count
      <4> QED
          BY <4>2, <4>3
    <3> QED
        BY <3>1, SourceAssumption
  <2>7. Grows(v, w)
    <3>1. v.sources[r] # NoSource => s # NoSource /\ s.ran = v.sources[r].ran /\ (~v.sources[r].ran => s = v.sources[r])
      <4>1. CASE j.how = "ran"
        <5>1. v.sources[r] # NoSource => v.sources[r] \in Source /\ v.sources[r].ran
              BY <2>1, <4>1 DEF Admits, Whole, Sourced
        <5>2. v.sources[r] # NoSource => v.sources[r].ran = TRUE
              BY <5>1 DEF Source
        <5> QED
            BY <2>5, <2>6, <4>1, <5>2
      <4>2. CASE j.how = "skipped"
        <5>1. v.sources[r] \in {NoSource, s}
              BY <4>2 DEF Admits
        <5> QED
            BY <2>6, <4>2, <5>1
      <4>3. CASE j.how = "event"
            BY <2>5, <4>3
      <4> QED
          BY <2>1, <4>1, <4>2, <4>3
    <3> QED
        BY <2>1, <2>2, <2>3, <3>1 DEF Grows
  <2>8. Tells(Projection(w).rows, j)
    <3> SUFFICES ASSUME j.how \in {"ran", "skipped"} PROVE Tells(Projection(w).rows, j)
        BY <2>1 DEF Tells, AlertSkipped
    <3>1. Projection(w).rows[r] = Row(w, r)
          BY <2>1 DEF Projection
    <3>2. w.sources[r] # NoSource /\ Row(w, r) # NoRow
          BY <2>1, <2>3, <2>4, <2>6, RowShown
    <3>3. CASE j.how = "ran"
      <4>1. w.sources[r].ran
            BY <2>3, <2>5, <3>3
      <4>2. j.event \in {e \in w.events : e.run = r}
            BY <2>2
      <4>3. /\ Row(w, r).events = {e \in w.events : e.run = r}
            /\ Row(w, r).alert = (r \in w.conflicts \/ \E e \in {f \in w.events : f.run = r} : e.kind = "real_error")
            BY <3>2, <4>1 DEF Row
      <4>4. ~j.alert
            BY <3>3 DEF AlertSkipped
      <4> QED
          BY <3>1, <3>2, <3>3, <4>2, <4>3, <4>4 DEF Tells
    <3>4. CASE j.how = "skipped"
      <4>1. ~w.sources[r].ran /\ w.sources[r].alert = j.alert
            BY <2>3, <2>5, <3>4
      <4>2. Row(w, r).alert = j.alert
            BY <3>2, <4>1 DEF Row
      <4> QED
          BY <3>1, <3>2, <3>4, <4>2 DEF Tells
    <3> QED
        BY <3>3, <3>4
  <2> QED
      BY <2>4, <2>7, <2>8
<1> QED
    BY <1>2, <1>3

\* Nothing is confirmed or exported in the initial state.
LEMMA ConfirmInvInit == Init => ConfirmInv
<1> SUFFICES ASSUME Init PROVE ConfirmInv
    OBVIOUS
<1>1. Whole(Empty)
      BY DEF Whole, Sourced, Empty, Ranned
<1>2. \A r \in Run : export.value.rows[r] = NoRow
      BY DEF Init, NoRows
<1> QED
    BY <1>1, <1>2 DEF Init, ConfirmInv, ExporterInv, NoState, NoJob, AlertSkipped, ShowsAll, ShowsRow

\* A step that leaves the two objects, and takes a producer at most to where it
\* has read the state, or out of its call.
LEMMA ConfirmLocal ==
    ASSUME ConfirmInv, CountInv, NEW p \in Producer, UNCHANGED <<state, report, confirmed>>,
           \A q \in Producer \ {p} :
               /\ pc'[q] = pc[q] /\ job'[q] = job[q] /\ seen'[q] = seen[q] /\ new'[q] = new[q]
               /\ exportSeen'[q] = exportSeen[q],
           export' = export, ExporterInv(p)'
    PROVE  ConfirmInv'
<1>1. ASSUME NEW q \in Producer PROVE ExporterInv(q)'
      BY DEF ConfirmInv, ExporterInv
<1> QED
    BY <1>1 DEF ConfirmInv

\* The step that keeps ConfirmInv, and what it leaves of the export.
Confirms == ConfirmInv' /\ ShowsAll(export.value.rows, export'.value.rows)

\* A producer that starts, reads or leaves disturbs neither object.
LEMMA ConfirmReads ==
    ASSUME ConfirmInv, CountInv, NEW p \in Producer,
           \/ Cycle(p) \/ FromArchive(p) \/ EventAlone(p) \/ IdleWindow(p)
           \/ ReadState(p) \/ ReadFirstExport(p) \/ ReadExport(p) \/ Check(p) \/ Fail(p)
    PROVE  Confirms
<1> USE DEF Typed
<1>0. ShowsAll(export.value.rows, export.value.rows)
      BY DEF ShowsAll, ShowsRow
<1>1. ASSUME NEW j \in Fact, AlertSkipped(j), Persist(p, j)
      PROVE  Confirms
  <2>1. ExporterInv(p)'
        BY <1>1 DEF Persist, GoTo, ExporterInv, CountInv
  <2> QED
      BY <1>0, <1>1, <2>1, ConfirmLocal DEF Persist, GoTo, store, history, CountInv, Confirms
<1>2. CASE Cycle(p) \/ EventAlone(p) \/ IdleWindow(p)
  <2>1. ASSUME NEW r \in Run, NEW k \in Kind, NEW c \in Count, NEW h \in {"ran", "event"}
        PROVE  LET f == [how |-> h, event |-> [run |-> r, kind |-> k, count |-> c], alert |-> FALSE]
               IN f \in Fact /\ AlertSkipped(f)
        BY DEF Fact, Job, Event, How, AlertSkipped
  <2>2. NoJob \in Fact /\ AlertSkipped(NoJob)
        BY DEF NoJob, Fact, Job, How, AlertSkipped
  <2> QED
      BY <1>1, <1>2, <2>1, <2>2 DEF Cycle, EventAlone, IdleWindow, Kind, Count
<1>3. CASE FromArchive(p)
  <2>1. PICK r \in Run :
            LET f == report[r]
            IN /\ f # NoReport
               /\ Consistent(f)
               /\ Persist(p, [how |-> f.how,
                              event |-> [run |-> r, kind |-> f.kind, count |-> f.count],
                              alert |-> f.alert])
        BY <1>3 DEF FromArchive
  <2>2. report[r] \in Report /\ AlertSkipped(report[r])
        BY <2>1 DEF CountInv, ConfirmInv
  <2>3. LET f == report[r]
            j == [how |-> f.how, event |-> [run |-> r, kind |-> f.kind, count |-> f.count], alert |-> f.alert]
        IN j \in Fact /\ AlertSkipped(j)
        BY <2>1, <2>2 DEF Fact, Job, Event, How, Report, Consistent, AlertSkipped
  <2> QED
      BY <1>1, <2>1, <2>3
<1>4. CASE ReadState(p)
  <2>1. seen'[p] = state /\ \A q \in Producer \ {p} : seen'[q] = seen[q]
        BY <1>4 DEF ReadState, CountInv
  <2>2. Grows(state.value, state.value) /\ Whole(state.value)
        BY DEF Grows, ConfirmInv
  <2>3. pc'[p] \in {"first", "write", "refused"} /\ pc[p] = "read"
        BY <1>4 DEF ReadState, Merge, GoTo, CountInv
  <2>4. ExporterInv(p)'
        BY <1>4, <2>1, <2>2, <2>3 DEF ReadState, ExporterInv, ConfirmInv, store, history
  <2>5. UNCHANGED <<state, report, confirmed, export, job, exportSeen>>
        BY <1>4 DEF ReadState, store, history
  <2>6. \A q \in Producer \ {p} : pc'[q] = pc[q] /\ new'[q] = new[q]
        BY <1>4 DEF ReadState, Merge, GoTo, CountInv
  <2> QED
      BY <1>0, <2>1, <2>4, <2>5, <2>6, ConfirmLocal DEF Confirms
<1>5. CASE ReadFirstExport(p)
  <2>1. pc'[p] \in {"write", "refused"} /\ pc[p] = "first"
        BY <1>5 DEF ReadFirstExport, Merge, GoTo, CountInv
  <2>2. UNCHANGED <<state, report, confirmed, export, job, seen, exportSeen>>
        BY <1>5 DEF ReadFirstExport, store, history
  <2>3. \A q \in Producer \ {p} : pc'[q] = pc[q] /\ new'[q] = new[q]
        BY <1>5 DEF ReadFirstExport, Merge, GoTo, CountInv
  <2>4. ExporterInv(p)'
        BY <2>1, <2>2 DEF ExporterInv, ConfirmInv
  <2> QED
      BY <1>0, <2>2, <2>3, <2>4, ConfirmLocal DEF Confirms
<1>6. CASE ReadExport(p)
  <2>1. /\ pc[p] = "export" /\ pc'[p] \in {"same", "check"}
        /\ pc'[p] = "same" => export.value = Projection(new[p])
        BY <1>6 DEF ReadExport, GoTo, CountInv
  <2>2. UNCHANGED <<state, report, confirmed, export, job, seen, new>>
        BY <1>6 DEF ReadExport, store, history
  <2>3. \A q \in Producer \ {p} : pc'[q] = pc[q] /\ exportSeen'[q] = exportSeen[q]
        BY <1>6 DEF ReadExport, GoTo, CountInv
  <2>4. ExporterInv(p)'
        BY <1>0, <2>1, <2>2 DEF ExporterInv, ConfirmInv
  <2> QED
      BY <1>0, <2>2, <2>3, <2>4, ConfirmLocal DEF Confirms
<1>7. CASE Check(p)
  <2>1. pc[p] = "check" /\ pc'[p] \in {"put", "refused"} /\ (pc'[p] = "put" => state.value = new[p])
        BY <1>7 DEF Check, GoTo, CountInv, IsLatest
  <2>2. UNCHANGED <<state, report, confirmed, export, job, seen, new, exportSeen>>
        BY <1>7 DEF Check, store, history
  <2>3. \A q \in Producer \ {p} : pc'[q] = pc[q]
        BY <1>7 DEF Check, GoTo, CountInv
  <2>4. ExporterInv(p)'
        BY <2>1, <2>2 DEF ExporterInv, ConfirmInv
  <2> QED
      BY <1>0, <2>2, <2>3, <2>4, ConfirmLocal DEF Confirms
<1>8. CASE Fail(p)
  <2>1. ExporterInv(p)'
        BY <1>8 DEF Fail, Return, GoTo, ExporterInv, NoJob, AlertSkipped, CountInv
  <2>2. UNCHANGED <<state, report, confirmed, export>>
        BY <1>8 DEF Fail, store, history
  <2>3. \A q \in Producer \ {p} :
           /\ pc'[q] = pc[q] /\ job'[q] = job[q] /\ seen'[q] = seen[q] /\ new'[q] = new[q]
           /\ exportSeen'[q] = exportSeen[q]
        BY <1>8 DEF Fail, Return, GoTo
  <2> QED
      BY <1>0, <2>1, <2>2, <2>3, ConfirmLocal DEF Confirms
<1> QED
    BY <1>2, <1>3, <1>4, <1>5, <1>6, <1>7, <1>8

\* A write of the state grows it, and whoever worked on an older value still
\* does (persist_candidate's compare_and_set).
LEMMA ConfirmWrites ==
    ASSUME ConfirmInv, CountInv, NEW p \in Producer, WriteState(p)
    PROVE  Confirms
<1> DEFINE v == seen[p].value
           needed == seen[p].version = 0 \/ new[p] # v
<1>0. ShowsAll(export.value.rows, export.value.rows)
      BY DEF ShowsAll, ShowsRow
<1>1. /\ pc[p] = "write" /\ job[p] \in Fact /\ AlertSkipped(job[p]) /\ Whole(v)
      /\ Admits(v, job[p]) /\ new[p] = Merged(v, job[p]) /\ Grows(v, state.value)
      BY DEF WriteState, ConfirmInv, ExporterInv, CountInv, ReaderInv, Typed
<1>2. Whole(new[p]) /\ Grows(v, new[p]) /\ Tells(Projection(new[p]).rows, job[p])
      BY <1>1, MergedGrows
<1>3. UNCHANGED <<export, report, confirmed>>
      BY DEF WriteState
<1>4. CASE needed /\ ~Wins(state.version, seen[p].version)
  <2>1. Return(p) /\ state' = state
        BY <1>4 DEF WriteState
  <2>2. ExporterInv(p)'
        BY <2>1 DEF Return, GoTo, ExporterInv, NoJob, AlertSkipped, CountInv, Typed
  <2>3. \A q \in Producer \ {p} :
           /\ pc'[q] = pc[q] /\ job'[q] = job[q] /\ seen'[q] = seen[q] /\ new'[q] = new[q]
           /\ exportSeen'[q] = exportSeen[q]
        BY <2>1 DEF Return, GoTo
  <2> QED
      BY <1>0, <1>3, <2>1, <2>2, <2>3, ConfirmLocal DEF Confirms
<1>5. CASE ~(needed /\ ~Wins(state.version, seen[p].version))
  <2>1. /\ UNCHANGED <<job, seen, new, exportSeen>>
        /\ pc'[p] = "export" /\ \A q \in Producer \ {p} : pc'[q] = pc[q]
        BY <1>5 DEF WriteState, GoTo, call, CountInv, Typed
  <2>3. /\ Whole(state'.value) /\ Grows(state.value, state'.value)
        /\ Grows(new[p], state'.value)
    <3>1. CASE needed
      <4>1. state'.value = new[p] /\ v = state.value
            BY <1>1, <1>5, <3>1 DEF WriteState, Wins, CountInv, ReaderInv
      <4> QED
          BY <1>2, <4>1 DEF Grows
    <3>2. CASE ~needed
      <4>1. state' = state /\ new[p] = v
            BY <3>2 DEF WriteState
      <4> QED
          BY <1>1, <4>1 DEF Grows, ConfirmInv
    <3> QED
        BY <3>1, <3>2
  <2>4. ASSUME NEW q \in Producer
        PROVE  ExporterInv(q)'
    <3>1. CASE q = p
          BY <1>1, <1>2, <2>1, <2>3, <3>1 DEF ExporterInv
    <3>2. CASE q # p
      <4>1. ExporterInv(q) /\ pc'[q] = pc[q]
            BY <2>1, <3>2 DEF ConfirmInv
      <4>2. /\ Grows(seen[q].value, state.value) => Grows(seen[q].value, state'.value)
            /\ Grows(new[q], state.value) => Grows(new[q], state'.value)
            BY <2>3, GrowsTransitive
      <4> QED
          BY <1>3, <2>1, <4>1, <4>2 DEF ExporterInv
    <3> QED
        BY <3>1, <3>2
  <2>5. ShowsAll(export'.value.rows, Projection(state'.value).rows)
        BY <1>3, <2>3, GrowsShows, ShowsTransitive DEF ConfirmInv
  <2>6. ConfirmInv'
        BY <1>3, <2>3, <2>4, <2>5 DEF ConfirmInv
  <2> QED
      BY <1>0, <1>3, <2>6 DEF Confirms
<1> QED
    BY <1>4, <1>5

\* Writing the export, or finding it equal, confirms what it shows.
LEMMA ConfirmExports ==
    ASSUME ConfirmInv, CountInv, ExportInv, NEW p \in Producer, CheckSame(p) \/ WriteExport(p)
    PROVE  Confirms
<1> USE DEF CountInv, Typed
<1>0. ShowsAll(export.value.rows, export.value.rows)
      BY DEF ShowsAll, ShowsRow
<1>1. /\ pc[p] \in {"same", "put"} /\ job[p] \in Fact /\ AlertSkipped(job[p])
      /\ Whole(new[p]) /\ Grows(new[p], state.value) /\ Tells(Projection(new[p]).rows, job[p])
      /\ UNCHANGED <<state, report>>
      BY DEF CheckSame, WriteExport, ConfirmInv, ExporterInv, store
<1>2. Return(p) => ExporterInv(p)'
      BY DEF Return, GoTo, ExporterInv, NoJob, AlertSkipped
<1>3. Return(p) => \A q \in Producer \ {p} :
         /\ pc'[q] = pc[q] /\ job'[q] = job[q] /\ seen'[q] = seen[q] /\ new'[q] = new[q]
         /\ exportSeen'[q] = exportSeen[q]
      BY DEF Return, GoTo
<1>4. CASE CheckSame(p) /\ IsLatest(new[p])
  <2>1. /\ pc[p] = "same" /\ Return(p) /\ export' = export
        /\ confirmed' = confirmed \union {job[p]}
        BY <1>4 DEF CheckSame, store
  <2>2. Tells(export.value.rows, job[p])
        BY <1>1, <2>1, TellsStays DEF ConfirmInv, ExporterInv
  <2>3. ASSUME NEW q \in Producer PROVE ExporterInv(q)'
        BY <1>1, <1>2, <1>3, <2>1 DEF ConfirmInv, ExporterInv
  <2>4. ConfirmInv'
        BY <1>1, <2>1, <2>2, <2>3 DEF ConfirmInv
  <2> QED
      BY <1>0, <2>1, <2>4 DEF Confirms
<1>5. CASE CheckSame(p) /\ ~IsLatest(new[p])
  <2>1. UNCHANGED <<export, confirmed, job, seen, new, exportSeen>>
        BY <1>5 DEF CheckSame, store, call
  <2>2. pc'[p] = "refused" /\ \A q \in Producer \ {p} : pc'[q] = pc[q]
        BY <1>5 DEF CheckSame, GoTo
  <2>3. ExporterInv(p)'
        BY <1>1, <2>1, <2>2 DEF ExporterInv
  <2> QED
      BY <1>0, <1>1, <2>1, <2>2, <2>3, ConfirmLocal DEF Confirms
<1>6. CASE WriteExport(p) /\ Wins(export.version, exportSeen[p])
  <2>1. /\ pc[p] = "put" /\ Return(p) /\ confirmed' = confirmed \union {job[p]}
        /\ export'.version = export.version + 1 /\ export'.value = Projection(new[p])
        BY <1>6 DEF WriteExport
  <2>2. ShowsAll(export.value.rows, export'.value.rows)
        BY <1>6, <2>1 DEF ConfirmInv, ExporterInv, Wins
  <2>3. ASSUME NEW q \in Producer PROVE ExporterInv(q)'
    <3>1. CASE q = p
          BY <1>2, <2>1, <3>1
    <3>2. CASE q # p
      <4>1. pc'[q] = pc[q] /\ job'[q] = job[q] /\ seen'[q] = seen[q] /\ new'[q] = new[q]
            BY <1>3, <2>1, <3>2
      <4>2. exportSeen'[q] # export'.version
        <5>1. exportSeen[q] <= export.version /\ exportSeen[q] \in Nat /\ export.version \in Nat
              BY DEF ExportInv
        <5> QED
            BY <1>3, <2>1, <3>2, <5>1
      <4>3. ExporterInv(q)
            BY DEF ConfirmInv
      <4> QED
          BY <1>1, <2>2, <4>1, <4>2, <4>3, ShowsTransitive DEF ExporterInv
    <3> QED
        BY <3>1, <3>2
  <2>4. ShowsAll(export'.value.rows, Projection(state'.value).rows)
        BY <1>1, <2>1, GrowsShows DEF ConfirmInv
  <2>5. ASSUME NEW j \in confirmed'
        PROVE  j \in Fact /\ AlertSkipped(j) /\ Tells(export'.value.rows, j)
    <3>1. CASE j \in confirmed
          BY <2>2, <3>1, TellsStays DEF ConfirmInv
    <3>2. CASE j = job[p]
          BY <1>1, <2>1, <3>2
    <3> QED
        BY <2>1, <3>1, <3>2
  <2>6. ConfirmInv'
        BY <1>1, <2>3, <2>4, <2>5 DEF ConfirmInv
  <2> QED
      BY <2>2, <2>6 DEF Confirms
<1>7. CASE WriteExport(p) /\ ~Wins(export.version, exportSeen[p])
  <2>1. Return(p) /\ UNCHANGED <<export, confirmed>>
        BY <1>7 DEF WriteExport
  <2> QED
      BY <1>0, <1>1, <1>2, <1>3, <2>1, ConfirmLocal DEF Confirms
<1> QED
    BY <1>4, <1>5, <1>6, <1>7

\* Every step keeps ConfirmInv, and the export shows what it showed.
LEMMA ConfirmInvStep == ConfirmInv /\ CountInv /\ ExportInv /\ [Next]_vars => Confirms
<1> SUFFICES ASSUME ConfirmInv, CountInv, ExportInv, [Next]_vars
             PROVE  Confirms
    OBVIOUS
<1>0. ShowsAll(export.value.rows, export.value.rows)
      BY DEF ShowsAll, ShowsRow
<1>1. CASE UNCHANGED vars
      BY <1>0, <1>1 DEF vars, store, local, call, history, ConfirmInv, ExporterInv, Confirms
<1>2. ASSUME NEW r \in Run, Archived(r)
      PROVE  Confirms
  <2>1. \A q \in Run : report'[q] # NoReport => AlertSkipped(report'[q])
    <3>1. PICK f \in Report : (f.how = "ran" => ~f.alert) /\ report' = [report EXCEPT ![r] = f]
          BY <1>2 DEF Archived
    <3>2. AlertSkipped(f)
          BY <3>1 DEF Report, AlertSkipped
    <3> QED
        BY <3>1, <3>2 DEF ConfirmInv, CountInv, Typed
  <2> QED
      BY <1>0, <1>2, <2>1 DEF Archived, store, local, call, history, ConfirmInv, ExporterInv, Confirms
<1>3. ASSUME NEW p \in Producer, Step(p)
      PROVE  Confirms
      BY <1>3, ConfirmReads, ConfirmWrites, ConfirmExports DEF Step
<1> QED
    BY <1>1, <1>2, <1>3 DEF Next

\* What a producer was told is persisted is in the export, a confirmed alert
\* or error is one there, and both stay: a deferred message is in the digest
\* (_export_projection), whichever producers overlap or fail.
THEOREM ConfirmedStaysHolds == Spec => ConfirmedStays
<1>1. Spec => []ConfirmInv
      BY ConfirmInvInit, ConfirmInvStep, CountInvInit, CountInvStep, ExportInvInit, ExportInvStep, PTL
         DEF Spec, Confirms
<1>2. ConfirmInv => ConfirmedIsExported /\ ConfirmedAlertShows
      BY DEF ConfirmInv, ConfirmedIsExported, ConfirmedAlertShows, Tells
<1>3. ConfirmInv /\ CountInv /\ ExportInv /\ [Next]_vars =>
        [\A r \in Run :
            LET row == export.value.rows[r]
                later == export'.value.rows[r]
            IN row # NoRow /\ row.alert => later # NoRow /\ later.alert]_vars
      BY ConfirmInvStep DEF Confirms, ShowsAll, ShowsRow
<1>4. Spec => []ExportInv
      BY ExportInvInit, ExportInvStep, PTL DEF Spec
<1> QED
    BY <1>1, <1>2, <1>3, <1>4, CountInvHolds, PTL DEF Spec, ConfirmedStays, AlertStays
=============================================================================
