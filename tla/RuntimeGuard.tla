---------------------------- MODULE RuntimeGuard ----------------------------
(***************************************************************************)
(* The runtime guard: every half hour it reads the failures Cloud Run and  *)
(* Cloud Scheduler logged for one service in a lookback window and alerts  *)
(* Telegram, unless the alert repeats one the deduplication state already  *)
(* holds.  The log queries may fail, the state is a cache that may be      *)
(* missing, and a new revision hides what was logged before it.            *)
(* A definition marked "Bug:" is a fault the properties must find.         *)
(*                                                                         *)
(* Source: scripts/cloud_run_runtime_guard.py,                             *)
(* scripts/runtime_guard_alert_dedupe.py.                                  *)
(***************************************************************************)
EXTENDS Integers, FiniteSets

CONSTANTS RunEntries, \* the failures the service may log
          JobEntries, \* the failures its scheduler jobs may log
          Lookback,   \* RUNTIME_GUARD_LOOKBACK_MINUTES, in guard intervals
          Reminder,   \* RUNTIME_GUARD_ALERT_DEDUPE_REMINDER_HOURS
          Retention,  \* EVENT_RETENTION_HOURS
          MaxTime     \* bound: guard intervals

VARIABLES now,      \* the guard interval
          ran,      \* the guard ran in this interval
          log,      \* when each failure was logged
          revision, \* when the latest Ready revision was created
          mode,    \* RUNTIME_GUARD_ALERT_DEDUPE_MODE
          store,    \* the deduplication state in the workflow cache
          last,     \* what the run of this interval saw and did
          tried     \* history: when each failure and each kind of alert was
                    \* last sent, as far as the saved state can know

vars == <<now, ran, log, revision, mode, store, last, tried>>

Entries == RunEntries \cup JobEntries
Never == -1
Times == Never..MaxTime
\* An alert is of the kind its set of issues makes it, whatever the counts.  The
\* texts of one reason ("failures" of a run and of a job, the queries that could
\* not be read) are one issue here, where decide() has a fingerprint of each: a
\* text that is new beside known ones of its reason is alerted by the code and
\* may be a repeat here.
IssueTypes == {"unread", "noSuccess", "failures"}
Targets == {"one", "disabled", "missing"}
NoEvents == [e \in Entries |-> Never]
NoIssues == [i \in SUBSET IssueTypes |-> Never]
NoStore == [events |-> NoEvents, issues |-> NoIssues]
NothingSeen == [target |-> "disabled", issues |-> {}, seen |-> {}, oldest |-> 0, does |-> "nothing"]

TypeOK ==
  /\ now \in 0..MaxTime /\ ran \in BOOLEAN /\ revision \in Times
  /\ log \in [Entries -> Times] /\ mode \in {"off", "dry_run", "on"}
  /\ store.events \in [Entries -> Times] /\ store.issues \in [SUBSET IssueTypes -> Times]
  /\ last.target \in Targets /\ last.issues \subseteq IssueTypes /\ last.seen \subseteq Entries
  /\ last.does \in {"nothing", "healthy", "alerts", "suppresses"}
  /\ tried.events \in [Entries -> Times] /\ tried.issues \in [SUBSET IssueTypes -> Times]

Init ==
  /\ now = 0 /\ ran = FALSE /\ revision = Never
  /\ log = NoEvents /\ mode \in {"off", "dry_run", "on"}
  /\ store = NoStore /\ last = NothingSeen /\ tried = NoStore

-----------------------------------------------------------------------------
(* What a run sees.  The window starts at the latest Ready revision when   *)
(* that can be read and is younger than the lookback, and of a busy log    *)
(* only the newest RUNTIME_GUARD_LOG_LIMIT lines are read, from "oldest".  *)
Window == now - Lookback
Since(known) == IF known /\ revision > Window THEN revision ELSE Window
Logged(entries, since) == {e \in entries : log[e] # Never /\ log[e] >= since}
(* A scheduler failure next to a Cloud Run failure is the same incident.   *)
Duplicate(e, failures) == \E f \in failures : log[e] = log[f]
When(c, issue) == IF c THEN {issue} ELSE {}

\* Bug: a query that fails finds nothing.
NothingUnread(target, runOk, jobsOk) == target = "missing"
Unread(target, runOk, jobsOk) == target = "missing" \/ (target = "one" /\ ~(runOk /\ jobsOk))

(* A run: the configured service, the two queries, and the checks.  An     *)
(* enabled target without a service is an issue, a disabled one is not.    *)
Observed(target, known, oldest, runOk, jobsOk, idle) ==
  LET since == IF Since(known) > oldest THEN Since(known) ELSE oldest
      looked == target = "one"
      runs == IF looked /\ runOk THEN Logged(RunEntries, since) ELSE {}
      jobs == IF looked /\ jobsOk THEN {e \in Logged(JobEntries, since) : ~Duplicate(e, runs)} ELSE {}
  IN [target |-> target, oldest |-> oldest, seen |-> runs \cup jobs,
      issues |-> When(Unread(target, runOk, jobsOk), "unread")
                 \cup When(looked /\ runOk /\ idle, "noSuccess")
                 \cup When(runs \cup jobs # {}, "failures")]

-----------------------------------------------------------------------------
(* The deduplication.  The workflow restores the last saved state, or none *)
(* when the cache is gone; mode off neither reads nor writes it.           *)
\* Bug: an entry is forgotten while the lookback still reports it.
PrunesEarly(events) == [e \in Entries |-> IF events[e] >= now - Lookback + 1 THEN events[e] ELSE Never]
Pruned(events) == [e \in Entries |-> IF events[e] >= now - Retention THEN events[e] ELSE Never]

Restored == [store EXCEPT !.events = Pruned(store.events)]
NewEntries(s, seen) == {e \in seen : s.events[e] = Never}
\* Bug: any alert sent lately counts, whatever its kind.
RepeatsAny(s, o) ==
  /\ NewEntries(s, o.seen) = {}
  /\ \E i \in SUBSET IssueTypes : s.issues[i] # Never /\ now - s.issues[i] < Reminder
Repeat(s, o) ==
  /\ NewEntries(s, o.seen) = {}
  /\ s.issues[o.issues] # Never
  /\ now - s.issues[o.issues] < Reminder

Recorded(s, o) ==
  [events |-> [e \in Entries |-> IF e \in NewEntries(s, o.seen) THEN now ELSE s.events[e]],
   issues |-> IF Repeat(s, o) THEN s.issues ELSE [s.issues EXCEPT ![o.issues] = now]]

Cleared(s) == [s EXCEPT !.issues = NoIssues]

(* main(): healthy, or the decision is saved and the message sent or not.  *)
(* Nothing reads whether the message arrived.  A runner that dies before   *)
(* the cache is saved leaves the state as it was restored.                 *)
Outcome(o) ==
  CASE o.issues = {} -> "healthy"
    [] mode = "on" /\ Repeat(Restored, o) -> "suppresses"
    [] OTHER -> "alerts"
Saved(o) ==
  IF mode = "off" THEN store
  ELSE IF Outcome(o) = "healthy" THEN Cleared(Restored)
  ELSE Recorded(Restored, o)
History(o) ==
  CASE Outcome(o) = "healthy" -> [tried EXCEPT !.issues = NoIssues]
    [] Outcome(o) = "alerts" ->
       [events |-> [e \in Entries |-> IF e \in o.seen THEN now ELSE tried.events[e]],
        issues |-> [tried.issues EXCEPT ![o.issues] = now]]
    [] OTHER -> tried

GuardRun ==
  /\ ~ran
  /\ \E target \in Targets, oldest \in {Window, now}, known, runOk, jobsOk, idle, saves \in BOOLEAN :
       LET o == Observed(target, known, oldest, runOk, jobsOk, idle) IN
       /\ last' = [target |-> target, issues |-> o.issues, seen |-> o.seen, oldest |-> oldest, does |-> Outcome(o)]
       /\ store' = IF saves THEN Saved(o) ELSE store
       /\ tried' = IF saves THEN History(o) ELSE tried
  /\ ran' = TRUE
  /\ UNCHANGED <<now, log, revision, mode>>

(* The cache of the workflow is evicted: what was sent is not remembered.  *)
CacheGone ==
  /\ ~ran /\ store # NoStore
  /\ store' = NoStore /\ tried' = NoStore
  /\ UNCHANGED <<now, ran, log, revision, mode, last>>

(* The service or a scheduler job logs a failure; a deployment makes a     *)
(* revision Ready; half an hour passes.                                    *)
LogEntry ==
  /\ ~ran
  /\ \E e \in Entries : log[e] = Never /\ log' = [log EXCEPT ![e] = now]
  /\ UNCHANGED <<now, ran, revision, mode, store, last, tried>>
NewRevision ==
  /\ ~ran /\ revision # now
  /\ revision' = now
  /\ UNCHANGED <<now, ran, log, mode, store, last, tried>>
Tick ==
  /\ now < MaxTime
  /\ now' = now + 1 /\ ran' = FALSE /\ last' = NothingSeen
  /\ UNCHANGED <<log, revision, mode, store, tried>>

Next == GuardRun \/ CacheGone \/ LogEntry \/ NewRevision \/ Tick
Spec == Init /\ [][Next]_vars

-----------------------------------------------------------------------------
(* When a run of the guard calls an enabled service healthy, no failure is *)
(* among the log lines it read of the window and the latest revision: a    *)
(* query that failed and a service list that could not be read are       *)
(* issues of their own, never silence.                                     *)
HealthyMeansQuiet ==
  ran /\ last.does = "healthy" /\ last.target # "disabled" =>
    \A e \in Entries : log[e] # Never => log[e] < last.oldest \/ log[e] < revision

(* A suppressed alert repeats: each failure it saw was in an alert that    *)
(* was sent, and its kind of alert was sent less than a reminder ago and   *)
(* since the last healthy run (runtime_guard_alert_dedupe.decide).         *)
SuppressedWasAlerted ==
  ran /\ last.does = "suppresses" =>
    /\ \A e \in last.seen : tried.events[e] # Never
    /\ tried.issues[last.issues] # Never /\ now - tried.issues[last.issues] < Reminder

(* With the deduplication on, an alert whose failures were all sent before *)
(* goes out again only when its kind is new since the last healthy run or  *)
(* a reminder is due: what decide() remembers outlives the lookback.       *)
RepeatHasReason ==
  ~ran /\ ran' /\ mode = "on" /\ last'.does = "alerts" =>
    \/ \E e \in last'.seen : tried.events[e] = Never
    \/ tried.issues[last'.issues] = Never
    \/ now - tried.issues[last'.issues] >= Reminder

(* What makes them hold: with the deduplication on, the state holds every  *)
(* kind of alert that was sent and every failure that was sent and can     *)
(* still be read.                                                          *)
Memory == [events : [Entries -> Times], issues : [SUBSET IssueTypes -> Times]]
LoggedBefore == \A e \in Entries : log[e] <= now
GuardTyped ==
  /\ now \in 0..MaxTime /\ ran \in BOOLEAN /\ revision \in Times
  /\ log \in [Entries -> Times] /\ LoggedBefore
  /\ store \in Memory /\ tried \in Memory
SentIsHeld ==
  \A e \in Entries : tried.events[e] # Never =>
    /\ log[e] # Never
    /\ (store.events[e] # Never /\ log[e] <= store.events[e]) \/ log[e] < now - Retention
HeldWasSent ==
  tried.issues = store.issues /\ \A e \in Entries : store.events[e] # Never => tried.events[e] # Never
Remembers == mode = "on" => SentIsHeld /\ HeldWasSent
GuardInv == GuardTyped /\ Remembers /\ HealthyMeansQuiet /\ SuppressedWasAlerted
=============================================================================
