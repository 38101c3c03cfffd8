--------------------------- MODULE SnapshotRecorder ---------------------------
(***************************************************************************)
(* The daily account snapshot: scripts/record_daily_account_snapshot.py.   *)
(*                                                                         *)
(* The probe job of a stopped target is kept PAUSED.  A recorder resumes   *)
(* it, lets it trigger one probe of the service, waits for the snapshot    *)
(* the probe archives, and pauses the job again before it publishes what   *)
(* it found.  Every call to the scheduler may be refused or remain without *)
(* an answer, and then take effect later or never; recorders overlap with  *)
(* each other, with deployments and with the schedule of the job itself.   *)
(*                                                                         *)
(* Time is a count of ticks.  A call is over within Call of them, so the   *)
(* clock waits for whoever is due.                                         *)
(*                                                                         *)
(* A definition marked "Bug:" is a fault the properties must find.         *)
(***************************************************************************)
EXTENDS Naturals

CONSTANTS
    Recorder,   \* runs of the workflow step
    Controls,   \* contents the job's configuration may have
    Contract,   \* those the paused-probe contract admits
    Natural,    \* when the job's own schedule fires
    Guard,      \* _PAUSED_PROBE_SCHEDULE_GUARD
    Wait,       \* WAIT_SECONDS
    Call,       \* HTTP_TIMEOUT_SECONDS and GCS_TIMEOUT_SECONDS
    Window,     \* OBSERVATION_WINDOW
    LastStart,  \* bound: no recorder starts later
    Horizon,    \* bound: the clock stops
    NoJob, NoSnapshot

Time == 0..Horizon
Snapshot == {o \in [started : Time, finished : Time] : o.started <= o.finished}

\* 20 s a call, 180 s of waiting, 600 s of distance to the schedule.
ASSUME TimingAssumption ==
    /\ Guard \in Nat /\ Wait \in Nat /\ Call \in Nat \ {0} /\ Window \in Nat
    /\ LastStart \in Nat /\ Horizon \in Nat \ {0}
    /\ Natural \subseteq Nat
    /\ 2 * Call <= Wait
    /\ Wait + 3 * Call <= Guard

ASSUME SnapshotAssumption ==
    /\ Contract \subseteq Controls
    /\ NoJob \notin [controls : Controls, attempts : Nat]
    /\ NoSnapshot \notin [started : Nat, finished : Nat]

Pc == {"idle", "resume", "reread", "readback", "run", "observe", "pause",
       "verify", "publish", "done", "dead"}
Outcome == {"none", "recorded", "refused", "failed",
            "resume_unknown", "pause_failed", "restore_unconfirmed"}
Request == {"resume", "pause", "run"}

VARIABLES
    enabled,   \* the job's state
    controls,  \* and its configuration
    attempts,  \* lastAttemptTime: how often it was triggered
    late,      \* unanswered requests that may still take effect
    fired,     \* natural times that have fired
    probes,    \* when the probes that are under way were triggered
    archive,   \* what probes archived
    now,
    pc,
    paused,    \* whether the recorder found the job PAUSED
    original,  \* the job as the recorder found it
    deadline,
    due,       \* when the call under way is over at the latest
    triggered, \* started_at
    selected,  \* the snapshot to publish
    trouble,   \* pause_error
    outcome,
    posted     \* whether the recorder published

jobVars == <<enabled, controls, attempts, late, fired>>
probeVars == <<probes, archive>>
workVars == <<original, deadline, triggered, selected, trouble>>
recorderVars == <<pc, due, outcome, paused, posted, workVars>>
vars == <<jobVars, probeVars, now, recorderVars>>

\* A stopped target's job, and what was archived before.
Init ==
    /\ enabled = FALSE /\ controls \in Contract /\ attempts = 0
    /\ late = {} /\ fired = {}
    /\ probes = {} /\ archive = {[started |-> 0, finished |-> 0]}
    /\ now = 1
    /\ pc = [r \in Recorder |-> "idle"]
    /\ due = [r \in Recorder |-> 0]
    /\ outcome = [r \in Recorder |-> "none"]
    /\ paused = [r \in Recorder |-> FALSE]
    /\ posted = [r \in Recorder |-> FALSE]
    /\ original = [r \in Recorder |-> NoJob]
    /\ deadline = [r \in Recorder |-> 0]
    /\ triggered = [r \in Recorder |-> 0]
    /\ selected = [r \in Recorder |-> NoSnapshot]
    /\ trouble = [r \in Recorder |-> FALSE]

Busy(r) == pc[r] \notin {"idle", "done", "dead"}

\* The next call is over within Call.
Calls(r, p) ==
    /\ pc' = [pc EXCEPT ![r] = p]
    /\ due' = [due EXCEPT ![r] = now + Call]

\* Nothing is left of the process.
Leaves(r, p) ==
    /\ pc' = [pc EXCEPT ![r] = p]
    /\ due' = [due EXCEPT ![r] = 0]
    /\ original' = [original EXCEPT ![r] = NoJob]
    /\ deadline' = [deadline EXCEPT ![r] = 0]
    /\ triggered' = [triggered EXCEPT ![r] = 0]
    /\ selected' = [selected EXCEPT ![r] = NoSnapshot]
    /\ trouble' = [trouble EXCEPT ![r] = FALSE]

Ends(r, how) == Leaves(r, "done") /\ outcome' = [outcome EXCEPT ![r] = how]

Continues(r, p) == Calls(r, p) /\ UNCHANGED <<outcome, workVars>>

\* Everything after the resume goes through _pause_and_verify.
Restores(r, how) ==
    /\ Calls(r, "pause")
    /\ outcome' = [outcome EXCEPT ![r] = how]
    /\ UNCHANGED workVars

\* A recorder that found the job ENABLED leaves it so.
Fails(r) == IF paused[r] THEN Restores(r, "failed") ELSE Ends(r, "failed")

-----------------------------------------------------------------------------
(* The recorder. *)

Distance(t, n) == IF t < n THEN n - t ELSE t - n

\* Bug: only the run itself is kept clear of the schedule.
NaturalWindowOfRun == \E n \in Natural : Distance(now, n) <= Call

\* _validate_paused_probe_schedule: the job is due, or was, in a moment.
NaturalWindow == \E n \in Natural : Distance(now, n) < Guard

\* Read the job and validate it.  RUNTIME_TARGET_ENABLED is "false".  Of a job
\* that is ENABLED the schedule is not looked at.
Inspect(r) ==
    /\ pc[r] = "idle" /\ now <= LastStart
    /\ paused' = [paused EXCEPT ![r] = ~enabled]
    /\ \/ Ends(r, "refused")  \* no answer, or not the expected job
       \/ /\ enabled \/ (controls \in Contract /\ ~NaturalWindow)
          /\ Calls(r, IF enabled THEN "run" ELSE "resume")
          /\ original' = [original EXCEPT
                 ![r] = [controls |-> controls, attempts |-> attempts]]
          /\ deadline' = [deadline EXCEPT ![r] = now + Wait]
          /\ triggered' = [triggered EXCEPT ![r] = now]
          /\ UNCHANGED <<selected, trouble, outcome>>
    /\ UNCHANGED <<jobVars, probeVars, now, posted>>

Resume(r) ==
    /\ pc[r] = "resume"
    /\ \/ /\ enabled' = TRUE /\ late' = late
          /\ Continues(r, "readback")
       \/ /\ UNCHANGED <<enabled, late>>
          /\ Ends(r, "refused")
       \/ /\ \/ enabled' = TRUE /\ late' = late
             \/ enabled' = enabled /\ late' = late \union {"resume"}
          /\ Continues(r, "reread")
    /\ UNCHANGED <<controls, attempts, fired, probeVars, now, paused, posted>>

\* The resume had no answer: it is undone if it took effect.
Reread(r) ==
    /\ pc[r] = "reread"
    /\ \/ Ends(r, "resume_unknown")  \* this call has no answer either
       \/ IF enabled THEN Restores(r, "resume_unknown")
                     ELSE Ends(r, "resume_unknown")
    /\ UNCHANGED <<jobVars, probeVars, now, paused, posted>>

AsFound(r) == controls = original[r].controls

\* The job that was resumed, and nobody has triggered it.
AsResumed(r) == enabled /\ AsFound(r) /\ attempts = original[r].attempts

\* Bug: it is left to the next recorder.
NeverRestores == FALSE

\* Not that job: it is paused again if it is ENABLED.
MustRestore == enabled

Readback(r) ==
    /\ pc[r] = "readback"
    /\ \/ Restores(r, "failed")  \* no answer
       \/ /\ AsResumed(r) /\ now < deadline[r]
          /\ Calls(r, "run")
          /\ triggered' = [triggered EXCEPT ![r] = now]
          /\ UNCHANGED <<outcome, original, deadline, selected, trouble>>
       \/ /\ AsResumed(r) /\ now >= deadline[r]
          /\ Restores(r, "failed")
       \/ /\ ~AsResumed(r)
          /\ IF MustRestore THEN Restores(r, "failed") ELSE Ends(r, "failed")
    /\ UNCHANGED <<jobVars, probeVars, now, paused, posted>>

Attempt ==
    /\ attempts' = attempts + 1
    /\ probes' = probes \union {now}

NoAttempt == UNCHANGED <<attempts, probes>>

\* How long the archive is polled: since the resume, or since this run.
Until(r) == IF paused[r] THEN deadline[r] ELSE now + Wait

\* The job is triggered once, whatever comes of it.
Run(r) ==
    /\ pc[r] = "run"
    /\ \/ /\ Attempt /\ late' = late /\ now < Until(r)
          /\ Calls(r, "observe")
          /\ deadline' = [deadline EXCEPT ![r] = Until(r)]
          /\ UNCHANGED <<outcome, original, triggered, selected, trouble>>
       \/ /\ Attempt /\ late' = late /\ now >= Until(r)
          /\ Fails(r)
       \/ /\ \/ NoAttempt /\ late' = late
             \/ NoAttempt /\ late' = late \union {"run"}
             \/ Attempt /\ late' = late
          /\ Fails(r)
    /\ UNCHANGED <<enabled, controls, fired, archive, now, paused, posted>>

\* _is_fresh
Fresh(o) == now <= o.started + Window

\* Bug: whatever is fresh is taken for the answer.
ValidIfFresh(r, o) == Fresh(o)

\* _validate_history_object: of this account, and since the trigger.
Valid(r, o) == triggered[r] <= o.started /\ Fresh(o)

\* Bug: the polling goes on until something is found.
NeverExpires(r) == FALSE

Expired(r) == now >= deadline[r]

\* List and read the archive; what cannot be read is passed over.
Observe(r) ==
    /\ pc[r] = "observe" /\ ~Expired(r)
    /\ \E read \in SUBSET {o \in archive : Valid(r, o)} : \E o \in read :
          /\ \A other \in read : other.finished <= o.finished
          /\ selected' = [selected EXCEPT ![r] = o]
    /\ Calls(r, IF paused[r] THEN "pause" ELSE "publish")
    /\ UNCHANGED <<jobVars, probeVars, now, paused, posted, outcome, original,
                   deadline, triggered, trouble>>

\* Nothing was found: sleep and list again.
Polls(r) ==
    /\ pc[r] = "observe" /\ ~Expired(r)
    /\ Continues(r, "observe")
    /\ UNCHANGED <<jobVars, probeVars, now, paused, posted>>

\* The listing fails, is truncated, or an object changes under the reader.
ObserveFails(r) ==
    /\ pc[r] = "observe"
    /\ Fails(r)
    /\ UNCHANGED <<jobVars, probeVars, now, paused, posted>>

GivesUp(r) ==
    /\ pc[r] = "observe" /\ Expired(r)
    /\ Fails(r)
    /\ UNCHANGED <<jobVars, probeVars, now, paused, posted>>

\* _pause_and_verify: whatever the answer, the job is read afterwards.
Pause(r) ==
    /\ pc[r] = "pause"
    /\ \/ enabled' = FALSE /\ UNCHANGED <<late, trouble>>
       \/ /\ trouble' = [trouble EXCEPT ![r] = TRUE]
          /\ \/ UNCHANGED <<enabled, late>>
             \/ enabled' = FALSE /\ late' = late
             \/ enabled' = enabled /\ late' = late \union {"pause"}
    /\ Calls(r, "verify")
    /\ UNCHANGED <<controls, attempts, fired, probeVars, now, paused, posted,
                   outcome, original, deadline, triggered, selected>>

Restored(r) == ~enabled /\ AsFound(r)

Verify(r) ==
    /\ pc[r] = "verify"
    /\ \/ Ends(r, IF trouble[r] THEN "pause_failed" ELSE "restore_unconfirmed")
       \/ /\ Restored(r) /\ trouble[r]
          /\ Ends(r, "pause_failed")
       \/ /\ Restored(r) /\ ~trouble[r]
          /\ IF outcome[r] = "none" THEN Continues(r, "publish")
                                    ELSE Ends(r, outcome[r])
    /\ UNCHANGED <<jobVars, probeVars, now, paused, posted>>

\* POST the very bytes once, if they are still fresh.
Publish(r) ==
    /\ pc[r] = "publish"
    /\ posted' = [posted EXCEPT ![r] = Fresh(selected[r])]
    /\ Ends(r, "recorded")
    /\ UNCHANGED <<jobVars, probeVars, now, paused>>

Step(r) ==
    \/ Resume(r) \/ Reread(r) \/ Readback(r) \/ Run(r)
    \/ Observe(r) \/ Polls(r) \/ ObserveFails(r) \/ GivesUp(r)
    \/ Pause(r) \/ Verify(r) \/ Publish(r)

\* The workflow is cancelled or its runner is lost.
Dies(r) ==
    /\ Busy(r) /\ Leaves(r, "dead")
    /\ UNCHANGED <<jobVars, probeVars, now, paused, posted, outcome>>

-----------------------------------------------------------------------------
(* Cloud Scheduler, deployments, the service, and time. *)

\* A request that had no answer takes effect after all.
LateResume ==
    /\ "resume" \in late /\ late' = late \ {"resume"}
    /\ enabled' = TRUE
    /\ UNCHANGED <<controls, attempts, fired, probeVars, now, recorderVars>>

LatePause ==
    /\ "pause" \in late /\ late' = late \ {"pause"}
    /\ enabled' = FALSE
    /\ UNCHANGED <<controls, attempts, fired, probeVars, now, recorderVars>>

LateRun ==
    /\ "run" \in late /\ late' = late \ {"run"}
    /\ Attempt
    /\ UNCHANGED <<enabled, controls, fired, archive, now, recorderVars>>

NaturalRun ==
    /\ enabled /\ now \in Natural \ fired
    /\ fired' = fired \union {now}
    /\ Attempt
    /\ UNCHANGED <<enabled, controls, late, archive, now, recorderVars>>

\* A deployment writes the job's configuration and leaves its state.
Deploy ==
    /\ controls' \in Controls \ {controls}
    /\ UNCHANGED <<enabled, attempts, late, fired, probeVars, now, recorderVars>>

\* An operator stops the target.
Stop ==
    /\ enabled /\ enabled' = FALSE
    /\ UNCHANGED <<controls, attempts, late, fired, probeVars, now, recorderVars>>

\* Bug: the ends of the interval are swapped.
ObservationSwapped(start) == [started |-> now, finished |-> start]

\* The object of _producer_history_object.
Observation(start) == [started |-> start, finished |-> now]

\* run_probe fails, or reads the account and archives what it read.
Probe(trigger) ==
    /\ trigger \in probes /\ probes' = probes \ {trigger}
    /\ \/ archive' = archive
       \/ \E start \in trigger..now :
             archive' = archive \union {Observation(start)}
    /\ UNCHANGED <<jobVars, now, recorderVars>>

\* No call outlasts Call.
Tick ==
    /\ now < Horizon
    /\ \A r \in Recorder : Busy(r) => now < due[r]
    /\ now' = now + 1
    /\ UNCHANGED <<jobVars, probeVars, recorderVars>>

Next ==
    \/ \E r \in Recorder : Inspect(r) \/ Step(r) \/ Dies(r)
    \/ LateResume \/ LatePause \/ LateRun
    \/ NaturalRun \/ Deploy \/ Stop
    \/ \E trigger \in Time : Probe(trigger)
    \/ Tick

Spec == Init /\ [][Next]_vars

-----------------------------------------------------------------------------
(* Properties. *)

\* Every variable has its type, and a snapshot is finished after it was
\* started (_producer_history_object).
TypeOK ==
    /\ enabled \in BOOLEAN /\ controls \in Controls /\ attempts \in Nat
    /\ late \subseteq Request /\ fired \subseteq Time
    /\ probes \subseteq Time /\ archive \subseteq Snapshot
    /\ now \in Time
    /\ pc \in [Recorder -> Pc]
    /\ due \in [Recorder -> Nat]
    /\ outcome \in [Recorder -> Outcome]
    /\ paused \in [Recorder -> BOOLEAN]
    /\ posted \in [Recorder -> BOOLEAN]
    /\ original \in [Recorder -> [controls : Controls, attempts : Nat]
                                     \union {NoJob}]
    /\ deadline \in [Recorder -> Nat]
    /\ triggered \in [Recorder -> Time]
    /\ selected \in [Recorder -> Snapshot \union {NoSnapshot}]
    /\ trouble \in [Recorder -> BOOLEAN]

\* A recorder that has resumed the job, or may have, and still has to look
\* after it.
Holds(r) ==
    /\ paused[r]
    /\ pc[r] \in {"reread", "readback", "run", "observe", "pause", "verify"}

\* What the recorder's result tells the operator: the job may be ENABLED.
Alarms(r) ==
    /\ pc[r] = "done"
    /\ outcome[r] \in {"resume_unknown", "pause_failed", "restore_unconfirmed"}

Died(r) == paused[r] /\ pc[r] = "dead"

\* The job of a stopped target is ENABLED only while a recorder is about to
\* pause it, or one has died on the way, or one has said that it could not
\* make sure; so a result "recorded" or a plain failure never leaves it on
\* unnoticed (_run_paused_probe and _pause_and_verify), whatever overlaps
\* and whatever takes effect late.
EnabledIsAccounted ==
    enabled => \E r \in Recorder : Holds(r) \/ Alarms(r) \/ Died(r)

\* While a recorder holds the resumed job no natural time of its schedule
\* passes (_validate_paused_probe_schedule): the distance of ten minutes
\* covers the waiting and every call before and after it.
ClearOfSchedule == \A r \in Recorder : Holds(r) => now \notin Natural

\* What is published began after this recorder's trigger and is not older than
\* the window, though pausing came between selecting it and publishing it
\* (_validate_history_object, record_daily_account_snapshot).
PublishedIsNew ==
    [][\A r \in Recorder : posted'[r] /\ ~posted[r] =>
          /\ triggered[r] <= selected[r].started
          /\ now <= selected[r].started + Window]_vars

\* A recorder is over soon after its deadline, whatever the archive shows and
\* whichever calls stay without an answer: no polling outlives WAIT_SECONDS,
\* and only the calls that pause, verify and publish follow it
\* (_wait_for_observation, _run_paused_probe).
EndsInTime == \A r \in Recorder : Busy(r) => now < deadline[r] + 4 * Call

-----------------------------------------------------------------------------
(* What makes these invariants inductive. *)

\* A call is over when the calls before it and its own length allow.
DueInTime(r) ==
    /\ pc[r] = "resume" => due[r] + Call <= deadline[r]
    /\ pc[r] \in {"reread", "readback"} => due[r] <= deadline[r]
    /\ pc[r] \in {"run", "observe"} => due[r] < deadline[r] + Call
    /\ pc[r] = "pause" => due[r] < deadline[r] + 2 * Call
    /\ pc[r] = "verify" => due[r] < deadline[r] + 3 * Call
    /\ pc[r] = "publish" => due[r] < deadline[r] + 4 * Call

\* The deadline of one that found the job PAUSED tells when it inspected the
\* job, and that was not near a natural time.
InspectedClear(r) ==
    paused[r] => /\ deadline[r] <= now + Wait
                 /\ \A n \in Natural : \/ n + Wait >= deadline[r] + Guard
                                       \/ n + Guard + Wait <= deadline[r]

TimeInv == \A r \in Recorder :
               Busy(r) => now <= due[r] /\ DueInTime(r) /\ InspectedClear(r)

\* Only one that found the job PAUSED resumes and pauses it.
PathInv ==
    \A r \in Recorder :
        pc[r] \in {"resume", "reread", "readback", "pause", "verify"} => paused[r]

\* Who sent a resume that had no answer says so in the end.
AnswersForLate(r) ==
    \/ Alarms(r) \/ Died(r)
    \/ paused[r] /\ pc[r] = "reread"
    \/ paused[r] /\ pc[r] \in {"pause", "verify"} /\ outcome[r] = "resume_unknown"

LateIsAccounted ==
    "resume" \in late => \E r \in Recorder : AnswersForLate(r)

\* The inductive invariant of EnabledIsAccounted: the job is ENABLED by a
\* resume that was answered or is read back, or by one that came late.
AccountInv == PathInv /\ LateIsAccounted /\ EnabledIsAccounted

\* docs/account-snapshot-history.md:156: the archive is read only after the job
\* is confirmed to be restored (_run_paused_probe).
ReadsAfterRestore ==
    [][\A r \in Recorder : paused[r] /\ Observe(r) => Restored(r)]_vars
=============================================================================
