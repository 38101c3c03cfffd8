------------------------------ MODULE Heartbeat ------------------------------
(***************************************************************************)
(* The execution-report heartbeat with unified notifications: a daily      *)
(* check that every target whose slot is past its grace has an acceptable  *)
(* report.  It raises one incident for all the targets it checks, and      *)
(* clears it with the time of the executions it found.  Reports are        *)
(* uploaded late and not always read, and slots fall between two checks.   *)
(* A definition marked "Bug:" is a fault the properties must find.         *)
(*                                                                         *)
(* Source: scripts/execution_report_heartbeat.py; the schedule of a target *)
(* is evaluated by the shared heartbeat rules of another repository.       *)
(***************************************************************************)
EXTENDS Integers, FiniteSets

CONSTANTS Targets,   \* the runtime targets of the check
          Slots,     \* when each of them is due
          Executions, \* runs that may write a report
          Lookback,  \* RUNTIME_HEARTBEAT_LOOKBACK_HOURS
          Day,       \* the 24 hours a slot stays due
          Grace,     \* RUNTIME_HEARTBEAT_PUBLICATION_GRACE_MINUTES
          MaxTime    \* bound: the last instant

VARIABLES now,      \* the clock
          reports,  \* the executions that finished, and their uploads
          incident, \* the marker of the incident: active, and last observed at
          passed,   \* history: the slots a check found reported
          cleared   \* history: what the last recovery cleared and on which proof

vars == <<now, reports, incident, passed, cleared>>

Times == 0..MaxTime
Never == MaxTime + 1
Status == {"ok", "skipped", "failed"}
NoReport == [target |-> "none", status |-> "none", finished |-> Never, updated |-> Never]
Report == [target : Targets, status : Status, finished : Times, updated : 0..Never]
NoRecovery == [raised |-> 0, by |-> {}]

TypeOK ==
  /\ now \in Times /\ reports \in [Executions -> Report \cup {NoReport}]
  /\ incident \in [active : BOOLEAN, observed : Times]
  /\ passed \subseteq Targets \X Times
  /\ cleared.raised \in Times /\ cleared.by \subseteq Report

Init ==
  /\ now = 0 /\ reports = [e \in Executions |-> NoReport]
  /\ incident = [active |-> FALSE, observed |-> 0]
  /\ passed = {} /\ cleared = NoRecovery

(* A run finishes; its report is uploaded then or later. *)
Finish(e, target, status) ==
  /\ reports[e] = NoReport
  /\ reports' = [reports EXCEPT ![e] = [target |-> target, status |-> status, finished |-> now, updated |-> Never]]
  /\ UNCHANGED <<now, incident, passed, cleared>>
Upload(e) ==
  /\ reports[e] # NoReport /\ reports[e].updated = Never
  /\ reports' = [reports EXCEPT ![e].updated = now]
  /\ UNCHANGED <<now, incident, passed, cleared>>
Tick ==
  /\ now < MaxTime /\ now' = now + 1
  /\ UNCHANGED <<reports, incident, passed, cleared>>

-----------------------------------------------------------------------------
(* filter_due_targets: the slots of the last day whose grace is over. *)
DueSince == IF now - Lookback > now - Day THEN now - Lookback ELSE now - Day
Matured(t) == {s \in Slots[t] : DueSince <= s /\ s + Grace <= now}
Due == {t \in Targets : Matured(t) # {}}
LatestDue(t) == CHOOSE s \in Matured(t) : \A u \in Matured(t) : u <= s

(* The reports of the lookback; those beyond the limit, and those that     *)
(* cannot be listed or read, are left out.                                 *)
Recent == {e \in Executions : reports[e].updated # Never /\ now - Lookback <= reports[e].updated}

\* Bug: a report of the day is enough.
UploadedToday(e, t) == DueSince <= reports[e].updated
UploadedSinceDue(e, t) == DueSince <= reports[e].updated /\ LatestDue(t) <= reports[e].updated
Accepted(t, read) ==
  {e \in read : reports[e].target = t /\ UploadedSinceDue(e, t) /\ reports[e].status # "failed"}
(* accepted_by_service keeps the last one looked at, which is the oldest.  *)
Kept(t, read) == {e \in Accepted(t, read) : \A f \in Accepted(t, read) : reports[e].updated <= reports[f].updated}
(* One report of each target that is due. *)
Evidence(read) ==
  {found \in SUBSET UNION {Kept(t, read) : t \in Due} : \A t \in Due : Cardinality(found \cap Kept(t, read)) = 1}

(* _notify_normal_heartbeat: the recovery carries the earliest of the      *)
(* proofs, and does nothing to a marker observed later.                    *)
\* Bug: the recovery carries the latest of the proofs.
LatestProof(found) == CHOOSE p \in {reports[e].finished : e \in found} : \A e \in found : reports[e].finished <= p
Proof(found) == CHOOSE p \in {reports[e].finished : e \in found} : \A e \in found : p <= reports[e].finished
Recovers(found) == (\E e \in found : reports[e].status # "skipped") /\ incident.observed <= Proof(found)
Recovered(found) ==
  IF Recovers(found)
  THEN /\ incident' = [active |-> FALSE, observed |-> Proof(found)]
       /\ cleared' = IF incident.active THEN [raised |-> incident.observed, by |-> {reports[e] : e \in found}]
                     ELSE cleared
  ELSE UNCHANGED <<incident, cleared>>

(* main: nothing is due, every target reported, or one alert for all. *)
Skip == Due = {} /\ UNCHANGED <<incident, passed, cleared>>
AllReported(read) ==
  /\ Due # {} /\ \A t \in Due : Accepted(t, read) # {}
  /\ passed' = passed \cup {<<t, LatestDue(t)>> : t \in Due}
  /\ \E found \in Evidence(read) : Recovered(found)
(* The alert is reserved in the marker before it is sent. *)
Alert(read) ==
  /\ \E t \in Due : Accepted(t, read) = {}
  /\ incident' = [active |-> TRUE, observed |-> now]
  /\ UNCHANGED <<passed, cleared>>
Check ==
  /\ \E read \in SUBSET Recent : Skip \/ AllReported(read) \/ Alert(read)
  /\ UNCHANGED <<now, reports>>

Next ==
  \/ \E e \in Executions, t \in Targets, status \in Status : Finish(e, t, status)
  \/ \E e \in Executions : Upload(e)
  \/ Tick \/ Check
Spec == Init /\ [][Next]_vars

-----------------------------------------------------------------------------
(* The check passes a slot only when that target itself uploaded a report  *)
(* that did not fail since the slot: neither another target's report nor   *)
(* that of the slot before hides a missed run.                             *)
PassedWasReported ==
  \A p \in passed : \E e \in Executions :
    /\ reports[e].target = p[1] /\ reports[e].status # "failed"
    /\ p[2] <= reports[e].updated /\ reports[e].updated # Never

(* The incident is only cleared by executions that finished, all of them,  *)
(* no earlier than it was last raised: one target that recovers does not   *)
(* clear what another one raised.                                          *)
ClearedByAll == \A r \in cleared.by : cleared.raised <= r.finished

(* What makes them hold: an upload is made once, after its run finished.   *)
HeartbeatTyped ==
  /\ now \in Times /\ reports \in [Executions -> Report \cup {NoReport}]
  /\ incident \in [active : BOOLEAN, observed : Times]
BeatInv == HeartbeatTyped /\ PassedWasReported /\ ClearedByAll
=============================================================================
