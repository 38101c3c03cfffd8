------------------------------ MODULE HkCanary ------------------------------
(***************************************************************************)
(* The one-off notification canary of the HK service: an operator's helper *)
(* puts a zero-percent tag on a candidate revision, points the paused      *)
(* probe job at the tag, resumes it, runs it once, waits for one terminal  *)
(* request, pauses it and puts everything back.  Every cloud call may be   *)
(* refused, may fail after it took effect, or may take effect later; the   *)
(* helper may die anywhere, be started again or run twice at once, and a   *)
(* deployment may change the service under it.                             *)
(* A definition marked "Bug:" is a fault the properties must find.         *)
(*                                                                         *)
(* Source: scripts/run_hk_notification_canary.py and                       *)
(* scripts/vendor/cloud_run_tags.py.                                       *)
(***************************************************************************)
EXTENDS Naturals, FiniteSets

CONSTANTS Runs,      \* starts of the helper, each with an operation id of its own
          NoRun,     \* in the place of a run: nobody
          MaxDeploys, \* bound: changes of the service by others
          MaxOthers   \* bound: probes of the serving revision by somebody else

(* A run is named by the uuid of its operation.                            *)
ASSUME RunsAssumption ==
  /\ Runs \cap {"hk-canary", "other", "changed"} = {} /\ NoRun \notin Runs \cup {"changed"}
  /\ MaxDeploys \in Nat /\ MaxOthers \in Nat

VARIABLES service,  \* the Cloud Run service as its API shows it
          job,      \* the probe job as Cloud Scheduler shows it
          queue,    \* dispatches Cloud Scheduler has accepted and not made
          requests, \* the requests the dispatches made
          late,     \* calls that failed for the caller and may still take effect
          backup,   \* the private backup file
          ledger,   \* the private tag ledger: tags and the runs they are reserved to
          claim,    \* the private claim file: the run that made it, or what replaced it
          fits,     \* whether the preferred tag fits the service's name
          run,      \* what each run of the helper has done and knows
          before    \* history: the service just before the first write that took effect

cloud == <<service, job, queue, requests, late>>
files == <<backup, ledger, claim>>
vars == <<service, job, queue, requests, late, backup, ledger, claim, fits, run, before>>

Pc == {"preflight", "recheck", "backup", "allocate", "claim", "tag", "tagRead", "uri", "uriRead",
       "resume", "resumeUnknown", "resumeRead", "dispatch", "wait", "pause", "pauseRead",
       "restoreUri", "restoreRead", "untag", "finalService", "finalJobs",
       "done", "stopped", "crashed"}
Ended == {"done", "stopped", "crashed"}

(* What the helper's guards tell apart in a service: the revision with all *)
(* the traffic, the configuration of the template (0 is the one both       *)
(* pinned revisions were built with), the tags, and the etag.              *)
Service == [serving : {"old", "new"}, template : 0..MaxDeploys, tags : SUBSET (Runs \cup {"hk-canary", "other"}),
            etag : Nat]
Job == [state : {"PAUSED", "ENABLED"}, uri : {"base", "tag"}, attempts : Nat]
NoService == [serving |-> "none", template |-> 0, tags |-> {}, etag |-> 0]
NoJob == [state |-> "none", uri |-> "none", attempts |-> 0]
Request == [uri : {"base", "tag"}, status : {200, 500}, by : Runs \cup {"schedule", "other"}, number : Nat]
(* The one request the history of the service may hold before a run.       *)
Previous == [uri |-> "base", status |-> 500, by |-> "other", number |-> 0]

TypeOK ==
  /\ service \in Service
  /\ job \in Job
  /\ queue \in SUBSET Runs
  /\ requests \subseteq Request
  /\ \A c \in late : c.op \in {"tag", "uri", "resume", "run", "pause", "restoreUri", "untag"}
  /\ backup \in Service \cup {NoService}
  /\ ledger \in [Runs \cup {"hk-canary"} -> Runs \cup {NoRun}]
  /\ claim \in Runs \cup {NoRun, "changed"}
  /\ fits \in BOOLEAN
  /\ run \in [Runs -> [pc : Pc, service : Service \cup {NoService}, job : Job \cup {NoJob},
                       etag : Nat, since : Nat, resumed : BOOLEAN, pausing : BOOLEAN,
                       outcome : {"none", "completed", "failed"}, doubt : SUBSET Pc]]
  /\ before \in Service \cup {NoService}

Init ==
  /\ service = [serving |-> "old", template |-> 0, tags |-> {}, etag |-> 0]
  /\ job = [state |-> "PAUSED", uri |-> "base", attempts |-> 0]
  /\ queue = {} /\ requests = {Previous} /\ late = {}
  /\ backup = NoService /\ claim = NoRun
  /\ ledger = [t \in Runs \cup {"hk-canary"} |-> NoRun]
  /\ fits \in BOOLEAN
  /\ run = [r \in Runs |-> [pc |-> "preflight", service |-> NoService, job |-> NoJob,
                            etag |-> 0, since |-> 0, resumed |-> FALSE, pausing |-> FALSE,
                            outcome |-> "none", doubt |-> {}]]
  /\ before = NoService

-----------------------------------------------------------------------------
(* How a run moves.  Leaving it by an error pauses a job it has resumed,   *)
(* once: the pause is attempted at most once in a run's life.              *)
At(r, pc) == run[r].pc = pc
Goes(r, pc) == run' = [run EXCEPT ![r].pc = pc]
MustPause(r) == run[r].resumed /\ ~run[r].pausing
\* Bug: an error leaves a resumed job as it is.
LeavesResumed(r) == "stopped"
Leave(r) == IF MustPause(r) THEN "pause" ELSE "stopped"
Stops(r) == Goes(r, Leave(r)) /\ UNCHANGED <<cloud, files, fits, before>>

(* The claim is read again before every write; it is never removed.        *)
Owns(r) == claim = r

(* The tag a run reserves: the preferred one, or one derived from its      *)
(* operation id when the preferred one is too long for the service.        *)
TagOf(r) == IF fits THEN "hk-canary" ELSE r

-----------------------------------------------------------------------------
(* The cloud.  A write is applied by one of these operators; a write of    *)
(* the traffic carries the etag it was computed from and is refused when   *)
(* the service has moved on.                                               *)
\* Bug: the traffic is written whatever has happened since it was read.
AnyEtag(etag) == TRUE
EtagHolds(etag) == service.etag = etag
WriteTraffic(c) ==
  /\ EtagHolds(c.etag)
  /\ service' = [service EXCEPT !.serving = c.serving, !.tags = c.tags, !.etag = @ + 1]
  /\ before' = IF before = NoService THEN service ELSE before
  /\ UNCHANGED <<job, queue>>
WriteUri(uri) == job' = [job EXCEPT !.uri = uri] /\ UNCHANGED <<service, queue, before>>
WriteState(state) == job' = [job EXCEPT !.state = state] /\ UNCHANGED <<service, queue, before>>
Enqueue(r) == queue' = queue \cup {r} /\ UNCHANGED <<service, job, before>>

(* _tagged_traffic and _remove_owned_tag: the whole traffic as it was read, *)
(* with one row more or one row less.                                      *)
TrafficCall(r, op, etag, s, tags) ==
  [op |-> op, run |-> r, etag |-> etag, serving |-> s.serving, tags |-> tags]
TagCall(r) ==
  LET s == run[r].service IN TrafficCall(r, "tag", s.etag, s, s.tags \cup {TagOf(r)})
UntagCall(r) ==
  LET s == run[r].service IN TrafficCall(r, "untag", run[r].etag, s, s.tags)
JobCall(r, op) == TrafficCall(r, op, 0, NoService, {})

Applies(c) ==
  CASE c.op \in {"tag", "untag"} -> WriteTraffic(c)
    [] c.op = "uri" -> WriteUri("tag")
    [] c.op = "restoreUri" -> WriteUri("base")
    [] c.op = "resume" -> WriteState("ENABLED")
    [] c.op = "pause" -> WriteState("PAUSED")
    [] c.op = "run" -> job.state = "ENABLED" /\ Enqueue(c.run)

(* A call that succeeds took effect; one that fails for the caller took    *)
(* effect, will perhaps later, or never.                                   *)
Succeeds(c) == Applies(c) /\ UNCHANGED <<requests, late>>
Fails(c) == \/ Applies(c) /\ UNCHANGED <<requests, late>>
            \/ late' = late \cup {c} /\ UNCHANGED <<service, job, queue, requests, before>>
            \/ UNCHANGED <<cloud, before>>

(* A failed write stops the run at once, and only a failed resume or pause *)
(* looks at the job first.                                                 *)
Doubts(r, pc) == run' = [run EXCEPT ![r].pc = pc, ![r].doubt = @ \cup {run[r].pc}]

Write(r, at, c, next) ==
  /\ At(r, at)
  /\ \/ Owns(r) /\ Succeeds(c) /\ Goes(r, next)
     \/ Owns(r) /\ Fails(c) /\ Doubts(r, "stopped")
     \/ ~Owns(r) /\ Goes(r, Leave(r)) /\ UNCHANGED <<cloud, before>>
  /\ UNCHANGED <<files, fits>>

(* A read that fails stops the run; one that disagrees does too.           *)
Read(r, at, holds, next) ==
  /\ At(r, at)
  /\ \/ holds /\ Goes(r, next) /\ UNCHANGED <<cloud, files, fits, before>>
     \/ Stops(r)

-----------------------------------------------------------------------------
(* The checks before anything is written.                                  *)

(* _service_converged, the serving revision at 100 percent, both revisions *)
(* built from the template's configuration, the target disabled.           *)
OldServes(s) == s.serving = "old"
ConfigMatches(s) == s.template = 0
PausedInventory(j) == j.state = "PAUSED" /\ j.uri = "base"
PreviousOnly == requests = {Previous}
Preconditions(s, j) == OldServes(s) /\ ConfigMatches(s) /\ PausedInventory(j) /\ PreviousOnly
(* The control view leaves out what the scheduler reports, such as attempts. *)
ControlView(j) == [state |-> j.state, uri |-> j.uri]

Preflight(r) ==
  /\ At(r, "preflight")
  /\ \/ /\ Preconditions(service, job)
        /\ run' = [run EXCEPT ![r].pc = "recheck", ![r].service = service, ![r].job = job]
        /\ UNCHANGED <<cloud, files, fits, before>>
     \/ Stops(r)

Unchanged(r) ==
  /\ Preconditions(service, job)
  /\ service.template = run[r].service.template
  /\ service.tags = run[r].service.tags
  /\ ControlView(job) = ControlView(run[r].job)
Recheck(r) == Read(r, "recheck", Unchanged(r), "backup")

(* The backup is created once and never rewritten.  A run told to resume a *)
(* refused tag write reads it back instead and needs it unchanged.         *)
CreatesBackup(r) == backup = NoService /\ backup' = run[r].service
\* Bug: an existing backup is taken for the one this run would make.
ReusesAnyBackup(r) == backup # NoService /\ UNCHANGED backup
ReusesBackup(r) == backup = run[r].service /\ UNCHANGED backup
Backup(r) ==
  /\ At(r, "backup")
  /\ \/ (CreatesBackup(r) \/ ReusesBackup(r)) /\ Goes(r, "allocate")
     \/ Goes(r, "stopped") /\ UNCHANGED backup
  /\ UNCHANGED <<cloud, ledger, claim, fits, before>>

(* A tag is reserved in the ledger to one operation, for good.             *)
Reservable(r) == ledger[TagOf(r)] = NoRun /\ TagOf(r) \notin service.tags
Allocate(r) ==
  /\ At(r, "allocate")
  /\ \/ /\ Reservable(r)
        /\ ledger' = [ledger EXCEPT ![TagOf(r)] = r]
        /\ Goes(r, "claim")
     \/ Goes(r, "stopped") /\ UNCHANGED ledger
  /\ UNCHANGED <<cloud, backup, claim, fits, before>>

(* The claim file is created with O_EXCL: one run ever makes it.           *)
\* Bug: a claim of another run is overwritten.
ClaimsAgain == claim \in Runs \cup {NoRun}
Unclaimed == claim = NoRun
Claim(r) ==
  /\ At(r, "claim")
  /\ \/ Unclaimed /\ claim' = r /\ Goes(r, "tag")
     \/ Goes(r, "stopped") /\ UNCHANGED claim
  /\ UNCHANGED <<cloud, backup, ledger, fits, before>>

-----------------------------------------------------------------------------
(* The tag, the address of the job, the resume.                            *)
Tag(r) == Write(r, "tag", TagCall(r), "tagRead")
TagIsExact(r) == service.tags = run[r].service.tags \cup {TagOf(r)} /\ service.serving = run[r].service.serving
TagRead(r) == Read(r, "tagRead", TagIsExact(r), "uri")

Uri(r) == Write(r, "uri", JobCall(r, "uri"), "uriRead")
Temporary(state) == ControlView(job) = [state |-> state, uri |-> "tag"]
UriRead(r) == Read(r, "uriRead", Temporary("PAUSED"), "resume")

Resume(r) ==
  /\ At(r, "resume")
  /\ \/ /\ Owns(r) /\ Succeeds(JobCall(r, "resume"))
        /\ run' = [run EXCEPT ![r].pc = "resumeRead", ![r].resumed = TRUE]
     \/ Owns(r) /\ Fails(JobCall(r, "resume")) /\ Doubts(r, "resumeUnknown")
     \/ ~Owns(r) /\ Goes(r, "stopped") /\ UNCHANGED <<cloud, before>>
  /\ UNCHANGED <<files, fits>>

(* An unknown resume is read once and never taken to have worked.          *)
ResumeUnknown(r) ==
  /\ At(r, "resumeUnknown")
  /\ \/ /\ job.state = "ENABLED"
        /\ run' = [run EXCEPT ![r].resumed = TRUE, ![r].pc = "pause"]
     \/ job.state = "PAUSED" /\ Goes(r, "stopped")
     \/ Goes(r, "stopped")  \* the read fails
  /\ UNCHANGED <<cloud, files, fits, before>>

(* After a resume the job must read back as expected with no new attempt,  *)
(* and no natural run of a job may be near.                                *)
ResumeRead(r) ==
  /\ At(r, "resumeRead")
  /\ \/ /\ Temporary("ENABLED") /\ job.attempts = run[r].job.attempts
        /\ run' = [run EXCEPT ![r].pc = "dispatch", ![r].since = Cardinality(requests)]
     \/ Goes(r, Leave(r))
  /\ UNCHANGED <<cloud, files, fits, before>>

(* The answer to the dispatch is not looked at: the run waits either way.  *)
Dispatch(r) ==
  /\ At(r, "dispatch")
  /\ \/ Owns(r) /\ (Fails(JobCall(r, "run")) \/ Succeeds(JobCall(r, "run"))) /\ Goes(r, "wait")
     \/ ~Owns(r) /\ Goes(r, Leave(r)) /\ UNCHANGED <<cloud, before>>
  /\ UNCHANGED <<files, fits>>

(* The wait ends with one request since the start of the run, made to the  *)
(* candidate and reported by the scheduler with the same verdict, or with  *)
(* an error: too many requests, a request elsewhere, or sixty seconds.     *)
Seen(r) == {q \in requests : q.number >= run[r].since}
Reported(r) == job.attempts > run[r].job.attempts
\* Bug: any request since the start of the run will do.
AnyRequest(r, q) == q \in Seen(r) /\ Reported(r)
Terminal(r, q) == Seen(r) = {q} /\ q.uri = "tag" /\ Reported(r)
\* Bug: the verdict is the raw status.
RawStatus(q) == IF q.status = 200 THEN "completed" ELSE "200"
CandidateOutcome(q) == IF q.status = 200 THEN "completed" ELSE "failed"
\* Bug: the wait ends with a terminal request only.
WaitsForever(r) ==
  /\ At(r, "wait")
  /\ \E q \in requests :
       /\ Terminal(r, q)
       /\ run' = [run EXCEPT ![r].outcome = CandidateOutcome(q), ![r].pc = "pause"]
  /\ UNCHANGED <<cloud, files, fits, before>>

Wait(r) ==
  /\ At(r, "wait")
  /\ \/ \E q \in requests :
          /\ Terminal(r, q)
          /\ run' = [run EXCEPT ![r].outcome = CandidateOutcome(q), ![r].pc = "pause"]
     \/ Goes(r, "pause")
  /\ UNCHANGED <<cloud, files, fits, before>>

(* pause_once: from the end of the wait, or on the way out of an error.    *)
\* Bug: a failed pause is taken to have worked.
PausesBestEffort(r) ==
  /\ At(r, "pause")
  /\ Owns(r) /\ (Succeeds(JobCall(r, "pause")) \/ Fails(JobCall(r, "pause")))
  /\ run' = [run EXCEPT ![r].pausing = TRUE, ![r].resumed = FALSE, ![r].pc = "restoreUri",
                       ![r].doubt = @ \cup {"pause"}]
  /\ UNCHANGED <<files, fits>>

Pause(r) ==
  /\ At(r, "pause")
  /\ \/ /\ Owns(r) /\ Succeeds(JobCall(r, "pause"))
        /\ run' = [run EXCEPT ![r].pausing = TRUE, ![r].resumed = FALSE, ![r].pc = "pauseRead"]
     \/ /\ Owns(r) /\ Fails(JobCall(r, "pause"))
        /\ run' = [run EXCEPT ![r].pausing = TRUE, ![r].pc = "stopped", ![r].doubt = @ \cup {"pause"}]
     \/ /\ ~Owns(r) /\ UNCHANGED <<cloud, before>>
        /\ run' = [run EXCEPT ![r].pausing = TRUE, ![r].pc = "stopped"]
  /\ UNCHANGED <<files, fits>>
(* Only a run with a terminal request goes on to put things back.          *)
PauseRead(r) == Read(r, "pauseRead", job.state = "PAUSED" /\ run[r].outcome # "none", "restoreUri")

-----------------------------------------------------------------------------
(* Putting everything back.                                                *)
RestoreUri(r) == Write(r, "restoreUri", JobCall(r, "restoreUri"), "restoreRead")
RestoreRead(r) ==
  /\ At(r, "restoreRead")
  /\ \/ /\ ControlView(job) = ControlView(run[r].job) /\ TagIsExact(r)
        /\ run' = [run EXCEPT ![r].pc = "untag", ![r].etag = service.etag]
        /\ UNCHANGED <<cloud, files, fits, before>>
     \/ Stops(r)
\* Bug: what is left behind is left to the operator.
UntagsBestEffort(r) ==
  /\ At(r, "untag") /\ Owns(r)
  /\ Succeeds(UntagCall(r)) \/ Fails(UntagCall(r))
  /\ Goes(r, "done")
  /\ UNCHANGED <<files, fits>>

Untag(r) == Write(r, "untag", UntagCall(r), "finalService")
AsFound(r) == [service EXCEPT !.etag = run[r].service.etag] = run[r].service
FinalService(r) == Read(r, "finalService", AsFound(r), "finalJobs")
FinalJobs(r) == Read(r, "finalJobs", ControlView(job) = ControlView(run[r].job), "done")

Step(r) ==
  \/ Preflight(r) \/ Recheck(r) \/ Backup(r) \/ Allocate(r) \/ Claim(r)
  \/ Tag(r) \/ TagRead(r) \/ Uri(r) \/ UriRead(r)
  \/ Resume(r) \/ ResumeUnknown(r) \/ ResumeRead(r) \/ Dispatch(r) \/ Wait(r)
  \/ Pause(r) \/ PauseRead(r)
  \/ RestoreUri(r) \/ RestoreRead(r) \/ Untag(r) \/ FinalService(r) \/ FinalJobs(r)

-----------------------------------------------------------------------------
(* What happens around the runs.                                           *)
Crash(r) ==
  /\ run[r].pc \notin Ended
  /\ Goes(r, "crashed")
  /\ UNCHANGED <<cloud, files, fits, before>>

LateCall ==
  \E c \in late : /\ Applies(c)
                  /\ late' = late \ {c}
                  /\ UNCHANGED <<requests, files, fits, run>>

(* Cloud Scheduler makes an accepted dispatch to the address the job has   *)
(* by then.                                                                *)
Arrives(uri, by) ==
  \E status \in {200, 500} :
    requests' = requests \cup {[uri |-> uri, status |-> status, by |-> by, number |-> Cardinality(requests)]}
Attempted(by) ==
  /\ Arrives(job.uri, by)
  /\ job' = [job EXCEPT !.attempts = @ + 1]
Delivers(r) ==
  /\ r \in queue
  /\ queue' = queue \ {r}
  /\ Attempted(r)
  /\ UNCHANGED <<service, late, files, fits, run, before>>

(* No natural run falls into a run of the helper: it starts only when the  *)
(* nearest one is twenty minutes away, and its calls are bounded.  Once    *)
(* the helper has died or given up, an enabled job runs by itself.         *)
NaturalRun ==
  /\ \A r \in Runs : run[r].pc \in Ended \cup {"preflight"}
  /\ job.state = "ENABLED" /\ job.attempts = 0
  /\ Attempted("schedule")
  /\ UNCHANGED <<service, queue, late, files, fits, run, before>>

(* Somebody else probes the serving revision.                              *)
OtherRequest ==
  /\ Cardinality(requests) <= MaxOthers
  /\ Arrives("base", "other")
  /\ UNCHANGED <<service, job, queue, late, files, fits, run, before>>

(* Somebody replaces the claim file.                                       *)
ClaimChanges ==
  /\ claim \in Runs
  /\ claim' = "changed"
  /\ UNCHANGED <<cloud, backup, ledger, fits, run, before>>

(* A deployment moves the traffic to a new revision; an operator's tag     *)
(* leaves it where it is.                                                  *)
Deploy ==
  /\ service.template < MaxDeploys
  /\ \/ service' = [service EXCEPT !.serving = "new", !.template = @ + 1, !.etag = @ + 1]
     \/ /\ "other" \notin service.tags
        /\ service' = [service EXCEPT !.tags = @ \cup {"other"}, !.etag = @ + 1]
  /\ UNCHANGED <<job, queue, requests, late, files, fits, run, before>>

Next ==
  \/ \E r \in Runs : Step(r)
  \/ \E r \in Runs : Crash(r)
  \/ LateCall
  \/ \E r \in Runs : Delivers(r)
  \/ NaturalRun
  \/ OtherRequest
  \/ ClaimChanges
  \/ Deploy

Spec == Init /\ [][Next]_vars /\ \A r \in Runs : WF_vars(Step(r))

-----------------------------------------------------------------------------
(* Of all the starts of the helper only one ever writes to the cloud, and  *)
(* none after it has ended: the claim file is created once and never       *)
(* cleared, so neither a restart nor a second operator goes on where the   *)
(* first stopped.                                                          *)
Wrote(r) == run[r].doubt # {} \/ run[r].pc \in {"tagRead", "uri", "uriRead", "resume", "resumeRead", "dispatch",
                                                "wait", "pause", "pauseRead", "restoreUri", "restoreRead",
                                                "untag", "finalService", "finalJobs", "done"}
OneRunWrites == \A r, s \in Runs : Wrote(r) /\ Wrote(s) => r = s

(* An enabled probe job never points at the serving revision: the address  *)
(* is put back only after the pause is read back, so a job the helper      *)
(* leaves enabled, for whatever reason, can only probe the candidate.      *)
EnabledOnlyOnCandidate == job.state = "ENABLED" => job.uri = "tag"

(* A run that ends by itself leaves the probe job paused, unless the       *)
(* answer to its resume or to its pause is the very thing it does not      *)
(* know.                                                                   *)
EndsPaused ==
  \A r \in Runs : run[r].pc \in {"done", "stopped"} /\ Owns(r) /\ run[r].doubt \cap {"resume", "pause"} = {}
                    => job.state = "PAUSED"

(* The outcome a run returns is the verdict on a request it caused itself, *)
(* made to the candidate.                                                  *)
OutcomeIsOwn ==
  \A r \in Runs : run[r].pc = "done" =>
    \E q \in requests : q.by = r /\ q.uri = "tag" /\ CandidateOutcome(q) = run[r].outcome

(* The backup describes the service as it was before the first write that  *)
(* took effect, even when a deployment lands between the read the backup   *)
(* was made from and the write, or when a later run reuses the file.       *)
BackupIsPreWrite == before # NoService => backup = before

(* No step of the helper, and no call of its that takes effect late, moves *)
(* the serving traffic or undoes a deployment.                             *)
ServingUntouched ==
  [][(service'.serving = service.serving /\ service'.template = service.template) \/ Deploy]_vars

(* After a write whose outcome is unknown a run issues no other write than *)
(* one pause of the job it resumed.                                        *)
NoWriteAfterDoubt ==
  [][\A r \in Runs : run[r].doubt # {} /\ run'[r] # run[r] =>
       (service' = service /\ (job' # job => run[r].pc = "pause"))]_vars

(* When a run returns an outcome, its tag is gone and the probe job is as  *)
(* it was found.                                                           *)
DoneIsRestored ==
  [][\A r \in Runs : run'[r].pc = "done" /\ run[r].pc # "done" =>
       TagOf(r) \notin service.tags /\ ControlView(job) = ControlView(run[r].job)]_vars

(* What makes them hold.  A run's flags are those of where it is, and a    *)
(* doubt leaves it nothing but the pause of a job it has resumed.          *)
Early == {"preflight", "recheck", "backup", "allocate", "claim", "tag", "tagRead", "uri", "uriRead", "resume"}
Restoring == {"restoreUri", "restoreRead", "untag", "finalService", "finalJobs", "done"}
Writing == {pc \in Pc : pc \notin {"preflight", "recheck", "backup", "allocate", "claim", "stopped", "crashed"}}
Fresh(x) == ~x.resumed /\ ~x.pausing /\ x.outcome = "none" /\ x.doubt = {}
FlagsFit(x) ==
  /\ x.pc \in Early => Fresh(x)
  /\ x.pc = "resumeUnknown" => ~x.resumed /\ ~x.pausing /\ x.outcome = "none" /\ x.doubt = {"resume"}
  /\ x.pc \in {"resumeRead", "dispatch", "wait"} => x.resumed /\ ~x.pausing /\ x.outcome = "none" /\ x.doubt = {}
  /\ x.pc = "pause" => x.resumed /\ ~x.pausing /\ x.doubt \subseteq {"resume"}
  /\ x.pc = "pauseRead" => ~x.resumed /\ x.pausing /\ x.doubt \subseteq {"resume"}
  /\ x.pc \in {"pause", "pauseRead"} => x.outcome = "none" \/ x.doubt = {}
  /\ x.pc \in Restoring => ~x.resumed /\ x.pausing /\ x.outcome # "none" /\ x.doubt = {}
  /\ \/ x.doubt \subseteq {"resume", "pause"} \/ \E op \in {"tag", "uri", "restoreUri", "untag"} : x.doubt = {op}

(* One run has the claim, whatever has become of the file since.           *)
Claimer(r) == run[r].pc \in Writing \/ run[r].doubt # {} \/ run[r].resumed \/ run[r].pausing
OneClaims == \A r \in Runs : Claimer(r) => claim \in {r, "changed"} /\ \A s \in Runs : Claimer(s) => s = r

(* A service read at an etag is the service as long as the etag is that.   *)
IsPast(s) == s # NoService => s.etag <= service.etag /\ (s.etag = service.etag => s = service)
KeepsBackup(x) == x.pc \in Writing \cup {"allocate", "claim"} \/ x.doubt # {}
BackupsFit ==
  /\ IsPast(backup) /\ (\A r \in Runs : IsPast(run[r].service))
  /\ (\A r \in Runs : run[r].pc \in {"recheck", "backup"} => run[r].service # NoService)
  /\ (\A r \in Runs : KeepsBackup(run[r]) => backup # NoService /\ run[r].service = backup)
  /\ (before = NoService => service.tags \subseteq {"other"} /\ \A r \in Runs : run[r].service.tags \subseteq {"other"})
  /\ backup.tags \subseteq {"other"}
  /\ (\A r \in Runs : run[r].pc \in Writing \ {"tag"} => before # NoService)
  /\ (\A r \in Runs : /\ run[r].etag <= service.etag
                      /\ run[r].pc = "untag" /\ run[r].etag = service.etag => service.serving = run[r].service.serving)
  /\ (\A r \in Runs : run[r].pc = "finalJobs" => TagOf(r) \notin service.tags)

(* A call that may still take effect is one its run does not know of, and  *)
(* only the run that has the claim makes calls.                            *)
CallFits(c) ==
  /\ c.run \in Runs /\ c.etag \in Nat
  /\ IF c.op = "run" THEN run[c.run].resumed \/ run[c.run].pausing ELSE c.op \in run[c.run].doubt
  /\ c.op = "tag" => c.etag = run[c.run].service.etag /\ c.serving = run[c.run].service.serving
  /\ c.op = "untag" => /\ before # NoService
                      /\ c.etag <= service.etag /\ (c.etag = service.etag => c.serving = service.serving)
  /\ c.op \in {"tag", "untag"} => c.serving \in {"old", "new"} /\ c.tags \subseteq Runs \cup {"hk-canary", "other"}
CallsFit == (\A c \in late : CallFits(c)) /\ \A r \in queue : run[r].resumed \/ run[r].pausing

(* The address of the job and whether it is enabled, by what the claimer   *)
(* has done to it and does not know it has.                                *)
JobFits ==
  /\ claim = NoRun => job.state = "PAUSED"
  /\ \A r \in Runs :
       /\ claim = r /\ ~run[r].resumed /\ run[r].doubt \cap {"resume", "pause"} = {} => job.state = "PAUSED"
       /\ run[r].pc \in {"done", "stopped"} /\ run[r].resumed => claim # r \/ "pause" \in run[r].doubt
       /\ run[r].pc \in {"resume", "resumeRead", "dispatch", "wait", "pause"} \/ "resume" \in run[r].doubt
            => job.uri = "tag"
       /\ run[r].pc \in Restoring \ {"done"} \/ "restoreUri" \in run[r].doubt => job.state = "PAUSED"

(* A request made to the candidate while a run waits for one is its own.   *)
RequestsFit ==
  /\ IsFiniteSet(requests) /\ (\A q \in requests : q.number < Cardinality(requests))
  /\ \A r \in Runs :
       /\ run[r].pc \in {"dispatch", "wait"} =>
            /\ run[r].since <= Cardinality(requests)
            /\ \A q \in requests : q.number >= run[r].since /\ q.uri = "tag" => q.by = r
       /\ run[r].outcome # "none" =>
            \E q \in requests : q.by = r /\ q.uri = "tag" /\ CandidateOutcome(q) = run[r].outcome

CanaryInv ==
  /\ TypeOK /\ (\A r \in Runs : FlagsFit(run[r])) /\ OneClaims /\ BackupsFit /\ CallsFit /\ JobFits /\ RequestsFit
  /\ BackupIsPreWrite /\ EnabledOnlyOnCandidate

(* One run writes, never after a doubt of its own, from a backup of what   *)
(* was there before; what serves and the enabled probe job stay apart from *)
(* it (run_hk_notification_canary, claim file and backup).                 *)
WritesAreSafe ==
  /\ [](OneRunWrites /\ BackupIsPreWrite /\ EnabledOnlyOnCandidate)
  /\ ServingUntouched /\ NoWriteAfterDoubt

(* What a run says when it ends is so: the outcome is of its own request,  *)
(* the tag is gone, the probe job is paused and as it was.                 *)
EndIsTrue == [](EndsPaused /\ OutcomeIsOwn) /\ DoneIsRestored

(* Every run of the helper ends: no answer of the cloud keeps it going.    *)
RunsEnd == \A r \in Runs : <>(run[r].pc \in Ended)
=============================================================================
