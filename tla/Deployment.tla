----------------------------- MODULE Deployment -----------------------------
(***************************************************************************)
(* The control of the HK Cloud Run service and its Cloud Scheduler jobs:   *)
(* the sync workflow (deploy, environment, traffic shift, schedules,       *)
(* explicit pause or resume, pruning), the image-only staging mode and the *)
(* stop workflow with the publication of its result.  The two workflows    *)
(* are serialized by their concurrency group; every cloud call may fail,   *)
(* before or after it took effect, and ends the workflow run; the daily    *)
(* recorder resumes and pauses the probe job whenever it likes.            *)
(* A definition marked "Bug:" is a fault the properties must find.         *)
(*                                                                         *)
(* Source: .github/workflows/sync-cloud-run-env.yml, stop-hk-runtime.yml,  *)
(* scripts/reconcile_cloud_runtime.py, stop_hk_runtime.py,                 *)
(* verify_deployed_runtime_target_admission.py, publish_hk_stop_result.py. *)
(***************************************************************************)
EXTENDS Naturals, Sequences, FiniteSets

CONSTANTS Commits,    \* commits a revision can be built from
          Candidate,  \* the fixed commit image-only staging admits
          MaxRuns,    \* bound: workflow runs
          MaxWindows  \* bound: times the recorder resumes the probe job

VARIABLES service,  \* the revisions ever created, those kept, and who has the traffic
          jobs,     \* the state of each Scheduler job of the service
          run,      \* the workflow run under way, or the last one
          runs,     \* how many workflow runs have started
          window,   \* the recorder holds the probe job enabled
          windows,  \* how often it has
          results,  \* stop runs that uploaded a result
          posted,   \* stop results that were published
          stopped   \* history: stop runs that ended with the target stopped

vars == <<service, jobs, run, runs, window, windows, results, posted, stopped>>

Managed == <<"main", "probe", "precheck">>
Jobs == {"main", "probe", "precheck", "legacy"}
Modes == {"same", "history", "snapshot", "diagnostics"}
Ended == {"none", "success", "failed", "refused"}

(* A revision is its commit label, its RUNTIME_TARGET_ENABLED and whether  *)
(* it became Ready; the template is that of the last one created.          *)
Revision == [commit : Commits, enabled : BOOLEAN, ready : BOOLEAN]
Newest(s) == Len(s.revs)
Template(s) == s.revs[Newest(s)]
Serving(s) == s.revs[s.on]
Top(S) == CHOOSE i \in S : \A j \in S : j <= i
Ready(s) == {i \in s.kept : s.revs[i].ready}
LatestReady(s) == Top(Ready(s))

Options == [kind : {"sync", "staging", "stop"}, commit : Commits, enabled : BOOLEAN,
            deploy : BOOLEAN, env : BOOLEAN, shift : BOOLEAN,
            action : {"preserve", "pause", "resume"}, mode : Modes]
NoJobs == [j \in Jobs |-> "missing"]
Unseen == [on |-> 0, config |-> FALSE, jobs |-> NoJobs]
Nothing == [kind |-> "stop", commit |-> Candidate, enabled |-> FALSE, deploy |-> FALSE,
            env |-> FALSE, shift |-> FALSE, action |-> "preserve", mode |-> "same"]
Idle == [opt |-> Nothing, todo |-> <<>>, end |-> "none", created |-> {},
         seen |-> Unseen, staged |-> 0]

TypeOK ==
  /\ service.revs \in Seq(Revision) /\ service.kept \subseteq DOMAIN service.revs
  /\ service.on \in DOMAIN service.revs /\ service.latest \in BOOLEAN
  /\ jobs \in [Jobs -> {"missing", "PAUSED", "ENABLED"}]
  /\ run.opt \in Options /\ run.end \in Ended \cup {"running"} /\ run.created \subseteq Jobs
  /\ run.seen \in [on : Nat, config : BOOLEAN, jobs : [Jobs -> {"missing", "PAUSED", "ENABLED"}]]
  /\ (run.end = "running") = (run.todo # <<>>)
  /\ runs \in 0..MaxRuns /\ windows \in 0..MaxWindows /\ window \in BOOLEAN
  /\ posted \subseteq results /\ results \subseteq 1..runs
  /\ stopped \subseteq 1..runs

Init ==
  /\ \E c \in Commits \ {Candidate}, e \in BOOLEAN, l \in BOOLEAN :
       service = [revs |-> <<[commit |-> c, enabled |-> e, ready |-> TRUE]>>, kept |-> {1}, on |-> 1, latest |-> l]
  /\ jobs \in {[NoJobs EXCEPT !["main"] = "ENABLED", !["legacy"] = "ENABLED"]}
             \cup {[j \in Jobs |-> IF j = "legacy" THEN "missing" ELSE s] : s \in {"PAUSED", "ENABLED"}}
  /\ run = Idle /\ runs = 0 /\ window = FALSE /\ windows = 0
  /\ results = {} /\ posted = {} /\ stopped = {}

-----------------------------------------------------------------------------
(* The steps of a run, in the order of its workflow.                       *)
On(op) == <<op, "service">>
Each(op) == [i \in DOMAIN Managed |-> <<op, Managed[i]>>]
When(c, steps) == IF c THEN steps ELSE <<>>

SyncSteps(o) ==
  When(o.deploy \/ o.env \/ o.shift, <<On("admit")>>)
  \o When(o.deploy, <<On("deploy")>>) \o When(o.deploy /\ o.env, <<On("wait")>>)
  \o When(o.env, <<On("env")>>) \o When(o.shift, <<On("shift")>>)
  \o When(o.env, Each("write")) \o When(o.env /\ o.action = "preserve", Each("quiet"))
  \o When(o.action # "preserve", Each("act") \o <<On("actRead")>>)
  \o When(o.env, <<On("legacy")>>) \o When(o.deploy, <<On("prune")>>)

StagingSteps(o) ==
  When(o.mode # "same", <<On("plan")>>) \o <<On("stage")>>
  \o When(o.mode # "same", <<On("stageRead")>>) \o When(o.mode = "snapshot", <<On("move")>>)

StopSteps == <<On("see"), On("seeAgain"), On("disable"), On("confirm")>>
             \o Each("halt") \o <<<<"halt", "legacy">>, On("final")>>

(* A dispatch asks for something; a stop needs the variable to say false.  *)
(* An input no step of the run reads has one value here.                   *)
Asks(o) ==
  /\ o.enabled => o.env
  /\ o.commit = Candidate \/ o.deploy \/ o.shift \/ o.kind = "staging"
  /\ CASE o.kind = "sync" -> (o.deploy \/ o.env \/ o.shift \/ o.action # "preserve") /\ o.mode = "same"
       [] o.kind = "staging" -> /\ o.commit = Candidate \/ o.mode = "same"
                                /\ ~o.deploy /\ ~o.env /\ ~o.shift /\ o.action = "preserve"
       [] o.kind = "stop" -> ~o.deploy /\ ~o.env /\ ~o.shift /\ o.action = "preserve" /\ o.mode = "same"

Route(o) == CASE o.kind = "sync" -> SyncSteps(o) [] o.kind = "staging" -> StagingSteps(o) [] o.kind = "stop" -> StopSteps

Dispatch ==
  /\ run.end \in Ended /\ runs < MaxRuns
  /\ \E o \in Options :
       /\ Asks(o)
       /\ run' = [Idle EXCEPT !.opt = o, !.todo = Route(o), !.end = "running"]
  /\ runs' = runs + 1
  /\ UNCHANGED <<service, jobs, window, windows, results, posted, stopped>>

(* A step succeeds and the next one follows, or the run ends: "failed"     *)
(* after a call that failed, "refused" by a check of the workflow's own.   *)
At(op) == run.todo # <<>> /\ Head(run.todo)[1] = op
JobAt == Head(run.todo)[2]
\* Bug: the last step leaves the run under way.
Lingers(r) == [r EXCEPT !.todo = Tail(@)]
Passed(r) == IF Len(r.todo) = 1 THEN [Idle EXCEPT !.opt = r.opt, !.end = "success"] ELSE [r EXCEPT !.todo = Tail(@)]
\* What a run that ended without success knew is gone with it.
Over(why) == [Idle EXCEPT !.end = why]
Rest == UNCHANGED <<runs, window, windows, results, posted, stopped>>
Goes(r) == run' = Passed(r) /\ UNCHANGED <<service, jobs>> /\ Rest
Stops(why) == run' = Over(why) /\ UNCHANGED <<service, jobs>> /\ Rest
Check(ok, r) == IF ok THEN Goes(r) ELSE Stops("refused")
Read(ok, r) == Check(ok, r) \/ Stops("failed")
Writes(s, j, r) ==
  \/ service' = s /\ jobs' = j /\ run' \in {Passed(r), Over("failed")} /\ Rest
  \/ Stops("failed")

-----------------------------------------------------------------------------
(* Cloud Run.  A new revision that does not become Ready fails the call;   *)
(* --no-traffic pins a LATEST selector to the revision it stands for,      *)
(* without the flag a LATEST selector moves to the new revision.           *)
Created(s, c, e, ready) ==
  [s EXCEPT !.revs = Append(@, [commit |-> c, enabled |-> e, ready |-> ready]), !.kept = @ \cup {Newest(s) + 1}]
NoTraffic(s) == [s EXCEPT !.latest = FALSE]
Follows(s) == IF s.latest /\ Template(s).ready THEN [s EXCEPT !.on = Newest(s)] ELSE s
NewRevision(c, e, quiet, r) ==
  LET Made(ready) == IF quiet THEN NoTraffic(Created(service, c, e, ready)) ELSE Follows(Created(service, c, e, ready)) IN
  \/ Writes(Made(TRUE), jobs, r)
  \/ service' = Made(FALSE) /\ run' = Over("failed") /\ UNCHANGED jobs /\ Rest
To(i) == [service EXCEPT !.on = i, !.latest = FALSE]

(* verify_service and verify_ues_image_pin: what they compare is not in    *)
(* the model, so the run passes or is refused.                             *)
Admit == At("admit") /\ (Goes(run) \/ Stops("refused"))

Deploy == At("deploy") /\ NewRevision(run.opt.commit, Template(service).enabled, TRUE, run)
WaitForCommit == At("wait") /\ Read(Template(service).commit = run.opt.commit, run)
SyncEnv == At("env") /\ NewRevision(Template(service).commit, run.opt.enabled, TRUE, run)

(* The newest Ready revision with the commit's label.                      *)
\* Bug: the first one.
OldestMatch(c) == LET match == {i \in Ready(service) : service.revs[i].commit = c}
                  IN IF match = {} THEN 0 ELSE CHOOSE i \in match : \A j \in match : i <= j
RevisionFor(c) == LET match == {i \in Ready(service) : service.revs[i].commit = c}
                  IN IF match = {} THEN 0 ELSE Top(match)
Shift ==
  LET target == RevisionFor(run.opt.commit) IN
  /\ At("shift")
  /\ IF target = 0 THEN Stops("refused")
     ELSE IF service.on = target THEN Read(TRUE, run) ELSE Writes(To(target), jobs, run)

\* Bug: only the latest Ready revision is kept.
KeepsLatest == {LatestReady(service)}
Keeps == {service.on, LatestReady(service)}
(* Old revisions are deleted one by one and a refusal is ignored.          *)
Prune ==
  /\ At("prune")
  /\ \/ \E gone \in SUBSET (service.kept \ Keeps) :
          /\ service' = [service EXCEPT !.kept = @ \ gone] /\ run' = Passed(run)
          /\ UNCHANGED jobs /\ Rest
     \/ Stops("failed")

-----------------------------------------------------------------------------
(* Cloud Scheduler.  A job that is not seen is created, and is created     *)
(* ENABLED; an update leaves the state alone.  Creating a job that is      *)
(* there after all fails.                                                  *)
SetJob(j, state) == [jobs EXCEPT ![j] = state]
WriteJob ==
  /\ At("write")
  /\ IF jobs[JobAt] = "missing"
     THEN Writes(service, SetJob(JobAt, "ENABLED"), [run EXCEPT !.created = @ \cup {JobAt}])
     ELSE Writes(service, jobs, run)

\* Bug: an ordinary sync pauses what it updated as well.
QuietsAll == TRUE
Quiets == JobAt \in run.created
Quiet ==
  /\ At("quiet")
  /\ IF Quiets THEN Writes(service, SetJob(JobAt, "PAUSED"), run) ELSE Goes(run)

Wanted == IF run.opt.action = "pause" THEN "PAUSED" ELSE "ENABLED"
ApplyAction ==
  /\ At("act")
  /\ IF jobs[JobAt] = "missing" THEN Stops("refused")
     ELSE IF jobs[JobAt] = Wanted THEN Read(TRUE, run) ELSE Writes(service, SetJob(JobAt, Wanted), run)
ActionRead == At("actRead") /\ Read(\A i \in DOMAIN Managed : jobs[Managed[i]] = Wanted, run)

DeleteLegacy ==
  /\ At("legacy")
  /\ IF jobs["legacy"] = "missing" THEN Read(TRUE, run) ELSE Writes(service, SetJob("legacy", "missing"), run)

-----------------------------------------------------------------------------
(* Image-only staging: the plan wants the template configured as what      *)
(* serves, the readback wants the traffic and the configuration of the     *)
(* plan on the revision of this run, and only the snapshot mode moves the  *)
(* traffic to it.  The identity and UES checks pass or refuse.             *)
\* Bug: the template is not compared with what serves.
AnyTemplate == TRUE
TemplateMatches == Template(service).enabled = Serving(service).enabled
Plan ==
  /\ At("plan")
  /\ \/ /\ TemplateMatches /\ (run.opt.mode = "diagnostics" => ~Template(service).enabled)
        /\ Goes([run EXCEPT !.seen = [on |-> service.on, config |-> Template(service).enabled, jobs |-> jobs]])
     \/ Stops("refused")
Stage == At("stage") /\ NewRevision(run.opt.commit, Template(service).enabled, TRUE,
                                    [run EXCEPT !.staged = Newest(service) + 1])
StageRead ==
  LET staged == service.revs[run.staged] IN
  /\ At("stageRead")
  /\ Read(/\ service.on = run.seen.on /\ service.on # run.staged
          /\ staged.ready /\ staged.commit = run.opt.commit /\ staged.enabled = run.seen.config, run)
MoveTraffic ==
  /\ At("move")
  /\ \/ service' = To(run.staged)
        /\ run' \in {Over("failed"), IF LatestReady(service) = run.staged THEN Passed(run) ELSE Over("refused")}
     \/ UNCHANGED service /\ run' = Over("failed")
  /\ UNCHANGED jobs /\ Rest

-----------------------------------------------------------------------------
(* The stop.  snapshot() wants the one revision that serves to be the last *)
(* one created and Ready, and at least one job of the service's host.      *)
Bound(j) == {i \in Jobs : j[i] # "missing"}
Snapshot == [on |-> service.on, config |-> Serving(service).enabled, jobs |-> jobs]
SourceHolds == service.on = Newest(service) /\ Serving(service).ready /\ Bound(jobs) # {}
See == At("see") /\ Read(SourceHolds, [run EXCEPT !.seen = Snapshot])
SeeAgain == At("seeAgain") /\ Read(SourceHolds /\ Snapshot = run.seen, run)
Disable ==
  /\ At("disable")
  /\ IF run.seen.config THEN NewRevision(Template(service).commit, FALSE, FALSE, run) ELSE Goes(run)
Confirm ==
  /\ At("confirm")
  /\ IF run.seen.config THEN Read(SourceHolds /\ ~Serving(service).enabled /\ jobs = run.seen.jobs, run) ELSE Goes(run)
Halt ==
  /\ At("halt")
  /\ IF run.seen.jobs[JobAt] = "ENABLED" THEN Writes(service, SetJob(JobAt, "PAUSED"), run) ELSE Goes(run)

Halted == \A j \in Jobs : jobs[j] # "ENABLED"
\* Bug: the last readback looks at the service only.
ServiceOnly == SourceHolds /\ ~Serving(service).enabled
FinalHolds == SourceHolds /\ ~Serving(service).enabled /\ jobs = [j \in Jobs |-> IF run.seen.jobs[j] = "missing" THEN "missing" ELSE "PAUSED"]
Final ==
  /\ At("final")
  /\ \/ /\ FinalHolds
        /\ run' = Passed(run)
        /\ results' \in {results, results \cup {runs}}
        /\ stopped' = IF ~Serving(service).enabled /\ Halted THEN stopped \cup {runs} ELSE stopped
     \/ run' = Over(IF FinalHolds THEN "failed" ELSE "refused") /\ UNCHANGED <<results, stopped>>
  /\ UNCHANGED <<service, jobs, runs, window, windows, posted>>

(* The publisher posts the one artifact of a run that succeeded.           *)
Publish ==
  /\ \E i \in results : ~(i = runs /\ run.end = "running") /\ posted' = posted \cup {i}
  /\ UNCHANGED <<service, jobs, run, runs, window, windows, results, stopped>>

-----------------------------------------------------------------------------
(* The recorder resumes the paused probe job for one request and pauses it *)
(* again; nothing serializes it with the workflows above.                  *)
RecorderResumes ==
  /\ ~window /\ windows < MaxWindows /\ jobs["probe"] = "PAUSED"
  /\ jobs' = SetJob("probe", "ENABLED") /\ window' = TRUE /\ windows' = windows + 1
  /\ UNCHANGED <<service, run, runs, results, posted, stopped>>
RecorderPauses ==
  /\ window /\ jobs' = SetJob("probe", "PAUSED") /\ window' = FALSE
  /\ UNCHANGED <<service, run, runs, windows, results, posted, stopped>>

Sync == \/ Admit \/ Deploy \/ WaitForCommit \/ SyncEnv \/ Shift \/ WriteJob \/ Quiet
        \/ ApplyAction \/ ActionRead \/ DeleteLegacy \/ Prune
Staging == Plan \/ Stage \/ StageRead \/ MoveTraffic
Stop == See \/ SeeAgain \/ Disable \/ Confirm \/ Halt \/ Final
Next == Dispatch \/ Sync \/ Staging \/ Stop \/ Publish \/ RecorderResumes \/ RecorderPauses

Spec == Init /\ [][Next]_vars

-----------------------------------------------------------------------------
(* Serving traffic moves only by the explicit shift of a sync, to a Ready  *)
(* revision of the commit, by the snapshot mode of the staging, or with    *)
(* the stop's own revision; deploying, syncing the environment and staging *)
(* leave it where it is (--no-traffic).                                    *)
ServingMovesByShift ==
  service'.on # service.on =>
    \/ At("shift") /\ run.opt.shift /\ Serving(service').ready /\ Serving(service').commit = run.opt.commit
    \/ At("move") /\ run.opt.mode = "snapshot"
    \/ At("disable")

(* A sync that deployed, wrote the environment and shifted the traffic     *)
(* serves, when it succeeds, its commit with its RUNTIME_TARGET_ENABLED,   *)
(* whatever failed runs left behind (_resolve_revision_for_commit).        *)
ServesWhatItShipped ==
  run.end = "success" /\ run.opt.deploy /\ run.opt.env /\ run.opt.shift =>
    Serving(service).commit = run.opt.commit /\ Serving(service).enabled = run.opt.enabled

(* Pruning never deletes the revision that serves, pinned to an old one or *)
(* not, nor the last one that became Ready.                                *)
ServingIsKept ==
  {service.on, Top({i \in DOMAIN service.revs : service.revs[i].ready})} \subseteq service.kept

(* Under preserve a sync leaves the state of every job it did not create,  *)
(* a resumed or a paused one, a run that failed before it or the recorder  *)
(* in between.                                                             *)
PreserveLeavesJobs ==
  run.opt.kind = "sync" /\ run.opt.action = "preserve" /\ (At("write") \/ At("quiet")) =>
    \A j \in Jobs : jobs'[j] # jobs[j] /\ window' = window => jobs[j] = "missing" \/ j \in run.created

(* Image-only staging, the mode that moves the traffic included, never     *)
(* changes whether the target that serves is enabled.                      *)
StagingKeepsTarget ==
  run.opt.kind = "staging" /\ run.end = "running" => Serving(service').enabled = Serving(service).enabled

(* A stop result that was published was true: when its run ended, the      *)
(* serving revision was disabled and no job of the service was enabled,    *)
(* with the recorder resuming and pausing the probe job all along.         *)
PostedWasStopped == posted \subseteq stopped

(* What makes them hold.  The steps ahead are in the order of the workflow *)
(* and are those the dispatch asked for; what a sync was to ship is on the *)
(* template once the steps that put it there are behind; what a staging is *)
(* to move the traffic to is its own revision, configured as what serves.  *)
Place == [plan |-> 1, stage |-> 2, stageRead |-> 3, move |-> 4, admit |-> 5, deploy |-> 6, wait |-> 7, env |-> 8,
          shift |-> 9, write |-> 10, quiet |-> 11, act |-> 12, actRead |-> 13, legacy |-> 14, prune |-> 15,
          see |-> 16, seeAgain |-> 17, disable |-> 18, confirm |-> 19, halt |-> 20, final |-> 21]
Belongs(o, op) ==
  /\ op \in DOMAIN Place
  /\ Place[op] \in 1..4 => o.kind = "staging"
  /\ Place[op] \in 5..15 => o.kind = "sync"
  /\ Place[op] \in 16..21 => o.kind = "stop"
  /\ op = "shift" => o.shift
  /\ op = "move" => o.mode = "snapshot"
Steps == {s \in (DOMAIN Place) \X (Jobs \cup {"service"}) : s[1] = "write" => s[2] \in Jobs}
InPlace(steps) == \A i, j \in DOMAIN steps : i <= j => Place[steps[i][1]] <= Place[steps[j][1]]
Ahead(op) == \E i \in DOMAIN run.todo : run.todo[i][1] = op
StepsInOrder ==
  /\ DOMAIN run = DOMAIN Idle /\ run.todo \in Seq(Steps) /\ (run.todo # <<>> => runs # 0)
  /\ \A i \in DOMAIN run.todo : Belongs(run.opt, run.todo[i][1])
  /\ InPlace(run.todo) /\ (run.opt.deploy => run.opt.kind = "sync")

Readied(s) == {i \in DOMAIN s.revs : s.revs[i].ready}
ServiceHolds ==
  /\ DOMAIN service = {"revs", "kept", "on", "latest"}
  /\ Readied(service) # {} /\ ServingIsKept

ShippedAsAsked ==
  run.opt.deploy /\ run.opt.env /\ run.opt.shift /\ run.end \in {"running", "success"} =>
    /\ \/ Ahead("deploy")
       \/ (Template(service).commit = run.opt.commit /\ Template(service).ready /\ Newest(service) \in service.kept)
    /\ Ahead("env") \/ Template(service).enabled = run.opt.enabled
    /\ Ahead("shift") \/ (Serving(service).commit = run.opt.commit /\ Serving(service).enabled = run.opt.enabled)
StagedAsPlanned ==
  run.opt.kind = "staging" /\ run.end = "running" =>
    /\ Ahead("stage") \/ (run.staged = Newest(service) /\ Template(service).ready /\ Newest(service) \in service.kept)
    /\ run.opt.mode = "snapshot" => Ahead("plan") \/ Template(service).enabled = Serving(service).enabled

ControlInv ==
  /\ TypeOK /\ ServiceHolds /\ StepsInOrder /\ ShippedAsAsked /\ StagedAsPlanned
  /\ posted \subseteq results /\ results \subseteq stopped
=============================================================================
