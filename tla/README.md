# LongBridgePlatform in TLA+

LongBridgePlatform runs allocation strategies on LongBridge accounts (US and HK
equities).  It is a Flask service on Cloud Run: Cloud Scheduler calls `/run`,
the service reads the account, asks the strategy for a target allocation, turns
it into orders, and reports.  Around it, workflows deploy and stop the service,
watch its reports, record the account and renew its access token.  The money is
at risk where invocations overlap, are repeated, die half way, or act on
something that has aged; that is what this project models.

Paths below are relative to the repository root.

## 1. Inventory

| Component | Source | State it keeps | Operations | Modelled in |
|---|---|---|---|---|
| Durable live commands | `application/rebalance_service.py`, `durable_execution_commands.py`, `execution_state.py` | command event log, account owner, execution markers, persisted reports (all shared through object storage); the locals of one call | mint, select, claim, fence, route, record, reconcile | `LiveCommands`, `DecisionBook` |
| Rebalance cycle | `application/execution_service.py`, `longbridge_execution.py`, `account_new_risk_gate_support.py` | orders submitted, the snapshot and plan in use, latches (risk, scale, halt), cash forecasts | sell, fund from the sweep, refresh, buy, rebuy | `ExecutionCycle` |
| Paper commands | `application/paper_execution_command_consumer.py`, `paper_strategy_risk_state.py` | risk transitions and paper commands in the command store | record, queue, claim, simulate or reject | `PaperCommands` |
| Order status monitor | `notifications/order_alerts.py`, `application/runtime_notification_adapters.py` | none that lasts; the broker's order | poll until ended or out of attempts, tell | `OrderStatus` |
| Incident alerts | `notifications/unified.py`, `unified_store.py`, `digest_snapshot/unified_contract.py` | a marker per incident, an index per incident group (shared objects) | observe, advance, send, record delivery, recover | `IncidentAlerts` |
| Daily candidates | `notifications/unified.py` (`persist_candidate`, `_export_projection`, `emit_archived`), `main.py` | a candidate state per day and its export (two shared objects) | merge what a producer observed of a run, project, export | `DailyCandidates` |
| HTTP service and scheduling | `main.py`, `entrypoints/cloud_run.py`, `Dockerfile` | a runtime report per invocation | `/run`, `/probe`, `/paper-command-consumer`, `/reconcile`, ... | parts of `LiveCommands`, `DailyCandidates`, `SnapshotRecorder`, `PaperCommands` |
| Broker reconciliation | `application/broker_reconciliation.py` | none; an account that trades while it is read | read cash, positions, orders and two lists of executions; compare | `BrokerReconciliation` |
| Account snapshot | `scripts/record_daily_account_snapshot.py`, `main.py` (`run_probe`) | the probe job's state and configuration, the archived snapshots | resume, run, observe, pause, verify, publish | `SnapshotRecorder` |
| Daily projection | `scripts/publish_daily_runtime_projection.py`, `daily_runtime_projection.py` | records and a handoff per day, the receiver's copy | list, judge, upload, synchronise, hand off | `DailyProjection` |
| Heartbeat | `scripts/execution_report_heartbeat.py` | one incident | decide what is due, find its report, raise, clear | `Heartbeat` |
| Runtime guard | `scripts/cloud_run_runtime_guard.py`, `runtime_guard_alert_dedupe.py` | remembered failures and alerts in a workflow cache | read logs, alert once, prune | `RuntimeGuard` |
| Cycle health | `scripts/publish_runtime_cycle_health.py`, `collect_runtime_cycle_health.py`, `runtime_cycle_health.py`, `runtime_cycle_health_source.py` | the source's cursor and archived cycles; an incident per cycle | list a stretch, give reports to slots, post, move the cursor; retain faults, accept proofs | `CycleHealth`, `CycleIncidents` |
| Paper observation | `scripts/paper_observation/` | create-only snapshots, markers, claims, `t0.json`; alerts | claim, read, store, mark, repair, give up, watch | `PaperObservation` |
| Deployment control | `.github/workflows/sync-cloud-run-env.yml`, `scripts/reconcile_cloud_runtime.py`, `verify_deployed_runtime_target_admission.py`, `stop_hk_runtime.py`, `publish_hk_stop_result.py` | revisions, traffic, enablement, three scheduler jobs | sync, image staging, stop, prune, publish the stop | `Deployment` |
| HK canary | `scripts/run_hk_notification_canary.py`, `scripts/vendor/cloud_run_tags.py` | a tag, the probe job, a claim file, a backup | claim, tag, redirect, resume, run, wait, restore | `HkCanary` |
| V7 paper application | `application/v7_paper_application.py`, `.github/workflows/apply-paper-candidate.yml` | the application's record, revisions bound to it, startup receipts | claim, pause, build, update, shift, verify, post | `PaperCandidate` |
| Access token | `scripts/refresh_longport_access_token.py`, `application/runtime_bootstrap_adapters.py`, `.github/workflows/rotate-longport-secrets.yml` | the secret's latest version, LongPort's valid token | plan, exchange, write; bootstrap; rotate by hand | `TokenRefresh` |
| Strategy and decision mapping | `strategy_runtime.py`, `decision_mapper.py`, ... | none | targets from market data | a free choice of targets |
| Configuration, wiring, rendering | `runtime_config_support.py`, `application/runtime_*`, `notifications/telegram.py` | none that evolves | | not modelled |

How they interact.  An invocation of `/run` calls `run_strategy`, which shares
the command store, the marker store and the broker with every other invocation;
`run_strategy` calls `execute_rebalance_cycle` through a submission hook that
claims owner and marker before the first order; both raise issues that become
alerts, and the markers of those are shared by cycles, heartbeats and probes.
The runtime report of an invocation is what the heartbeat, the cycle-health
publisher, the daily projection and the candidates read later, each through its
own listing.  The heartbeat workflow records the day's account snapshot through
the probe job of the same service, which a deployment rewrites, the canary
borrows and an operator may stop.  The broker executes orders on its own time.
Deployment changes which runtime identity serves the next invocation.  The
service and the refresh workflow renew one token without a common lock.

What is hard, and which properties answer it:

* *Overlap.*  Two invocations read the store before either writes: of two
  decisions for one session one must trade (`OneCyclePerDecision`), and the
  account must stay with one profile (`OneAccountOwner`).  Two starts of the
  canary (`WritesAreSafe`), two collectors (`ObservationsAreTrue`), two
  publishers (`DailyRecordIsTrue`) and two refreshes (`LatestWorks`) overlap too.
* *Death between two writes.*  A claimed command whose cycle is gone must
  never be routed again and must block what comes later (`OrphanBlocks`); a
  command whose recording was cut short must not look finished
  (`SettledBeforeNext`, `FilledIsFilled`); a sync or a stop that failed half
  way must not be reported as done (`DeploymentsEndRight`).
* *Unanswered calls.*  The order may exist (`UnknownIsLast`,
  `SettledBeforeNext`); the job may have been resumed (`EnabledIsAccounted`,
  `EndIsTrue`); the application may have been claimed or accepted
  (`ApplicationIsTrue`).
* *Age of what was read.*  Reconciliation, selection and claim each use an
  earlier read (`SettledBeforeNext`, `ClaimedWhenDueAndBound`); the loops of a
  cycle work on a snapshot older than their own orders (`OrdersAreCovered`,
  `NoSelfTrade`); a paper command is simulated against holdings read before
  (`PaperFillsAreReconciled`); a day is judged from a listing
  (`HeartbeatIsTrue`, `CyclesAreComplete`, `HistoryIsProven`).
* *Observations that disagree or come out of order.*  Risk may be prohibited,
  admitted and scaled differently at each refresh (`BuysAreBounded`);
  overlapping runs observe an incident out of order (`MarkersAreTrue`); the
  cycle, the archive and the heartbeat report one run in any order and may
  contradict each other (`CountsAgree`, `ConfirmedStays`); a proof is presented
  again after newer faults (`ProofsResolveTheirOwn`).
* *Two objects, two writes.*  A candidate state and its export are written one
  after the other by producers that overlap (`ConfirmedStays`,
  `ExportMovesForward`).
* *A job borrowed from somebody else.*  The probe job of a stopped target is
  resumed for one snapshot and must be paused again, although requests stay
  unanswered and take effect late, recorders overlap or die, and the job has a
  schedule of its own (`EnabledIsAccounted`, `ClearOfSchedule`,
  `PublishedIsNew`); deployments work on the same jobs (`DeploymentsStayInBounds`).
* *Saying it once, and saying it.*  An alert is not sent twice (`SentOnce`), and
  a suppressed one was sent (`GuardSaysItOnce`); an order's end that was seen
  is told (`OrderIsTold`).
* *Progress.*  A recorder ends in time (`EndsInTime`), a canary ends
  (`RunsEnd`), recorded orders end a command by polling alone, once
  the service keeps an identity that its profile's unresolved commands are bound
  to (`SubmittedEnds`).

`PROJECT.json` lists each hazard at its line.

## 2. Modules

    DecisionBook            what the durable path promises about trading
      ^ refined by
    LiveCommands            run_strategy, the stores, the broker, deployments
      LiveCommandsProofs    every safety property, and DecisionBook is implemented
      MCLiveCommands        instances
    ExecutionCycle          execute_rebalance_cycle and the risk gate
      Sums                  lemmas about sums over finite sets
      ExecutionCycleProofs  CycleInv and every property of cycle_refresh
      MCExecutionCycle      instances
    DailyCandidates         candidate state and its export
      DailyCandidatesProofs ExportMovesForward, CountsAgree, ConfirmedStays
      MCDailyCandidates     instances
    SnapshotRecorder        the account snapshot through a paused job
      SnapshotRecorderProofs  TypeOK and every property of the run
      MCSnapshotRecorder    instances
    HkCanary                the canary's helper, restarted and overlapping
      HkCanaryProofs        CanaryInv, WritesAreSafe, EndIsTrue
      MCHkCanary            instances
    MCOperations            one component per behaviour, of:
      IncidentAlerts        markers, group index, sending, recovery
        IncidentAlertsProofs  TypeOK, SendInv, SentOnce, MarkersAreTrue
      Deployment            sync, staging and stop of one service
      RuntimeGuard          the guard and its deduplication
      CycleHealth           stretches, slots and the cursor
        MCCycleHealth       its own instance, for a finding
      CycleIncidents        faults and proofs of one cycle
      Heartbeat             due slots, evidence, one incident
      DailyProjection       records of a day and their handoff
      BrokerReconciliation  readings of a moving account
      PaperObservation      collectors and the watchdog
      PaperCandidate        the paper application
      PaperCommands         simulated commands
      OrderStatus           the monitor of one order
      TokenRefresh          one token, many refreshers
      OperationsProofs      the components of MCOperations and their types

`LiveCommands` looks at an order as something whose outcome is uncertain and
leaves out what it buys; `ExecutionCycle` looks inside one cycle and leaves out
who else runs.  The seam is the answer of a submission: `Route` of the first
stands for any sequence of `Submit`s of the second, at most `MaxOrders` long.

The components under `MCOperations` run as separate workflows or calls over
separate stores, so what interleaves is inside each of them.  `MCOperations`
chooses one `component` at first and lets it run; `v1`, `v2`, ... are that
component's variables, and those it does not use keep one value.  A definition
marked "Bug:" in a module is a fault that one of the properties is known to find.

### LiveCommands

A worker is an invocation of `/run`.  Its `pc` follows `run_strategy`:

| Action | Code (`application/rebalance_service.py` unless named) |
|---|---|
| `Start` | lists the profile's commands and validates the unresolved ones' binding (148-192, 735-790) |
| `Observe`, `Reconcile`, `Reconciled` | `_reconcile_live_command`: read state and order statuses, then append with the expected previous state (248-288) |
| `Mint`, `MintBlocked`, `NoMint` | build and enqueue the decision unless the session already has one, and select the due command (805-921) |
| `Claim` | `claim_due` or a risk-blocked frozen plan (922-940) |
| `StartDirect` | the path without durable commands |
| `Gate` | account identity, marker and report reads (946-1128) |
| `OwnerClaim`, `MarkerClaim` | `submit_claimed_order` before the first order (1129-1181) |
| `Route` | one order and the broker's answer (`execution_service.py` 1030-1124) |
| `OrdersDone`, `Settle`, `AppendOutcome` | up to three events of `_record_live_command_outcome` (195-245) |
| `Report` | `main.py` persists the report and returns |
| `Crash` | any exception, timeout or instance replacement |
| `BrokerMoves`, `NextSession`, `Deploy` | the environment |

A command is its content, as in the code, whose identifier is a digest of it.
The stores' compare-and-append is one atomic step; every read that the code
makes separately is a separate step, and whatever a worker read stays in its
locals (`view`, `verdict`, `cmd`).  A call to a store may fail with or without
having taken effect.  Which transitions the command store accepts is external
(`CanFollow`): the package is not in the repository, and the relation is the
one its callers and the tests use.

### ExecutionCycle

`Plan` → `Sell`* → `Fund` → `Refresh`* → `Screen` → `Buy`* → `Rebuy`, with the
broker's `Executes` and `Settles` anywhere in between.  `view` is the plan and
portfolio the cycle works on; `riskBlocked` and `scale` are its latches;
`snapshot` is the last thing the gate said, the only thing the second check in
`submit_order` sees.  The producer may plan other targets at every refresh.
Values are small integers and scales are halves; whole shares and their rounding are
kept, since the top-up rule and the forecasts live on them.  A plan has one
target per symbol (a mapping in the code), so `Asset` names no symbol twice
(`CycleAssumption`); the proof that no share is offered twice needs it.

### IncidentAlerts

A run observes incidents (`Alert`) and, once healthy, recovers them (`Recover`,
`RecoverGroup`, `RecoverNext`).  Each observation reads the marker, decides,
writes by compare-and-set (`ReadMarker`, `WriteMarker`, up to `Tries` times),
stamps it (`Advance`, `Stamp`), enters the group's index (`ReadIndex`,
`WriteIndex`), hands the alert to the channel (`Send`) and records that its
delivery is uncertain (`ReadDelivery`, `WriteDelivery`).  `Fail` ends it
anywhere.  `Wins` is the store's precondition on the object generation.  A run
may find the markers that the recovery by name of an earlier healthy run has
left (`LeftClear`).

### DailyCandidates

A producer is a process that persists evidence of the day: the service, the
heartbeat, the exporter of the completed window.  It takes up a fact (`Cycle`,
`FromArchive`, `EventAlone`, `IdleWindow`) and calls `persist_candidate`, whose
storage calls are one action each:

| Action | Code (`notifications/unified.py`) |
|---|---|
| `ReadState`, `ReadFirstExport` | read the state, and the export when there is none; merge or refuse (175-235) |
| `WriteState` | compare-and-set of the merged state, if it changed (264-269) |
| `ReadExport`, `Check` / `CheckSame`, `WriteExport` | `_export_projection` (138-155) |
| `Fail` | any exception, in the storage or in the validation |
| `Archived` | `main.py` persists the runtime report (1027-1060) |

`order_count`, `fill_count` and `preview_count` follow the same rule and are one
count here.  An event is what distinguishes it for a row: its run, whether it is
an alert, and its count.

### SnapshotRecorder

A recorder is one run of the workflow step.  The job is `enabled`, its
`controls` (everything that `_scheduler_control_view` keeps, one opaque value)
and `attempts` (`lastAttemptTime`).

| Action | Code (`scripts/record_daily_account_snapshot.py` unless named) |
|---|---|
| `Inspect` | read and validate the job, PAUSED or ENABLED (648-697, 914-988) |
| `Resume`, `Reread` | the resume, and the reading that follows one without an answer (1069-1086) |
| `Readback` | is it the job that was resumed, untriggered? (1089-1111) |
| `Run` | `_scheduler_run`, once (1112-1124, 1137-1153) |
| `Observe`, `Polls`, `ObserveFails`, `GivesUp` | `_wait_for_observation` and what ends it (1156-1329) |
| `Pause`, `Verify` | `_pause_and_verify` (1031-1056) |
| `Publish` | the freshness is checked again, and the snapshot posted (716-728) |
| `Dies` | the workflow is cancelled or times out |
| `Probe` | `main.py` `run_probe` archives the account, or fails (1088-1145) |
| `Deploy` | `sync-cloud-run-env.yml` rewrites the job's configuration, never its state (1945-1984) |
| `LateResume`, `LatePause`, `LateRun` | a request without an answer takes effect after all |
| `NaturalRun`, `Stop`, `Tick` | the job's schedule, an operator, the clock |

Time is explicit, since the guard of ten minutes, the waiting of 180 s and the
timeouts only mean something together.  Nobody is made to act by fairness:
the clock waits for a call that is `due`, so "ends" is a bound on `now`.  The
steps of one poll (two listings, up to 128 readings) are several `Polls` and one
`Observe` of any readable part of the archive; each reading is bounded by the
deadline, as in the code.  A timeout is taken as the length of the call.

Two recorders do overlap: the workflow's concurrency group is per ref
(`execution-report-heartbeat.yml:67`), and a step may be run by hand.


### HkCanary

A run is one start of `run_hk_notification_canary`.  Its `pc` walks the helper's
one long function: `Preflight`, `Recheck`, `Backup`, `Allocate`, `Claim`, then
per write a pair of write and read-back (`Tag`/`TagRead`, `Uri`/`UriRead`,
`Resume`/`ResumeUnknown`/`ResumeRead`), `Dispatch`, `Wait`, and back: `Pause`,
`PauseRead`, `RestoreUri`, `RestoreRead`, `Untag`, `FinalService`,
`FinalJobs`.  `service`, `job`, `queue` and `requests` are the cloud; `backup`,
`ledger` and `claim` are private files that outlive a run.  A cloud call
succeeds, is refused, or fails with its effect done, undone or still to come
(`Succeeds`, `Fails`, `LateCall`).  `before` remembers the service as it was at
the first write, for `BackupIsPreWrite`.

### Deployment

One workflow run at a time (the concurrency group of both workflows) walks a
list of steps: `SyncSteps`, `StagingSteps` or `StopSteps`.  `Deploy`,
`WaitForCommit`, `SyncEnv`, `Shift`, `WriteJob`, `Quiet`, `ApplyAction`,
`DeleteLegacy` and `Prune` are the sync (`sync-cloud-run-env.yml`,
`reconcile_cloud_runtime.py`); `Plan`, `Stage`, `StageRead` and `MoveTraffic`
the image-only mode; `See`, `SeeAgain`, `Disable`, `Confirm`, `Halt` and
`Final` the stop (`stop_hk_runtime.py`), with `Publish` posting its result.
Each call may fail with or without its effect and ends the run there.  A
revision is the commit it was built from, the enablement in its environment,
whether it became Ready, and how its template routes.

### RuntimeGuard, Heartbeat

`GuardRun` is one whole half-hourly run of the guard, since nothing else writes
its cache: the window, the reads that may fail, the pruning, the decision, the
new state and its saving.  `log` holds failures with their time and revision;
`last` and `tried` remember what the run said and when an alert went out.
`Check` of `Heartbeat` is one heartbeat: which slots are due and past their
grace, the listing, the reports that count, then `Skip`, `AllReported` (which
clears the incident) or `Alert`.  Reports appear by `Finish` and `Upload`.

### CycleHealth, CycleIncidents

A publisher run is `Begin` (cursor, stretch and its cut), `CollectAll` /
`CollectPart` / `GiveUp` (the listing and the giving of reports to slots),
and the post, which the source either takes (`Store`, with its checks) or does
not (`Lose`).  `CycleIncidents` is the reference reducer on one cycle: `Scan`
retains the faults of a listing, `Resolve` presents a proof with them.

### DailyProjection

A publisher walks `Begin`, `Observe` (a readable part of the listing, judged),
`Upload` (create-only), `Sync` (the receiver's answer to the one post), `Handoff`
and ends, or fails.  The judgement (`Judge`) follows `_project_target` and
`_judge` case by case; `Write` is a strategy run that writes or rewrites its
report.

### BrokerReconciliation

`Read` takes the next of the surfaces, in the code's order, from an account that
`Order`, `Fill`, `Cancel`, `Record` and `Tick` change in between; `Answer` is
the comparison of the receipt, or the snapshot; `Block` a read that fails.

### PaperObservation

A collector run is `Begin`, `Look` at each day that is due, then what it finds:
`MarkT0` and `MarkDay` (repair), `Rest`, `Attempt` or `Recover` (claim), and
with a claim `Observe` / `Refuse` / `Fail` and `Store`.  All objects are created
once (`Free`, `Kept`).  `Notify` is the watchdog opening or closing an incident,
`Acknowledge` its delivery.

### PaperCandidate

One run of the workflow: `Claim` posts the claim, `Build`, `PauseJob`,
`Update`, `Shift`, `Verify` (the startup receipt in the log), `Post`; `Fail`,
`PostUncertain` and `Cancel` are its other ends.  `Start` is an instance that
starts, loads what its revision is bound to and logs the receipt.  `Sync`,
`SyncShift` and `SyncJobs` are the legacy workflow that shares the group.

### PaperCommands

`RecordTransition`, `Enqueue` and `CycleEnds` are the dry-run cycle;
`ReadAccount`, `Consume`, `Claim`, `Simulate`, `Reject`, `Fault` and `Return`
one call of the consumer's route.  The shared library's consumer is external
and taken from its callers and the tests.

### OrderStatus

`Poll`, `NoAnswer`, `PollFails`, `Raise` and `RunOut` are the loop of
`monitor_submitted_order_status`; `Progress` is the broker.

### TokenRefresh

`Start`, `Exchange`, `Write` are `run_refresh` (and the bootstrap's library);
`NoAnswer`, `Gives` and `Drops` its failures; `Age`, `Reset` and `Rotate` time
and the operator, who waits for no run: the rotation has a concurrency group of
its own and the bootstrap takes no lock.  Tokens are numbered in the order
LongPort issued them, so the valid one is the last.  `caught` is a history of
the tokens that runs were about to write as the operator reset; nothing reads it
but the property.

## 3. Runs

Every bound is in the cfg; those of the components of `operations` that are not
proved about are in `MCOperations.tla`.

| Run | Instance | Question |
|---|---|---|
| `live_next_session` | 2 workers, next-session profile, 3 sessions, 2 releases, 1 order | types; does a decision start only when nothing of an earlier one works (`SettledBeforeNext`)? do orphans block? are claims due and bound? does all of this implement `DecisionBook`? |
| `live_shared_account` | 2 workers of a completed-session profile and one of a direct profile, 2 targets, 1 session | does one cycle trade a decision, though the workers mint different ones? who owns the account? |
| `live_reconciled` | 1 worker, 1 target, 2 sessions, 2 releases, 2 orders, fair | is FILLED true? do recorded commands end, also after a redeployment? |
| `cycle_refresh` | risk asset and sweep, 2 refreshes, targets change | halting, overselling and funding (`OrdersAreCovered`), buying back what was sold (`NoSelfTrade`), risk latch and targets (`BuysAreBounded`) |
| `cycle_risk_gate` | as `cycle_refresh` | finding 1 (violated) |
| `cycle_margin` | negative cash | finding 2 (violated) |
| `candidates_overlap` | 2 producers, 1 run, 2 counts, 2 facts each | is confirmed evidence exported for good? does the export go back? do counts agree? |
| `recorder_overlap` | 2 recorders, 2 configurations, 1 natural time, 8 ticks | is a job left ENABLED accounted for? clear of the schedule? over in time? is what is published new? |
| `recorder_archive_order` | the same | finding 3 (violated) |
| `canary_two_runs` | 2 starts, 1 deployment, 1 request of somebody else | do the writes stay one run's, on the candidate, with a backup from before? is the end what is said? do runs end? |
| `operations` | one of 14 components per behaviour, see below | the properties of each |
| `cycle_cursor` | slots 1 and 6, grace 2, nothing fails | finding 4 (violated) |

In `canary_two_runs` the five parts of `WritesAreSafe` are that one run writes,
that the backup shows the service before the first write, that the job is
enabled only on the candidate, that the serving traffic is left alone, and that
after an unanswered call nothing but the pause is written.  `EndIsTrue` says
that the job is left paused unless the run said otherwise, that the outcome is
that of the run's own request, and that "done" means everything is as found.

In `operations` the properties, by component:

| Component | Instance | Property |
|---|---|---|
| all | | `ComponentsTyped` |
| `alerts` | 2 runs, a grouped and a named incident, 2 severities, 1 alert each, 2 tries | `SentOnce`, `MarkersAreTrue` |
| `control` | 2 workflow runs, 2 commits, 1 recorder window | `DeploymentsEndRight`, `DeploymentsStayInBounds` |
| `guard` | a run failure, a job failure, reminder 2, lookback 1 | `GuardSaysItOnce` |
| `cycles` | slots 1, 2, 4, 2 reports, grace 2, at most 2 cycles in a stretch | `CyclesAreComplete` |
| `incidents` | 3 attempts of a cycle | `ProofsResolveTheirOwn` |
| `beat` | 2 targets, 2 executions, slots inside and outside a lookback | `HeartbeatIsTrue` |
| `daily` | 2 publishers, 1 run that rewrites its report | `DailyRecordIsTrue` |
| `account` | 1 order, days of two instants | `HistoryIsProven` |
| `paper`, `watch` | 2 collectors; 1 collector and the watchdog | `ObservationsAreTrue` |
| `candidate` | 2 applications, 4 revisions | `ApplicationIsTrue` |
| `commands` | 1 consumer at a time, 2 sessions, 1 command | `PaperFillsAreReconciled` |
| `order` | 3 polls | `OrderIsTold` |
| `secret` | a forced and a scheduled refresh, 2 bootstraps, 4 tokens | `LatestWorks` |

Each of these is a conjunction of named properties of the component's module,
where each has its own comment.

### Why the bounds are enough

The hazards of `LiveCommands` need two actors at one command (two workers), or
one actor before and after a session change or a deployment (two sessions, two
releases; three sessions let a command be minted, become due, be orphaned and
meet a later one).  Two targets let overlapping workers mint different commands
for one session, and two orders give a mixed outcome (one filled, one
unanswered).  In `ExecutionCycle` a risk asset and the sweep exercise every
loop, two refreshes let a prohibition be followed by an admission, and a share
at three with targets of four and five lies on both sides of the half-share
rule.  In `DailyCandidates` runs do not affect each other except through the
idle window, so one run is enough; two producers with two facts each put a
complete call of one between any two storage calls of the other.  In
`SnapshotRecorder` a tick is one call (20 s); waiting, guard and window are
scaled down and keep the relations of `TimingAssumption`, which the code's 20 s,
180 s, 600 s satisfy with room.  The natural time is at 6 and the guard is 5, so
a recorder may start at tick 1 and is refused at tick 2: the boundary is
reached, and the instance is tight (`Wait + 3 * Call = Guard`).  A window of 6
makes the older snapshot, archived before the trigger, fresh enough to be taken
by mistake.  The run ends at tick 8, when every recorder is over.

Two starts of the canary give both an overlap and a restart after a death; one
deployment between any two of its steps, and one foreign request, are what its
etag and its request history are there for.  In `IncidentAlerts` two runs with
different stamps give both orders of arrival and between them raise an
incident, recover it and raise it again; two severities give an escalation; two
tries reach the retry and its bound (eight in the code; a constant of the
proofs).  Two runs of deployment control let each mode follow each other one,
complete or broken off at any step.  The guard's log has an entry of each of
its two sources; its clock runs past the reminder and the retention.  Three
slots in cycle health, with a stretch of at most two cycles, give a cut, an
overlap of a grace and a slot that a later stretch answers; three attempts give
an old fault, a newer one and a proof between them.  The heartbeat's target
with slots 1 and 3 has one outside the day when the other is due.  Two
publishers cover a natural and a manual one on either side of a midnight.  One
order that fills is counted by neither, one or both lists of executions.  Two
collectors over days of three instants let a claim outlive its day; the
watchdog's conditions depend on one day.  Two applications let the second
start on what the first left.  A second paper command or consumer shares nothing
with the first but the store, whose claim is atomic, so one of each is
enough, with restarts; three polls hold a partial fill, an unanswered poll and
an end.  Four tokens hold the first, two exchanges and a reset.

Deadlock is checked for `LiveCommands`, where workers always may start again.
A rebalance cycle, the facts of a day, recorders, canaries, polls and everything
with a last instant end, so their configurations switch it off.

Symmetry (workers of one profile, targets, releases, producers, recorders) is
used in safety runs and in the refinement, never in a liveness run.

### Fairness

`FairSpec` of `LiveCommands` states only what the deployment provides.  Cloud
Scheduler invokes `/run` each session (`.github/workflows/sync-cloud-run-env.yml`
1927-2039): weak fairness of `Start`.  A request that runs makes progress until
it is cut off: weak fairness of `Step`.  `Crash` is not fair, and may happen at
any time; that not every observation fails and not every append is cut off is
strong fairness of `Concludes` and `Reconcile`.  The broker resolves a working
order: weak fairness of `BrokerMoves` (a day order expires).  The service is
deployed with one instance and one request at a time (same file, 1295-1296),
so the liveness run has one worker.  Sessions need not advance for it.

`SubmittedEnds` has two exceptions.  A command with an incomplete record (an
order without an id, or an unanswered submission) is not covered: the code
never concludes anything about it and it keeps its profile blocked until an
operator acts.  Nor is a profile with an unresolved command that is bound to
another identity than the one that serves: after a redeployment `run_strategy`
returns before it polls anything
(`application/rebalance_service.py:745-789`), so a submitted command that is
fully known to the store stays SUBMITTED until its own release serves again.
The premise `<>[]Unblocked` says that from some time on this is not so; the
instance has two releases, and without the premise the property is violated.

`RunsEnd` of `HkCanary` assumes that a process that runs goes on (weak fairness
of each run's `Step`) and nothing of the cloud: every call is bounded by its
timeout and every wait by its polls, whatever they answer.

`SteadySpec` of `CycleHealth`, for finding 4, assumes more than the code can
count on, which makes the finding stronger: the hourly workflow runs, every
read and post succeeds, and every report was written for a slot of the schedule.

## 4. Findings

1. `cycle_risk_gate`.  The comment at `application/execution_service.py:1357`
   says "Every observed refresh constrains this cycle", and the buys and the
   funding sale honour it (`RiskLatches`).  The cash-sweep rebuy
   (1718-1727) reads neither `account_new_risk_buy_blocked` nor earlier
   observations, and `submit_order` evaluates the latest snapshot only.  When
   risk is prohibited first and admitted at the refresh, the rebuy is accepted.
2. `cycle_margin`.  With negative cash on a cash-only account the cycle
   skips its buy loop and publishes "skipping buys this cycle to avoid
   additional margin" (`notifications/telegram.py:321`).  The rebuy that
   follows is not skipped when the forecast from executed sells is large
   enough.
3. `recorder_archive_order`.  `docs/account-snapshot-history.md:156` says that
   the recorder pauses the job immediately after running it and reads the
   archive only after the restore is confirmed.  `_run_paused_probe` polls the
   archive first, inside the `try` whose `finally` pauses
   (`scripts/record_daily_account_snapshot.py:1107-1124`), and
   `tests/test_daily_account_snapshot.py:532` asserts that order.  The job is
   ENABLED for up to 180 s longer than the document lets the reader believe;
   that this is still clear of the schedule is `ClearOfSchedule`.
4. `cycle_cursor`.  `docs/runtime-cycle-health.md:186` says that a long
   interval "can continue through later invocations" with the existing grace
   overlap.  The overlap lists reports that began up to a grace before the
   cursor, whose slot may lie before it and outside the stretch; such a report
   answers no expected slot, is an error
   (`scripts/collect_runtime_cycle_health.py:502`), makes the stretch
   incomplete, and is listed again each time.  The cursor stays although
   nothing fails.

Known limits, by design of the code and visible in the models:

* A claim whose cycle died keeps its profile from trading until an operator
  acts (`OrphanBlocks`).
* A redeployment while a command is unresolved blocks its profile, also when the
  command only waits to be polled (see Fairness).
* An alert whose reservation is followed by a later observation, or by a lost
  race on the group index, is never sent (`UnsentIsExplained` lists exactly
  these reasons).
* A recovery that finds the marker clear writes nothing, so an alert of an
  earlier observation may still be reserved before `advance` stamps the marker
  (`notifications/unified.py:290`), which then stays active under the
  recovery's stamp.  A recovery that comes after a later observation clears
  nothing either.  `ClearedStaysCleared` excepts what the recovery itself has
  found active (`Finds`).
* The export lags behind the candidate state when a producer ends between the
  two writes, but that producer confirmed nothing, and the next one exports
  both; the proof of an idle window drops events that no executed or skipped
  run claims.
* A recorder that dies between resume and pause leaves the job ENABLED, and the
  next one, finding it so, takes the direct path, which neither pauses it nor
  looks at its schedule; a resume that takes effect after its sender has read
  the job as PAUSED leaves it ENABLED too, and only the sender's
  `scheduler_resume_unknown` tells (`EnabledIsAccounted` lists exactly these).
* A day that ends between the two lists of executions may hide one
  (`EachTradeOnce` excepts it), and what the readers cannot prove keeps the
  reconciliation from ever permitting anything (`NeverPermits`).
* Only an explicit answer in the nested claim record lets a claimed application
  be called uncertain (`v7_paper_application.py` near 175), and only a claim step
  that succeeded lets anything be published (`apply-paper-candidate.yml:255`).
  When the service accepts the claim and the answer is lost, late or not the
  expected one (`v7_paper_application_http.py:59-68`, 101-102), the step fails and
  the application stays claimed for good, with no run to hold it: `Claim` then
  adds it to `unheld`.  So it does when the workflow is cancelled or cannot post
  (`unsettled`).  `ClaimIsSettled` excepts the two; `UnheldDeploysNothing` says what
  still holds of the first: no revision is ever bound to it and nothing is
  published of it.
* The guard remembers what it alerted for 48 hours (`EVENT_RETENTION_HOURS` of
  `scripts/runtime_guard_alert_dedupe.py`), and the lookback of
  `RUNTIME_GUARD_LOOKBACK_MINUTES`, 180 by default, has no upper bound.  With a
  longer one a failure that was alerted is read again after it was forgotten and
  alerted again; `LookbackIsRetained` excludes it.
* The refusal of the legacy sync over a bound service covers deployments; a
  sync of schedules only goes through.
* After a partial fill was told, the final fill is never told when the polls
  run out first (`EndsWithMessage` asks for one message).
* A token whose exchange was answered and not written, or not answered, is
  lost: the secret holds an ended one until the operator resets it
  (`LatestWorks` excepts `lost`).  When the operator resets the token between a
  run's exchange and its write, that write puts the ended token over what was
  rotated in, until the operator rotates again (`LatestWorks` excepts `caught`).  The help of `--force`
  (`scripts/refresh_longport_access_token.py` near 242) says that an expired
  token stays blocked; `plan_refresh` (136-137) lets force through first, and
  LongPort refuses instead.

## 5. Proofs

TLAPS proves the following for any number of workers, profiles, sessions,
targets, releases, runs, reasons, tries, producers, counts, recorders,
schedules, timeouts, refreshes, tokens, slots, publishers, collectors, orders,
commits and lengths of a day,
and for any symbols, prices, holdings, cash, targets, scales and thresholds of a
cycle, from the assumptions
`LiveAssumption`, `NoCommandAssumption`, `CycleAssumption`, `AlertAssumption`,
`CandidateAssumption`, `SourceAssumption`, `RowAssumption`, `TimingAssumption`,
`SnapshotAssumption`, `RunsAssumption` (the starts of the canary are named by uuids,
which are none of the fixed words its tags and files use) and, for the components of `operations`,
`OperationsAssumption`, `HealthAssumption`, `DailyAssumption`,
`AccountAssumption`, `PaperAssumption` and `ControlAssumption` (bounds, instants and
durations are natural numbers, what marks "none" is not a value, an account has finitely
many orders, and an observation of cycle health may hold at least one slot, as `MAX_CYCLES`
does) and `LookbackIsRetained`, all of which TLC evaluates in the runs.

* `LiveCommandsProofs`: `MarkerFenceHolds` (`FenceInv`) and from it
  `OneCyclePerDecisionHolds` and `TypeCorrect`.  `OneCyclePerDecision` is not inductive: it
  says nothing of a worker that has claimed the marker and not yet routed.
  `FenceInv` adds that a routing worker's key is in `markers`, that two
  routing workers have different keys, that a worker which has routed nothing
  finds its counter at zero, and that a key without a marker was never
  routed.  Only `MarkerClaim` adds a worker to those that route, and it
  requires that the marker was absent; markers are never removed.
  In the same module `OwnerFenceHolds` (`OwnerInv`) and
  `OneAccountOwnerHolds`.  A worker between `OwnerClaim` and the end of its
  routing serves the owner; the owner never changes once set; so every order
  belongs to the owner's profile.  This needs that what a worker sees and
  handles is of its own profile (`OwnProfile`, a separate lemma).
  Its second half has the other four properties of commands, and
  `BookIsImplemented`, the refinement of `DecisionBook`.
  The first two, `ClaimedWhenDueAndBoundHolds` and `OrphanBlocksHolds`, rest on
  `DueInv`: a worker on the durable path has seen each command of its profile that
  an earlier session left active, and when it claims there is none.
  `FilledIsFilledHolds` needs that a claimed command is worked by the one worker
  that claimed it (`ClaimInv`) and that the answers it holds, the verdict it formed and
  the status it is about to write are true of the orders at the broker
  (`RecordInv`).  `SettledBeforeNextHolds` adds `TradeInv`: the orders of a decision
  are those of the one command its cycle routed.  The refinement maps
  each step of a worker, a deployment or the broker to a step of the book or to a
  stutter, from the same invariants.
* `ExecutionCycleProofs`: `CycleInvHolds` (`CycleInv`) and from it every property
  of `cycle_refresh`.  `OrdersAreCovered` is not inductive in either part.  A share
  is not offered twice because the selling loop has each symbol once and its
  snapshot is the account before the cycle, and the sweep is sold for funding
  only when nothing was sold (`Selling`).  Buys are paid because the sum of the
  buys and of what may still be bought never exceeds the cash and the executed
  sells; a refresh may raise the forecast only by what was executed, and a
  fill that a forecast shows stays executed (`Funding`).  `NoSelfTrade` rests on `Trading`: what a
  sale leaves is worth at least the scaled target it was sold for, no later view shows
  less of the position, and the scale only shrinks, so a buy needs a larger plan.
  `BuysAreBounded` is an action property: it follows from `Latched`
  (the latches are what was seen, and a loop of buys runs only unblocked) and from
  the arithmetic of `Planned`.  The sums over orders are those of
  `SumFunctionOnSet`; `Sums` proves that a term changes a sum by what it changes,
  that larger terms and more of them make a larger sum, from the definition of the
  fold, by taking the smallest set that is a counterexample.
* `IncidentAlertsProofs`: `SendInvHolds` (`SendInv`), `SentOnceHolds` and
  `TypeCorrect`.  A compare-and-set that wins was computed from the current
  marker (`ReadsAreOld`), so a reservation is one above the marker's
  generation (`FreshReservation`), which nobody holds and nobody sent;
  generations never go back (`GenerationsGrow`); `Send` gives up the
  reservation in the step that hands it out.  `MarkersAreTrueHolds` comes from
  `MarkInv`: only the holder of the marker's current generation can still send
  it, and it made the last reservation (`HoldersReserved`), so one that finds a
  later stamp leaves it on the marker; a delivery is recorded over the
  transition it is about (`DeliveriesAreSent`); and since a run writes over no
  later observation (`ReadsInTime`), the stamps of a marker only grow, and what
  a recovery has worked off (`WorkedOff`) becomes active again only by a
  reservation that is not earlier.
* `DailyCandidatesProofs`: `ExportMovesForwardHolds`, from `ExportInv`: while
  nobody wrote the export since a producer read it, what the producer is about
  to write was checked no earlier than what is exported.  This is why the code
  reads the export before it reads the state again.  `CountsAgreeHolds`, from
  `CountInv`: the value a producer works on is one the state has passed
  through and kept (`Keeps`), it is the current value when the version is
  unchanged, and the state accounts for each accepted count (`Accounts`): it
  is the count shown or the run is in conflict.  The accounting is what makes
  the invariant inductive when a producer finds its merge already there and
  writes nothing.  `ConfirmedStaysHolds`, from `ConfirmInv`: the state only grows
  in what a run with a source shows (`Grows`), the export shows no more than the
  state, and a producer about to put an export, while nobody put another since it
  read it, replaces one that shows no more than its own.  Showing is kept by
  merging (`MergedGrows`) and by projecting (`GrowsShows`), so whatever a producer
  confirmed is told by every later export.  `RowAssumption` says that the mark for
  a run which is not shown is no row.
* `SnapshotRecorderProofs`: `TypeCorrect` and every property of the run.
  `ClearOfScheduleHolds` and `EndsInTimeHolds` come from `TimeInv`, which bounds
  the call under way by its place in the sequence (`DueInTime`) and remembers,
  through the deadline, when the job was inspected and that it was clear then
  (`InspectedClear`).  The guard must cover the waiting and three calls
  (`TimingAssumption`); with less, TLC finds the natural time inside.
  `EnabledIsAccountedHolds` comes from `AccountInv`: only a recorder that found
  the job PAUSED resumes it, and a resume that may come late has a sender who
  says so in the end; each exit of a recorder either reads the job as PAUSED or
  raises the alarm.  `PublishedIsNewHolds` carries the choice of `Observe`
  through pausing and verifying (`SelectedInv`).
* `HkCanaryProofs`: `CanaryInvHolds` (`CanaryInv`), and from it `WritesAreSafeHolds` and
  `EndIsTrueHolds`.  At most one run is past the claim file, and it stays the only one that
  calls (`OneClaims`), also after it died, because the file is never removed.  Its
  snapshot is the backup, and lies in the service's past or is the service
  (`IsPast`), so a write with an old etag is refused and one with the current etag
  moves nothing but tags.  A call that may still take effect is one the claimer has
  given up on (`CallFits`): this is why a doubt about the address or the resume ends in
  a pause or in a stop and never in a further write.  While the job is enabled, its address is
  the candidate's (`JobFits`), and a request that the candidate receives while a run waits for
  one is that run's own (`RequestsFit`).  That a run which returns has restored
  everything is a step property: it comes from the two final looks.
* `OperationsProofs`: the properties of each of twelve components of `MCOperations`, and
  the types of all of its components, as theorems of `OperationsSpec`.  `Is("x") => X!Inv` is the invariant in each; the
  steps of `operations` are reduced to those of the component once (`XSteps`).
  * `OrderIsToldHolds`, from `MonitorInv`: while the monitor polls, the last status it
    saw is not final, so a final status ends the loop and is what is told last.
  * `LatestWorksHolds`, from `TokenInv`.  By itself `LatestWorks` does not say who
    may still write; `TokenInv` adds that a token which is not in the secret yet
    is the valid one and has one bearer (`OnTheWay`), and that no run can have
    read it (`ReadsAreOld`).  So a run that is granted an exchange read the valid
    token while it was in the secret, nobody else is about to write, and among
    refreshes the missing lock does no harm.  A reset needs no exchange: it ends
    the token of every run that is about to write, so those runs are kept apart
    (`caught`), and one that writes late stores an ended token.  The theorem
    leaves this interleaving open, because nothing in the code prevents it.
  * `ProofsResolveTheirOwnHolds`, from `IncidentInv`: what is retained is a reported fault
    and what is resolved is retained, so a proof presented again finds what it
    covered when it was first accepted.
  * `PaperFillsAreReconciledHolds`, from `PaperInv`: a claimed command is under way with the
    one call that claimed it and with the account that call read
    (`ClaimsAreUnderWay`), and the recorded cycle's transition is stored.
  * `HeartbeatIsTrueHolds`, from `BeatInv`; that the incident's observation is no later
    than the end of each execution that clears it needs the minimum of a finite set of
    reports (`EarliestProof`).
  * `GuardSaysItOnceHolds`, from `GuardInv`: while the deduplication is on, its state
    holds every kind of alert that was sent, and every failure that was sent unless
    the failure is older than what is retained (`SentIsHeld`).  An entry that
    can still be read is one that is retained only if the lookback is no longer than the
    retention; this is the assumption `LookbackIsRetained`.
  * `ApplicationIsTrueHolds`, from `CandidateInv`: a run posts only after a receipt
    (`PostsAfterReceipt`), and a receipt is of a revision which is bound to that application
    and stays as it was deployed (`ReceiptsAreBound`).  For a claim that no run holds,
    from `UnheldInv`: whatever is bound or held was claimed (`BoundAreClaimed`), so a
    claim that finds the application approved finds nothing bound to it.
  * `DailyRecordIsTrueHolds`, from `DailyInv`: each record, stored or held by a publisher,
    is the judgement of some listing of its own day (`Judged`), so that what the judgement
    cannot say of any listing no record says; the proof of `UnresolvedStaysVisible` goes
    through the cases of `Judge`.
  * `CyclesAreCompleteHolds`, from `HealthInv`: between the reading of the cursor and the
    answer to the post the cursor does not move (`StretchInv`), a complete post has every
    slot of its stretch and every report that can no longer come within its grace
    (`HoldsAll`), and what is called missing has its grace behind it
    (`CallsMissing`).  The slots before the cursor and those of the stretch
    together are those before the new cursor, also where the stretch was cut.
  * `ObservationsAreTrueHolds`, from `ObservationInv` and `WatchInv`.  Time goes on under
    a collector, and one that outlasts its day is in `crossed` (`RunIsPast`); it has passed
    an earlier day that was observed in time only if `t0.json` was written, which is why
    it never writes a later day into it (`PassesInOrder`); a claim is held by the run
    that created it until that run reads the account (`ClaimsAreHeld`).  An incident the
    watchdog is sending keeps the state it was opened in, because markers are written
    once and stops are never taken back.
  * `HistoryIsProvenHolds`, from `ReaderInv`: a list that is no longer ahead holds what its
    answer could, everything due but the day's own executions or all of the day's
    (`HistoryHolds`, `TodayHolds`), and if both were read on one day the two leave
    nothing out.
  * `DeploymentsEndRightHolds` and `DeploymentsStayInBoundsHolds`, from `ControlInv`.  The
    steps ahead of a run are in the order of its workflow and only those its dispatch asked
    for (`StepsInOrder`), which is proved of the routes themselves (`SyncRoute`,
    `StagingRoute`, `StopRoute`).  So when the shift comes next, neither the deployment
    nor the environment is ahead, both are on the template, it is Ready and kept
    (`ShippedAsAsked`), and it is what the shift finds; a failed run leaves revisions
    behind but promises nothing.  What a staging moves the traffic to is its own revision,
    configured as what serves (`StagedAsPlanned`).  The last revision that became Ready is
    always kept (`ServiceHolds`), so pruning finds the same one among those that are left.
  * `ComponentsTypedHolds`, from one typing lemma for each component.  Four invariants have
    the whole type already; elsewhere a type says more than the invariant and needs
    one of its own.  The bounds on counters are the part that is not obvious: the monitor tells
    at most one status for each poll (`ToldOnceAPoll`); the cash of the account falls by one
    and its shares rise by one with each order that fills, so both stay within the number
    of orders (`AccountAddsUp`); a stretch that is cut because it has too many
    slots still ends no earlier than it begins, which fails only if an observation
    could not hold a single slot (`StretchInTime`); a watched run claims an attempt only of a day
    that was due when the run began, so that the slot it names is a natural number
    (`Ready`).

Only model-checked: the liveness properties `SubmittedEnds`, `RunsEnd` and
`CursorReachesNow`, which are outside the prover.

## 6. What is left out

* `LiveCommands`: notifications and logging; the paper producer that shares
  the store; what an order buys.  A request ends within its timeout, so no
  cycle spans two sessions.
* `ExecutionCycle`: dry runs; fractional shares and board lots; limit
  premiums and price moves within a cycle; the reserve that is kept in cash;
  the small-account helper's rewriting of targets, kept only as the choice of
  turning the sweep into cash; exceptions of a refresh, which end the call
  (`Crash` of `LiveCommands`).
* `IncidentAlerts`: the wording of a state, taken as determined by its
  severity; the `delivered` status, since this service's channels answer with
  a boolean and never with a receipt.
* `DailyCandidates`: identities and the scope key (a mismatch is a refusal,
  `Fail`); plugin observation counts, whose contradiction is an exception
  (`Fail`); the time and kind kept with a source; the wording of
  `execution_status`.
* `SnapshotRecorder`: the `independent_get` mode, which does not use the job;
  the two inspections; which field of an object is invalid (what cannot be read
  is passed over); the answers of the receiver of the snapshot, none of which is
  retried; publishing switched off.  The configuration is opaque, so the retries
  that a deployment chooses from the state it read are not told apart.
* `HkCanary`: the fields that make two configurations equal, which are one
  opaque value; the parsing of log lines; the format of the private files.
* `Deployment`: the values of the environment and the retries of a job;
  permissions; what a build does.  `expected_revision` of a staging is recorded
  and never compared, and so it is here.
* `RuntimeGuard`: the texts of one reason have a fingerprint each
  (`scripts/runtime_guard_alert_dedupe.py:98-103`) and are one issue here, so a
  text that is new beside known ones of its reason is alerted by the code and
  may be taken for a repeat by the model.
* `RuntimeGuard`, `Heartbeat`: the wording of alerts; the plain mode without
  unified notifications; the incident about a collector's own heartbeat; how
  a calendar turns a schedule into slots, a set of instants here.
* `CycleHealth`, `CycleIncidents`, `DailyProjection`: the sanitising and the
  digests of what is posted, its transport, signing and authentication.  The
  source and the receiver are services of other repositories.
* `BrokerReconciliation`: the mapping of each row's fields by the receipt's
  adapters (a row that does not map is `Block`); amounts beyond one unit.
* `PaperObservation`: what the account snapshot contains.
* `PaperCandidate`: the preview endpoint; the digests of an approved candidate.
* `PaperCommands`: quantities beyond one unit; the producer's strategy.
* `TokenRefresh`: the app key and secret, which the rotation writes beside the
  token.
* Strategy and decision mapping compute targets from data without state, and
  the plain DCA adapters are among them; configuration is read once; rendering
  has no effect on the rest.  They are not modelled.

## 7. Plan

What would add most from here:

1. Compositions over the probe job: `Deployment` with `SnapshotRecorder` (the
   recorder is two actions of `Deployment` now) and with `HkCanary`.
2. The paper producer of `PaperCommands` in one store with `LiveCommands`.
3. Margin accounts and two risk assets in `ExecutionCycle`, both of which its
   constants allow (`CashOnly`, `Asset`).
