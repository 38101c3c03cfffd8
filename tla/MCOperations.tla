----------------------------- MODULE MCOperations -----------------------------
(***************************************************************************)
(* The operations side of the platform for TLC: incident alerts,           *)
(* deployment control, the runtime guard, cycle health with its incidents, *)
(* the report heartbeat, the daily projection, the account reconciliation, *)
(* the paper observation, application and commands, the order monitor and  *)
(* the access token.                                                       *)
(* They run as separate workflows and calls over separate stores, so a     *)
(* behaviour here is a behaviour of one of them, chosen at first.  v1 and  *)
(* the following are the variables of that component; those it does not    *)
(* use keep one value.  The properties are those of the components.        *)
(***************************************************************************)
EXTENDS IncidentAlerts, TLC

(* Incident alerts: two runs, one before the other.                        *)
CONSTANTS early, late, issue, failure
InOrder == early :> 1 @@ late :> 2

VARIABLES component, v1, v2, v3, v4, v5, v6, v7, v8, v9, v10, v11, v12
varsFrom3 == <<v3, v4, v5, v6, v7, v8, v9, v10, v11, v12>>
varsFrom6 == <<v6, v7, v8, v9, v10, v11, v12>>
varsFrom8 == <<v8, v9, v10, v11, v12>>
varsFrom9 == <<v9, v10, v11, v12>>
varsFrom10 == <<v10, v11, v12>>
componentVars == <<v1, v2, varsFrom3>>

CONSTANTS ReleasedCommits, AdmittedCommit, ControlRuns, ControlWindows
Control == INSTANCE Deployment WITH
  Commits <- ReleasedCommits, Candidate <- AdmittedCommit, MaxRuns <- ControlRuns, MaxWindows <- ControlWindows,
  service <- v1, jobs <- v2, run <- v3, runs <- v4, window <- v5, windows <- v6,
  results <- v7, posted <- v8, stopped <- v9

CONSTANTS RunEntries, JobEntries, GuardLookback, Reminder, Retention, GuardEnd
Guard == INSTANCE RuntimeGuard WITH
  Lookback <- GuardLookback, MaxTime <- GuardEnd,
  now <- v1, ran <- v2, log <- v3, revision <- v4, mode <- v5, store <- v6,
  last <- v7, tried <- v8

CONSTANTS HealthSlots, HealthAttempts, HealthGrace, HealthCycles, HealthEnd
Cycles == INSTANCE CycleHealth WITH
  Slots <- HealthSlots, Attempts <- HealthAttempts, Grace <- HealthGrace, MaxCycles <- HealthCycles,
  MaxTime <- HealthEnd,
  now <- v1, reports <- v2, pub <- v3, post <- v4, source <- v5

CONSTANTS CycleAttempts, IncidentEnd
Incidents == INSTANCE CycleIncidents WITH
  Attempts <- CycleAttempts, MaxTime <- IncidentEnd,
  reports <- v1, item <- v2

DueTimes == [t \in {"a", "b"} |-> IF t = "a" THEN {1, 3} ELSE {1}]
CONSTANTS BeatTargets, TargetSlots, Executions, BeatLookback, Day, BeatGrace, BeatEnd
Beat == INSTANCE Heartbeat WITH
  Targets <- BeatTargets, Slots <- TargetSlots, Lookback <- BeatLookback, Grace <- BeatGrace, MaxTime <- BeatEnd,
  now <- v1, reports <- v2, incident <- v3, passed <- v4, cleared <- v5

CONSTANTS Publishers, Scheduled, DailyRuns, Activity, DayLength, DueAt, DailyGrace, DailyLookback, DailyEnd
Daily == INSTANCE DailyProjection WITH
  Runs <- DailyRuns, Grace <- DailyGrace, Lookback <- DailyLookback, MaxTime <- DailyEnd,
  now <- v1, reports <- v2, pub <- v3, objects <- v4, handoff <- v5, qrs <- v6,
  acked <- v7

CONSTANTS AccountOrders, AccountDay, HistoryDays, AccountEnd
Account == INSTANCE BrokerReconciliation WITH
  Orders <- AccountOrders, DayLength <- AccountDay, Lookback <- HistoryDays, MaxTime <- AccountEnd,
  now <- v1, account <- v2, trades <- v3, ledger <- v4, reader <- v5

(* Collectors overlap.                                                     *)
CONSTANTS Collectors, PaperDay, PaperDue, OrdinarySlots, RecoveryWait, UtcAhead, OrderHorizon, PaperEnd
Paper == INSTANCE PaperObservation WITH
  Watched <- {}, DayLength <- PaperDay, DueAt <- PaperDue, Attempts <- OrdinarySlots,
  Wait <- RecoveryWait, Horizon <- OrderHorizon, MaxTime <- PaperEnd,
  clock <- v1, snapshots <- v2, markers <- v3, t0 <- v4, claims <- v5,
  stops <- v6, lost <- v7, collector <- v8, gets <- v9, crossed <- v10,
  alerts <- v11, sending <- v12

(* Collectors, one for TLC, and the watchdog.                              *)
CONSTANTS WatchedRuns, WatchedDays, WatchEnd
Watch == INSTANCE PaperObservation WITH
  Collectors <- WatchedRuns, Watched <- WatchedDays, DayLength <- PaperDay, DueAt <- PaperDue,
  Attempts <- OrdinarySlots, Wait <- RecoveryWait, Horizon <- OrderHorizon, MaxTime <- WatchEnd,
  clock <- v1, snapshots <- v2, markers <- v3, t0 <- v4, claims <- v5,
  stops <- v6, lost <- v7, collector <- v8, gets <- v9, crossed <- v10,
  alerts <- v11, sending <- v12

CONSTANTS Apps, MaxRevisions
Candidate == INSTANCE PaperCandidate WITH
  record <- v1, revisions <- v2, serving <- v3, jobs <- v4, receipts <- v5,
  run <- v6, unsettled <- v7, unheld <- v8

CONSTANTS Consumers, LastSession, MaxCommands
Paperwork == INSTANCE PaperCommands WITH
  today <- v1, transitions <- v2, commands <- v3, cycle <- v4, consumer <- v5

CONSTANT MaxPolls
Order == INSTANCE OrderStatus WITH
  order <- v1, monitor <- v2

(* A forced and an ordinary run of the workflow, and two bootstraps.       *)
CONSTANTS RefreshRuns, Forced, Bootstraps, MaxTokens
Secret == INSTANCE TokenRefresh WITH
  Jobs <- RefreshRuns,
  issued <- v1, stored <- v2, life <- v3, portal <- v4, run <- v5, lost <- v6,
  caught <- v7

(* The bounds and the durations are instants of the components' clocks.    *)
ASSUME OperationsAssumption ==
  /\ MaxPolls \in Nat /\ MaxTokens \in Nat \ {0} /\ LastSession \in Nat \ {0} /\ MaxRevisions \in Nat \ {0}
  /\ IncidentEnd \in Nat /\ Candidate!NoApp \notin Apps
  /\ BeatEnd \in Nat /\ BeatLookback \in Nat /\ BeatGrace \in Nat /\ Day \in Nat
  /\ TargetSlots \in [BeatTargets -> SUBSET (0 .. BeatEnd)]
  /\ GuardEnd \in Nat /\ GuardLookback \in Nat /\ Reminder \in Nat /\ Retention \in Nat

(* The guard keeps what it alerted for 48 hours (EVENT_RETENTION_HOURS)    *)
(* and looks back three, unless a dispatch says otherwise                  *)
(* (RUNTIME_GUARD_LOOKBACK_MINUTES).                                       *)
ASSUME LookbackIsRetained == GuardLookback <= Retention

ASSUME HealthAssumption ==
  /\ HealthSlots \subseteq Nat /\ HealthGrace \in Nat /\ HealthEnd \in Nat /\ HealthCycles \in Nat \ {0}
  /\ Cycles!Missing \notin HealthAttempts

(* A run of the daily target reports an anomaly, an order or a quiet day.  *)
ASSUME DailyAssumption ==
  /\ DayLength \in Nat \ {0} /\ DueAt \in Nat /\ DailyGrace \in Nat /\ DailyLookback \in Nat /\ DailyEnd \in Nat
  /\ Activity \subseteq Daily!Anomalies \cup Daily!Order \cup Daily!Quiet

(* An account has finitely many orders.                                    *)
ASSUME AccountAssumption == Account!IsFiniteSet(AccountOrders) /\ AccountEnd \in Nat

(* Image-only staging admits one of the commits.                           *)
ASSUME ControlAssumption == AdmittedCommit \in ReleasedCommits /\ ControlRuns \in Nat /\ ControlWindows \in Nat

(* The observation is due on the day it is of, half an hour after the      *)
(* close.                                                                  *)
ASSUME PaperAssumption ==
  /\ PaperDay \in Nat /\ PaperDue \in Nat /\ PaperDue < PaperDay
  /\ OrdinarySlots \in Nat /\ RecoveryWait \in Nat /\ UtcAhead \in Nat /\ OrderHorizon \in Nat
  /\ PaperEnd \in Nat /\ WatchEnd \in Nat /\ WatchedDays \subseteq Watch!Days

-----------------------------------------------------------------------------
Is(name) == component = name
(* The variables that a component with n of them does not use are 0.       *)
Unused(n) ==
  /\ IF n >= 2 THEN TRUE ELSE v1 = 0 /\ v2 = 0
  /\ IF n >= 5 THEN TRUE ELSE v3 = 0 /\ v4 = 0 /\ v5 = 0
  /\ IF n >= 7 THEN TRUE ELSE v6 = 0 /\ v7 = 0
  /\ IF n >= 8 THEN TRUE ELSE v8 = 0
  /\ IF n >= 9 THEN TRUE ELSE v9 = 0
  /\ IF n >= 12 THEN TRUE ELSE v10 = 0 /\ v11 = 0 /\ v12 = 0

OperationsInit ==
  /\ component \in {"alerts", "control", "guard", "cycles", "incidents", "beat", "daily",
                    "account", "paper", "watch", "candidate", "commands", "order", "secret"}
  /\ Init /\ reason = [w \in Run |-> issue]
  /\ Is("alerts") \/ marker = [r \in Reason |-> NoMarker]
  /\ \/ Is("alerts") /\ Unused(0)
     \/ Is("control") /\ Control!Init /\ Unused(9)
     \/ Is("guard") /\ Guard!Init /\ Unused(8)
     \/ Is("cycles") /\ Cycles!Init /\ Unused(5)
     \/ Is("incidents") /\ Incidents!Init /\ Unused(2)
     \/ Is("beat") /\ Beat!Init /\ Unused(5)
     \/ Is("daily") /\ Daily!Init /\ Unused(7)
     \/ Is("account") /\ Account!Init /\ Unused(5)
     \/ Is("paper") /\ Paper!Init
     \/ Is("watch") /\ Watch!Init
     \/ Is("candidate") /\ Candidate!Init /\ Unused(8)
     \/ Is("commands") /\ Paperwork!Init /\ Unused(5)
     \/ Is("order") /\ Order!Init /\ Unused(2)
     \/ Is("secret") /\ Secret!Init /\ Unused(7)

operations == <<component, vars, componentVars>>
OperationsNext ==
  /\ UNCHANGED component
  /\ \/ Is("alerts") /\ Next /\ UNCHANGED componentVars
     \/ Is("control") /\ Control!Next /\ UNCHANGED <<vars, varsFrom10>>
     \/ Is("guard") /\ Guard!Next /\ UNCHANGED <<vars, varsFrom9>>
     \/ Is("cycles") /\ Cycles!Next /\ UNCHANGED <<vars, varsFrom6>>
     \/ Is("incidents") /\ Incidents!Next /\ UNCHANGED <<vars, varsFrom3>>
     \/ Is("beat") /\ Beat!Next /\ UNCHANGED <<vars, varsFrom6>>
     \/ Is("daily") /\ Daily!Next /\ UNCHANGED <<vars, varsFrom8>>
     \/ Is("account") /\ Account!Next /\ UNCHANGED <<vars, varsFrom6>>
     \/ Is("paper") /\ Paper!Next /\ UNCHANGED vars
     \/ Is("watch") /\ Watch!Next /\ UNCHANGED vars
     \/ Is("candidate") /\ Candidate!Next /\ UNCHANGED <<vars, varsFrom9>>
     \/ Is("commands") /\ Paperwork!Next /\ UNCHANGED <<vars, varsFrom6>>
     \/ Is("order") /\ Order!Next /\ UNCHANGED <<vars, varsFrom3>>
     \/ Is("secret") /\ Secret!Next /\ UNCHANGED <<vars, varsFrom8>>
OperationsSpec == OperationsInit /\ [][OperationsNext]_operations

-----------------------------------------------------------------------------
(* Every component keeps its type.                                         *)
ComponentsTyped ==
  /\ TypeOK
  /\ Is("control") => Control!TypeOK
  /\ Is("guard") => Guard!TypeOK
  /\ Is("cycles") => Cycles!TypeOK
  /\ Is("incidents") => Incidents!TypeOK
  /\ Is("beat") => Beat!TypeOK
  /\ Is("daily") => Daily!TypeOK
  /\ Is("account") => Account!TypeOK
  /\ Is("paper") => Paper!TypeOK
  /\ Is("watch") => Watch!TypeOK
  /\ Is("candidate") => Candidate!TypeOK
  /\ Is("commands") => Paperwork!TypeOK
  /\ Is("order") => Order!TypeOK
  /\ Is("secret") => Secret!TypeOK

(* Deployment: what a run says at its end is so, whatever failed before    *)
(* it.  A sync that deployed, wrote the environment and shifted the        *)
(* traffic serves what it shipped; pruning has kept what serves and what   *)
(* was last Ready; a published stop was a stop (reconcile_cloud_runtime,   *)
(* cloud_run_tags, publish_hk_stop_result).                                *)
DeploymentsEndRight ==
  Is("control") => Control!ServesWhatItShipped /\ Control!ServingIsKept /\ Control!PostedWasStopped

(* Deployment: no step goes beyond its own.  Only a shift, the snapshot    *)
(* staging and the stop move the traffic; a preserve sync leaves the jobs  *)
(* it did not create; image-only staging leaves the target's enablement    *)
(* (--no-traffic, preserve, stage_hk_image).                               *)
DeploymentsStayInBounds ==
  [][Is("control") => Control!ServingMovesByShift /\ Control!PreserveLeavesJobs /\ Control!StagingKeepsTarget]_componentVars

(* Guard: "healthy" is said only when no failure was there to be read,     *)
(* what decide() suppresses was alerted within the reminder, and an alert  *)
(* repeats only for a reason (cloud_run_runtime_guard.main,                *)
(* runtime_guard_alert_dedupe.decide).                                     *)
GuardSaysItOnce ==
  /\ [](Is("guard") => Guard!HealthyMeansQuiet /\ Guard!SuppressedWasAlerted)
  /\ [][Is("guard") => Guard!RepeatHasReason]_componentVars

(* Cycle health: the cursor passes no slot that is not archived, no report *)
(* within its grace is lost, and a slot called missing had none (publish,  *)
(* build_cycle_health).                                                    *)
CyclesAreComplete ==
  Is("cycles") => Cycles!NoSlotSkipped /\ Cycles!TimelyReportKept /\ Cycles!MissingIsTrue

(* Cycle incidents: a proof covers what was retained when it was accepted, *)
(* reaches past what it resolves and, a retry, settles no uncertain order; *)
(* what is resolved stays so (reduce_incidents).                           *)
ProofsResolveTheirOwn ==
  /\ [](Is("incidents") => Incidents!CoversWhatItSaw /\ Incidents!ProofReachesFault /\ Incidents!RetrySettlesNoOrders)
  /\ [][Is("incidents") => Incidents!NothingForgotten]_componentVars

(* Heartbeat: a slot passes on a report of that target since it was due,   *)
(* and the incident is cleared by executions that all finished after it    *)
(* was raised (execution_report_heartbeat.main, heartbeat_observation).    *)
HeartbeatIsTrue == Is("beat") => Beat!PassedWasReported /\ Beat!ClearedByAll

(* Daily projection: an unresolved order stays in the record of the day,   *)
(* missing_report is said only of a day read to its end, and what was      *)
(* acknowledged or handed off is stored and created once (_project_target, *)
(* _judge, _sync_runtime_daily).                                           *)
DailyRecordIsTrue ==
  /\ [](Is("daily") => /\ Daily!UnresolvedStaysVisible /\ Daily!MissingIsTrue
                       /\ Daily!AckedIsStored /\ Daily!HandoffIsRecorded)
  /\ [][Is("daily") => Daily!CreatedStays]_componentVars

(* Account reconciliation: a proven history holds each trade once, and no  *)
(* candidate permits anything (collect_read_only_broker_reconciliation).   *)
HistoryIsProven == Is("account") => Account!EachTradeOnce /\ Account!NeverPermits

(* Paper observation: a snapshot is of its own day, from one read of the   *)
(* account, and the marker, t0.json and a day given up agree with it; what *)
(* the watchdog told is so (Collector.run, Collector.complete,             *)
(* Watchdog.notify).                                                       *)
ObservationsAreTrue ==
  /\ Is("paper") => /\ Paper!ObservedOnItsDay /\ Paper!MarkerTellsSnapshot
                    /\ Paper!T0IsFirst /\ Paper!LostIsFinal /\ Paper!OneGetPerClaim
  /\ Is("watch") => Watch!AlertsAreTrue

(* Paper application: "applied" was said of what a start had loaded, a     *)
(* claim ends in a result or in a run that could not tell, one that no run *)
(* holds deploys nothing, and a sync leaves a bound service                *)
(* (apply-paper-candidate.yml, sync-cloud-run-env).                        *)
ApplicationIsTrue ==
  /\ [](Is("candidate") => /\ Candidate!AppliedWasLoaded /\ Candidate!ClaimIsSettled
                           /\ Candidate!UnheldDeploysNothing)
  /\ [][Is("candidate") => Candidate!BoundIsNotSyncedAway]_componentVars

(* Paper commands: the risk transition precedes the command, a fill was    *)
(* reconciled against the account, and a command starts once (run_strategy,*)
(* _reconcile_command, consume_due_paper_execution_commands).              *)
PaperFillsAreReconciled ==
  /\ [](Is("commands") => Paperwork!TransitionFirst /\ Paperwork!FilledIsReconciled)
  /\ [][Is("commands") => Paperwork!StartedOnce]_componentVars

(* Order monitor: every submitted order ends in a message or an issue, and *)
(* a final status that was seen is told last                               *)
(* (monitor_submitted_order_status).                                       *)
OrderIsTold == Is("order") => Order!EndsWithMessage /\ Order!FinalSeenIsTold

(* Access token: the latest version is the valid token, unless that is on  *)
(* its way or was lost with its run, or the version is of a run that was   *)
(* about to write as the operator reset (run_refresh, build_contexts).     *)
LatestWorks == Is("secret") => Secret!LatestWorks
=============================================================================
