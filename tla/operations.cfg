SPECIFICATION OperationsSpec
CONSTANTS
    early = early  late = late  issue = issue  failure = failure
    Run = {early, late}
    StampOf <- InOrder
    Reason = {issue, failure}
    Grouped = {issue}
    Severity = {1, 2}
    Tries = 2
    SkipOwn = {FALSE, TRUE}
    MaxAlerts = 1
    NoRun = NoRun
    ReleasedCommits = {"old", "new"}  AdmittedCommit = "new"  ControlRuns = 2  ControlWindows = 1
    RunEntries = {"run failure"}  JobEntries = {"job failure"}
    GuardLookback = 1  Reminder = 2  Retention = 1  GuardEnd = 2
    HealthSlots = {1, 2, 4}  HealthAttempts = {"r1", "r2"}  HealthGrace = 2  HealthCycles = 2  HealthEnd = 6
    CycleAttempts = {"r1", "r2", "r3"}  IncidentEnd = 2
    BeatTargets = {"a", "b"}  TargetSlots <- DueTimes  Executions = {"e1", "e2"}
    BeatLookback = 4  Day = 3  BeatGrace = 1  BeatEnd = 5
    Publishers = {"natural", "manual"}  Scheduled = {"natural"}
    DailyRuns = {"r1"}  Activity = {"unknown", "no_signal"}
    DayLength = 2  DueAt = 0  DailyGrace = 1  DailyLookback = 4  DailyEnd = 2
    AccountOrders = {"o1"}  AccountDay = 2  HistoryDays = 1  AccountEnd = 3
    Collectors = {"c1", "c2"}  PaperDay = 3  PaperDue = 0  OrdinarySlots = 1  RecoveryWait = 2
    UtcAhead = 1  OrderHorizon = 1  PaperEnd = 3
    WatchedRuns = {"c1"}  WatchedDays = {0}  WatchEnd = 5
    Apps = {"a1", "a2"}  MaxRevisions = 4
    Consumers = {"w1"}  LastSession = 2  MaxCommands = 1
    MaxPolls = 3
    RefreshRuns = {"forced", "due"}  Forced = {"forced"}  Bootstraps = {"c1", "c2"}  MaxTokens = 4
INVARIANTS ComponentsTyped SentOnce MarkersAreTrue DeploymentsEndRight CyclesAreComplete HeartbeatIsTrue
INVARIANTS HistoryIsProven ObservationsAreTrue OrderIsTold LatestWorks
PROPERTIES DeploymentsStayInBounds GuardSaysItOnce ProofsResolveTheirOwn DailyRecordIsTrue ApplicationIsTrue PaperFillsAreReconciled
CHECK_DEADLOCK FALSE
