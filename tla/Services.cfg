SPECIFICATION ServicesSpec
CONSTANTS
  N = 3
  DependsOn <- ThreeSubtasks
  Parallelizable <- TwoParallel
  MaxParallel = 2
  Plans <- FreshOrStarted
  Scopes <- WholeOrPart
  Runtimes = {1, 2}
  Callers = {1, 2}
  MaxControls = 2
  MaxCrashes = 1
  MaxDispatches = 5
  Requests = {r1, r2}
  Operators = {o1, o2}
  MaxPending = 1
  MaxRecent = 3
  Jobs = {"j1", "j2"}
  Intervals = {"j1"}
  OneShot = {"j2"}
  Period = 2
  MaxErrors = 3
  MaxJobEdits = 3
  Handlers = {h1, h2}
  Limits = {1, 2}
  Cooldown = 1
  Instants = {1, 2}
  MaxEvents = 2
  MaxEdits = 3
  Absence = Absence
  K = 2
  MaxRetries = 1
  Controllers = {c1}
  MaxQuestions = 2
  MaxTimeouts = 1
  MaxCancels = 1
INVARIANTS
  ServicesTypeOK WithinPolicy DependenciesFirst RepeatedOnlyByCrash 
  CancelStopsSelection WithinScope HistoryAgrees FollowsDefinition  
PROPERTIES
  OutcomeJustified LeavesOnlyWhenPaused RuntimesLeave ClaimedOncePerPeriod KeepsRunning LimitsKept
