SPECIFICATION Spec
CONSTANTS
  N = 3
  DependsOn <- ThreeSubtasks
  Parallelizable <- TwoParallel
  MaxParallel = 2
  Plans <- FreshOrStarted
  Scopes <- WholeOrPart
  Runtimes = {1, 2}
  Callers = {1, 2}
  MaxControls = 3
  MaxCrashes = 0
  MaxDispatches = 6
INVARIANT WithinPolicy
