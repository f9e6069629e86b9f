SPECIFICATION Spec
CONSTANTS
  None = None
  Main = Main
  answer1 = answer1  answer2 = answer2  cancelQ = cancelQ
  cancelD = cancelD  cancelR = cancelR  pause = pause  sweep = sweep
  ActionOf <- ActionOfClient
  Clients = {answer1, cancelQ, cancelD, cancelR}
  ErrorMode = "skip"
  MaxRetries = 0
  MaxQuestions = 2
  Expirable = {}
  Timers = {"step", "run"}
  MaxTimeouts = 1
  MaxCrashes = 1
INVARIANTS
  OneWaitingMode
PROPERTIES
  AnswersTheActiveQuestion
  FollowsLifecycle
