SPECIFICATION FairSpec
CONSTANTS
  None = None
  Main = Main
  answer1 = answer1  answer2 = answer2  cancelQ = cancelQ
  cancelD = cancelD  cancelR = cancelR  pause = pause  sweep = sweep
  ActionOf <- ActionOfClient
  Clients = {answer1, answer2, pause, sweep}
  ErrorMode = "retry"
  MaxRetries = 1
  MaxQuestions = 2
  Expirable = {1, 2}
  Timers = {}
  MaxTimeouts = 0
  MaxCrashes = 0
INVARIANTS
  TypeOK
  WaitingIsAnswerable
  AtMostOneTurn
  NoStrandedRun
PROPERTIES
  DispatchIsLegal
  DecisionIsFinal
  ExpiryReleases
  RunSettles
