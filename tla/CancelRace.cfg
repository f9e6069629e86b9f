SPECIFICATION Spec
CONSTANTS
  None = None
  Main = Main
  answer1 = answer1  answer2 = answer2  cancelQ = cancelQ
  cancelD = cancelD  cancelR = cancelR  pause = pause  sweep = sweep
  ActionOf <- ActionOfClient
  Clients = {cancelQ}
  ErrorMode = "fail"
  MaxRetries = 0
  MaxQuestions = 1
  Expirable = {}
  Timers = {}
  MaxTimeouts = 0
  MaxCrashes = 0
INVARIANTS
  NoStrandedRun
