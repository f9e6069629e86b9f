SPECIFICATION Spec
CONSTANTS
  None = None
  A = A  B = B
  a1 = a1  a2 = a2  b1 = b1  b2 = b2
  pause = pause  resume = resume  cancel = cancel
  Main = Main
  Names = {A, B}
  NameOf <- NameOfClient
  ActionOf <- ActionOfController
  Steps <- WorkBetweenWaits
  Clients = {a1, a2, b1, b2}
  KeyOf <- RetryKey
  Controllers = {}
  MaxCrashes = 1
  MaxDrops = 1
INVARIANTS
  TypeOK
  ResumedOncePerKey
PROPERTIES
  ResumedByAwaitedSignal
  SavedStepsKept
