SPECIFICATION Spec
CONSTANTS
  None = None
  A = A  B = B
  a1 = a1  a2 = a2  b1 = b1  b2 = b2
  pause = pause  resume = resume  cancel = cancel
  Main = Main
  Names = {A, B}
  NameOf <- NameOfClient
  ActionOf <- ActionOfController
  Steps <- WorkThenWait
  Clients = {a1, a2}
  KeyOf <- RetryKey
  Controllers = {pause, resume, cancel}
  MaxCrashes = 1
  MaxDrops = 1
INVARIANTS
  RowConsistent
PROPERTIES
  TerminalIsFinal
  OnlyResumeLeavesPause
  ImplementsLifecycle
