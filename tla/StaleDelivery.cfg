SPECIFICATION Spec
CONSTANTS
  None = None
  A = A  B = B
  a1 = a1  a2 = a2  b1 = b1  b2 = b2
  pause = pause  resume = resume  cancel = cancel
  Main = Main
  Names = {A, B}
  NameOf <- NameOfClient
  ActionOf <- ActionOfController
  Steps <- TwoWaits
  Clients = {a1, a2}
  KeyOf <- OwnKey
  Controllers = {}
  MaxCrashes = 0
  MaxDrops = 0
INVARIANTS
  NoDoubleConsume
