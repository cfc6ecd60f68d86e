SPECIFICATION Spec
CONSTANTS
  Clients = {c1, c2, c3}
  Slots = 3
  MaxResend = 0
  Lossy = FALSE
  Letters = 2
  Threads = {t1, t2, t3}
  NoThread = NoThread
  None = None
SYMMETRY Symmetry
CHECK_DEADLOCK FALSE
INVARIANTS
  Mutex
PROPERTY
  KeepsPromise
