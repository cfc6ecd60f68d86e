SPECIFICATION FairSpec
CONSTANTS
  Clients = {c1, c2}
  Slots = 2
  MaxResend = 0
  Lossy = FALSE
  Letters = 2
  Threads = {t1, t2}
  NoThread = NoThread
  None = None
CHECK_DEADLOCK FALSE
PROPERTIES
  JoinReturnsIfAllWait
  ClientsFinish
