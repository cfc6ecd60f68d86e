SPECIFICATION FairSpec
CONSTANTS
  Clients = {c1, c2}
  Slots = 3
  MaxResend = 1
  Lossy = FALSE
  Letters = 2
  None = None
CHECK_DEADLOCK FALSE
PROPERTIES
  NeverHangs
