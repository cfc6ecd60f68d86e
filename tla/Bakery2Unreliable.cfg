SPECIFICATION Spec
CONSTANTS
  Clients = {c1, c2, c3}
  Slots = 3
  MaxResend = 1
  Lossy = TRUE
  Letters = 2
  None = None
SYMMETRY Symmetry
CHECK_DEADLOCK FALSE
INVARIANTS
  OvertakenOnlyIfAbsent
  ClientGetsItsLetter
