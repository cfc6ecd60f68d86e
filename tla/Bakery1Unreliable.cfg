SPECIFICATION Spec
CONSTANTS
  Clients = {c1, c2}
  Slots = 3
  MaxResend = 1
  Lossy = TRUE
  Letters = 2
  Threads = {t1, t2}
  NoThread = NoThread
  None = None
SYMMETRY Symmetry
CHECK_DEADLOCK FALSE
INVARIANTS
  BakeryInv
  LettersInTicketOrder
  ClientGetsItsLetter
  HangNeedsUnclaimedTicket
