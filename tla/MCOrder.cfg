\* Two orders and two channels: the second order can meet what the first one left
\* behind.  The system may stop: all orders are made and done.
SPECIFICATION FairSpec
CONSTANTS
  Tx = {"t1", "t2"}
  Orders = 2
  Timers = 2
INVARIANTS
  TypeOK
  OneOpenPerVisit
  OwnChannel
  SuccessIsTrue
PROPERTIES
  OpeningSucceeds
  PurchaseIsSeen
  FundsAreUsed
CHECK_DEADLOCK FALSE
