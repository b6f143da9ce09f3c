\* One order, and another channel that opens at the same time.
SPECIFICATION Spec
CONSTANTS
  Tx = {"t1", "t2"}
  Orders = 1
  Timers = 1
INVARIANTS
  AnswerIsOwn
CHECK_DEADLOCK FALSE
