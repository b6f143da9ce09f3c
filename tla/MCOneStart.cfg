CONSTANTS
  s1 = s1  s2 = s2  o1 = o1  o2 = o2
  Starters = {s1}
  Operators = {o1, o2}
  MaxStarts = 1
  Backends = {"LDK"}
  MaySignal = TRUE
SPECIFICATION FairSpec
INVARIANTS ExitAtRest
PROPERTIES StopAppReturns SignalExits
CHECK_DEADLOCK FALSE
