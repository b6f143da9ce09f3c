CONSTANTS
  s1 = s1  s2 = s2  o1 = o1  o2 = o2
  Starters = {o1}
  Operators = {o1}
  MaxStarts = 3
  Backends = {"LDK"}
  MaySignal = FALSE
SPECIFICATION Spec
SYMMETRY Symmetry
INVARIANTS BackupAtRest
CHECK_DEADLOCK FALSE
