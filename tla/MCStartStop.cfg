CONSTANTS
  s1 = s1  s2 = s2  o1 = o1  o2 = o2
  Starters = {s1, s2}
  Operators = {o1}
  MaxStarts = 2
  Backends = {"LDK", "other"}
  MaySignal = FALSE
SPECIFICATION Spec
SYMMETRY Symmetry
INVARIANTS StopInv OneNode HeldNode StopsOnlyWhenCancelled
CHECK_DEADLOCK FALSE
