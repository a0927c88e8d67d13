SPECIFICATION Spec
CONSTANTS
  Requests = {o1, o2}
  Owners = {o1, o2}
  o1 = o1
  o2 = o2
  Duration = 2
  MaxTime = 1
  MaxFaults = 0
SYMMETRY Symmetry
CHECK_DEADLOCK FALSE
INVARIANTS
  AtMostOneActive
