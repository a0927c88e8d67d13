SPECIFICATION Spec
CONSTANTS
  Workers = {w1}
  Topics = {t1, t2}
  Nobody = Nobody
  w1 = w1
  t1 = t1
  t2 = t2
  Content <- Messages
  MaxFaults = 1
CHECK_DEADLOCK FALSE
INVARIANTS
  OnlyBrokenSkipped
