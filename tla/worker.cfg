SPECIFICATION LiveSpec
CONSTANTS
  Workers = {w1, w2}
  Topics = {t1, t2}
  Nobody = Nobody
  w1 = w1
  w2 = w2
  t1 = t1
  t2 = t2
  Content <- Messages
  MaxFaults = 2
CHECK_DEADLOCK FALSE
INVARIANTS
  TypeOK
  NoSilentLoss
  OncePerAssignment
PROPERTIES
  RefinesCounting
  EverythingProcessed
  StopsTogether
