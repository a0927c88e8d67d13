SPECIFICATION LiveSpec
CONSTANTS
  Requests = {o1, o2, s1}
  Owners = {o1, o2}
  o1 = o1
  o2 = o2
  s1 = s1
  Duration = 2
  MaxTime = 3
  MaxFaults = 1
CHECK_DEADLOCK FALSE
INVARIANTS
  TypeOK
  AllOrNothing
  NoOrphans
  RepeatIsRefused
PROPERTIES
  EveryoneAnswered
