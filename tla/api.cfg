SPECIFICATION LiveSpec
CONSTANTS
  Addresses = {a1}
  a1 = a1
  Limit = 1
  Window = 2
  MaxTime = 3
  MaxOutages = 1
  Requests = {r1, r2, r3}
  r1 = r1
  r2 = r2
  r3 = r3
  Nobody = Nobody
  PoolSize = 1
  MaxFaults = 1
INVARIANTS
  TypeOK
  RefusalEarned
  AtMostTwiceLimit
  AccountIsTheirs
PROPERTIES
  GracefulStop
  StopsEventually
  EveryoneServed
