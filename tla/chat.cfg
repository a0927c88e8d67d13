SPECIFICATION Spec
CONSTANTS
  Owner = Owner
  Nobody = Nobody
  Buyers = {b1, b2}
  Requests = {r1, r2}
  b1 = b1
  b2 = b2
  r1 = r1
  r2 = r2
  PageSize = 1
  MaxMessages = 3
  MaxTime = 1
  MaxFaults = 1
SYMMETRY Symmetry
CHECK_DEADLOCK FALSE
INVARIANTS
  TypeOK
  ReplyOnlyToWriters
  OldMessagesSeen
PROPERTIES
  RefinesConversation
