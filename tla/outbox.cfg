SPECIFICATION LiveSpec
CONSTANTS
  Events = {e1, e2}
  Relays = {r1, r2}
  e1 = e1
  e2 = e2
  r1 = r1
  r2 = r2
  BatchSize = 2
  MaxFaults = 2
INVARIANTS
  TypeOK
  NoPhantom
  NoLoss
  DuplicatesBounded
PROPERTIES
  RefinesDelivery
  EventuallyPublished
