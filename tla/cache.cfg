SPECIFICATION LiveSpec
CONSTANTS
  Filters <- FeedAndSearch
  Readers = {r1, r2}
  Writers = {w1}
  r1 = r1
  r2 = r2
  w1 = w1
  MaxWrites = 1
  MaxBoosts = 1
  MaxFaults = 1
  RoundsUp = {}
INVARIANTS
  TypeOK
  Freshness
  NoMixUp
PROPERTIES
  StaleEnds
