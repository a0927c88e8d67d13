SPECIFICATION Spec
CONSTANTS
  Filters <- PriceFilters
  Readers = {r1, r2}
  Writers = {w1}
  r1 = r1
  r2 = r2
  w1 = w1
  MaxWrites = 1
  MaxBoosts = 0
  MaxFaults = 0
  RoundsUp = {}
SYMMETRY Symmetry
INVARIANTS
  NoMixUp
