SPECIFICATION Spec
CONSTANTS
  Events = {e1, e2, e3}
  Relays = {r1, r2}
  e1 = e1
  e2 = e2
  e3 = e3
  r1 = r1
  r2 = r2
  BatchSize = 2
  MaxFaults = 1
SYMMETRY Symmetry
PROPERTIES
  NoOvertake
