SPECIFICATION Spec
CONSTANTS
  Events = {e1, e2, e3, e4}
  Relays = {r1}
  e1 = e1
  e2 = e2
  e3 = e3
  e4 = e4
  r1 = r1
  BatchSize = 2
  MaxFaults = 2
SYMMETRY Symmetry
PROPERTIES
  NoOvertake
  DrainsBacklog
