\* Two attempts, two failovers at once, one request at a time.
CONSTANTS
  Conns = {c1, c2}
  Failovers = {f1, f2}
  Requests = {r1}
  None = None
  MaxFuel = 3
SPECIFICATION Spec
SYMMETRY Symmetry
INVARIANTS
  TypeOK
  NeverStuck
  ConnectedIsWatched
PROPERTIES
  SupersededIsSilent
CHECK_DEADLOCK FALSE
