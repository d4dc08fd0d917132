\* An uninstall while connected.
CONSTANTS
  Conns = {c1}
  Failovers = {f1}
  Requests = {r1}
  None = None
  MaxFuel = 3
SPECIFICATION Spec
SYMMETRY Symmetry
PROPERTIES
  UninstallStops
CHECK_DEADLOCK FALSE
