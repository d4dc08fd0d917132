\* Two clients, any plan each.
CONSTANTS
  Emails = {c1, c2}
  Plans <- BothPlans
  Totals = {0, 1}
  MaxClock = 3
  MaxFuel = 1
  MaxFaults = 1
  MaxRequests = 1
SPECIFICATION Spec
SYMMETRY Symmetry
INVARIANTS
  TypeOK
PROPERTIES
  
  
  
  LimitsAreEnforced
  KeepsPeriods
  TrafficIsKept
CHECK_DEADLOCK FALSE
