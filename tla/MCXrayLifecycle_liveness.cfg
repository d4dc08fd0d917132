\* Fairness, no symmetry.
CONSTANTS
  Panel = {h1}
  Ticks = {t1}
  Boot = Boot
  Cron = Cron
  Traffic = Traffic
  Recovery = Recovery
  Procs = {q1, q2, q3}
  NoProc = NoProc
  Nobody = Nobody
  Clients = {a}
  Sections = {s}
  Managed = {s}
  Ignored = {}
  EditKinds = {"inbound"}
  SlowSpawn = FALSE
  MaxFuel = 1
SPECIFICATION FairSpec
PROPERTIES
  Recovers
  RestartsQuiesce
CHECK_DEADLOCK FALSE
