\* An edit and a restart at the same time.
CONSTANTS
  Panel = {h1}
  Ticks = {t1}
  Boot = Boot
  Cron = Cron
  Traffic = Traffic
  Recovery = Recovery
  Procs = {q1, q2, q3}
  NoProc = NoProc
  Nobody = Nobody
  Clients = {a}
  Sections = {s}
  Managed = {}
  Ignored = {}
  EditKinds = {"inbound"}
  SlowSpawn = FALSE
  MaxFuel = 3
SPECIFICATION Spec
SYMMETRY Symmetry
INVARIANTS
  QuiescentInSync
CHECK_DEADLOCK FALSE
