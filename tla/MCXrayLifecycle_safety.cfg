\* Two handlers, every job, edits through the API and of the template; three
\* children.
CONSTANTS
  Panel = {h1, h2}
  Ticks = {t1}
  Boot = Boot
  Cron = Cron
  Traffic = Traffic
  Recovery = Recovery
  Procs = {q1, q2, q3}
  NoProc = NoProc
  Nobody = Nobody
  Clients = {a}
  Sections = {s}
  Managed = {s}
  Ignored = {}
  EditKinds = {"inbound", "client", "template"}
  SlowSpawn = FALSE
  MaxFuel = 2
SPECIFICATION Spec
SYMMETRY Symmetry
INVARIANTS
  TypeOK
  
  NoOrphan
  
CHECK_DEADLOCK FALSE
