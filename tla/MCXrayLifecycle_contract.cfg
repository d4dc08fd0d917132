\* Longer histories of restarts, stops, faults and template edits. Start may return
\* before Xray is forked: restarts overlap the fork, children are left to the finalizer.
CONSTANTS
  Panel = {h1}
  Ticks = {t1, t2}
  Boot = Boot
  Cron = Cron
  Traffic = Traffic
  Recovery = Recovery
  Procs = {q1, q2, q3}
  NoProc = NoProc
  Nobody = Nobody
  Clients = {}
  Sections = {s}
  Managed = {}
  Ignored = {}
  EditKinds = {"template"}
  SlowSpawn = TRUE
  MaxFuel = 2
SPECIFICATION Spec
SYMMETRY Symmetry

  
PROPERTIES
  DownTwiceInARow
  NeverOlder
  
CHECK_DEADLOCK FALSE
