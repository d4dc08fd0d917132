\* A connection that breaks while it is being registered.
CONSTANTS
  Clients = {c1}
  Senders = {s1}
  SendCap = 1
  BroadcastCap = 1
  ControlCap = 1
  Attempts = 3
  MaxPanics = 0
  MaxMessages = 2
  MayStop = FALSE
SPECIFICATION Spec
INVARIANTS
  NoneLeftBehind
CHECK_DEADLOCK FALSE
