\* Two connections that fill every channel; the loop may panic and the server stop.
CONSTANTS
  Clients = {c1, c2}
  Senders = {s1}
  SendCap = 2
  BroadcastCap = 2
  ControlCap = 1
  Attempts = 2
  MaxPanics = 2
  MaxMessages = 4
  MayStop = TRUE
SPECIFICATION Spec
SYMMETRY Symmetry
INVARIANTS
  TypeOK
  RegisteredIsOpen
  Unbroken
CHECK_DEADLOCK FALSE
