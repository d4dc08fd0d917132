\* One crash fewer of the loop than it has attempts; the connections may break.
CONSTANTS
  Clients = {c1, c2}
  Senders = {s1}
  SendCap = 1
  BroadcastCap = 1
  ControlCap = 1
  Attempts = 2
  MaxPanics = 1
  MaxMessages = 2
  MayStop = FALSE
SPECIFICATION FairSpec
PROPERTIES
  ClosedIsDisconnected
  Drains
CHECK_DEADLOCK FALSE
