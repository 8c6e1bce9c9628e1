SPECIFICATION Spec
CONSTANTS
  MaxClients = 3
  Uids = {u1, u2}
  MaxClientsPerUid = 2
  FrameCount = 1
  SignalCount = 1
  FramesPerMessage = 1
  SignalsPerMessage = 1
  QueueSlots = 1
  HelloBeats = 1
  SetupBeats = 1
  Readings = {a}
  Stamps = {0}
  None = None
  MaxChanges = 0
  Client = "orderly"
INVARIANTS PerUidLimit
