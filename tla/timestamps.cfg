SPECIFICATION Spec
CONSTANTS
  MaxClients = 1
  Uids = {u1}
  MaxClientsPerUid = 1
  FrameCount = 1
  SignalCount = 1
  FramesPerMessage = 1
  SignalsPerMessage = 1
  QueueSlots = 2
  HelloBeats = 1
  SetupBeats = 2
  Readings = {a, b}
  Stamps = {0, 1}
  None = None
  MaxChanges = 2
  Client = "orderly"
SYMMETRY Symmetry
INVARIANTS CompleteState
