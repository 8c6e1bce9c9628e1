SPECIFICATION Spec
CONSTANTS
  MaxClients = 1
  Uids = {u1}
  MaxClientsPerUid = 1
  FrameCount = 2
  SignalCount = 1
  FramesPerMessage = 1
  SignalsPerMessage = 1
  QueueSlots = 2
  HelloBeats = 1
  SetupBeats = 1
  Readings = {a, b}
  Stamps = {0}
  None = None
  MaxChanges = 2
  Client = "resubscribing"
SYMMETRY Symmetry
INVARIANTS WireTruth WakeupPending Fresh Inv
PROPERTIES SnapshotFrozen
