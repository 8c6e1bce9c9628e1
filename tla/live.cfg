SPECIFICATION FairSpec
CONSTANTS
  MaxClients = 1
  Uids = {u1}
  MaxClientsPerUid = 1
  FrameCount = 1
  SignalCount = 1
  FramesPerMessage = 2
  SignalsPerMessage = 1
  QueueSlots <- AllSlots
  HelloBeats = 1
  SetupBeats = 2
  Readings = {a, b}
  Stamps = {0}
  None = None
  MaxChanges = 2
  Client = "orderly"
PROPERTIES DenseUpdateFits StalledReaderEvicted LostContinuityResolved ShutdownCompletes
