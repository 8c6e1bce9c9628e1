CONSTANTS
  MaxClients = 1
  Uids = {u}
  MaxClientsPerUid = 1
  FrameCount = 1
  SignalCount = 1
  FramesPerMessage = 1
  SignalsPerMessage = 1
  QueueSlots = 2
  HelloBeats = 1
  SetupBeats = 3
  Readings = {a, b}
  Stamps = {0}
  None = None
  MaxChanges = 3
  Client = "orderly"
  SocketSlots = 1
  ReadBeats = 2
  BudgetBeats = 3
  SchemaChunks = 1
  PollBeats = 2
  CtlChunks = 1
SPECIFICATION StreamSpec
INVARIANTS StreamUnderstood CacheFresh CacheConsistent NoFalseAlarm NoGapsReported
PROPERTIES RequestsOrderly CacheAdvances
CHECK_DEADLOCK FALSE
SYMMETRY Symmetry
