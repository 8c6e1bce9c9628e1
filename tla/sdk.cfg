CONSTANTS
  FrameCount = 2
  SignalCount = 1
  FramesPerMessage = 2
  SignalsPerMessage = 1
  Readings = {a}
  Stamps = {0}
  None = None
  SocketSlots = 1
  ReadBeats = 2
  BudgetBeats = 3
  SchemaChunks = 2
  MaxSequence = 1
SPECIFICATION AnySpec
INVARIANTS HandleOutlivesReader
PROPERTIES CloseReturns ConnectReturns LossNoticed
CHECK_DEADLOCK FALSE
