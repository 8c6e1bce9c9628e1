CONSTANTS
  FrameCount = 1
  SignalCount = 1
  FramesPerMessage = 1
  SignalsPerMessage = 1
  Readings = {a}
  Stamps = {0}
  None = None
  SocketSlots = 2
  ReadBeats = 1
  BudgetBeats = 2
  SchemaChunks = 1
  MaxSequence = 0
SPECIFICATION PromptSpec
PROPERTY SetupBudget
CHECK_DEADLOCK FALSE
