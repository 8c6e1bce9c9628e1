SPECIFICATION Spec
CONSTANTS
  RADIX = 128
  ROADCAST_MAGIC = 173089236
  ROADCAST_MAX_PAYLOAD = 65536
  OUT_CAPACITY = 100
  BATCH_CAPACITY = 2
  HEADER_SIZE = 2
  CLIENT_INPUT_CAP = 5
  MaxCommands = 3
  CHUNK_CAPACITY = 2016
  SCHEMA_CHUNK_ENTRY_CAP = 64
  ADDRESS_BITS = 5
  PAGE_SIZE = 4
  Received = {"MMI_Rx_1", "MMI_Rx_2"}
INVARIANTS DecodersInvertEncoders FramingExact DecodeMatchesLayout SchemaDiscovered ReadsInsideFile SymbolsAtTheirAddresses
CHECK_DEADLOCK FALSE
