\* Three calls of an MCP server and of commands, on either backend, with crashes
\* anywhere.
CONSTANTS
  Servers <- Clones
  Mcp = {"a"}
  Requests <- Lines
  Checkout <- Remotes
  Candidates <- Memories
  Commands <- Asked
  Backends = {"postgres", "local"}
  Window = 3
  SearchLimit = 2
  MaxBatch = 2
  MaxCalls = 3
SPECIFICATION Spec
INVARIANTS
  TypeOK
  ToolsNegotiated
  StoredOnce
  AckedIsShared
PROPERTIES
  SearchFindsAcked
  CallsEnd
