SPECIFICATION HostSpec
CONSTANTS
  ByteOrder <- MCByteOrder
  Node <- MCNode
  Forests = {}
  Paths <- MCPaths
  Preopens <- MCPreopens
  At <- MCAt
  Names <- MCNames
  Garbled = {"?"}
  HostNode <- MCHostNode
  Root = 1
  Gone = 0
  MaxPath = 3
  Setups <- MCSetups
INVARIANTS
  ChildListsExact
  LookupAgrees
  HostInlined
  ListedExact
  FailsForACause
PROPERTY Ends
CHECK_DEADLOCK FALSE
