SPECIFICATION Spec
CONSTANTS
  Alphabet <- MCAlphabet
  ByteOrder <- MCByteOrder
  Worlds <- MCWorlds
  Streams = {"s1"}
  Paths <- MCPaths
  Offsets = {0, 3}
  Lens = {1, 2}
  UsizeMod = 16
  MaxHeld = 3
  MaxIdx = 4
INVARIANTS
  StreamsInside
  TrapsForACause
  Contained
PROPERTIES
  PreopensStable
  ImplementsVirtualFs
VIEW MCView
CHECK_DEADLOCK FALSE
