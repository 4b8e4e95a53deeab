SPECIFICATION Spec
CONSTANTS
  Alphabet <- MCAlphabet
  ByteOrder <- MCByteOrder
  Worlds <- RuntimeWorlds
  Streams = {"s1"}
  Paths <- MCPaths
  Offsets = {0, 3}
  Lens = {1, 2}
  UsizeMod = 16
  MaxHeld = 2
  MaxIdx = 4
INVARIANT StaticNeverRuntime
CHECK_DEADLOCK FALSE
