SPECIFICATION OptSpec
CONSTANTS
  Toggles = {"clocks", "http", "sockets", "random"}
  Streams = {"stdin", "stderr"}
  Components <- MCComponents
INVARIANTS
  Encodes
  NothingBeyondOptions
  NothingAllowedIsStubbed
  FilterTransparentElsewhere
CHECK_DEADLOCK FALSE
