SPECIFICATION OptSpec
CONSTANTS
  Toggles = {"clocks"}
  Streams = {"stdin", "stderr"}
  Components <- MCComponents
INVARIANT FilterTransparent
CHECK_DEADLOCK FALSE
