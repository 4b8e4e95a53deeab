SPECIFICATION FairSpec
CONSTANTS
  Configs <- MCConfigs
  Incoming = 1
  Room = 1
  MaxWritten = 2
  FileSize = 1
  Lens = {1, 2}
  Lists <- MCLists
  Terminals = {"stdin", "stdout"}
  Spliced = {"stdin", "file"}
INVARIANTS
  Conserved
  Isolated
  PanicsForACause
PROPERTIES
  PollComplete
  Woken
CHECK_DEADLOCK FALSE
