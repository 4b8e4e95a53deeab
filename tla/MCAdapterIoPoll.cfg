SPECIFICATION FairSpec
CONSTANTS
  Configs <- MCConfigs
  Incoming = 2
  Room = 1
  MaxWritten = 2
  FileSize = 1
  Lens = {1, 2}
  Lists <- MCLists
  Terminals = {"stdin", "stdout"}
  Spliced = {"stdin"}
INVARIANT PollSound
CHECK_DEADLOCK FALSE
