SPECIFICATION Spec
CONSTANTS
  Alphabet <- MCAlphabet
  Names <- MCNames
  HostPaths <- MCHostPaths
  MaxPreopens = 2
INVARIANTS
  MatchSound
  PanicsForACause
  NoneMeansNone
CHECK_DEADLOCK FALSE
