SPECIFICATION ImageSpec
CONSTANTS
  StackTop = 64
  Strings = {"a", "ab"}
  StrLen <- MCStrLen
  FileLens = {0, 3, 5, 9}
  Cutoff = 8
  MaxWords = 2
  MaxEntries = 3
  OwnSegments <- MCOwnSegments
  ConfigAt = 72
  EnvAt = 88
  IoAt = 112
  EnvOptions <- MCEnvOptions
  ConfigOptions <- MCConfigOptions
INVARIANTS
  PlacedDisjoint
  StringsPlaced
  StackBelowData
  StructsLoaded
  NeverPanics
  PassiveExact
PROPERTIES
  FinishSucceeds
CHECK_DEADLOCK FALSE
