SPECIFICATION FairSpec
CONSTANTS
  Keys = {1, 2, 3}
  Values = {8, 9}
  StrLen <- MCStrLen
  Overrides <- MCOverrides
  Lists <- MCLists
  HostFields <- MCHostFields
INVARIANTS
  InStep
  SearchesOrdered
  NothingLeaks
  ReadsExact
PROPERTY Returns
CHECK_DEADLOCK FALSE
