SPECIFICATION Spec
CONSTANTS
  Procs = {p, q, r}
  WasmOpt = {p, q}
  Composing = {p, q}
  MaxTime = 1
  Empty = Empty
  Torn = Torn
INVARIANTS
  OwnResult
  FailsForACause
  NoLitter
CHECK_DEADLOCK FALSE
