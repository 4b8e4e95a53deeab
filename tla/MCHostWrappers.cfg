SPECIFICATION Spec
CONSTANTS
  None = None
  Values = {"x", "y"}
  Methods <- MCMethods
  Codes <- MCCodes
  GuestHandle = {g1, g2, g3}
  HostHandle = {h1, h2, h3}
SYMMETRY MCSymmetry
VIEW MCView
INVARIANT Conserved
PROPERTY Transparent
CHECK_DEADLOCK FALSE
