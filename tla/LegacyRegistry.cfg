CONSTANTS
  None = None
  Calls = {k1, k2, k3}
  Ids = {fw1, fw2}
  Clients = {h1, h2, h3, h4}
SPECIFICATION Spec
SYMMETRY Symmetry
INVARIANTS TypeOK RemovesWhatItClosed ClosedOnlyIfCut
PROPERTY LostOnlyInARace
CHECK_DEADLOCK FALSE
