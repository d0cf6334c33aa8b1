CONSTANTS
  None = None
  Servers = {s1}
  Calls = {k1, k2}
  Changes = {c1, c2}
  Devices = {d1}
  Types = {"firewall_policy", "dns"}
  Ids = {1}
  Data = {x}
  TTL = 1
  MaxTime = 0
  Faults = {"edit"}
  SerialCallers = TRUE
SPECIFICATION Spec
SYMMETRY FullSymmetry

PROPERTY RefinesLifecycle
CHECK_DEADLOCK FALSE
