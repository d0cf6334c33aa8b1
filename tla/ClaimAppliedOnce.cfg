CONSTANTS
  None = None
  Servers = {s1}
  Calls = {k1, k2}
  Changes = {c1}
  Devices = {d1}
  Types = {"firewall_policy"}
  Ids = {1, 2}
  Data = {x, y}
  TTL = 1
  MaxTime = 0
  Faults = {}
  SerialCallers = FALSE
SPECIFICATION Spec

INVARIANT AppliedAtMostOnce
CHECK_DEADLOCK FALSE
