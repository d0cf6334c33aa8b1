CONSTANTS
  None = None
  Servers = {s1}
  Calls = {k1}
  Changes = {c1}
  Devices = {d1, d2}
  Types = {"firewall_policy"}
  Ids = {1}
  Data = {x, y}
  TTL = 1
  MaxTime = 0
  Faults = {"edit", "get_fail", "lost", "cancel", "crash", "rebind"}
  SerialCallers = TRUE
SPECIFICATION FairSpec
INVARIANTS ApplyPermitted RepeatedOnlyIfUnsure ExecutesWhatWasPreviewed
PROPERTIES RollbackRestores EventuallyResolved
CHECK_DEADLOCK FALSE
