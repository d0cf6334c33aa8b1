CONSTANTS
  None = None
  Calls = {k1, k2}
  Devices = {d1}
  Vdoms = {v1, v2}
  Clients = {h1, h2, h3}
  Events = {"cli_set", "cli_delete", "cancel", "remove", "evict", "all"}
SPECIFICATION Spec
SYMMETRY Symmetry
INVARIANTS TypeOK CachedIsOpen OneClientPerKey NoStrays
PROPERTIES DisconnectCloses RemovedStaysUnconnected
CHECK_DEADLOCK FALSE
