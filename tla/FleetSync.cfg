CONSTANTS
  src = src
  dst = dst
  twin = twin
  far = far
  x1 = x1
  x2 = x2
  r1 = r1
  r2 = r2
  None = None
  Unnamed = Unnamed
  Calls = {k1, k2}
  Devices = {src, dst, twin, far}
  Objects = {x1, x2, r1, r2}
  Types = {"address_object", "static_route", "dns"}
  Type <- MCType
  Name <- MCName
  DeviceName <- MCDeviceName
  Configs <- MCConfigs
  Requests <- MCRequests
  MaxMishaps = 1
SPECIFICATION Spec
SYMMETRY Symmetry
INVARIANTS TypeOK WritesOnlyAsAsked ReportMatchesDevices CopyComplete PlanKept
CHECK_DEADLOCK FALSE
