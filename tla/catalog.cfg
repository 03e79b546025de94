CONSTANTS
  tdarr = tdarr
  p1 = p1
  v1 = v1
  v2 = v2
  Entry <- MCEntry
  Port = {p1}
  PortsOf <- MCPortsOf
  Volume = {v1, v2}
  VolumesOf <- MCVolumesOf
  Request = {r1, r2, r3, r4}
  None = None
SPECIFICATION Spec
SYMMETRY Interchangeable
\* Each request slot is used once; when all are, nothing need be left to do.
CHECK_DEADLOCK FALSE
INVARIANTS
  HalfInstalledHasCause
PROPERTIES
  RemoveSparesReinstall
  ReportedVolumesAreGone
