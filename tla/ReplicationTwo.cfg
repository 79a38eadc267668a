SPECIFICATION FairSpec
CONSTANTS
  Jobs = {j1, j2}
  Containers = {c1}
  Objects = {1, 2}
  Segs <- SegsTwo
  PageSize = 1
  ListLimit = 10
  Faults = {"refuse", "source"}
  None = None
\* no request need be made, and jobs end
CHECK_DEADLOCK FALSE
INVARIANTS PresentComplete ProgressExact
PROPERTIES CancelStops
