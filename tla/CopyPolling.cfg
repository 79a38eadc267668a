SPECIFICATION PageFairSpec
CONSTANTS
  Jobs = {j1}
  Containers = {c1}
  Objects = {1, 2}
  Segs <- SegsTwo
  PageSize = 2
  ListLimit = 10
  Faults = {"refuse", "list", "source"}
  None = None
  MaxPolls = 2
\* the user may leave the page, and jobs end
CHECK_DEADLOCK FALSE
INVARIANTS TypeOK FinishedCopied ShownComplete ClosedEnded
PROPERTIES JobEnds ShownForward ShownSettles
