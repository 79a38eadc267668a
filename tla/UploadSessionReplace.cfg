SPECIFICATION FairSpec
CONSTANTS
  Sockets = {k1}
  Paths = {p1}
  MaxUploads = 2
  MaxCancels = 0
  None = None
\* the user may stop adding files
CHECK_DEADLOCK FALSE
PROPERTIES Resolved
