SPECIFICATION FairSpec
CONSTANTS
  Sockets = {k1,k2}
  Paths = {p1,p2}
  MaxUploads = 2
  MaxCancels = 1
  None = None
\* the user may stop adding files
CHECK_DEADLOCK FALSE
INVARIANTS TypeOK NoDanglingManifest AbortClean
PROPERTIES NoLostUpload LoopsReturn
