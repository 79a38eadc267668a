SPECIFICATION Spec
CONSTANTS
  SEGMENT_CHUNKS = 3
  CHUNK_SIZE = 9
  BROWSER_CHUNK = 8
  Total = 38
  BATCH = 2
  Q_DEPTH = 1
  MaxRetries = 0
  Faults = {"status"}
INVARIANTS SuccessMeansStored
\* an upload ends: stored, cancelled, or left behind by its socket
CHECK_DEADLOCK FALSE
