SPECIFICATION Spec
CONSTANTS
  SEGMENT_CHUNKS = 3
  CHUNK_SIZE = 65564
  BROWSER_CHUNK = 65536
  Total = 65540
  BATCH = 2
  Q_DEPTH = 1
  MaxRetries = 0
  Faults = {}
INVARIANTS StoredComplete
\* an upload ends: stored, cancelled, or left behind by its socket
CHECK_DEADLOCK FALSE
