SPECIFICATION Spec
CONSTANTS
  SEGMENT_CHUNKS = 3
  CHUNK_SIZE = 9
  BROWSER_CHUNK = 8
  Total = 47
  BATCH = 2
  Q_DEPTH = 0
  MaxRetries = 1
  Faults = {"cancel", "container", "status", "raise", "delete", "drop", "reset"}
INVARIANTS TypeOK OneBatch BoundedCache EachChunkOnce
\* an upload ends: stored, cancelled, or left behind by its socket
CHECK_DEADLOCK FALSE
