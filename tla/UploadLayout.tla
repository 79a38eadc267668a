---------------------------- MODULE UploadLayout ----------------------------
(***************************************************************************)
(* How a file is cut up.  The browser worker slices a file into chunks of   *)
(* BROWSER_CHUNK bytes and numbers them from 0; the upload runner, which    *)
(* only knows the file's size, works out how many chunks and how many       *)
(* segments to expect from its own CHUNK_SIZE and SEGMENT_CHUNKS.           *)
(*                                                                         *)
(* In the code CHUNK_SIZE = 65564, SEGMENT_CHUNKS = 81885,                  *)
(* SEGMENT_SIZE = 5368708140 = 81885 * 65564, BROWSER_CHUNK = 65536.        *)
(***************************************************************************)
EXTENDS Integers

CONSTANTS SEGMENT_CHUNKS,   \* chunks in every segment but the last
          CHUNK_SIZE,       \* the runner's bytes per chunk
          BROWSER_CHUNK     \* the browser's bytes per chunk

ASSUME LayoutAssumption == /\ SEGMENT_CHUNKS \in Nat \ {0}
                           /\ CHUNK_SIZE \in Nat \ {0}
                           /\ BROWSER_CHUNK \in Nat \ {0}

SEGMENT_SIZE == SEGMENT_CHUNKS * CHUNK_SIZE

\* Python's -(a // -b), and JavaScript's Math.ceil(a / b)
CeilDiv(a, b) == -((-a) \div b)

total_segments(total) == CeilDiv(total, SEGMENT_SIZE)
total_chunks(total) == CeilDiv(total, CHUNK_SIZE)

\* The half-open range [seg_start, seg_end) of chunks that slice_segment yields
seg_start(segment) == segment * SEGMENT_CHUNKS
\* (mutant) the last chunk is taken for the end of the range
seg_end_before(total, segment) ==
  IF segment = total_segments(total) - 1 /\ total_chunks(total) # 0
  THEN total_chunks(total) - 1
  ELSE seg_start(segment) + SEGMENT_CHUNKS
seg_end(total, segment) ==
  IF segment = total_segments(total) - 1 /\ total_chunks(total) # 0
  THEN total_chunks(total)
  ELSE seg_start(segment) + SEGMENT_CHUNKS

SegmentChunks(total, segment) == seg_start(segment) .. seg_end(total, segment) - 1

\* How many chunks the browser cuts the same file into
browser_chunks(total) == CeilDiv(total, BROWSER_CHUNK)
-----------------------------------------------------------------------------
(* Properties of the layout of a file of total bytes *)

\* The segments cut the runner's chunks into consecutive pieces: every chunk
\* is in the range of one upload_segment task and of no other.
RangesPartition(total) ==
  LET segments == 0 .. total_segments(total) - 1
      chunks == 0 .. total_chunks(total) - 1 IN
    /\ \A i \in chunks : \E s \in segments : i \in SegmentChunks(total, s)
    /\ \A s \in segments : SegmentChunks(total, s) \subseteq chunks
    /\ \A s, t \in segments :
         s # t => SegmentChunks(total, s) \cap SegmentChunks(total, t) = {}

\* No task waits for a chunk that the browser does not have: upload_segment
\* waits for its first chunk without a limit.
NothingAwaitedInVain(total) == total_chunks(total) <= browser_chunks(total)
=============================================================================
