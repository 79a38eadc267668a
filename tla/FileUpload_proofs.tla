-------------------------- MODULE FileUpload_proofs --------------------------
(***************************************************************************)
(* Proofs about FileUpload, for every size of file, chunk, segment and       *)
(* queue.  The argument has three parts: StoreInv says what each await of    *)
(* the handler implies for the tasks and the store, from which the object's  *)
(* appearance and the effect of a cancel follow; FlowInv counts the batches  *)
(* that are asked for, read or sent, of which there is at most one; and      *)
(* AskedInv and SurplusInv tell the chunks that a batch brings from those    *)
(* that a slicer asked for again, which bounds the cache.                    *)
(***************************************************************************)
EXTENDS FileUpload, UploadLayout_proofs, FiniteSetTheorems

\* The browser's chunks are no larger than the runner's, as in the code: every
\* chunk that the runner asks for again is one that the browser has.
SizesFit == BROWSER_CHUNK <= CHUNK_SIZE

LEMMA SegmentsAreChunks ==
  ASSUME SizesFit
  PROVE  /\ total_segments(Total) \in Nat \ {0}
         /\ browser_chunks(Total) \in Nat
         /\ \A s \in Segments : seg_start(s) \in Nat /\ SegEnd(s) \in Int
         /\ \A s \in Segments : seg_start(s) <= SegEnd(s)
         /\ \A s \in Segments : SegmentChunks(Total, s) \subseteq Chunks
  <1>1. total_segments(Total) \in Nat \ {0} /\ total_chunks(Total) \in Nat
    BY LastSegmentBounds, FileAssumption
  <1>2. browser_chunks(Total) \in Nat
    BY CeilDivBounds, FileAssumption, LayoutAssumption DEF browser_chunks
  <1>3. total_chunks(Total) <= browser_chunks(Total)
    BY NoTaskWaitsInVain, FileAssumption DEF SizesFit, NothingAwaitedInVain
  <1>4. ASSUME NEW s \in Segments
        PROVE  seg_start(s) \in Nat /\ SegEnd(s) \in Int /\ seg_start(s) <= SegEnd(s)
    <2>1. s \in Nat /\ SEGMENT_CHUNKS \in Nat \ {0}
      BY <1>1, LayoutAssumption DEF Segments
    <2>2. s * SEGMENT_CHUNKS \in Nat
      BY <2>1, Z3
    <2>3. (total_segments(Total) - 1) * SEGMENT_CHUNKS <= total_chunks(Total)
      <3>1. (total_segments(Total) - 1) * SEGMENT_CHUNKS \in Int
        BY <1>1, <2>1, Z3
      <3> QED  BY <1>1, <3>1, LastSegmentBounds, FileAssumption
    <2> QED  BY <1>1, <2>1, <2>2, <2>3 DEF SegEnd, seg_end, seg_start
  <1>5. ASSUME NEW s \in Segments
        PROVE  SegmentChunks(Total, s) \subseteq Chunks
    <2>1. SegmentChunks(Total, s) \subseteq 0 .. total_chunks(Total) - 1
      BY Partitioned, FileAssumption DEF RangesPartition, Segments
    <2> QED  BY <1>1, <1>2, <1>3, <2>1 DEF Chunks
  <1> QED  BY <1>1, <1>2, <1>4, <1>5

LEMMA MsgType ==
  ASSUME NEW c \in Commands, NEW x \in SUBSET Chunks
  PROVE  Msg(c, x) \in Messages
  BY DEF Msg, Messages

LEMMA ToRunnerType ==
  ASSUME toRunner \in Seq(Messages), NEW m \in Messages, ToRunner(m)
  PROVE  toRunner' \in Seq(Messages)
  BY DEF ToRunner

LEMMA ToBrowserType ==
  ASSUME toBrowser \in Seq(Messages), NEW ms \in Seq(Messages), ToBrowser(ms)
  PROVE  toBrowser' \in Seq(Messages)
  BY DEF ToBrowser

LEMMA ReceivesType ==
  ASSUME toBrowser \in Seq(Messages), NEW c, Receives(c)
  PROVE  toBrowser' \in Seq(Messages) /\ Head(toBrowser) \in Messages
  BY DEF Receives

LEMMA HandlesType ==
  ASSUME toRunner \in Seq(Messages), NEW c, Handles(c)
  PROVE  /\ toRunner' \in Seq(Messages) /\ Head(toRunner) \in Messages
         /\ Head(toRunner).chunks \subseteq Chunks
  <1>1. toRunner' \in Seq(Messages) /\ Head(toRunner) \in Messages
    BY DEF Handles
  <1>2. Head(toRunner).chunks \in SUBSET Chunks
    BY <1>1 DEF Messages
  <1> QED  BY <1>1, <1>2

-----------------------------------------------------------------------------
(* Type correctness *)

LEMMA TypeInit == ASSUME SizesFit, Init PROVE TypeOK
  <1>1. Msg("start_upload", {}) \in Messages
    BY MsgType DEF Commands
  <1>2. toRunner \in Seq(Messages) /\ toBrowser \in Seq(Messages)
    BY <1>1 DEF Init
  <1>3. iter \in 0 .. browser_chunks(Total) /\ retries \in 0 .. MaxRetries
    BY SegmentsAreChunks, FileAssumption DEF Init
  <1> QED
    BY <1>2, <1>3 DEF Init, TypeOK, HandlerStates, TaskStates, NotStored

LEMMA BrowserTypes ==
  ASSUME SizesFit, TypeOK,
         \/ Receive \/ SendChunks \/ Cancel \/ ConnectionLost
         \/ \E i \in Chunks : RetryChunkRead(i)
  PROVE  TypeOK'
  <1> USE DEF TypeOK, browser, upload, segs, store
  <1>1. CASE RecvStartOrNext
    BY <1>1, ReceivesType DEF RecvStartOrNext
  <1>2. CASE RecvRetryChunk
    BY <1>2, ReceivesType DEF RecvRetryChunk
  <1>3. CASE RecvSuccess
    BY <1>3, ReceivesType, MsgType, ToRunnerType DEF RecvSuccess, Commands
  <1>4. CASE RecvAbort
    BY <1>4, ReceivesType DEF RecvAbort
  <1>5. CASE SendChunks
    <2>1. PICK last \in iter .. browser_chunks(Total) :
            /\ ToRunner(Msg("add_chunks", iter .. last - 1)) /\ iter' = last
      BY <1>5, SegmentsAreChunks, FileAssumption DEF SendChunks, BatchEnd
    <2>2. iter .. last - 1 \subseteq Chunks /\ last \in 0 .. browser_chunks(Total)
      BY SegmentsAreChunks DEF Chunks
    <2>3. toRunner' \in Seq(Messages)
      BY <2>1, <2>2, MsgType, ToRunnerType DEF Commands
    <2> QED  BY <1>5, <2>1, <2>2, <2>3 DEF SendChunks
  <1>6. CASE Cancel
    BY <1>6, MsgType, ToRunnerType DEF Cancel, Commands
  <1>7. CASE ConnectionLost
    BY <1>7 DEF ConnectionLost
  <1>8. ASSUME NEW i \in Chunks, RetryChunkRead(i) PROVE TypeOK'
    BY <1>8, MsgType, ToRunnerType DEF RetryChunkRead, Commands
  <1> QED  BY <1>1, <1>2, <1>3, <1>4, <1>5, <1>6, <1>7, <1>8 DEF Receive

LEMMA HandlerTypes ==
  ASSUME SizesFit, TypeOK, Handler
  PROVE  TypeOK'
  <1> USE DEF TypeOK, browser, upload, segs, store
  <1>0. /\ <<>> \in Seq(Messages)
        /\ <<Msg("next", {})>> \in Seq(Messages)
        /\ <<Msg("abort", {})>> \in Seq(Messages)
        /\ <<Msg("start_upload", {})>> \in Seq(Messages)
    <2>1. /\ Msg("next", {}) \in Messages /\ Msg("abort", {}) \in Messages
          /\ Msg("start_upload", {}) \in Messages
      BY MsgType DEF Commands
    <2> QED  BY <2>1
  <1>1. CASE HandleBegin
    BY <1>1, HandlesType DEF HandleBegin, HandlerStates
  <1>2. CASE InitUpload
    <2> DEFINE Sends(ok, raises) ==
                 (IF ok THEN <<>> ELSE <<Msg("abort", {})>>) \o
                 (IF raises THEN <<>> ELSE <<Msg("start_upload", {})>>)
    <2>2. ASSUME NEW ok, NEW raises PROVE Sends(ok, raises) \in Seq(Messages)
      <3>1. (IF ok THEN <<>> ELSE <<Msg("abort", {})>>) \in Seq(Messages)
        BY <1>0
      <3>2. (IF raises THEN <<>> ELSE <<Msg("start_upload", {})>>) \in Seq(Messages)
        BY <1>0
      <3> QED  BY <3>1, <3>2
    <2>3. \/ UNCHANGED toBrowser
          \/ \E ok, raises : ToBrowser(Sends(ok, raises))
      BY <1>2 DEF InitUpload
    <2> HIDE DEF Sends
    <2>4. toBrowser' \in Seq(Messages)
      BY <2>2, <2>3, ToBrowserType
    <2>5. task' \in [Segments -> TaskStates]
      BY <1>2 DEF InitUpload, TaskStates
    <2>6. handler' \in HandlerStates
      BY <1>2 DEF InitUpload, HandlerStates
    <2> QED  BY <1>2, <2>4, <2>5, <2>6 DEF InitUpload
  <1>3. CASE HandleChunks
    <2>1. chunk_cache' \subseteq Chunks /\ toRunner' \in Seq(Messages)
      BY <1>3, HandlesType DEF HandleChunks, AddToChunks
    <2>2. toBrowser' \in Seq(Messages) /\ handler' \in HandlerStates
      BY <1>0, <1>3, ToBrowserType DEF HandleChunks, SendNext, HandlerStates
    <2> QED  BY <1>3, <2>1, <2>2 DEF HandleChunks
  <1>4. CASE WaitForCache
    <2>1. toBrowser' \in Seq(Messages) /\ handler' \in HandlerStates
      BY <1>0, <1>4, ToBrowserType DEF WaitForCache, SendNext, HandlerStates
    <2> QED  BY <1>4, <2>1 DEF WaitForCache
  <1>5. CASE HandleChunk
    <2>1. chunk_cache' \subseteq Chunks /\ toRunner' \in Seq(Messages)
      BY <1>5, HandlesType DEF HandleChunk, AddToChunks
    <2> QED  BY <1>5, <2>1 DEF HandleChunk, HandlerStates
  <1>6. CASE HandleFinish
    BY <1>6, HandlesType DEF HandleFinish, HandlerStates
  <1>7. CASE FinishGather
    BY <1>7 DEF FinishGather, HandlerStates
  <1>8. CASE FinishManifest
    BY <1>8 DEF FinishManifest, HandlerStates
  <1>9. CASE HandleCancel
    <2>1. toBrowser' \in Seq(Messages) /\ handler' \in HandlerStates
      BY <1>0, <1>9, ToBrowserType DEF HandleCancel, HandlerStates
    <2>2. toRunner' \in Seq(Messages) /\ aborted' \in BOOLEAN
      BY <1>9, HandlesType DEF HandleCancel
    <2> QED  BY <1>9, <2>1, <2>2 DEF HandleCancel
  <1>10. CASE AbortGather
    BY <1>10 DEF AbortGather, HandlerStates
  <1>11. CASE AbortDelete
    BY <1>11 DEF AbortDelete, HandlerStates, NotStored
  <1>12. CASE HandlerEnds
    BY <1>12 DEF HandlerEnds, HandlerStates
  <1> QED
    BY <1>1, <1>2, <1>3, <1>4, <1>5, <1>6, <1>7, <1>8, <1>9, <1>10, <1>11, <1>12
    DEF Handler

LEMMA AfterPutType ==
  ASSUME TypeOK, NEW s \in Segments, AfterPut(s)
  PROVE  /\ task' \in [Segments -> TaskStates] /\ finished' \in BOOLEAN
         /\ toBrowser' \in Seq(Messages)
  <1>1. <<>> \in Seq(Messages) /\ <<Msg("success", {})>> \in Seq(Messages)
    <2>1. Msg("success", {}) \in Messages
      BY MsgType DEF Commands
    <2> QED  BY <2>1
  <1> QED  BY <1>1, ToBrowserType DEF AfterPut, TypeOK, TaskStates

LEMMA SegmentTypes ==
  ASSUME SizesFit, TypeOK, NEW s \in Segments,
         Segment(s) \/ RetryChunk(s) \/ PutRefused(s) \/ PutRaises(s)
  PROVE  TypeOK'
  <1> USE DEF TypeOK, browser, upload, segs, store
  <1>1. CASE StartPut(s)
    BY <1>1 DEF StartPut, TaskStates
  <1>2. CASE StopWaiting(s)
    BY <1>2 DEF StopWaiting, TaskStates
  <1>3. CASE YieldChunk(s)
    BY <1>3 DEF YieldChunk
  <1>4. CASE EndBody(s)
    BY <1>4 DEF EndBody, TaskStates
  <1>5. CASE PutStored(s)
    BY <1>5, AfterPutType DEF PutStored
  <1>6. CASE RetryChunk(s)
    <2>1. NextChunk(s) \in SegmentChunks(Total, s)
      BY <1>6, SegmentsAreChunks DEF RetryChunk, NextChunk, SegmentChunks, SegEnd
    <2>2. Msg("retry_chunk", {NextChunk(s)}) \in Messages
      BY <2>1, SegmentsAreChunks, MsgType DEF Commands
    <2>3. <<>> \in Seq(Messages) /\ <<Msg("retry_chunk", {NextChunk(s)})>> \in Seq(Messages)
      BY <2>2
    <2>4. toBrowser' \in Seq(Messages)
      BY <1>6, <2>3, ToBrowserType DEF RetryChunk
    <2>5. retries' \in 0 .. MaxRetries
      BY <1>6, FileAssumption DEF RetryChunk
    <2> QED  BY <1>6, <2>4, <2>5 DEF RetryChunk
  <1>7. CASE PutRefused(s)
    BY <1>7, AfterPutType DEF PutRefused
  <1>8. CASE PutRaises(s)
    BY <1>8 DEF PutRaises, TaskStates
  <1> QED  BY <1>1, <1>2, <1>3, <1>4, <1>5, <1>6, <1>7, <1>8 DEF Segment

LEMMA TypeStep == ASSUME SizesFit, TypeOK, [Next]_vars PROVE TypeOK'
  <1>1. CASE UNCHANGED vars
    BY <1>1 DEF TypeOK, vars, browser, upload, segs, store
  <1> QED  BY <1>1, BrowserTypes, HandlerTypes, SegmentTypes DEF Next

\* Every variable keeps its type, whatever the faults.
THEOREM TypeCorrect == ASSUME SizesFit PROVE Spec => []TypeOK
  <1>1. Init => TypeOK  BY TypeInit
  <1>2. TypeOK /\ [Next]_vars => TypeOK'  BY TypeStep
  <1> QED  BY <1>1, <1>2, PTL DEF Spec

-----------------------------------------------------------------------------
(* No chunk is uploaded twice *)

\* Only add_to_chunks and the slicers touch the cache and what was yielded.
LEMMA ChunkSteps ==
  ASSUME [Next]_vars
  PROVE  \/ UNCHANGED <<chunk_cache, done_chunks, sent>>
         \/ (\E chunks : AddToChunks(chunks)) /\ UNCHANGED <<done_chunks, sent>>
         \/ \E s \in Segments : YieldChunk(s)
  <1> USE DEF vars, browser, upload, segs, store
  <1>1. CASE Handler
    BY <1>1 DEF Handler, HandleBegin, InitUpload, HandleChunks, WaitForCache,
                HandleChunk, HandleFinish, FinishGather, FinishManifest,
                HandleCancel, AbortGather, AbortDelete, HandlerEnds
  <1>2. CASE \/ Receive \/ SendChunks \/ Cancel \/ ConnectionLost
            \/ \E i \in Chunks : RetryChunkRead(i)
    BY <1>2 DEF Receive, RecvStartOrNext, RecvRetryChunk, RecvSuccess, RecvAbort,
                SendChunks, Cancel, ConnectionLost, RetryChunkRead
  <1>3. CASE \E s \in Segments : \/ Segment(s) \/ RetryChunk(s)
                                 \/ PutRefused(s) \/ PutRaises(s)
    BY <1>3 DEF Segment, StartPut, StopWaiting, EndBody, PutStored, RetryChunk,
                PutRefused, PutRaises
  <1> QED  BY <1>1, <1>2, <1>3 DEF Next

LEMMA OnceStep ==
  ASSUME SizesFit, TypeOK, EachChunkOnce, [Next]_vars
  PROVE  EachChunkOnce'
  <1>1. CASE UNCHANGED <<chunk_cache, done_chunks, sent>>
    BY <1>1 DEF EachChunkOnce, Body
  <1>2. ASSUME NEW chunks, AddToChunks(chunks), UNCHANGED <<done_chunks, sent>>
        PROVE  EachChunkOnce'
    BY <1>2 DEF EachChunkOnce, Body, AddToChunks
  <1>3. ASSUME NEW s \in Segments, YieldChunk(s) PROVE EachChunkOnce'
    <2> DEFINE c == NextChunk(s)
    <2>1. /\ c \in chunk_cache /\ c \notin done_chunks
          /\ done_chunks' = done_chunks \cup {c}
          /\ chunk_cache' = chunk_cache \ {c}
          /\ sent' = [sent EXCEPT ![s] = @ + 1]
      BY <1>3 DEF YieldChunk, EachChunkOnce
    <2>2. Body(s)' = Body(s) \cup {c}
      <3>1. sent'[s] = sent[s] + 1 /\ sent[s] \in Nat /\ seg_start(s) \in Nat
        BY <2>1, SegmentsAreChunks DEF TypeOK
      <3> QED  BY <3>1 DEF Body, NextChunk
    <2>3. \A t \in Segments \ {s} : Body(t)' = Body(t)
      BY <2>1 DEF Body, TypeOK
    <2> HIDE DEF c
    <2>4. \A t \in Segments : c \notin Body(t)
      BY <2>1 DEF EachChunkOnce
    <2>5. done_chunks' = UNION {Body(t)' : t \in Segments}
      BY <2>1, <2>2, <2>3 DEF EachChunkOnce
    <2>6. \A t, u \in Segments : t # u => Body(t)' \cap Body(u)' = {}
      BY <2>2, <2>3, <2>4 DEF EachChunkOnce
    <2> QED  BY <2>1, <2>5, <2>6 DEF EachChunkOnce
  <1> QED  BY <1>1, <1>2, <1>3, ChunkSteps

\* No chunk enters the bodies of the segments twice, whatever the browser is
\* asked to send again and whatever fails.
THEOREM ChunksOnce == ASSUME SizesFit PROVE Spec => []EachChunkOnce
  <1>1. Init => TypeOK /\ EachChunkOnce
    <2> SUFFICES ASSUME Init PROVE TypeOK /\ EachChunkOnce
      OBVIOUS
    <2>1. \A s \in Segments : Body(s) = {}
      BY SegmentsAreChunks DEF Init, Body
    <2> QED  BY <2>1, TypeInit DEF Init, EachChunkOnce
  <1>2. TypeOK /\ EachChunkOnce /\ [Next]_vars => (TypeOK /\ EachChunkOnce)'
    BY TypeStep, OnceStep
  <1> QED  BY <1>1, <1>2, PTL DEF Spec

-----------------------------------------------------------------------------
(* The object appears complete, and in one step *)

\* The upload has not begun
Fresh == ~aborted /\ ~manifest /\ \A s \in Segments : task[s] = "none"

\* Only one start_upload is ever sent for the upload
StartsOnce ==
  /\ \A k \in DOMAIN toRunner :
       toRunner[k].command = "start_upload" =>
         k = 1 /\ Fresh /\ handler = "idle" /\ ~present
  /\ handler = "creating" => Fresh

\* What the message loop is doing agrees with the upload's flags
HandlerInv ==
  /\ handler \in {"aborting", "deleting"} => aborted
  /\ aborted => /\ ~manifest /\ handler \notin {"gathering", "manifest", "creating"}
                /\ present => handler \in {"aborting", "deleting", "dead"}
  /\ handler \in {"gathering", "manifest"} => present
  /\ handler = "manifest" \/ manifest => \A s \in Segments : task[s] = "done"
  /\ manifest /\ present => handler = "dead"

\* No request to the store is answered with an error status
NoRefusals == "status" \notin Faults

\* Without an abort and refusals, a finished body is the whole segment, and is stored
SegmentInv(s) ==
  /\ NextChunk(s) <= SegEnd(s)
  /\ NoRefusals /\ task[s] \in {"eof", "done"} /\ ~aborted => NextChunk(s) = SegEnd(s)
  /\ NoRefusals /\ task[s] = "done" /\ ~aborted => stored[s] = sent[s]
  /\ task[s] = "gone" => aborted

StoreInv == StartsOnce /\ HandlerInv /\ \A s \in Segments : SegmentInv(s)

LEMMA StoreInit == ASSUME SizesFit, Init PROVE StoreInv
  <1>1. StartsOnce
    BY DEF Init, StartsOnce, Fresh
  <1>2. HandlerInv
    BY DEF Init, HandlerInv
  <1>3. \A s \in Segments : SegmentInv(s)
    BY SegmentsAreChunks DEF Init, SegmentInv, NextChunk
  <1> QED  BY <1>1, <1>2, <1>3 DEF StoreInv

\* The browser sends no start_upload again.
LEMMA StartSent ==
  ASSUME TypeOK, StartsOnce, NEW m, m.command # "start_upload", ToRunner(m),
         UNCHANGED <<handler, present, aborted, manifest, task>>
  PROVE  StartsOnce'
  <1>1. toRunner \in Seq(Messages)
    BY DEF TypeOK
  <1>2. \A k \in DOMAIN toRunner' :
          toRunner'[k].command = "start_upload" =>
            k \in DOMAIN toRunner /\ toRunner'[k] = toRunner[k]
    BY <1>1 DEF ToRunner
  <1> QED  BY <1>2 DEF StartsOnce, Fresh

\* What is left once a message has been taken holds no start_upload.
LEMMA StartTaken ==
  ASSUME TypeOK, StartsOnce, NEW c, Handles(c)
  PROVE  \A k \in DOMAIN toRunner' : toRunner'[k].command # "start_upload"
  <1>1. toRunner \in Seq(Messages) /\ toRunner # <<>> /\ toRunner' = Tail(toRunner)
    BY DEF TypeOK, Handles
  <1>2. \A k \in DOMAIN toRunner' :
          k + 1 \in DOMAIN toRunner /\ toRunner'[k] = toRunner[k + 1] /\ k + 1 # 1
    BY <1>1
  <1> QED  BY <1>2 DEF StartsOnce

\* A segment's invariant is about its task, its chunks and the abort only.
LEMMA SegmentsKept ==
  ASSUME \A s \in Segments : SegmentInv(s),
         UNCHANGED <<task, sent, stored, aborted>>
  PROVE  \A s \in Segments : SegmentInv(s)'
  BY DEF SegmentInv, NextChunk

LEMMA BrowserStep ==
  ASSUME TypeOK, StoreInv,
         \/ Receive \/ SendChunks \/ Cancel \/ ConnectionLost
         \/ \E i \in Chunks : RetryChunkRead(i)
  PROVE  StoreInv'
  <1> USE DEF upload, segs, store, browser
  <1>1. UNCHANGED <<handler, present, aborted, manifest, task, sent, stored>>
    BY DEF Receive, RecvStartOrNext, RecvRetryChunk, RecvSuccess, RecvAbort,
           SendChunks, Cancel, ConnectionLost, RetryChunkRead
  <1>2. \/ UNCHANGED toRunner \/ toRunner' = <<>>
        \/ \E m : m.command # "start_upload" /\ ToRunner(m)
    <2>1. \A c, x : Msg(c, x).command = c
      BY DEF Msg
    <2>2. CASE Receive
      BY <2>1, <2>2 DEF Receive, RecvStartOrNext, RecvRetryChunk, RecvSuccess, RecvAbort
    <2>3. CASE SendChunks
      BY <2>1, <2>3 DEF SendChunks
    <2>4. CASE Cancel \/ ConnectionLost
      BY <2>1, <2>4 DEF Cancel, ConnectionLost
    <2>5. ASSUME NEW i \in Chunks, RetryChunkRead(i)
          PROVE  UNCHANGED toRunner \/ ToRunner(Msg("add_chunk", {i}))
      BY <2>5 DEF RetryChunkRead
    <2>6. ASSUME NEW c, c # "start_upload", NEW x, ToRunner(Msg(c, x))
          PROVE  \E m : m.command # "start_upload" /\ ToRunner(m)
      BY <2>1, <2>6
    <2>7. CASE \E i \in Chunks : RetryChunkRead(i)
      BY <2>5, <2>6, <2>7
    <2> QED  BY <2>2, <2>3, <2>4, <2>7
  <1>3. StartsOnce'
    <2>1. CASE UNCHANGED toRunner
      BY <1>1, <2>1 DEF StoreInv, StartsOnce, Fresh
    <2>2. CASE toRunner' = <<>>
      BY <1>1, <2>2 DEF StoreInv, StartsOnce, Fresh
    <2>3. CASE \E m : m.command # "start_upload" /\ ToRunner(m)
      BY <1>1, <2>3, StartSent DEF StoreInv
    <2> QED  BY <1>2, <2>1, <2>2, <2>3
  <1>4. HandlerInv'
    BY <1>1 DEF StoreInv, HandlerInv
  <1>5. \A s \in Segments : SegmentInv(s)'
    BY <1>1, SegmentsKept DEF StoreInv
  <1> QED  BY <1>3, <1>4, <1>5 DEF StoreInv

LEMMA HandlerStep ==
  ASSUME TypeOK, StoreInv, Handler
  PROVE  StoreInv'
  <1> USE DEF upload, segs, store, browser
  <1>0. StartsOnce /\ HandlerInv /\ \A s \in Segments : SegmentInv(s)
    BY DEF StoreInv
  <1>1. CASE HandleBegin
    <2>1. Fresh /\ Fresh'
      <3>1. toRunner \in Seq(Messages) /\ toRunner # <<>>
            /\ toRunner[1].command = "start_upload"
        BY <1>1 DEF HandleBegin, Handles, TypeOK
      <3>2. Fresh
        BY <1>0, <3>1 DEF StartsOnce
      <3> QED  BY <1>1, <3>2 DEF HandleBegin, Fresh
    <2>2. StartsOnce'
      BY <1>0, <1>1, <2>1, StartTaken DEF HandleBegin, StartsOnce
    <2>3. HandlerInv'
      BY <1>1, <2>1 DEF HandleBegin, HandlerInv, Fresh
    <2>4. \A s \in Segments : SegmentInv(s)'
      BY <1>0, <1>1, SegmentsKept DEF HandleBegin
    <2> QED  BY <2>2, <2>3, <2>4 DEF StoreInv
  <1>2. CASE InitUpload
    <2>1. /\ Fresh /\ aborted' = aborted /\ manifest' = manifest
          /\ present' = present /\ toRunner' = toRunner
          /\ handler' \in {"idle", "dead"} /\ handler = "creating"
      BY <1>0, <1>2 DEF InitUpload, StartsOnce
    <2>2. \A s \in Segments : task'[s] \in {"none", "first"}
      BY <1>2, <2>1 DEF InitUpload, Fresh
    <2>3. StartsOnce'
      BY <1>0, <2>1 DEF StartsOnce
    <2>4. HandlerInv'
      BY <2>1 DEF HandlerInv, Fresh
    <2>5. \A s \in Segments : SegmentInv(s)'
      BY <1>0, <1>2, <2>2 DEF InitUpload, SegmentInv, NextChunk
    <2> QED  BY <2>3, <2>4, <2>5 DEF StoreInv
  <1>3. CASE HandleChunks \/ HandleChunk \/ HandleFinish
    <2>1. /\ \E c : Handles(c)
          /\ UNCHANGED <<present, aborted, manifest, task, sent, stored>>
          /\ handler = "idle" /\ handler' \in {"idle", "waiting", "gathering", "dead"}
          /\ handler' = "gathering" => present
      BY <1>3 DEF HandleChunks, HandleChunk, HandleFinish, SendNext, Handles
    <2>2. StartsOnce'
      BY <1>0, <2>1, StartTaken DEF StartsOnce
    <2>3. HandlerInv'
      BY <1>0, <2>1 DEF HandlerInv
    <2>4. \A s \in Segments : SegmentInv(s)'
      BY <1>0, <2>1, SegmentsKept
    <2> QED  BY <2>2, <2>3, <2>4 DEF StoreInv
  <1>4. CASE WaitForCache \/ FinishGather \/ AbortGather \/ HandlerEnds
    <2>1. UNCHANGED <<toRunner, present, aborted, manifest, task, sent, stored>>
      BY <1>4 DEF WaitForCache, FinishGather, AbortGather, HandlerEnds
    <2>2. /\ handler = "waiting" => handler' \in {"idle", "dead"}
          /\ handler = "idle" => handler' = "ended"
          /\ handler = "gathering" =>
               \/ handler' = "dead"
               \/ handler' = "manifest" /\ AllEnded
          /\ handler = "aborting" => handler' \in {"dead", "deleting"}
          /\ handler \in {"waiting", "idle", "gathering", "aborting"}
      BY <1>4 DEF WaitForCache, SendNext, FinishGather, AbortGather, HandlerEnds
    <2>3. StartsOnce'
      <3>1. CASE HandlerEnds
        BY <3>1 DEF HandlerEnds, StartsOnce
      <3>2. CASE ~HandlerEnds
        BY <1>0, <1>4, <2>1, <2>2, <3>2
        DEF StartsOnce, WaitForCache, FinishGather, AbortGather
      <3> QED  BY <3>1, <3>2
    <2>4. HandlerInv'
      <3>1. CASE handler' = "manifest"
        BY <1>0, <2>1, <2>2, <3>1 DEF HandlerInv, AllEnded, SegmentInv, Ended
      <3>2. CASE handler' # "manifest"
        BY <1>0, <2>1, <2>2, <3>2 DEF HandlerInv
      <3> QED  BY <3>1, <3>2
    <2>5. \A s \in Segments : SegmentInv(s)'
      BY <1>0, <2>1, SegmentsKept
    <2> QED  BY <2>3, <2>4, <2>5 DEF StoreInv
  <1>5. CASE FinishManifest
    <2>1. /\ UNCHANGED <<toRunner, aborted, task, sent, stored>>
          /\ handler = "manifest" /\ handler' \in {"idle", "dead"}
          /\ handler' = "idle" => ~present'
      BY <1>5 DEF FinishManifest
    <2>2. StartsOnce'
      BY <1>0, <2>1 DEF StartsOnce
    <2>3. HandlerInv'
      BY <1>0, <2>1 DEF HandlerInv
    <2>4. \A s \in Segments : SegmentInv(s)'
      BY <1>0, <2>1, SegmentsKept
    <2> QED  BY <2>2, <2>3, <2>4 DEF StoreInv
  <1>6. CASE HandleCancel
    <2>1. /\ Handles("cancel") /\ handler = "idle"
          /\ UNCHANGED <<present, manifest, task, sent, stored>>
          /\ ~present => handler' = handler /\ aborted' = aborted
          /\ \/ ~present
             \/ handler' = "dead" /\ aborted' = aborted
             \/ handler' = "aborting" /\ aborted'
      BY <1>6 DEF HandleCancel, Handles, TypeOK
    <2>2. StartsOnce'
      BY <1>0, <2>1, StartTaken DEF StartsOnce
    <2>3. HandlerInv'
      BY <1>0, <2>1 DEF HandlerInv
    <2>4. \A s \in Segments : SegmentInv(s)'
      BY <1>0, <2>1 DEF SegmentInv, NextChunk
    <2> QED  BY <2>2, <2>3, <2>4 DEF StoreInv
  <1>7. CASE AbortDelete
    <2>1. /\ UNCHANGED <<toRunner, aborted, task, sent, manifest>>
          /\ handler = "deleting" /\ handler' \in {"idle", "dead"}
          /\ handler' = "idle" => ~present'
          /\ handler' = "dead" => present' = present
      BY <1>7 DEF AbortDelete
    <2>2. StartsOnce'
      BY <1>0, <2>1 DEF StartsOnce
    <2>3. HandlerInv'
      BY <1>0, <2>1 DEF HandlerInv
    <2>4. \A s \in Segments : SegmentInv(s)'
      BY <1>0, <2>1 DEF HandlerInv, SegmentInv, NextChunk
    <2> QED  BY <2>2, <2>3, <2>4 DEF StoreInv
  <1> QED  BY <1>1, <1>2, <1>3, <1>4, <1>5, <1>6, <1>7 DEF Handler

LEMMA SegmentStep ==
  ASSUME SizesFit, TypeOK, StoreInv, NEW s \in Segments,
         Segment(s) \/ RetryChunk(s) \/ PutRefused(s) \/ PutRaises(s)
  PROVE  StoreInv'
  <1> USE DEF upload, segs, store, browser
  <1>0. StartsOnce /\ HandlerInv /\ \A t \in Segments : SegmentInv(t)
    BY DEF StoreInv
  <1>1. UNCHANGED <<toRunner, handler, present, aborted, manifest>>
    BY DEF Segment, StartPut, StopWaiting, YieldChunk, EndBody, PutStored,
           RetryChunk, PutRefused, PutRaises
  <1>2. \/ UNCHANGED task
        \/ task[s] \in {"first", "put", "eof"} /\ ~Fresh
    BY DEF Segment, StartPut, StopWaiting, YieldChunk, EndBody, PutStored,
           RetryChunk, PutRefused, PutRaises, Fresh
  <1>3. StartsOnce'
    BY <1>0, <1>1, <1>2 DEF StartsOnce, Fresh
  <1>4. HandlerInv'
    BY <1>0, <1>1, <1>2 DEF HandlerInv
  <1>5. \A t \in Segments : SegmentInv(t)'
    <2> SUFFICES ASSUME NEW t \in Segments PROVE SegmentInv(t)'
      OBVIOUS
    <2>0. SegmentInv(t) /\ seg_start(t) \in Nat /\ SegEnd(t) \in Int
      BY <1>0, SegmentsAreChunks
    <2> USE <2>0 DEF SegmentInv, NextChunk, TypeOK
    <2>1. CASE StartPut(s)
      BY <2>1 DEF StartPut
    <2>2. CASE StopWaiting(s)
      BY <2>2 DEF StopWaiting
    <2>3. CASE YieldChunk(s)
      BY <2>3 DEF YieldChunk
    <2>4. CASE EndBody(s)
      BY <2>4 DEF EndBody
    <2>5. CASE PutStored(s)
      BY <2>5 DEF PutStored, AfterPut
    <2>6. CASE RetryChunk(s)
      BY <2>6 DEF RetryChunk
    <2>7. CASE PutRefused(s)
      BY <2>7 DEF PutRefused, AfterPut, NoRefusals
    <2>8. CASE PutRaises(s)
      BY <2>8 DEF PutRaises
    <2> QED  BY <2>1, <2>2, <2>3, <2>4, <2>5, <2>6, <2>7, <2>8 DEF Segment
  <1> QED  BY <1>3, <1>4, <1>5 DEF StoreInv

LEMMA StoreStep ==
  ASSUME SizesFit, TypeOK, StoreInv, [Next]_vars
  PROVE  StoreInv'
  <1>1. CASE UNCHANGED vars
    BY <1>1 DEF vars, browser, upload, segs, store, StoreInv, StartsOnce, Fresh,
                HandlerInv, SegmentInv, NextChunk
  <1> QED  BY <1>1, BrowserStep, HandlerStep, SegmentStep DEF Next

\* The segments of a manifest hold the chunks that the runner counts, which are
\* all of the file when the browser cuts it into as many.
LEMMA ManifestHolds ==
  ASSUME SizesFit, NoRefusals, TypeOK, StoreInv, manifest
  PROVE  StoredChunks = Counted
  <1>1. ASSUME NEW s \in Segments
        PROVE  /\ stored[s] # NotStored
               /\ seg_start(s) .. seg_start(s) + stored[s] - 1 = SegmentChunks(Total, s)
    <2>1. ~aborted /\ task[s] = "done" /\ SegmentInv(s)
      BY DEF StoreInv, HandlerInv
    <2>2. seg_start(s) + stored[s] = SegEnd(s) /\ stored[s] = sent[s]
      BY <2>1 DEF SegmentInv, NextChunk
    <2>3. stored[s] \in Nat
      BY <2>2 DEF TypeOK
    <2>4. seg_start(s) \in Nat
      BY SegmentsAreChunks
    <2> QED  BY <2>2, <2>3, <2>4 DEF NotStored, SegmentChunks, SegEnd
  <1>2. StoredChunks = UNION {SegmentChunks(Total, s) : s \in Segments}
    BY <1>1 DEF StoredChunks
  <1>3. UNION {SegmentChunks(Total, s) : s \in Segments} = Counted
    BY Partitioned, FileAssumption DEF RangesPartition, Segments, Counted
  <1> QED  BY <1>2, <1>3

\* The invariants behind the next theorems hold together, whatever fails.
LEMMA StoreInvariant ==
  ASSUME SizesFit PROVE Spec => [](TypeOK /\ StoreInv)
  <1>1. Init => TypeOK /\ StoreInv  BY TypeInit, StoreInit
  <1>2. TypeOK /\ StoreInv /\ [Next]_vars => (TypeOK /\ StoreInv)'
    BY TypeStep, StoreStep
  <1> QED  BY <1>1, <1>2, PTL DEF Spec

\* The object that a manifest makes appear consists of the chunks that the runner
\* counts, each of them and no other, if no PUT is refused: cancels, broken
\* connections and raising requests do no harm.  What the browser has beyond
\* them is lost.
HoldsCounted == manifest => StoredChunks = Counted

\* For sizes that fit, as the code's do, and a store that refuses no PUT, a
\* manifest stands for exactly the chunks that the runner works out of total.
THEOREM ManifestOfCounted ==
  ASSUME SizesFit, NoRefusals
  PROVE  Spec => []HoldsCounted
  <1>1. TypeOK /\ StoreInv => HoldsCounted
    BY ManifestHolds DEF HoldsCounted
  <1> QED  BY <1>1, StoreInvariant, PTL

\* The runner's count of the file's chunks is the browser's
CountsAgree == total_chunks(Total) = browser_chunks(Total)

\* A manifest is only put in place when all of the file is stored, if the counts
\* agree (WhenCountsAgree says for which files they do) and no PUT is refused.
THEOREM ManifestOfAllChunks ==
  ASSUME SizesFit, NoRefusals, CountsAgree
  PROVE  Spec => []StoredComplete
  <1>1. HoldsCounted => StoredComplete
    BY DEF HoldsCounted, StoredComplete, ObjectComplete, CountsAgree, Chunks, Counted
  <1> QED  BY <1>1, ManifestOfCounted, PTL

\* Where they do not agree, as for the 65540 bytes of the run upload_chunk_size,
\* a manifest always stands for an object that lacks the end of the file.
THEOREM ManifestWithoutTheEnd ==
  ASSUME SizesFit, NoRefusals, ~CountsAgree
  PROVE  Spec => [](manifest => ~ObjectComplete)
  <1>1. browser_chunks(Total) - 1 \in Chunks \ Counted
    <2>1. total_chunks(Total) \in Nat /\ browser_chunks(Total) \in Nat
      BY SegmentsAreChunks, LastSegmentBounds, FileAssumption
    <2>2. total_chunks(Total) <= browser_chunks(Total)
      BY NoTaskWaitsInVain, FileAssumption DEF SizesFit, NothingAwaitedInVain
    <2> QED  BY <2>1, <2>2 DEF CountsAgree, Chunks, Counted
  <1>2. HoldsCounted => (manifest => ~ObjectComplete)
    BY <1>1 DEF HoldsCounted, ObjectComplete
  <1> QED  BY <1>2, ManifestOfCounted, PTL

\* The object's fate is decided by the manifest and by the abort only.
LEMMA FateSteps ==
  ASSUME [Next]_vars
  PROVE  UNCHANGED <<manifest, aborted>> \/ FinishManifest \/ HandleCancel
  <1> USE DEF vars, browser, upload, segs, store
  <1>1. CASE Handler
    BY <1>1 DEF Handler, HandleBegin, InitUpload, HandleChunks, WaitForCache,
                HandleChunk, HandleFinish, FinishGather, AbortGather, AbortDelete,
                HandlerEnds
  <1>2. CASE \/ Receive \/ SendChunks \/ Cancel \/ ConnectionLost
            \/ \E i \in Chunks : RetryChunkRead(i)
    BY <1>2 DEF Receive, RecvStartOrNext, RecvRetryChunk, RecvSuccess, RecvAbort,
                SendChunks, Cancel, ConnectionLost, RetryChunkRead
  <1>3. CASE \E s \in Segments : \/ Segment(s) \/ RetryChunk(s)
                                 \/ PutRefused(s) \/ PutRaises(s)
    BY <1>3 DEF Segment, StartPut, StopWaiting, YieldChunk, EndBody, PutStored,
                RetryChunk, PutRefused, PutRaises
  <1> QED  BY <1>1, <1>2, <1>3 DEF Next

\* What a reader of the container sees, measured by the chunks that the runner
\* counts instead of those of the file
CountedObject == INSTANCE ObjectUpload WITH
                   File <- Counted,
                   content <- IF manifest THEN StoredChunks ELSE {},
                   outcome <- IF manifest THEN "stored"
                              ELSE IF aborted THEN "cancelled" ELSE "open"

\* The upload implements ObjectUpload over the chunks that the runner counts, for
\* sizes that fit and a store that refuses no PUT: the object appears in one
\* step with exactly those chunks, or never once the upload is cancelled.
THEOREM ImplementsCountedUpload ==
  ASSUME SizesFit, NoRefusals
  PROVE  Spec => CountedObject!Spec
  <1>1. Init => CountedObject!Init
    BY DEF Init, CountedObject!Init
  <1>2. ASSUME TypeOK, TypeOK', StoreInv, HoldsCounted, HoldsCounted', [Next]_vars
        PROVE  [CountedObject!Next]_CountedObject!ovars
    <2> USE DEF CountedObject!Next, CountedObject!Commit, CountedObject!Cancel,
                CountedObject!ovars
    <2>1. /\ manifest => StoredChunks = Counted
          /\ manifest' => StoredChunks' = Counted
      BY <1>2 DEF HoldsCounted
    <2>2. manifest \in BOOLEAN /\ manifest' \in BOOLEAN /\ aborted \in BOOLEAN
      BY <1>2 DEF TypeOK
    <2>3. CASE UNCHANGED <<manifest, aborted>>
      BY <2>1, <2>3
    <2>4. CASE FinishManifest
      <3>1. ~aborted /\ aborted' = aborted /\ (manifest => manifest')
        BY <1>2, <2>4 DEF FinishManifest, StoreInv, HandlerInv, upload
      <3> QED  BY <2>1, <2>2, <3>1
    <2>5. CASE HandleCancel
      <3>1. CASE present
        <4>1. ~aborted /\ ~manifest /\ manifest' = manifest
          BY <1>2, <2>5, <3>1 DEF HandleCancel, Handles, StoreInv, HandlerInv, store
        <4> QED  BY <2>2, <4>1
      <3>2. CASE ~present
        BY <2>1, <2>5, <3>2 DEF HandleCancel, store
      <3> QED  BY <3>1, <3>2
    <2> QED  BY <1>2, <2>3, <2>4, <2>5, FateSteps
  <1> QED
    BY <1>1, <1>2, StoreInvariant, ManifestOfCounted, PTL DEF Spec, CountedObject!Spec

\* The upload implements ObjectUpload over all of the file when the counts agree,
\* under the same assumptions.
THEOREM ImplementsObjectUpload ==
  ASSUME SizesFit, NoRefusals, CountsAgree
  PROVE  Spec => AppearsComplete
  <1>1. Chunks = Counted
    BY DEF CountsAgree, Chunks, Counted
  <1>2. CountedObject!Init => Object!Init
    BY DEF CountedObject!Init, Object!Init
  <1>3. [CountedObject!Next]_CountedObject!ovars => [Object!Next]_Object!ovars
    BY <1>1
    DEF CountedObject!Next, CountedObject!Commit, CountedObject!Cancel, CountedObject!ovars,
        Object!Next, Object!Commit, Object!Cancel, Object!ovars
  <1> QED
    BY <1>2, <1>3, ImplementsCountedUpload, PTL
    DEF AppearsComplete, Object!Spec, CountedObject!Spec

\* The segments in the store change with the answers of PUTs and an abort only.
LEMMA StoredSteps ==
  ASSUME [Next]_vars
  PROVE  \/ UNCHANGED stored
         \/ AbortDelete
         \/ \E s \in Segments : task[s] \in {"put", "eof"}
  <1> USE DEF vars, browser, upload, segs, store
  <1>1. CASE Handler
    BY <1>1 DEF Handler, HandleBegin, InitUpload, HandleChunks, WaitForCache,
                HandleChunk, HandleFinish, FinishGather, FinishManifest,
                HandleCancel, AbortGather, HandlerEnds
  <1>2. CASE \/ Receive \/ SendChunks \/ Cancel \/ ConnectionLost
            \/ \E i \in Chunks : RetryChunkRead(i)
    BY <1>2 DEF Receive, RecvStartOrNext, RecvRetryChunk, RecvSuccess, RecvAbort,
                SendChunks, Cancel, ConnectionLost, RetryChunkRead
  <1>3. CASE \E s \in Segments : \/ Segment(s) \/ RetryChunk(s)
                                 \/ PutRefused(s) \/ PutRaises(s)
    BY <1>3 DEF Segment, StartPut, StopWaiting, YieldChunk, EndBody, PutStored,
                RetryChunk, PutRefused, PutRaises
  <1> QED  BY <1>1, <1>2, <1>3 DEF Next

\* Whatever fails and whenever the user cancels, nothing is taken from the
\* segments of an object whose manifest stands, and the manifest stays.
THEOREM ObjectFinal == ASSUME SizesFit PROVE Spec => FinalObject
  <1>1. TypeOK /\ StoreInv /\ [Next]_vars =>
          [manifest => manifest' /\ stored' = stored]_vars
    <2> SUFFICES ASSUME TypeOK, StoreInv, [Next]_vars, manifest
                 PROVE  manifest' /\ stored' = stored
      OBVIOUS
    <2>1. ~aborted /\ \A s \in Segments : task[s] = "done"
      BY DEF StoreInv, HandlerInv
    <2>2. manifest'
      BY FateSteps DEF FinishManifest, HandleCancel, store
    <2>3. ~AbortDelete
      BY <2>1 DEF AbortDelete, StoreInv, HandlerInv
    <2> QED  BY <2>1, <2>2, <2>3, StoredSteps
  <1> QED  BY <1>1, StoreInvariant, PTL DEF Spec, FinalObject

-----------------------------------------------------------------------------
(* A cancel leaves nothing behind *)

\* Deleting a segment works
NoneKept == {"delete", "raise"} \cap Faults = {}

\* The segments are deleted after the tasks have ended, so that none comes back.
AbortInv ==
  /\ handler = "deleting" => AllEnded
  /\ aborted /\ ~present => AllEnded /\ \A s \in Segments : stored[s] = NotStored

\* A task that has ended does not start again, nor touch its segment.
LEMMA EndedStays ==
  ASSUME TypeOK, StoreInv, AllEnded, [Next]_vars
  PROVE  AllEnded' /\ (stored' = stored \/ AbortDelete)
  <1> USE DEF vars, browser, upload, segs, store
  <1>1. CASE Segments = {}
    BY <1>1, StoredSteps DEF AllEnded
  <1>2. CASE Segments # {}
    <2>1. ~InitUpload
      BY <1>2 DEF InitUpload, StoreInv, StartsOnce, Fresh, AllEnded, Ended
    <2>2. ASSUME NEW s \in Segments
          PROVE  ~(Segment(s) \/ PutRefused(s) \/ PutRaises(s))
      BY DEF AllEnded, Ended, Segment, StartPut, StopWaiting, YieldChunk, EndBody,
             PutStored, PutRefused, PutRaises
    <2>3. task' = task
      <3>1. CASE Handler
        BY <2>1, <3>1 DEF Handler, HandleBegin, HandleChunks, WaitForCache,
             HandleChunk, HandleFinish, FinishGather, FinishManifest,
             HandleCancel, AbortGather, AbortDelete, HandlerEnds
      <3>2. CASE \/ Receive \/ SendChunks \/ Cancel \/ ConnectionLost
                \/ \E i \in Chunks : RetryChunkRead(i)
        BY <3>2 DEF Receive, RecvStartOrNext, RecvRetryChunk, RecvSuccess, RecvAbort,
                    SendChunks, Cancel, ConnectionLost, RetryChunkRead
      <3>3. ASSUME NEW s \in Segments, RetryChunk(s) PROVE task' = task
        BY <3>3 DEF RetryChunk
      <3> QED  BY <2>2, <3>1, <3>2, <3>3 DEF Next
    <2>4. \A s \in Segments : task[s] \notin {"put", "eof"}
      BY DEF AllEnded, Ended
    <2> QED  BY <2>3, <2>4, StoredSteps DEF AllEnded
  <1> QED  BY <1>1, <1>2

LEMMA AbortStep ==
  ASSUME NoneKept, TypeOK, StoreInv, AbortInv, [Next]_vars
  PROVE  AbortInv'
  <1> USE DEF vars, browser, upload, segs, store
  <1>1. \/ UNCHANGED <<present, aborted>> /\ (handler' # "deleting" \/ handler' = handler)
        \/ HandleBegin \/ FinishManifest \/ HandleCancel \/ AbortGather \/ AbortDelete
    <2>1. CASE Handler
      BY <2>1 DEF Handler, InitUpload, HandleChunks, WaitForCache, SendNext,
                  HandleChunk, HandleFinish, FinishGather, HandlerEnds
    <2>2. CASE \/ Receive \/ SendChunks \/ Cancel \/ ConnectionLost
              \/ \E i \in Chunks : RetryChunkRead(i)
      BY <2>2 DEF Receive, RecvStartOrNext, RecvRetryChunk, RecvSuccess, RecvAbort,
                  SendChunks, Cancel, ConnectionLost, RetryChunkRead
    <2>3. CASE \E s \in Segments : \/ Segment(s) \/ RetryChunk(s)
                                   \/ PutRefused(s) \/ PutRaises(s)
      BY <2>3 DEF Segment, StartPut, StopWaiting, YieldChunk, EndBody, PutStored,
                  RetryChunk, PutRefused, PutRaises
    <2> QED  BY <2>1, <2>2, <2>3 DEF Next
  <1>2. CASE UNCHANGED <<present, aborted>> /\ (handler' # "deleting" \/ handler' = handler)
    <2>1. handler' = "deleting" => AllEnded'
      BY <1>2, EndedStays DEF AbortInv
    <2>2. ASSUME aborted, ~present
          PROVE  AllEnded' /\ \A s \in Segments : stored'[s] = NotStored
      <3>1. AllEnded' /\ (stored' = stored \/ AbortDelete)
        BY <2>2, EndedStays DEF AbortInv
      <3>2. AbortDelete => \A s \in Segments : stored'[s] = NotStored
        BY DEF AbortDelete, NoneKept
      <3> QED  BY <2>2, <3>1, <3>2 DEF AbortInv
    <2> QED  BY <1>2, <2>1, <2>2 DEF AbortInv
  <1>3. CASE HandleBegin \/ FinishManifest
    <2>1. ~aborted /\ aborted' = aborted /\ handler' # "deleting"
      <3>1. CASE HandleBegin
        <4>1. toRunner \in Seq(Messages) /\ toRunner # <<>>
              /\ toRunner[1].command = "start_upload"
          BY <3>1 DEF HandleBegin, Handles, TypeOK
        <4>2. Fresh
          BY <4>1 DEF StoreInv, StartsOnce
        <4> QED  BY <3>1, <4>2 DEF HandleBegin, Fresh
      <3>2. CASE FinishManifest
        BY <3>2 DEF FinishManifest, StoreInv, HandlerInv
      <3> QED  BY <1>3, <3>1, <3>2
    <2> QED  BY <2>1 DEF AbortInv
  <1>4. CASE HandleCancel
    <2>1. handler' # "deleting" /\ present' = present /\ UNCHANGED <<task, stored>>
      BY <1>4 DEF HandleCancel, Handles
    <2>2. ~present => aborted' = aborted
      BY <1>4 DEF HandleCancel
    <2> QED  BY <2>1, <2>2 DEF AbortInv, AllEnded
  <1>5. CASE AbortGather
    BY <1>5, EndedStays DEF AbortGather, AbortInv, AllEnded
  <1>6. CASE AbortDelete
    <2>1. AllEnded' /\ handler' # "deleting"
      BY <1>6, EndedStays DEF AbortInv, AbortDelete
    <2>2. \A s \in Segments : stored'[s] = NotStored
      BY <1>6 DEF AbortDelete, NoneKept
    <2> QED  BY <2>1, <2>2 DEF AbortInv
  <1> QED  BY <1>1, <1>2, <1>3, <1>4, <1>5, <1>6

\* When segments can be deleted, an upload that its cancel has removed has no task
\* that runs, no segment in the store and no manifest, whatever else failed.
THEOREM CancelLeavesNothing ==
  ASSUME SizesFit, NoneKept PROVE Spec => []CleanAbort
  <1>1. Init => AbortInv
    BY DEF Init, AbortInv
  <1>2. TypeOK /\ StoreInv /\ AbortInv /\ [Next]_vars => AbortInv'
    BY AbortStep
  <1>3. TypeOK /\ StoreInv /\ AbortInv => CleanAbort
    BY DEF AbortInv, StoreInv, HandlerInv, CleanAbort, AllEnded, StoredChunks
  <1> QED  BY <1>1, <1>2, <1>3, StoreInvariant, PTL DEF Spec

-----------------------------------------------------------------------------
(* One batch at a time *)

LEMMA CountType ==
  ASSUME NEW q \in Seq(Messages), NEW c
  PROVE  /\ Count(q, c) \in Nat
         /\ IsFiniteSet({k \in DOMAIN q : q[k].command = c})
  <1>1. IsFiniteSet(1 .. Len(q)) /\ DOMAIN q = 1 .. Len(q)
    BY FS_Interval
  <1>2. {k \in DOMAIN q : q[k].command = c} \in SUBSET (1 .. Len(q))
    BY <1>1
  <1>3. IsFiniteSet({k \in DOMAIN q : q[k].command = c})
    BY <1>1, <1>2, FS_Subset
  <1> QED  BY <1>3, FS_CardinalityType DEF Count

LEMMA CountEmpty == ASSUME NEW c PROVE Count(<<>>, c) = 0
  <1>1. {k \in DOMAIN <<>> : <<>>[k].command = c} = {}
    OBVIOUS
  <1> QED  BY <1>1, FS_EmptySet DEF Count

LEMMA CountAppend ==
  ASSUME NEW q \in Seq(Messages), NEW m \in Messages, NEW c
  PROVE  Count(Append(q, m), c) = Count(q, c) + IF m.command = c THEN 1 ELSE 0
  <1> DEFINE S == {k \in DOMAIN q : q[k].command = c}
             T == {k \in DOMAIN Append(q, m) : Append(q, m)[k].command = c}
  <1>1. IsFiniteSet(S) /\ Cardinality(S) \in Nat
    BY CountType DEF Count
  <1>2. Len(q) + 1 \notin S
    OBVIOUS
  <1>3. T = IF m.command = c THEN S \cup {Len(q) + 1} ELSE S
    OBVIOUS
  <1>4. Cardinality(S \cup {Len(q) + 1}) = Cardinality(S) + 1
    <2> HIDE DEF S
    <2> QED  BY <1>1, <1>2, FS_AddElement
  <1> HIDE DEF S, T
  <1>5. Cardinality(T) = Cardinality(S) + IF m.command = c THEN 1 ELSE 0
    BY <1>1, <1>3, <1>4
  <1> QED  BY <1>5 DEF Count, S, T

LEMMA CountTail ==
  ASSUME NEW q \in Seq(Messages), q # <<>>, NEW c
  PROVE  Count(Tail(q), c) = Count(q, c) - IF Head(q).command = c THEN 1 ELSE 0
  <1> DEFINE S == {k \in DOMAIN q : q[k].command = c}
             T == {k \in DOMAIN Tail(q) : Tail(q)[k].command = c}
             f == [k \in S \ {1} |-> k - 1]
  <1>1. IsFiniteSet(S) /\ Cardinality(S) \in Nat
    BY CountType DEF Count
  <1>2. 1 \in S <=> Head(q).command = c
    OBVIOUS
  <1>3. f \in Bijection(S \ {1}, T)
    <2>1. \A k \in S \ {1} : k \in Nat /\ k - 1 \in T
      OBVIOUS
    <2>2. \A k \in T : k + 1 \in S \ {1} /\ k = (k + 1) - 1
      OBVIOUS
    <2> HIDE DEF S, T
    <2>3. f \in Injection(S \ {1}, T)
      <3>1. f \in [S \ {1} -> T]
        BY <2>1
      <3>2. \A k, l \in S \ {1} : f[k] = f[l] => k = l
        BY <2>1
      <3> QED  BY <3>1, <3>2 DEF Injection, IsInjective
    <2>4. f \in Surjection(S \ {1}, T)
      BY <2>1, <2>2 DEF Surjection
    <2> QED  BY <2>3, <2>4 DEF Bijection
  <1> HIDE DEF S, T, f
  <1>4. IsFiniteSet(S \ {1})
        /\ Cardinality(S \ {1}) = Cardinality(S) - IF 1 \in S THEN 1 ELSE 0
    BY <1>1, FS_RemoveElement
  <1>5. Cardinality(T) = Cardinality(S \ {1})
    BY <1>3, <1>4, FS_Bijection DEF ExistsBijection
  <1> QED  BY <1>2, <1>4, <1>5 DEF Count, S, T

\* The batches that are on their way: asked for, being read, or sent
AtRunner == Count(toRunner, "start_upload") + Count(toRunner, "add_chunks")
AtBrowser == Count(toBrowser, "start_upload") + Count(toBrowser, "next")
Creating == IF handler = "creating" THEN 1 ELSE 0
Coming == AtRunner + AtBrowser + sending + Creating

\* The batch that has come, whose "next" waits for the cache
Waiting == IF handler = "waiting" THEN 1 ELSE 0

LEMMA BatchCount ==
  ASSUME TypeOK
  PROVE  /\ AtRunner \in Nat /\ AtBrowser \in Nat /\ sending \in Nat
         /\ Creating \in Nat /\ Waiting \in Nat /\ Coming \in Nat
         /\ OneBatch <=> Coming + Waiting <= 1
  <1>1. /\ Count(toRunner, "start_upload") \in Nat /\ Count(toRunner, "add_chunks") \in Nat
        /\ Count(toBrowser, "start_upload") \in Nat /\ Count(toBrowser, "next") \in Nat
        /\ sending \in Nat
    BY CountType DEF TypeOK
  <1>2. Creating + Waiting = IF handler \in {"creating", "waiting"} THEN 1 ELSE 0
    BY DEF Creating, Waiting
  <1> QED  BY <1>1, <1>2 DEF AtRunner, AtBrowser, Creating, Waiting, Coming, OneBatch

LEMMA BatchCountNext ==
  ASSUME TypeOK'
  PROVE  /\ AtRunner' = Count(toRunner', "start_upload") + Count(toRunner', "add_chunks")
         /\ AtBrowser' = Count(toBrowser', "start_upload") + Count(toBrowser', "next")
         /\ AtRunner' \in Nat /\ AtBrowser' \in Nat /\ sending' \in Nat
         /\ Creating' \in Nat /\ Waiting' \in Nat /\ Coming' \in Nat
  <1>1. /\ AtRunner' = Count(toRunner', "start_upload") + Count(toRunner', "add_chunks")
        /\ AtBrowser' = Count(toBrowser', "start_upload") + Count(toBrowser', "next")
    BY DEF AtRunner, AtBrowser, Count
  <1>2. \A c : Count(toRunner', c) \in Nat /\ Count(toBrowser', c) \in Nat
    BY CountType DEF TypeOK
  <1>3. AtRunner' \in Nat /\ AtBrowser' \in Nat
    BY <1>1, <1>2
  <1>4. sending' \in Nat /\ Creating' \in Nat /\ Waiting' \in Nat
    BY DEF TypeOK, Creating, Waiting
  <1>5. \A r, b, n, c \in Nat : r + b + n + c \in Nat
    OBVIOUS
  <1>6. Coming' \in Nat
    BY <1>3, <1>4, <1>5 DEF Coming
  <1> QED  BY <1>1, <1>3, <1>4, <1>6

\* Sums that fall with their terms, and with what one term hands to another
LEMMA SumKept ==
  ASSUME NEW r \in Nat, NEW b \in Nat, NEW n \in Nat, NEW c \in Nat,
         NEW r1 \in Nat, NEW b1 \in Nat, NEW n1 \in Nat, NEW c1 \in Nat,
         r1 <= r, b1 <= b, n1 <= n, c1 <= c
  PROVE  r1 + b1 + n1 + c1 <= r + b + n + c
OBVIOUS

LEMMA SumPassed ==
  ASSUME NEW r \in Nat, NEW b \in Nat, NEW n \in Nat, NEW c \in Nat,
         NEW r1 \in Nat, NEW b1 \in Nat, NEW n1 \in Nat, NEW c1 \in Nat,
         \/ r1 <= r + 1 /\ b1 <= b /\ n1 <= n - 1 /\ c1 <= c
         \/ r1 <= r /\ b1 <= b + 1 /\ n1 <= n /\ c1 <= c - 1
         \/ r1 <= r - 1 /\ b1 <= b + 1 /\ n1 <= n /\ c1 <= c
         \/ r1 <= r - 1 /\ b1 <= b /\ n1 <= n /\ c1 <= c + 1
         \/ r1 <= r /\ b1 <= b - 1 /\ n1 <= n + 1 /\ c1 <= c
  PROVE  r1 + b1 + n1 + c1 <= r + b + n + c
OBVIOUS

LEMMA SumChanges ==
  ASSUME NEW r \in Nat, NEW b \in Nat, NEW n \in Nat, NEW c \in Nat,
         NEW r1 \in Nat, NEW b1 \in Nat, NEW n1 \in Nat, NEW c1 \in Nat,
         n1 <= n, c1 <= c
  PROVE  /\ r1 <= r - 1 /\ b1 <= b => r1 + b1 + n1 + c1 <= (r + b + n + c) - 1
         /\ r1 <= r /\ b1 <= b + 1 => r1 + b1 + n1 + c1 <= (r + b + n + c) + 1
OBVIOUS

LEMMA PairKept ==
  ASSUME NEW m \in Nat, NEW w \in Nat, NEW m1 \in Nat, NEW w1 \in Nat,
         \/ m1 <= m /\ w1 <= w
         \/ m1 <= m - 1 /\ w1 <= w + 1
         \/ m1 <= m + 1 /\ w1 <= w - 1
  PROVE  m1 + w1 <= m + w
OBVIOUS

LEMMA ComingKept ==
  ASSUME TypeOK, TypeOK', AtRunner' <= AtRunner, AtBrowser' <= AtBrowser,
         sending' <= sending, Creating' <= Creating
  PROVE  Coming' <= Coming
  BY BatchCount, BatchCountNext, SumKept DEF Coming

LEMMA ComingPassed ==
  ASSUME TypeOK, TypeOK',
         \/ AtRunner' <= AtRunner + 1 /\ AtBrowser' <= AtBrowser
              /\ sending' <= sending - 1 /\ Creating' <= Creating
         \/ AtRunner' <= AtRunner /\ AtBrowser' <= AtBrowser + 1
              /\ sending' <= sending /\ Creating' <= Creating - 1
         \/ AtRunner' <= AtRunner - 1 /\ AtBrowser' <= AtBrowser + 1
              /\ sending' <= sending /\ Creating' <= Creating
         \/ AtRunner' <= AtRunner - 1 /\ AtBrowser' <= AtBrowser
              /\ sending' <= sending /\ Creating' <= Creating + 1
         \/ AtRunner' <= AtRunner /\ AtBrowser' <= AtBrowser - 1
              /\ sending' <= sending + 1 /\ Creating' <= Creating
  PROVE  Coming' <= Coming
  BY BatchCount, BatchCountNext, SumPassed DEF Coming

LEMMA ComingChanges ==
  ASSUME TypeOK, TypeOK', sending' <= sending, Creating' <= Creating
  PROVE  /\ AtRunner' <= AtRunner - 1 /\ AtBrowser' <= AtBrowser => Coming' <= Coming - 1
         /\ AtRunner' <= AtRunner /\ AtBrowser' <= AtBrowser + 1 => Coming' <= Coming + 1
  BY BatchCount, BatchCountNext, SumChanges DEF Coming

LEMMA InAllKept ==
  ASSUME TypeOK, TypeOK',
         \/ Coming' <= Coming /\ Waiting' <= Waiting
         \/ Coming' <= Coming - 1 /\ Waiting' <= Waiting + 1
         \/ Coming' <= Coming + 1 /\ Waiting' <= Waiting - 1
  PROVE  Coming' + Waiting' <= Coming + Waiting
  BY BatchCount, BatchCountNext, PairKept

\* Whether a message asks the runner for a batch or brings it one, and the browser
ForRunner(m) == IF m.command \in {"start_upload", "add_chunks"} THEN 1 ELSE 0
ForBrowser(m) == IF m.command \in {"start_upload", "next"} THEN 1 ELSE 0

LEMMA RunnerSent ==
  ASSUME TypeOK, NEW m \in Messages, ToRunner(m)
  PROVE  AtRunner' <= AtRunner + ForRunner(m)
  <1>1. CASE UNCHANGED toRunner
    <2>1. AtRunner' = AtRunner
      BY <1>1 DEF AtRunner, Count
    <2> QED  BY <2>1, BatchCount DEF ForRunner
  <1>2. CASE toRunner' = Append(toRunner, m)
    <2>1. \A c : Count(toRunner', c) = Count(toRunner, c) + IF m.command = c THEN 1 ELSE 0
      BY <1>2, CountAppend DEF TypeOK
    <2>2. \A c : Count(toRunner, c) \in Nat
      BY CountType DEF TypeOK
    <2>3. AtRunner' = Count(toRunner', "start_upload") + Count(toRunner', "add_chunks")
      BY DEF AtRunner, Count
    <2> QED  BY <2>1, <2>2, <2>3 DEF AtRunner, ForRunner
  <1> QED  BY <1>1, <1>2 DEF ToRunner

LEMMA RunnerTakes ==
  ASSUME TypeOK, NEW c, Handles(c)
  PROVE  AtRunner' = AtRunner - IF c \in {"start_upload", "add_chunks"} THEN 1 ELSE 0
  <1>1. \A d : Count(toRunner', d) = Count(toRunner, d) - IF c = d THEN 1 ELSE 0
    BY CountTail DEF TypeOK, Handles
  <1>2. \A d : Count(toRunner, d) \in Nat
    BY CountType DEF TypeOK
  <1>3. AtRunner' = Count(toRunner', "start_upload") + Count(toRunner', "add_chunks")
    BY DEF AtRunner, Count
  <1> QED  BY <1>1, <1>2, <1>3 DEF AtRunner

\* One message more in a queue to the browser
LEMMA QueueForBrowser ==
  ASSUME NEW q \in Seq(Messages), NEW m \in Messages
  PROVE  Count(Append(q, m), "start_upload") + Count(Append(q, m), "next")
           = Count(q, "start_upload") + Count(q, "next") + ForBrowser(m)
  <1>1. \A c : Count(Append(q, m), c) = Count(q, c) + IF m.command = c THEN 1 ELSE 0
    BY CountAppend
  <1>2. \A c : Count(q, c) \in Nat
    BY CountType
  <1> QED  BY <1>1, <1>2 DEF ForBrowser

LEMMA BrowserSentNothing ==
  ASSUME TypeOK, ToBrowser(<<>>) PROVE AtBrowser' = AtBrowser
  <1>1. toBrowser' = toBrowser
    BY DEF ToBrowser, TypeOK
  <1> QED  BY <1>1 DEF AtBrowser, Count

LEMMA BrowserSent ==
  ASSUME TypeOK, NEW m \in Messages, ToBrowser(<<m>>)
  PROVE  AtBrowser' <= AtBrowser + ForBrowser(m)
  <1>0. /\ AtBrowser \in Nat
        /\ AtBrowser' = Count(toBrowser', "start_upload") + Count(toBrowser', "next")
    BY BatchCount DEF AtBrowser, Count
  <1>1. CASE UNCHANGED toBrowser
    <2>1. AtBrowser' = AtBrowser
      BY <1>1 DEF AtBrowser, Count
    <2> QED  BY <1>0, <2>1 DEF ForBrowser
  <1>2. CASE toBrowser' = Append(toBrowser, m)
    BY <1>0, <1>2, QueueForBrowser DEF TypeOK, AtBrowser, ForBrowser
  <1>3. toBrowser \o <<m>> = Append(toBrowser, m)
    BY DEF TypeOK
  <1> QED  BY <1>1, <1>2, <1>3 DEF ToBrowser

LEMMA BrowserTakes ==
  ASSUME TypeOK, NEW c, Receives(c)
  PROVE  AtBrowser' = AtBrowser - IF c \in {"start_upload", "next"} THEN 1 ELSE 0
  <1>1. \A d : Count(toBrowser', d) = Count(toBrowser, d) - IF c = d THEN 1 ELSE 0
    BY CountTail DEF TypeOK, Receives
  <1>2. \A d : Count(toBrowser, d) \in Nat
    BY CountType DEF TypeOK
  <1>3. AtBrowser' = Count(toBrowser', "start_upload") + Count(toBrowser', "next")
    BY DEF AtBrowser, Count
  <1> QED  BY <1>1, <1>2, <1>3 DEF AtBrowser

\* A batch is cut at the end of the file, and by BATCH.
LEMMA BatchSent ==
  ASSUME SizesFit, TypeOK, SendChunks
  PROVE  \E batch \in SUBSET Chunks :
           Cardinality(batch) <= BATCH /\ ToRunner(Msg("add_chunks", batch))
  <1>1. /\ BatchEnd \in Nat /\ iter \in Nat /\ iter <= BatchEnd
        /\ BatchEnd <= browser_chunks(Total) /\ BatchEnd <= iter + BATCH
        /\ browser_chunks(Total) \in Nat /\ BATCH \in Nat
    BY SegmentsAreChunks, FileAssumption DEF BatchEnd, TypeOK
  <1> HIDE DEF BatchEnd
  <1>2. BatchEnd \in iter .. BatchEnd
    BY <1>1
  <1>3. PICK last \in iter .. BatchEnd : ToRunner(Msg("add_chunks", iter .. last - 1))
    BY <1>2 DEF SendChunks
  <1>4. last \in Nat /\ iter <= last /\ last <= browser_chunks(Total) /\ last <= iter + BATCH
    BY <1>1
  <1>5. iter .. last - 1 \in SUBSET Chunks
    <2>1. \A i \in iter .. last - 1 : i \in 0 .. browser_chunks(Total) - 1
      BY <1>1, <1>4
    <2> QED  BY <2>1 DEF Chunks
  <1>6. Cardinality(iter .. last - 1) <= BATCH
    <2>1. Cardinality(iter .. last - 1) = IF iter > last - 1 THEN 0 ELSE last - 1 - iter + 1
      BY <1>1, <1>4, FS_Interval
    <2> QED  BY <1>1, <1>4, <2>1
  <1> QED  BY <1>3, <1>5, <1>6

\* A step of the browser passes the batch on or drops it.
LEMMA BrowserPasses ==
  ASSUME SizesFit, TypeOK, TypeOK',
         \/ Receive \/ SendChunks \/ Cancel \/ ConnectionLost
         \/ \E i \in Chunks : RetryChunkRead(i)
  PROVE  handler' = handler /\ Coming' <= Coming
  <1> USE DEF browser, upload, segs, store
  <1>0. handler' = handler /\ Creating' <= Creating
    <2>1. handler' = handler
      BY DEF Receive, RecvStartOrNext, RecvRetryChunk, RecvSuccess, RecvAbort,
             SendChunks, Cancel, ConnectionLost, RetryChunkRead
    <2>2. Creating' = Creating
      BY <2>1 DEF Creating
    <2> QED  BY <2>1, <2>2, BatchCount
  <1>1. /\ AtRunner \in Nat /\ AtBrowser \in Nat /\ sending \in Nat
        /\ AtRunner' \in Nat /\ AtBrowser' \in Nat /\ sending' \in Nat
        /\ Creating \in Nat
    BY BatchCount, BatchCountNext
  <1>2. ASSUME UNCHANGED toRunner PROVE AtRunner' = AtRunner
    BY <1>2 DEF AtRunner, Count
  <1>3. ASSUME UNCHANGED toBrowser PROVE AtBrowser' = AtBrowser
    BY <1>3 DEF AtBrowser, Count
  <1> USE <1>0, <1>1
  <1>4. CASE RecvStartOrNext
    <2>1. AtBrowser' <= AtBrowser - 1 /\ AtRunner' <= AtRunner
      BY <1>2, <1>4, BrowserTakes DEF RecvStartOrNext
    <2>2. sending' <= sending + 1
      BY <1>4 DEF RecvStartOrNext
    <2> QED  BY <2>1, <2>2, ComingPassed
  <1>5. CASE RecvRetryChunk
    <2>1. AtBrowser' <= AtBrowser /\ AtRunner' <= AtRunner /\ sending' <= sending
      BY <1>2, <1>5, BrowserTakes DEF RecvRetryChunk
    <2> QED  BY <2>1, ComingKept
  <1>6. CASE RecvSuccess
    <2>1. Msg("finish", {}) \in Messages /\ ForRunner(Msg("finish", {})) = 0
      BY MsgType DEF Msg, Commands, ForRunner
    <2>2. AtRunner' <= AtRunner /\ AtBrowser' <= AtBrowser
      BY <1>2, <1>6, <2>1, BrowserTakes, RunnerSent DEF RecvSuccess
    <2>3. sending' <= sending
      BY <1>6 DEF RecvSuccess
    <2> QED  BY <2>2, <2>3, ComingKept
  <1>7. CASE RecvAbort
    <2>1. AtBrowser' <= AtBrowser /\ AtRunner' <= AtRunner /\ sending' <= sending
      BY <1>2, <1>7, BrowserTakes DEF RecvAbort
    <2> QED  BY <2>1, ComingKept
  <1>8. CASE SendChunks
    <2>1. PICK batch \in SUBSET Chunks : ToRunner(Msg("add_chunks", batch))
      BY <1>8, BatchSent
    <2>2. Msg("add_chunks", batch) \in Messages /\ ForRunner(Msg("add_chunks", batch)) = 1
      BY MsgType DEF Msg, Commands, ForRunner
    <2>3. AtRunner' <= AtRunner + 1
      BY <2>1, <2>2, RunnerSent
    <2>4. AtBrowser' <= AtBrowser /\ sending' <= sending - 1
      BY <1>3, <1>8 DEF SendChunks
    <2> QED  BY <2>3, <2>4, ComingPassed
  <1>9. CASE Cancel
    <2>1. Msg("cancel", {}) \in Messages /\ ForRunner(Msg("cancel", {})) = 0
      BY MsgType DEF Msg, Commands, ForRunner
    <2>2. AtRunner' <= AtRunner /\ AtBrowser' <= AtBrowser
      BY <1>3, <1>9, <2>1, RunnerSent DEF Cancel
    <2>3. sending' <= sending
      BY <1>9 DEF Cancel
    <2> QED  BY <2>2, <2>3, ComingKept
  <1>10. CASE ConnectionLost
    <2>1. AtRunner' = Count(toRunner', "start_upload") + Count(toRunner', "add_chunks")
          /\ AtBrowser' = Count(toBrowser', "start_upload") + Count(toBrowser', "next")
      BY DEF AtRunner, AtBrowser, Count
    <2>2. AtRunner' = 0 /\ AtBrowser' = 0
      BY <1>10, <2>1, CountEmpty DEF ConnectionLost
    <2>3. sending' <= sending
      BY <1>10 DEF ConnectionLost
    <2> QED  BY <2>2, <2>3, ComingKept
  <1>11. ASSUME NEW i \in Chunks, RetryChunkRead(i) PROVE Coming' <= Coming
    <2>1. Msg("add_chunk", {i}) \in Messages /\ ForRunner(Msg("add_chunk", {i})) = 0
      BY MsgType DEF Msg, Commands, ForRunner
    <2>2. AtRunner' <= AtRunner /\ AtBrowser' <= AtBrowser
      BY <1>2, <1>3, <1>11, <2>1, RunnerSent DEF RetryChunkRead
    <2>3. sending' <= sending
      BY <1>11 DEF RetryChunkRead
    <2> QED  BY <2>2, <2>3, ComingKept
  <1> QED  BY <1>4, <1>5, <1>6, <1>7, <1>8, <1>9, <1>10, <1>11 DEF Receive

\* The messages that the runner sends in a step of its own
LEMMA RunnerMessages ==
  ASSUME NEW c \in {"next", "abort", "success", "start_upload"}
  PROVE  Msg(c, {}) \in Messages
         /\ ForBrowser(Msg(c, {})) = IF c \in {"next", "start_upload"} THEN 1 ELSE 0
  BY MsgType DEF Msg, Commands, ForBrowser

\* A segment's task has nothing to do with batches.
LEMMA SegmentPasses ==
  ASSUME SizesFit, TypeOK, TypeOK', NEW s \in Segments,
         Segment(s) \/ RetryChunk(s) \/ PutRefused(s) \/ PutRaises(s)
  PROVE  handler' = handler /\ Coming' <= Coming
  <1> USE DEF browser, upload, segs, store
  <1>0. /\ handler' = handler /\ sending' <= sending
        /\ AtRunner' <= AtRunner /\ Creating' <= Creating
    <2>1. UNCHANGED <<toRunner, handler, sending>>
      BY DEF Segment, StartPut, StopWaiting, YieldChunk, EndBody, PutStored,
             RetryChunk, PutRefused, PutRaises
    <2>2. AtRunner' = AtRunner /\ Creating' = Creating
      BY <2>1 DEF AtRunner, Creating, Count
    <2> QED  BY <2>1, <2>2, BatchCount
  <1>1. /\ AtRunner \in Nat /\ AtBrowser \in Nat /\ sending \in Nat
        /\ AtBrowser' \in Nat /\ Creating \in Nat
    BY BatchCount, BatchCountNext
  <1>2. AtBrowser' <= AtBrowser
    <2>1. CASE UNCHANGED toBrowser
      <3>1. AtBrowser' = AtBrowser
        BY <2>1 DEF AtBrowser, Count
      <3> QED  BY <1>1, <3>1
    <2>2. CASE RetryChunk(s)
      <3>1. NextChunk(s) \in SegmentChunks(Total, s)
        BY <2>2, SegmentsAreChunks DEF RetryChunk, NextChunk, SegmentChunks, SegEnd, TypeOK
      <3>2. Msg("retry_chunk", {NextChunk(s)}) \in Messages
            /\ ForBrowser(Msg("retry_chunk", {NextChunk(s)})) = 0
        BY <3>1, SegmentsAreChunks, MsgType DEF Msg, Commands, ForBrowser
      <3>3. ToBrowser(<<>>) \/ ToBrowser(<<Msg("retry_chunk", {NextChunk(s)})>>)
        BY <2>2 DEF RetryChunk
      <3>4. ASSUME ToBrowser(<<Msg("retry_chunk", {NextChunk(s)})>>)
            PROVE  AtBrowser' <= AtBrowser + 0
        BY <3>2, <3>4, BrowserSent
      <3> QED  BY <1>1, <3>3, <3>4, BrowserSentNothing
    <2>3. CASE AfterPut(s)
      <3>1. UNCHANGED toBrowser \/ ToBrowser(<<>>) \/ ToBrowser(<<Msg("success", {})>>)
        BY <2>3 DEF AfterPut
      <3> QED  BY <1>1, <2>1, <3>1, RunnerMessages, BrowserSent, BrowserSentNothing
    <2> QED  BY <2>1, <2>2, <2>3
             DEF Segment, StartPut, StopWaiting, YieldChunk, EndBody, PutStored,
                 PutRefused, PutRaises
  <1> QED  BY <1>0, <1>1, <1>2, ComingKept

\* "next", if the browser can be told, takes the place of the batch.
LEMMA NextSent ==
  ASSUME SizesFit, TypeOK, TypeOK', NEW cache, SendNext(cache)
  PROVE  /\ handler' \in {"idle", "dead"} /\ AtBrowser' <= AtBrowser + 1
         /\ Cardinality(cache) <= Q_DEPTH
  <1>1. /\ Cardinality(cache) <= Q_DEPTH /\ handler' \in {"idle", "dead"}
        /\ ToBrowser(<<>>) \/ ToBrowser(<<Msg("next", {})>>)
    BY DEF SendNext
  <1>2. AtBrowser \in Nat
    BY BatchCount
  <1> QED  BY <1>1, <1>2, RunnerMessages, BrowserSent, BrowserSentNothing

LEMMA InitPasses ==
  ASSUME SizesFit, TypeOK, TypeOK', InitUpload
  PROVE  Waiting' = 0 /\ Coming' <= Coming
  <1>1. /\ handler = "creating" /\ handler' \in {"idle", "dead"}
        /\ UNCHANGED <<toRunner, sending>>
    BY DEF InitUpload, browser
  <1>2. AtRunner' = AtRunner /\ Creating = 1 /\ Creating' = 0 /\ Waiting' = 0
    BY <1>1 DEF AtRunner, Creating, Waiting, Count
  <1>3. AtRunner \in Nat /\ AtBrowser \in Nat /\ AtBrowser' \in Nat /\ sending \in Nat
    BY BatchCount, BatchCountNext
  <1> DEFINE a == Msg("abort", {})
             b == Msg("start_upload", {})
  <1>4. a \in Messages /\ b \in Messages /\ ForBrowser(a) = 0 /\ ForBrowser(b) = 1
    BY RunnerMessages
  <1>5. \/ UNCHANGED toBrowser \/ ToBrowser(<<>>) \/ ToBrowser(<<a>>)
        \/ ToBrowser(<<b>>) \/ ToBrowser(<<a>> \o <<b>>)
    <2>1. <<a>> \o <<>> = <<a>> /\ <<>> \o <<b>> = <<b>>
      <3> HIDE DEF a, b
      <3>1. <<a>> \in Seq(Messages) /\ <<b>> \in Seq(Messages)
        BY <1>4
      <3>2. <<a>> \o <<>> = <<a>>
        BY <1>4, <3>1
      <3>3. <<>> \o <<b>> = <<b>>
        BY <1>4, <3>1
      <3> QED  BY <3>2, <3>3
    <2>2. <<>> \o <<>> = <<>>
      OBVIOUS
    <2> QED  BY <2>1, <2>2 DEF InitUpload
  <1> HIDE DEF a, b
  <1>6. AtBrowser' <= AtBrowser + 1
    <2>1. CASE UNCHANGED toBrowser
      <3>1. AtBrowser' = AtBrowser
        BY <2>1 DEF AtBrowser, Count
      <3> QED  BY <1>3, <3>1
    <2>2. CASE ToBrowser(<<>>) \/ ToBrowser(<<a>>) \/ ToBrowser(<<b>>)
      BY <1>3, <1>4, <2>2, BrowserSent, BrowserSentNothing
    <2>3. CASE toBrowser' = toBrowser \o (<<a>> \o <<b>>)
      <3>1. toBrowser \in Seq(Messages) /\ Append(toBrowser, a) \in Seq(Messages)
        BY <1>4 DEF TypeOK
      <3>5. toBrowser \o (<<a>> \o <<b>>) = Append(Append(toBrowser, a), b)
        BY <1>4, <3>1
      <3>2. AtBrowser' = Count(toBrowser', "start_upload") + Count(toBrowser', "next")
        BY DEF AtBrowser, Count
      <3>3. AtBrowser' = Count(Append(toBrowser, a), "start_upload")
                           + Count(Append(toBrowser, a), "next") + 1
        BY <1>4, <2>3, <3>1, <3>2, <3>5, QueueForBrowser
      <3>4. Count(Append(toBrowser, a), "start_upload") + Count(Append(toBrowser, a), "next")
              = AtBrowser + 0
        BY <1>4, QueueForBrowser DEF TypeOK, AtBrowser
      <3> QED  BY <1>3, <3>3, <3>4
    <2> QED  BY <1>5, <2>1, <2>2, <2>3 DEF ToBrowser
  <1>7. AtRunner' <= AtRunner /\ sending' <= sending /\ Creating' <= Creating - 1
    BY <1>1, <1>2, <1>3
  <1> QED  BY <1>2, <1>6, <1>7, ComingPassed

\* The handlers pass it on, too.  The only one that asks for the next batch with
\* the last one in the cache is that of add_chunks, once the cache has space.
LEMMA ChunksPass ==
  ASSUME SizesFit, TypeOK, TypeOK', HandleChunks
  PROVE  /\ Coming' + Waiting' <= Coming + Waiting
         /\ Coming' <= Coming - 1 \/ Cardinality(chunk_cache') <= Q_DEPTH
  <1>1. /\ handler = "idle" /\ handler' \in {"idle", "waiting", "dead"}
        /\ sending' = sending
        /\ \/ SendNext(chunk_cache')
           \/ UNCHANGED toBrowser
    BY DEF HandleChunks, Handles, SendNext, browser
  <1>2. /\ sending' <= sending /\ Creating' <= Creating
        /\ Waiting' <= Waiting + 1
        /\ handler' # "waiting" => Waiting' <= Waiting
    BY <1>1, BatchCount DEF Creating, Waiting
  <1>3. AtRunner' <= AtRunner - 1
    BY RunnerTakes, BatchCount, BatchCountNext DEF HandleChunks
  <1>4. CASE UNCHANGED toBrowser
    <2>1. AtBrowser' <= AtBrowser
      <3>1. AtBrowser' = AtBrowser
        BY <1>4 DEF AtBrowser, Count
      <3> QED  BY <3>1, BatchCount
    <2>2. Coming' <= Coming - 1
      BY <1>2, <1>3, <2>1, ComingChanges
    <2> QED  BY <1>2, <2>2, InAllKept
  <1>5. CASE SendNext(chunk_cache')
    <2>1. /\ handler' # "waiting" /\ AtBrowser' <= AtBrowser + 1
          /\ Cardinality(chunk_cache') <= Q_DEPTH
      BY <1>5, NextSent
    <2>2. Coming' <= Coming
      BY <1>2, <1>3, <2>1, ComingPassed
    <2> QED  BY <1>2, <2>1, <2>2, InAllKept
  <1> QED  BY <1>1, <1>4, <1>5

LEMMA WaitPasses ==
  ASSUME SizesFit, TypeOK, TypeOK', WaitForCache
  PROVE  /\ Coming' + Waiting' <= Coming + Waiting
         /\ Coming' <= Coming \/ Cardinality(chunk_cache) <= Q_DEPTH
  <1>1. /\ handler = "waiting" /\ UNCHANGED <<toRunner, sending>>
        /\ \/ SendNext(chunk_cache)
           \/ handler' = "idle" /\ UNCHANGED toBrowser
    BY DEF WaitForCache, browser
  <1>2. AtRunner' = AtRunner
    BY <1>1 DEF AtRunner, Count
  <1>3. AtRunner' <= AtRunner /\ sending' <= sending
    BY <1>1, <1>2, BatchCount
  <1>4. CASE handler' = "idle" /\ UNCHANGED toBrowser
    <2>1. AtBrowser' = AtBrowser /\ Creating' <= Creating /\ Waiting' <= Waiting
      BY <1>1, <1>4 DEF AtBrowser, Count, Creating, Waiting
    <2>2. Coming' <= Coming
      BY <1>3, <2>1, BatchCount, ComingKept
    <2> QED  BY <2>1, <2>2, InAllKept
  <1>5. CASE SendNext(chunk_cache)
    <2>1. /\ handler' \in {"idle", "dead"} /\ AtBrowser' <= AtBrowser + 1
          /\ Cardinality(chunk_cache) <= Q_DEPTH
      BY <1>5, NextSent
    <2>2. Creating' <= Creating /\ Waiting' <= Waiting - 1
      BY <1>1, <2>1 DEF Creating, Waiting
    <2>3. Coming' <= Coming + 1
      BY <1>3, <2>1, <2>2, ComingChanges
    <2> QED  BY <2>1, <2>2, <2>3, InAllKept
  <1> QED  BY <1>1, <1>4, <1>5

LEMMA OthersPass ==
  ASSUME SizesFit, TypeOK, TypeOK', Handler, ~HandleChunks, ~WaitForCache
  PROVE  Coming' <= Coming /\ Coming' + Waiting' <= Coming + Waiting
  <1> USE DEF browser, upload, segs, store
  <1>1. CASE InitUpload
    <2>1. Coming' <= Coming /\ Waiting' = 0
      BY <1>1, InitPasses
    <2> QED  BY <2>1, BatchCount, InAllKept
  <1>2. CASE HandleBegin
    <2>1. AtRunner' = AtRunner - 1
      BY <1>2, RunnerTakes DEF HandleBegin
    <2>2. AtBrowser' = AtBrowser /\ sending' = sending /\ Creating' = Creating + 1
          /\ Waiting' <= Waiting
      BY <1>2 DEF HandleBegin, Handles, AtBrowser, Count, Creating, Waiting
    <2>3. AtRunner' <= AtRunner - 1 /\ AtBrowser' <= AtBrowser /\ sending' <= sending
          /\ Creating' <= Creating + 1
      BY <2>1, <2>2, BatchCount
    <2> QED  BY <2>2, <2>3, ComingPassed, InAllKept
  <1>3. CASE ~InitUpload /\ ~HandleBegin
    <2>1. /\ handler \notin {"creating", "waiting"}
          /\ handler' \notin {"creating", "waiting"}
          /\ sending' = sending
          /\ UNCHANGED toRunner \/ \E c \in {"add_chunk", "finish", "cancel"} : Handles(c)
          /\ UNCHANGED toBrowser \/ ToBrowser(<<>>) \/ ToBrowser(<<Msg("abort", {})>>)
      BY <1>3 DEF Handler, HandleChunk, HandleFinish, FinishGather, FinishManifest,
                  HandleCancel, AbortGather, AbortDelete, HandlerEnds, Handles
    <2>2. Creating' <= Creating /\ Waiting' <= Waiting /\ sending' <= sending
      BY <2>1, BatchCount DEF Creating, Waiting
    <2>3. AtRunner' <= AtRunner
      <3>1. CASE UNCHANGED toRunner
        <4>1. AtRunner' = AtRunner
          BY <3>1 DEF AtRunner, Count
        <4> QED  BY <4>1, BatchCount
      <3>2. ASSUME NEW c \in {"add_chunk", "finish", "cancel"}, Handles(c)
            PROVE  AtRunner' <= AtRunner
        BY <3>2, RunnerTakes, BatchCount
      <3> QED  BY <2>1, <3>1, <3>2
    <2>4. AtBrowser' <= AtBrowser
      <3>1. CASE UNCHANGED toBrowser
        <4>1. AtBrowser' = AtBrowser
          BY <3>1 DEF AtBrowser, Count
        <4> QED  BY <4>1, BatchCount
      <3>2. CASE ToBrowser(<<>>)
        BY <3>2, BrowserSentNothing, BatchCount
      <3>3. CASE ToBrowser(<<Msg("abort", {})>>)
        <4>1. AtBrowser' <= AtBrowser + 0
          BY <3>3, RunnerMessages, BrowserSent
        <4> QED  BY <4>1, BatchCount
      <3> QED  BY <2>1, <3>1, <3>2, <3>3
    <2> QED  BY <2>2, <2>3, <2>4, ComingKept, InAllKept
  <1> QED  BY <1>1, <1>2, <1>3

\* No step makes two batches of one.
LEMMA BatchStep ==
  ASSUME SizesFit, TypeOK, TypeOK', [Next]_vars
  PROVE  /\ Coming' + Waiting' <= Coming + Waiting
         /\ \/ Coming' <= Coming
            \/ WaitForCache /\ Cardinality(chunk_cache) <= Q_DEPTH
            \/ HandleChunks /\ Cardinality(chunk_cache') <= Q_DEPTH
         /\ HandleChunks => Coming' <= Coming - 1 \/ Cardinality(chunk_cache') <= Q_DEPTH
  <1>0. /\ Coming \in Nat /\ Coming' \in Nat /\ Waiting \in Nat
        /\ Coming' <= Coming - 1 => Coming' <= Coming
    BY BatchCount, BatchCountNext
  <1>1. ASSUME handler' = handler, Coming' <= Coming
        PROVE  Coming' + Waiting' <= Coming + Waiting
    <2>1. Waiting' = Waiting
      BY <1>1 DEF Waiting
    <2>2. Waiting' <= Waiting
      BY <1>0, <2>1
    <2> QED  BY <1>1, <2>2, InAllKept
  <1>2. CASE UNCHANGED vars
    <2>1. handler' = handler /\ Coming' = Coming /\ ~HandleChunks
      BY <1>2 DEF vars, browser, Coming, AtRunner, AtBrowser, Creating, Count,
                  HandleChunks, Handles, TypeOK
    <2>2. Coming' <= Coming
      BY <1>0, <2>1
    <2> QED  BY <1>1, <2>1, <2>2
  <1>3. CASE HandleChunks
    BY <1>0, <1>3, ChunksPass
  <1>4. CASE ~HandleChunks /\ WaitForCache
    BY <1>4, WaitPasses
  <1>5. CASE ~HandleChunks /\ ~WaitForCache /\ Handler
    BY <1>5, OthersPass
  <1>6. CASE ~HandleChunks /\ ~Handler /\ Next
    <2>1. handler' = handler /\ Coming' <= Coming
      BY <1>6, BrowserPasses, SegmentPasses DEF Next
    <2> QED  BY <1>1, <1>6, <2>1
  <1> QED  BY <1>2, <1>3, <1>4, <1>5, <1>6

FlowInv == Coming + Waiting <= 1

LEMMA FlowInit == ASSUME SizesFit, Init PROVE FlowInv
  <1>1. TypeOK /\ Msg("start_upload", {}) \in Messages /\ <<>> \in Seq(Messages)
    BY TypeInit, MsgType DEF Commands
  <1>2. toRunner = Append(<<>>, Msg("start_upload", {})) /\ toBrowser = <<>>
    BY <1>1 DEF Init
  <1>3. \A c : Count(toRunner, c) = IF c = "start_upload" THEN 1 ELSE 0
    <2> SUFFICES ASSUME NEW c PROVE Count(toRunner, c) = IF c = "start_upload" THEN 1 ELSE 0
      OBVIOUS
    <2>1. Count(toRunner, c) = 0 + IF Msg("start_upload", {}).command = c THEN 1 ELSE 0
      BY <1>1, <1>2, CountAppend, CountEmpty
    <2> QED  BY <2>1 DEF Msg
  <1>4. \A c : Count(toBrowser, c) = 0
    BY <1>2, CountEmpty
  <1>5. AtRunner = 1 /\ AtBrowser = 0 /\ sending = 0 /\ Creating = 0 /\ Waiting = 0
    BY <1>3, <1>4 DEF Init, AtRunner, AtBrowser, Creating, Waiting
  <1> QED  BY <1>5 DEF FlowInv, Coming

LEMMA FlowStep ==
  ASSUME SizesFit, TypeOK, TypeOK', FlowInv, [Next]_vars
  PROVE  FlowInv'
  <1>1. Coming' + Waiting' <= Coming + Waiting
    BY BatchStep
  <1>2. Coming \in Nat /\ Waiting \in Nat /\ Coming' \in Nat /\ Waiting' \in Nat
    BY BatchCount, BatchCountNext
  <1>3. ASSUME NEW m \in Nat, NEW w \in Nat, NEW m1 \in Nat, NEW w1 \in Nat,
               m1 + w1 <= m + w, m + w <= 1
        PROVE  m1 + w1 <= 1
    BY <1>3
  <1> QED  BY <1>1, <1>2, <1>3 DEF FlowInv

LEMMA FlowInvariant == ASSUME SizesFit PROVE Spec => [](TypeOK /\ FlowInv)
  <1>1. Init => TypeOK /\ FlowInv  BY TypeInit, FlowInit
  <1>2. TypeOK /\ FlowInv /\ [Next]_vars => (TypeOK /\ FlowInv)'
    BY TypeStep, FlowStep
  <1> QED  BY <1>1, <1>2, PTL DEF Spec

\* The browser has one batch to read at a time, whatever fails and however often
\* chunks are asked for again: a batch is only asked for when the last has come.
THEOREM BatchesTakeTurns == ASSUME SizesFit PROVE Spec => []OneBatch
  <1>1. TypeOK /\ FlowInv => OneBatch
    BY BatchCount DEF FlowInv
  <1> QED  BY <1>1, FlowInvariant, PTL

-----------------------------------------------------------------------------
(* The cache is bounded *)

\* The chunks that the slicers wait for or yield next
Awaited == {NextChunk(s) : s \in Segments}

\* A slicer has asked for the chunk only if it has yielded it since, or needs it.
Asked == done_chunks \cup Awaited

\* A batch is no larger than BATCH, a chunk sent again is one that was asked for
Sound == {m \in Messages :
            /\ m.command = "add_chunks" => Cardinality(m.chunks) <= BATCH
            /\ m.command \in {"add_chunk", "retry_chunk"} => m.chunks \subseteq Asked}

AskedInv == /\ toRunner \in Seq(Sound) /\ toBrowser \in Seq(Sound)
            /\ \A i \in Chunks : retryReads[i] > 0 => i \in Asked

\* The part of the cache that the batches have to answer for
Surplus == chunk_cache \ Awaited

\* While a batch is to come, the cache has space for it.
SurplusInv == /\ Cardinality(Surplus) <= Q_DEPTH + BATCH
              /\ Coming > 0 => Cardinality(Surplus) <= Q_DEPTH

LEMMA CacheSteps ==
  ASSUME [Next]_vars
  PROVE  \/ UNCHANGED <<chunk_cache, done_chunks, sent>>
         \/ HandleChunks \/ HandleChunk
         \/ \E s \in Segments : YieldChunk(s)
  <1> USE DEF vars, browser, upload, segs, store
  <1>1. CASE Handler
    BY <1>1 DEF Handler, HandleBegin, InitUpload, WaitForCache, HandleFinish,
                FinishGather, FinishManifest, HandleCancel, AbortGather,
                AbortDelete, HandlerEnds
  <1>2. CASE \/ Receive \/ SendChunks \/ Cancel \/ ConnectionLost
            \/ \E i \in Chunks : RetryChunkRead(i)
    BY <1>2 DEF Receive, RecvStartOrNext, RecvRetryChunk, RecvSuccess, RecvAbort,
                SendChunks, Cancel, ConnectionLost, RetryChunkRead
  <1>3. CASE \E s \in Segments : \/ Segment(s) \/ RetryChunk(s)
                                 \/ PutRefused(s) \/ PutRaises(s)
    BY <1>3 DEF Segment, StartPut, StopWaiting, EndBody, PutStored, RetryChunk,
                PutRefused, PutRaises
  <1> QED  BY <1>1, <1>2, <1>3 DEF Next

\* What a slicer yields, it has waited for; what waited on, waits on.
LEMMA YieldAwaited ==
  ASSUME SizesFit, TypeOK, NEW s \in Segments, YieldChunk(s)
  PROVE  /\ Awaited \subseteq Awaited' \cup {NextChunk(s)}
         /\ done_chunks' = done_chunks \cup {NextChunk(s)}
         /\ chunk_cache' = chunk_cache \ {NextChunk(s)}
  <1>1. \A t \in Segments \ {s} : NextChunk(t)' = NextChunk(t)
    BY DEF YieldChunk, NextChunk, TypeOK
  <1>2. \A t \in Segments \ {s} : NextChunk(t) \in Awaited'
    BY <1>1 DEF Awaited
  <1> QED  BY <1>2 DEF Awaited, YieldChunk

LEMMA AskedGrows ==
  ASSUME SizesFit, TypeOK, [Next]_vars
  PROVE  Asked \subseteq Asked' /\ Sound \subseteq Sound'
  <1>1. Asked \subseteq Asked'
    <2>1. CASE UNCHANGED <<done_chunks, sent>>
      BY <2>1 DEF Asked, Awaited, NextChunk
    <2>2. ASSUME NEW s \in Segments, YieldChunk(s) PROVE Asked \subseteq Asked'
      BY <2>2, YieldAwaited DEF Asked
    <2> QED  BY <2>1, <2>2, ChunkSteps
  <1> QED  BY <1>1 DEF Sound

LEMMA SoundKept ==
  ASSUME AskedInv, Sound \subseteq Sound', Asked \subseteq Asked'
  PROVE  /\ toRunner \in Seq(Sound') /\ toBrowser \in Seq(Sound')
         /\ \A i \in Chunks : retryReads[i] > 0 => i \in Asked'
  BY DEF AskedInv

\* Messages that bring no chunks are sound.
LEMMA SoundEmpty ==
  ASSUME NEW c \in Commands
  PROVE  Msg(c, {}) \in Sound
  <1>1. Msg(c, {}) \in Messages /\ Msg(c, {}).chunks = {}
    BY MsgType DEF Msg
  <1>2. Cardinality({}) <= BATCH
    BY FS_EmptySet, FileAssumption
  <1> QED  BY <1>1, <1>2 DEF Sound

LEMMA BrowserAsks ==
  ASSUME SizesFit, TypeOK, AskedInv, [Next]_vars,
         \/ Receive \/ SendChunks \/ Cancel \/ ConnectionLost
         \/ \E i \in Chunks : RetryChunkRead(i)
  PROVE  AskedInv'
  <1> USE DEF browser, upload, segs, store
  <1>1. /\ Sound \subseteq Sound' /\ toRunner \in Seq(Sound') /\ toBrowser \in Seq(Sound')
        /\ \A i \in Chunks : retryReads[i] > 0 => i \in Asked'
    BY AskedGrows, SoundKept
  <1>2. ASSUME NEW m \in Sound', ToRunner(m) PROVE toRunner' \in Seq(Sound')
    BY <1>1, <1>2 DEF ToRunner
  <1>3. ASSUME NEW c, Receives(c) PROVE toBrowser' \in Seq(Sound') /\ Head(toBrowser) \in Sound'
    BY <1>1, <1>3 DEF Receives
  <1>4. CASE RecvStartOrNext
    BY <1>1, <1>3, <1>4 DEF RecvStartOrNext, AskedInv
  <1>5. CASE RecvRetryChunk
    <2>1. toBrowser' \in Seq(Sound') /\ UNCHANGED toRunner
      BY <1>3, <1>5 DEF RecvRetryChunk
    <2>2. Head(toBrowser) \in Sound /\ Head(toBrowser).command = "retry_chunk"
      BY <1>5 DEF RecvRetryChunk, Receives, AskedInv
    <2>3. Head(toBrowser).chunks \subseteq Asked
      BY <2>2 DEF Sound
    <2>4. Head(toBrowser).chunks \subseteq Asked'
      BY <2>3, AskedGrows
    <2>5. \A i \in Chunks : retryReads'[i] > 0 =>
                              retryReads[i] > 0 \/ i \in Head(toBrowser).chunks
      BY <1>5 DEF RecvRetryChunk, TypeOK
    <2> QED  BY <1>1, <2>1, <2>4, <2>5 DEF AskedInv
  <1>6. CASE RecvSuccess
    <2>1. Msg("finish", {}) \in Sound'
      BY <1>1, SoundEmpty DEF Commands
    <2> QED  BY <1>1, <1>2, <1>3, <1>6, <2>1 DEF RecvSuccess, AskedInv
  <1>7. CASE RecvAbort
    BY <1>1, <1>3, <1>7 DEF RecvAbort, AskedInv
  <1>8. CASE SendChunks
    <2>1. PICK batch \in SUBSET Chunks :
            Cardinality(batch) <= BATCH /\ ToRunner(Msg("add_chunks", batch))
      BY <1>8, BatchSent
    <2>2. Msg("add_chunks", batch) \in Sound
      BY <2>1, MsgType DEF Msg, Commands, Sound
    <2>3. toRunner' \in Seq(Sound')
      BY <1>1, <1>2, <2>1, <2>2
    <2> QED  BY <1>1, <1>8, <2>3 DEF SendChunks, AskedInv
  <1>9. CASE Cancel
    <2>1. Msg("cancel", {}) \in Sound'
      BY <1>1, SoundEmpty DEF Commands
    <2> QED  BY <1>1, <1>2, <1>9, <2>1 DEF Cancel, AskedInv
  <1>10. CASE ConnectionLost
    BY <1>1, <1>10 DEF ConnectionLost, AskedInv
  <1>11. ASSUME NEW i \in Chunks, RetryChunkRead(i) PROVE AskedInv'
    <2>1. i \in Asked
      BY <1>11 DEF RetryChunkRead, AskedInv
    <2>2. Msg("add_chunk", {i}) \in Sound
      BY <2>1, MsgType DEF Msg, Commands, Sound
    <2>3. toRunner' \in Seq(Sound')
      BY <1>1, <1>2, <1>11, <2>2 DEF RetryChunkRead
    <2>4. \A j \in Chunks : retryReads'[j] > 0 => retryReads[j] > 0
      BY <1>11 DEF RetryChunkRead, TypeOK
    <2> QED  BY <1>1, <1>11, <2>3, <2>4 DEF RetryChunkRead, AskedInv
  <1> QED  BY <1>4, <1>5, <1>6, <1>7, <1>8, <1>9, <1>10, <1>11 DEF Receive

LEMMA RunnerAsks ==
  ASSUME SizesFit, TypeOK, AskedInv, [Next]_vars,
         \/ Handler \/ UNCHANGED vars
         \/ \E s \in Segments : \/ Segment(s) \/ RetryChunk(s)
                              \/ PutRefused(s) \/ PutRaises(s)
  PROVE  AskedInv'
  <1> USE DEF browser, upload, segs, store
  <1>1. /\ Sound \subseteq Sound' /\ toRunner \in Seq(Sound') /\ toBrowser \in Seq(Sound')
        /\ \A i \in Chunks : retryReads[i] > 0 => i \in Asked'
    BY AskedGrows, SoundKept
  <1>2. retryReads' = retryReads
    BY DEF vars, Handler, HandleBegin, InitUpload, HandleChunks, WaitForCache,
           HandleChunk, HandleFinish, FinishGather, FinishManifest, HandleCancel,
           AbortGather, AbortDelete, HandlerEnds, Segment, StartPut, StopWaiting,
           YieldChunk, EndBody, PutStored, RetryChunk, PutRefused, PutRaises
  <1>3. toRunner' \in Seq(Sound')
    <2>1. UNCHANGED toRunner \/ \E c : Handles(c)
      BY DEF vars, Handler, HandleBegin, InitUpload, HandleChunks, WaitForCache,
             HandleChunk, HandleFinish, FinishGather, FinishManifest, HandleCancel,
             AbortGather, AbortDelete, HandlerEnds, Segment, StartPut, StopWaiting,
             YieldChunk, EndBody, PutStored, RetryChunk, PutRefused, PutRaises
    <2> QED  BY <1>1, <2>1 DEF Handles
  <1>4. ASSUME NEW ms \in Seq(Sound'), ToBrowser(ms) PROVE toBrowser' \in Seq(Sound')
    BY <1>1, <1>4 DEF ToBrowser
  <1>5. /\ <<>> \in Seq(Sound')
        /\ \A c \in Commands : <<Msg(c, {})>> \in Seq(Sound')
    BY <1>1, SoundEmpty
  <1>6. toBrowser' \in Seq(Sound')
    <2>1. CASE UNCHANGED toBrowser
      BY <1>1, <2>1
    <2>2. CASE InitUpload
      <3> DEFINE Sends(ok, raises) ==
                   (IF ok THEN <<>> ELSE <<Msg("abort", {})>>) \o
                   (IF raises THEN <<>> ELSE <<Msg("start_upload", {})>>)
      <3>1. ASSUME NEW ok, NEW raises PROVE Sends(ok, raises) \in Seq(Sound')
        <4>1. (IF ok THEN <<>> ELSE <<Msg("abort", {})>>) \in Seq(Sound')
          BY <1>5 DEF Commands
        <4>2. (IF raises THEN <<>> ELSE <<Msg("start_upload", {})>>) \in Seq(Sound')
          BY <1>5 DEF Commands
        <4> QED  BY <4>1, <4>2
      <3>2. UNCHANGED toBrowser \/ \E ok, raises : ToBrowser(Sends(ok, raises))
        BY <2>2 DEF InitUpload
      <3> HIDE DEF Sends
      <3> QED  BY <1>4, <2>1, <3>1, <3>2
    <2>3. ASSUME NEW s \in Segments, RetryChunk(s) PROVE toBrowser' \in Seq(Sound')
      <3>1. NextChunk(s) \in SegmentChunks(Total, s)
        BY <2>3, SegmentsAreChunks DEF RetryChunk, NextChunk, SegmentChunks, SegEnd, TypeOK
      <3>2. NextChunk(s) \in Asked
        BY DEF Asked, Awaited
      <3>3. Msg("retry_chunk", {NextChunk(s)}) \in Sound
        BY <3>1, <3>2, SegmentsAreChunks, MsgType DEF Msg, Commands, Sound
      <3>4. <<Msg("retry_chunk", {NextChunk(s)})>> \in Seq(Sound')
        BY <1>1, <3>3
      <3> QED  BY <1>4, <1>5, <2>3, <3>4 DEF RetryChunk
    <2>4. CASE \/ ToBrowser(<<>>)
              \/ \E c \in {"next", "abort", "success"} : ToBrowser(<<Msg(c, {})>>)
      BY <1>4, <1>5, <2>4 DEF Commands
    <2>5. ASSUME NEW s \in Segments, AfterPut(s)
          PROVE  \/ UNCHANGED toBrowser \/ ToBrowser(<<>>)
                 \/ ToBrowser(<<Msg("success", {})>>)
      BY <2>5 DEF AfterPut
    <2>6. CASE Handler
      BY <2>1, <2>2, <2>4, <2>6
      DEF Handler, HandleBegin, HandleChunks, WaitForCache, SendNext, HandleChunk,
          HandleFinish, FinishGather, FinishManifest, HandleCancel, AbortGather,
          AbortDelete, HandlerEnds
    <2>7. CASE \E s \in Segments : \/ Segment(s) \/ RetryChunk(s)
                                  \/ PutRefused(s) \/ PutRaises(s)
      BY <2>1, <2>3, <2>4, <2>5, <2>7
      DEF Segment, StartPut, StopWaiting, YieldChunk, EndBody, PutStored, PutRefused,
          PutRaises
    <2> QED  BY <2>1, <2>6, <2>7 DEF vars
  <1> QED  BY <1>1, <1>2, <1>3, <1>6 DEF AskedInv

LEMMA AskedStep ==
  ASSUME SizesFit, TypeOK, AskedInv, [Next]_vars PROVE AskedInv'
BY BrowserAsks, RunnerAsks DEF Next

LEMMA CacheFinite ==
  ASSUME SizesFit, TypeOK, NEW S \in SUBSET Chunks
  PROVE  IsFiniteSet(S) /\ Cardinality(S) \in Nat
  <1>1. IsFiniteSet(Chunks)
    BY SegmentsAreChunks, FS_Interval DEF Chunks
  <1> QED  BY <1>1, FS_Subset, FS_CardinalityType

LEMMA SurplusShrinks ==
  ASSUME SizesFit, TypeOK, TypeOK', Surplus' \subseteq Surplus
  PROVE  Cardinality(Surplus') <= Cardinality(Surplus)
         /\ Cardinality(Surplus) \in Nat /\ Cardinality(Surplus') \in Nat
  <1>1. Surplus \in SUBSET Chunks /\ Surplus' \in SUBSET Chunks
    BY DEF Surplus, TypeOK
  <1>2. IsFiniteSet(Surplus) /\ Cardinality(Surplus) \in Nat /\ Cardinality(Surplus') \in Nat
    BY <1>1, CacheFinite
  <1> QED  BY <1>2, FS_Subset

\* Only a batch adds to the surplus.
LEMMA SurplusSteps ==
  ASSUME SizesFit, TypeOK, TypeOK', AskedInv, [Next]_vars
  PROVE  Surplus' \subseteq Surplus \/ HandleChunks
  <1>1. CASE UNCHANGED <<chunk_cache, done_chunks, sent>>
    BY <1>1 DEF Surplus, Awaited, NextChunk
  <1>2. CASE HandleChunk
    <2>1. UNCHANGED <<sent, done_chunks>>
          /\ chunk_cache' \subseteq chunk_cache \cup (Head(toRunner).chunks \ done_chunks)
      BY <1>2 DEF HandleChunk, AddToChunks, segs
    <2>2. Head(toRunner) \in Sound /\ Head(toRunner).command = "add_chunk"
      BY <1>2 DEF HandleChunk, Handles, AskedInv
    <2>3. Head(toRunner).chunks \ done_chunks \subseteq Awaited
      BY <2>2 DEF Sound, Asked
    <2>4. Awaited' = Awaited
      BY <2>1 DEF Awaited, NextChunk
    <2> QED  BY <2>1, <2>3, <2>4 DEF Surplus
  <1>3. ASSUME NEW s \in Segments, YieldChunk(s) PROVE Surplus' \subseteq Surplus
    BY <1>3, YieldAwaited DEF Surplus
  <1> QED  BY <1>1, <1>2, <1>3, CacheSteps

LEMMA BatchAdds ==
  ASSUME SizesFit, TypeOK, TypeOK', AskedInv, HandleChunks
  PROVE  /\ Cardinality(Surplus') <= Cardinality(Surplus) + BATCH
         /\ Coming > 0
  <1>1. Head(toRunner) \in Sound /\ Head(toRunner).command = "add_chunks"
    BY DEF HandleChunks, Handles, AskedInv
  <1> DEFINE batch == Head(toRunner).chunks
  <1>2. batch \in SUBSET Chunks /\ Cardinality(batch) <= BATCH
    BY <1>1 DEF Sound, Messages
  <1>3. Surplus' \subseteq Surplus \cup batch
    BY DEF HandleChunks, AddToChunks, Surplus, Awaited, NextChunk, segs
  <1>4. Surplus \in SUBSET Chunks
    BY DEF Surplus, TypeOK
  <1> HIDE DEF batch
  <1>5. /\ IsFiniteSet(Surplus) /\ IsFiniteSet(batch) /\ IsFiniteSet(Surplus \cup batch)
        /\ Cardinality(Surplus) \in Nat /\ Cardinality(batch) \in Nat
        /\ Cardinality(Surplus \cap batch) \in Nat
        /\ Cardinality(Surplus \cup batch) \in Nat
    BY <1>2, <1>4, CacheFinite
  <1>6. Cardinality(Surplus \cup batch) <= Cardinality(Surplus) + BATCH
    <2>1. Cardinality(Surplus \cup batch)
            = Cardinality(Surplus) + Cardinality(batch) - Cardinality(Surplus \cap batch)
      BY <1>5, FS_Union
    <2> QED  BY <1>2, <1>5, <2>1, FileAssumption
  <1>7. Cardinality(Surplus') \in Nat /\ Cardinality(Surplus') <= Cardinality(Surplus \cup batch)
    <2>1. IsFiniteSet(Surplus') /\ Cardinality(Surplus') <= Cardinality(Surplus \cup batch)
      BY <1>3, <1>5, FS_Subset
    <2> QED  BY <2>1, FS_CardinalityType
  <1>8. Coming > 0
    <2>1. AtRunner >= 1
      <3>1. AtRunner' = AtRunner - 1
        BY RunnerTakes DEF HandleChunks
      <3> QED  BY <3>1, BatchCount, BatchCountNext
    <2> QED  BY <2>1, BatchCount DEF Coming
  <1> QED  BY <1>5, <1>6, <1>7, <1>8, FileAssumption

LEMMA SurplusStep ==
  ASSUME SizesFit, TypeOK, TypeOK', FlowInv, AskedInv, SurplusInv, [Next]_vars
  PROVE  SurplusInv'
  <1>0. /\ Coming \in Nat /\ Coming' \in Nat /\ Coming <= 1
        /\ Q_DEPTH \in Nat /\ BATCH \in Nat
    BY BatchCount, BatchCountNext, FileAssumption DEF FlowInv
  <1>1. /\ chunk_cache \in SUBSET Chunks /\ chunk_cache' \in SUBSET Chunks
        /\ Surplus \in SUBSET chunk_cache /\ Surplus' \in SUBSET chunk_cache'
    BY DEF Surplus, TypeOK
  <1>2. /\ Cardinality(Surplus) \in Nat /\ Cardinality(Surplus') \in Nat
        /\ Cardinality(chunk_cache) \in Nat /\ Cardinality(chunk_cache') \in Nat
        /\ Cardinality(Surplus) <= Cardinality(chunk_cache)
        /\ Cardinality(Surplus') <= Cardinality(chunk_cache')
    <2>1. IsFiniteSet(chunk_cache) /\ IsFiniteSet(chunk_cache')
      BY <1>1, CacheFinite
    <2> QED  BY <1>1, <2>1, CacheFinite, FS_Subset
  <1>3. CASE HandleChunks
    <2>1. Cardinality(Surplus') <= Cardinality(Surplus) + BATCH /\ Cardinality(Surplus) <= Q_DEPTH
      BY <1>3, BatchAdds DEF SurplusInv
    <2>2. Coming' <= Coming - 1 \/ Cardinality(chunk_cache') <= Q_DEPTH
      BY <1>3, BatchStep
    <2> QED  BY <1>0, <1>2, <2>1, <2>2 DEF SurplusInv
  <1>4. CASE ~HandleChunks
    <2>1. Cardinality(Surplus') <= Cardinality(Surplus)
      BY <1>4, SurplusSteps, SurplusShrinks
    <2>2. Coming' <= Coming \/ Cardinality(chunk_cache) <= Q_DEPTH
      BY <1>4, BatchStep
    <2> QED  BY <1>0, <1>2, <2>1, <2>2 DEF SurplusInv
  <1> QED  BY <1>3, <1>4

\* What the surplus leaves out is at most one chunk for each segment.
LEMMA CacheBound ==
  ASSUME SizesFit, TypeOK, SurplusInv PROVE BoundedCache
  <1>1. IsFiniteSet(Segments) /\ Cardinality(Segments) \in Nat
    <2>1. total_segments(Total) - 1 \in Int
      BY SegmentsAreChunks
    <2>2. IsFiniteSet(Segments)
      BY <2>1, FS_Interval DEF Segments
    <2> QED  BY <2>2, FS_CardinalityType
  <1>2. IsFiniteSet(Awaited) /\ Cardinality(Awaited) <= Cardinality(Segments)
    <2> DEFINE f == [s \in Segments |-> NextChunk(s)]
    <2>1. f \in Surjection(Segments, Awaited)
      BY DEF Surjection, Awaited
    <2> QED  BY <1>1, <2>1, FS_Surjection
  <1>3. chunk_cache \in SUBSET Chunks /\ Surplus \in SUBSET Chunks
        /\ chunk_cache \subseteq Surplus \cup Awaited
    BY DEF Surplus, TypeOK
  <1>4. /\ IsFiniteSet(Surplus) /\ Cardinality(Surplus) \in Nat
        /\ Cardinality(chunk_cache) \in Nat /\ Cardinality(Awaited) \in Nat
    BY <1>2, <1>3, CacheFinite, FS_CardinalityType
  <1>5. /\ IsFiniteSet(Surplus \cup Awaited) /\ Cardinality(Surplus \cap Awaited) \in Nat
        /\ Cardinality(Surplus \cup Awaited)
              = Cardinality(Surplus) + Cardinality(Awaited) - Cardinality(Surplus \cap Awaited)
    BY <1>2, <1>4, FS_Union, FS_Intersection, FS_CardinalityType
  <1>6. Cardinality(chunk_cache) <= Cardinality(Surplus \cup Awaited)
    BY <1>3, <1>5, FS_Subset
  <1> QED
    BY <1>1, <1>2, <1>4, <1>5, <1>6, FileAssumption DEF SurplusInv, BoundedCache

\* The cache that is to be limited holds no more than the limit, one batch and one
\* chunk for each segment, however often the slicers ask again.
THEOREM CacheLimited == ASSUME SizesFit PROVE Spec => []BoundedCache
  <1>1. Init => AskedInv /\ SurplusInv
    <2> SUFFICES ASSUME Init PROVE AskedInv /\ SurplusInv
      OBVIOUS
    <2>1. Msg("start_upload", {}) \in Sound
      BY SoundEmpty DEF Commands
    <2>2. Surplus = {}
      BY DEF Init, Surplus
    <2> QED  BY <2>1, <2>2, FS_EmptySet, FileAssumption DEF Init, AskedInv, SurplusInv
  <1>2. TypeOK /\ TypeOK' /\ FlowInv /\ AskedInv /\ SurplusInv /\ [Next]_vars
          => (AskedInv /\ SurplusInv)'
    BY AskedStep, SurplusStep
  <1>3. TypeOK /\ SurplusInv => BoundedCache
    BY CacheBound
  <1> QED  BY <1>1, <1>2, <1>3, FlowInvariant, PTL DEF Spec

=============================================================================
