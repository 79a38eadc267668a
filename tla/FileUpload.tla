----------------------------- MODULE FileUpload -----------------------------
(***************************************************************************)
(* The upload of one file over one websocket: the browser worker's          *)
(* StreamSlicer (crypt-post-upworker.js), the runner's message loop         *)
(* (upload/api.py), UploadSession's handlers for this file and the file's   *)
(* FileUpload object with one upload_segment task per segment               *)
(* (upload/cryptupload.py), and the object store that answers its requests. *)
(*                                                                         *)
(* A step of the runner is the code between two awaits: asyncio switches    *)
(* tasks nowhere else.  A chunk's bytes are abstracted to its order.        *)
(* FileUpload.failed is left out: the code sets it and never reads it.      *)
(***************************************************************************)
EXTENDS UploadLayout, Sequences, FiniteSets

CONSTANTS Total,        \* the file's size in bytes
          BATCH,        \* chunks the browser packs in one add_chunks (20)
          Q_DEPTH,      \* CRYPTUPLOAD_Q_DEPTH, chunks cached before "next" is held back
          MaxRetries,   \* bound: retry_chunk requests in a behaviour
          Faults        \* what may go wrong, a subset of FaultKinds

FaultKinds == {"container",  \* the containers cannot be created
               "status",     \* the store answers a PUT with an error status
               "raise",      \* a request to the store raises
               "delete",     \* the store fails to delete a segment
               "cancel",     \* the user cancels the upload
               "drop",       \* the connection breaks
               "reset"}      \* a send on a broken connection raises

\* Total > 0: the upload dialog refuses empty files (UploadModal.vue)
ASSUME FileAssumption == /\ Total \in Nat \ {0}
                         /\ BATCH \in Nat \ {0}
                         /\ Q_DEPTH \in Nat
                         /\ MaxRetries \in Nat
                         /\ Faults \subseteq FaultKinds

Segments == 0 .. total_segments(Total) - 1
\* The chunks that the runner counts, and those that the browser cuts
Counted == 0 .. total_chunks(Total) - 1
Chunks == 0 .. browser_chunks(Total) - 1
LastSegment == total_segments(Total) - 1
SegEnd(s) == seg_end(Total, s)

NotStored == -1

VARIABLES
  iter,         \* StreamSlicer.iter, the next chunk to send
  sending,      \* calls of sendChunks that are reading the file
  retryReads,   \* calls of retryChunk that are reading the file, by chunk
  cancelled,    \* uploadCancelled
  readyState,   \* the browser's end of the websocket: "open" or "closed"
  toRunner,     \* messages on their way to the runner
  toBrowser,    \* messages on their way to the browser
  handler,      \* where handle_upload_ws is
  present,      \* path in self.uploads[container]
  chunk_cache,  \* FileUpload.chunk_cache (its keys)
  done_chunks,  \* FileUpload.done_chunks
  aborted,      \* FileUpload.aborted
  finished,     \* FileUpload.finished
  task,         \* where each upload_segment task is
  sent,         \* how many chunks each slice_segment has yielded
  stored,       \* chunks in each stored segment, or NotStored
  manifest,     \* whether the object's manifest is in the container
  retries       \* retry_chunk requests made so far

browser == <<iter, sending, retryReads, cancelled, readyState>>
upload == <<present, chunk_cache, done_chunks, aborted, finished>>
segs == <<task, sent, retries>>
store == <<stored, manifest>>
vars == <<browser, toRunner, toBrowser, handler, upload, segs, store>>

HandlerStates == {"idle",       \* waiting for the next message
                  "creating",   \* in a_create_container
                  "waiting",    \* in wait_for_cache
                  "gathering",  \* in finish_upload, awaiting the tasks
                  "manifest",   \* in finish_upload, awaiting the manifest PUT
                  "aborting",   \* in abort_upload, awaiting the tasks
                  "deleting",   \* in abort_upload, deleting the segments
                  "dead",       \* ended by an exception
                  "ended"}      \* ended with the websocket

TaskStates == {"none",    \* not created yet
               "first",   \* waiting for the segment's first chunk
               "put",     \* PUT open, slice_segment yields its body
               "eof",     \* body finished, awaiting the response
               "done",    \* returned the response's status
               "gone",    \* returned 410
               "raised"}  \* ended by an exception

Ended == {"done", "gone", "raised"}

\* What a message is about: chunks is {} for the messages without any
Msg(command, chunks) == [command |-> command, chunks |-> chunks]

ToRunner(m) == IF readyState = "open" THEN toRunner' = Append(toRunner, m)
                                      ELSE UNCHANGED toRunner

\* socket.closed, as the runner sees it
SocketClosed == handler = "ended"

\* Sending to a browser that is gone: the message is lost, or the send raises
SendRaises == IF handler = "dead" THEN {TRUE}
              ELSE IF readyState = "closed" /\ "reset" \in Faults THEN BOOLEAN
              ELSE {FALSE}
ToBrowser(ms) == toBrowser' = IF readyState = "open" THEN toBrowser \o ms ELSE toBrowser

\* The browser has sent start_upload for the file (addFiles)
Init ==
  /\ iter = 0 /\ sending = 0 /\ retryReads = [i \in Chunks |-> 0]
  /\ cancelled = FALSE /\ readyState = "open"
  /\ toRunner = <<Msg("start_upload", {})>> /\ toBrowser = <<>>
  /\ handler = "idle" /\ present = FALSE
  /\ chunk_cache = {} /\ done_chunks = {}
  /\ aborted = FALSE /\ finished = FALSE
  /\ task = [s \in Segments |-> "none"] /\ sent = [s \in Segments |-> 0]
  /\ stored = [s \in Segments |-> NotStored] /\ manifest = FALSE
  /\ retries = 0

-----------------------------------------------------------------------------
(* The browser worker *)

Receives(command) ==
  /\ readyState = "open" /\ toBrowser # <<>>
  /\ Head(toBrowser).command = command
  /\ toBrowser' = Tail(toBrowser)

\* "start_upload" and "next" make the slicer read and send a batch.  (The
\* limit of five files at a time in startFile is about the other files.)
RecvStartOrNext ==
  /\ Receives("start_upload") \/ Receives("next")
  /\ sending' = IF cancelled THEN sending ELSE sending + 1
  /\ UNCHANGED <<iter, retryReads, cancelled, readyState, toRunner, handler,
                 upload, segs, store>>

\* sendChunks ends.  A cancel that arrives while it reads cuts the batch short.
\* Reads are awaited one by one, so this is one step only while no two calls
\* overlap: OneBatch below.
\* (mutant) a batch is not cut at the end of the file
BatchEndUnclamped == iter + BATCH
BatchEnd == IF iter + BATCH <= browser_chunks(Total) THEN iter + BATCH
                                                      ELSE browser_chunks(Total)
SendChunks ==
  /\ sending > 0
  /\ \E last \in (IF cancelled THEN iter .. BatchEnd ELSE {BatchEnd}) :
       /\ ToRunner(Msg("add_chunks", iter .. last - 1))
       /\ iter' = last
  /\ sending' = sending - 1
  /\ UNCHANGED <<retryReads, cancelled, readyState, toBrowser, handler,
                 upload, segs, store>>

RecvRetryChunk ==
  /\ Receives("retry_chunk")
  /\ retryReads' = IF cancelled THEN retryReads
                   ELSE [i \in Chunks |-> retryReads[i] +
                          IF i \in Head(toBrowser).chunks THEN 1 ELSE 0]
  /\ UNCHANGED <<iter, sending, cancelled, readyState, toRunner, handler,
                 upload, segs, store>>

\* retryChunk ends: nothing is sent when the session has been cancelled
RetryChunkRead(i) ==
  /\ retryReads[i] > 0
  /\ retryReads' = [retryReads EXCEPT ![i] = @ - 1]
  /\ IF cancelled THEN UNCHANGED toRunner ELSE ToRunner(Msg("add_chunk", {i}))
  /\ UNCHANGED <<iter, sending, cancelled, readyState, toBrowser, handler,
                 upload, segs, store>>

\* "success" makes the browser send "finish" (finishFile)
RecvSuccess ==
  /\ Receives("success")
  /\ IF cancelled THEN UNCHANGED toRunner ELSE ToRunner(Msg("finish", {}))
  /\ UNCHANGED <<browser, handler, upload, segs, store>>

RecvAbort ==
  /\ Receives("abort")
  /\ readyState' = "closed"
  /\ UNCHANGED <<iter, sending, retryReads, cancelled, toRunner, handler,
                 upload, segs, store>>

\* The user cancels: closeWebSocket
Cancel ==
  /\ "cancel" \in Faults /\ ~cancelled
  /\ cancelled' = TRUE
  /\ ToRunner(Msg("cancel", {}))
  /\ UNCHANGED <<iter, sending, retryReads, readyState, toBrowser, handler,
                 upload, segs, store>>

\* The connection breaks, with whatever was on it; or the runner closed it
ConnectionLost ==
  /\ readyState = "open"
  /\ "drop" \in Faults \/ (handler = "dead" /\ toBrowser = <<>>)
  /\ readyState' = "closed"
  /\ toRunner' = <<>> /\ toBrowser' = <<>>
  /\ UNCHANGED <<iter, sending, retryReads, cancelled, handler, upload, segs, store>>

-----------------------------------------------------------------------------
(* The runner's message loop and UploadSession's handlers *)

Handles(command) ==
  /\ handler = "idle" /\ toRunner # <<>>
  /\ Head(toRunner).command = command
  /\ toRunner' = Tail(toRunner)

\* handle_begin_upload: the upload object is stored, then a_create_container
HandleBegin ==
  /\ Handles("start_upload")
  /\ present' = TRUE /\ handler' = "creating"
  /\ UNCHANGED <<browser, toBrowser, chunk_cache, done_chunks, aborted, finished,
                 segs, store>>

\* init_upload: a container that cannot be created is reported, and the upload
\* is started all the same; a request that raises ends the handler
InitUpload ==
  /\ handler = "creating"
  /\ \E ok \in (IF "container" \in Faults THEN BOOLEAN ELSE {TRUE}) :
     \E createRaises \in (IF "raise" \in Faults THEN BOOLEAN ELSE {FALSE}),
        abortRaises \in (IF ok THEN {FALSE} ELSE SendRaises),
        startRaises \in SendRaises :
       IF createRaises \/ abortRaises
       THEN /\ handler' = "dead" /\ UNCHANGED <<task, toBrowser>>
       ELSE /\ task' = [s \in Segments |-> "first"]
            /\ handler' = IF startRaises THEN "dead" ELSE "idle"
            /\ ToBrowser((IF ok THEN <<>> ELSE <<Msg("abort", {})>>) \o
                         (IF startRaises THEN <<>> ELSE <<Msg("start_upload", {})>>))
  /\ UNCHANGED <<browser, toRunner, upload, sent, retries, store>>

\* (mutant) only the cache is looked at: a late duplicate is taken again
AddToChunksAgain(chunks) == chunk_cache' = chunk_cache \cup chunks

\* A chunk that was seen before is dropped (add_to_chunks)
AddToChunks(chunks) == chunk_cache' = chunk_cache \cup (chunks \ done_chunks)

\* (mutant) "next" is sent without waiting for the cache
SendNextAtOnce(cache) ==
  /\ handler' = "idle" /\ ToBrowser(<<Msg("next", {})>>)

\* The last part of handle_upload_chunks: "next" once the cache has space
SendNext(cache) ==
  /\ Cardinality(cache) <= Q_DEPTH
  /\ \E raises \in SendRaises :
       /\ handler' = IF raises THEN "dead" ELSE "idle"
       /\ ToBrowser(IF raises THEN <<>> ELSE <<Msg("next", {})>>)

\* handle_upload_chunks.  Chunks for a file that is not in self.uploads raise
\* a KeyError that handle_upload_ws does not catch; an empty batch does not.
HandleChunks ==
  /\ Handles("add_chunks")
  /\ LET chunks == Head(toRunner).chunks IN
       IF present
       THEN /\ AddToChunks(chunks)
            /\ \/ SendNext(chunk_cache')
               \/ /\ Cardinality(chunk_cache') > Q_DEPTH
                  /\ handler' = IF finished THEN "idle" ELSE "waiting"
                  /\ UNCHANGED toBrowser
       ELSE /\ handler' = IF chunks = {} THEN "idle" ELSE "dead"
            /\ UNCHANGED <<toBrowser, chunk_cache>>
  /\ UNCHANGED <<browser, present, done_chunks, aborted, finished, segs, store>>

\* (mutant) wait_for_cache gives up, so that no "next" follows
WaitForCacheGivesUp ==
  /\ handler = "waiting" /\ handler' = "idle"
  /\ UNCHANGED <<browser, toRunner, toBrowser, upload, segs, store>>

\* wait_for_cache wakes up and finds space, or the upload finished
WaitForCache ==
  /\ handler = "waiting"
  /\ \/ SendNext(chunk_cache)
     \/ /\ Cardinality(chunk_cache) > Q_DEPTH /\ finished
        /\ handler' = "idle" /\ UNCHANGED toBrowser
  /\ UNCHANGED <<browser, toRunner, upload, segs, store>>

\* (mutant) a retried chunk is answered with "next", too
HandleChunkThenNext ==
  /\ Handles("add_chunk") /\ present
  /\ AddToChunks(Head(toRunner).chunks)
  /\ ToBrowser(<<Msg("next", {})>>)
  /\ UNCHANGED <<browser, handler, present, done_chunks, aborted, finished, segs, store>>

\* handle_upload_chunk, for a retried chunk
HandleChunk ==
  /\ Handles("add_chunk")
  /\ IF present THEN /\ AddToChunks(Head(toRunner).chunks) /\ UNCHANGED handler
                ELSE handler' = "dead" /\ UNCHANGED chunk_cache
  /\ UNCHANGED <<browser, toBrowser, present, done_chunks, aborted, finished,
                 segs, store>>

HandleFinish ==
  /\ Handles("finish")
  /\ handler' = IF present THEN "gathering" ELSE "dead"
  /\ UNCHANGED <<browser, toBrowser, upload, segs, store>>

SomeRaised == \E s \in Segments : task[s] = "raised"
\* (mutant) only the task that reported success is awaited
LastEnded == task[LastSegment] \in Ended \ {"raised"}
AllEnded == \A s \in Segments : task[s] \in Ended \ {"raised"}

\* finish_upload: asyncio.gather(*self.tasks); the statuses are not looked at
FinishGather ==
  /\ handler = "gathering" /\ (SomeRaised \/ AllEnded)
  /\ handler' = IF SomeRaised THEN "dead" ELSE "manifest"
  /\ UNCHANGED <<browser, toRunner, toBrowser, upload, segs, store>>

\* (mutant) the finished file is left in self.uploads
FinishManifestStays ==
  /\ handler = "manifest" /\ handler' = "idle" /\ manifest' = TRUE
  /\ UNCHANGED <<browser, toRunner, toBrowser, upload, segs, stored>>

\* The manifest's PUT is answered (any status will do) or raises; then the
\* file leaves self.uploads
FinishManifest ==
  /\ handler = "manifest"
  /\ \/ manifest' = TRUE /\ present' = FALSE /\ handler' = "idle"
     \/ /\ "status" \in Faults
        /\ present' = FALSE /\ handler' = "idle" /\ UNCHANGED manifest
     \/ /\ "raise" \in Faults
        /\ handler' = "dead" /\ manifest' \in {manifest, TRUE} /\ UNCHANGED present
  /\ UNCHANGED <<browser, toRunner, toBrowser, chunk_cache, done_chunks, aborted,
                 finished, segs, stored>>

\* "cancel": handle_close calls abort_upload, for a file that is in self.uploads
HandleCancel ==
  /\ Handles("cancel")
  /\ IF present
     THEN \E raises \in SendRaises :
            /\ handler' = IF raises THEN "dead" ELSE "aborting"
            /\ aborted' = (aborted \/ ~raises)
            /\ ToBrowser(IF raises THEN <<>> ELSE <<Msg("abort", {})>>)
     ELSE UNCHANGED <<handler, aborted, toBrowser>>
  /\ UNCHANGED <<browser, present, chunk_cache, done_chunks, finished, segs, store>>

\* (mutant) the segments are deleted without waiting for the tasks
AbortGatherAtOnce ==
  /\ handler = "aborting" /\ handler' = "deleting"
  /\ UNCHANGED <<browser, toRunner, toBrowser, upload, segs, store>>

AbortGather ==
  /\ handler = "aborting" /\ (SomeRaised \/ AllEnded)
  /\ handler' = IF SomeRaised THEN "dead" ELSE "deleting"
  /\ UNCHANGED <<browser, toRunner, toBrowser, upload, segs, store>>

\* Every segment is deleted, whatever the answers; handle_close then empties
\* self.uploads unless a request raised
AbortDelete ==
  /\ handler = "deleting"
  /\ \E kept \in (IF {"delete", "raise"} \cap Faults # {} THEN SUBSET Segments ELSE {{}}),
        raises \in (IF "raise" \in Faults THEN BOOLEAN ELSE {FALSE}) :
       /\ stored' = [s \in Segments |-> IF s \in kept THEN stored[s] ELSE NotStored]
       /\ IF raises THEN handler' = "dead" /\ UNCHANGED present
                    ELSE handler' = "idle" /\ present' = FALSE
  /\ UNCHANGED <<browser, toRunner, toBrowser, chunk_cache, done_chunks, aborted,
                 finished, segs, manifest>>

\* The loop ends when the socket has been closed.  The uploads are left as
\* they are: the branch that would call handle_close is never taken, since
\* the iteration itself stops at the close.
HandlerEnds ==
  /\ handler = "idle" /\ readyState = "closed" /\ toRunner = <<>>
  /\ handler' = "ended"
  /\ UNCHANGED <<browser, toRunner, toBrowser, upload, segs, store>>

-----------------------------------------------------------------------------
(* upload_segment and slice_segment, for segment s *)

\* The chunk that the slicer of s waits for, or yields next
NextChunk(s) == seg_start(s) + sent[s]

StartPut(s) ==
  /\ task[s] = "first" /\ seg_start(s) \in chunk_cache
  /\ task' = [task EXCEPT ![s] = "put"]
  /\ UNCHANGED <<browser, toRunner, toBrowser, handler, upload, sent, retries, store>>

\* (mutant) the wait for the first chunk does not look at the abort
StopWaitingNever(s) == FALSE /\ UNCHANGED vars

\* No first chunk will be waited for after an abort
StopWaiting(s) ==
  /\ task[s] = "first" /\ seg_start(s) \notin chunk_cache /\ aborted
  /\ task' = [task EXCEPT ![s] = "gone"]
  /\ UNCHANGED <<browser, toRunner, toBrowser, handler, upload, sent, retries, store>>

YieldChunk(s) ==
  /\ task[s] = "put" /\ NextChunk(s) < SegEnd(s)
  /\ NextChunk(s) \in chunk_cache
  /\ done_chunks' = done_chunks \cup {NextChunk(s)}
  /\ chunk_cache' = chunk_cache \ {NextChunk(s)}
  /\ sent' = [sent EXCEPT ![s] = @ + 1]
  /\ UNCHANGED <<browser, toRunner, toBrowser, handler, present, aborted, finished,
                 task, retries, store>>

\* The body ends after the segment's last chunk, or early after an abort: the
\* store cannot tell the two apart
EndBody(s) ==
  /\ task[s] = "put"
  /\ NextChunk(s) >= SegEnd(s) \/ (NextChunk(s) \notin chunk_cache /\ aborted)
  /\ task' = [task EXCEPT ![s] = "eof"]
  /\ UNCHANGED <<browser, toRunner, toBrowser, handler, upload, sent, retries, store>>

\* The slicer has waited for a minute: retry_chunk, which raises nothing that
\* is not caught
RetryChunk(s) ==
  /\ task[s] = "put" /\ NextChunk(s) < SegEnd(s)
  /\ NextChunk(s) \notin chunk_cache /\ ~aborted
  /\ retries < MaxRetries /\ ~SocketClosed
  /\ retries' = retries + 1
  /\ \E raises \in SendRaises :
       ToBrowser(IF raises THEN <<>> ELSE <<Msg("retry_chunk", {NextChunk(s)})>>)
  /\ UNCHANGED <<browser, toRunner, handler, upload, task, sent, store>>

\* What follows the response: the last segment's task reports success,
\* whatever the status was and whatever the other segments are doing
AfterPut(s) ==
  IF s = LastSegment /\ ~SocketClosed
  THEN \E raises \in SendRaises :
         /\ task' = [task EXCEPT ![s] = IF raises THEN "raised" ELSE "done"]
         /\ finished' = (finished \/ ~raises)
         /\ ToBrowser(IF raises THEN <<>> ELSE <<Msg("success", {})>>)
  ELSE /\ task' = [task EXCEPT ![s] = "done"]
       /\ UNCHANGED <<finished, toBrowser>>

\* The store keeps what it received and answers 201
PutStored(s) ==
  /\ task[s] = "eof"
  /\ stored' = [stored EXCEPT ![s] = sent[s]]
  /\ AfterPut(s)
  /\ UNCHANGED <<browser, toRunner, handler, present, chunk_cache, done_chunks,
                 aborted, sent, retries, manifest>>

\* The store answers with an error, perhaps before it has read all of the body
PutRefused(s) ==
  /\ "status" \in Faults /\ task[s] \in {"put", "eof"}
  /\ AfterPut(s)
  /\ UNCHANGED <<browser, toRunner, handler, present, chunk_cache, done_chunks,
                 aborted, sent, retries, store>>

\* The request raises (a broken connection, a timeout); the store may have
\* kept a complete body
PutRaises(s) ==
  /\ "raise" \in Faults /\ task[s] \in {"put", "eof"}
  /\ task' = [task EXCEPT ![s] = "raised"]
  /\ stored' \in {stored} \cup
       (IF task[s] = "eof" THEN {[stored EXCEPT ![s] = sent[s]]} ELSE {})
  /\ UNCHANGED <<browser, toRunner, toBrowser, handler, upload, sent, retries, manifest>>

-----------------------------------------------------------------------------
Receive == RecvStartOrNext \/ RecvRetryChunk \/ RecvSuccess \/ RecvAbort

Handler == \/ HandleBegin \/ InitUpload \/ HandleChunks \/ WaitForCache
           \/ HandleChunk \/ HandleFinish \/ FinishGather \/ FinishManifest
           \/ HandleCancel \/ AbortGather \/ AbortDelete \/ HandlerEnds

Segment(s) == \/ StartPut(s) \/ StopWaiting(s) \/ YieldChunk(s) \/ EndBody(s)
              \/ PutStored(s)

Next == \/ Receive \/ SendChunks \/ Handler \/ Cancel \/ ConnectionLost
        \/ \E i \in Chunks : RetryChunkRead(i)
        \/ \E s \in Segments : \/ Segment(s) \/ RetryChunk(s)
                               \/ PutRefused(s) \/ PutRaises(s)

\* The browser's event loop, the message loop and every task are scheduled
\* again and again, and the store answers (or UPL_TIMEOUT ends the request).
\* Nothing is assumed of faults, cancels and the timer of retry_chunk.
Fairness == /\ WF_vars(Receive) /\ WF_vars(SendChunks) /\ WF_vars(Handler)
            /\ \A i \in Chunks : WF_vars(RetryChunkRead(i))
            /\ \A s \in Segments : WF_vars(Segment(s))

Spec == Init /\ [][Next]_vars
FairSpec == Spec /\ Fairness

-----------------------------------------------------------------------------
(* Properties *)

\* The object a reader finds: its segments' chunks in their order
StoredChunks == UNION {seg_start(s) .. seg_start(s) + stored[s] - 1 :
                         s \in {t \in Segments : stored[t] # NotStored}}

\* What a reader of the container sees of all this
Object == INSTANCE ObjectUpload WITH
            File <- Chunks,
            content <- IF manifest THEN StoredChunks ELSE {},
            outcome <- IF manifest THEN "stored"
                       ELSE IF aborted THEN "cancelled" ELSE "open"

\* The upload implements ObjectUpload: the object appears at once and complete.
AppearsComplete == Object!Spec

\* And it appears, or the cancel is carried out, in the end.
AppearsInTheEnd == Object!FairSpec

Commands == {"start_upload", "next", "retry_chunk", "success", "abort",
             "add_chunks", "add_chunk", "finish", "cancel"}
Messages == [command : Commands, chunks : SUBSET Chunks]

\* Every variable has a value of its type.
TypeOK ==
  /\ iter \in 0 .. browser_chunks(Total) /\ sending \in Nat
  /\ retryReads \in [Chunks -> Nat]
  /\ cancelled \in BOOLEAN /\ readyState \in {"open", "closed"}
  /\ toRunner \in Seq(Messages) /\ toBrowser \in Seq(Messages)
  /\ handler \in HandlerStates /\ present \in BOOLEAN
  /\ chunk_cache \subseteq Chunks /\ done_chunks \subseteq Chunks
  /\ aborted \in BOOLEAN /\ finished \in BOOLEAN
  /\ task \in [Segments -> TaskStates] /\ sent \in [Segments -> Nat]
  /\ stored \in [Segments -> Nat \cup {NotStored}] /\ manifest \in BOOLEAN
  /\ retries \in 0 .. MaxRetries

\* How many messages of q carry the command
Count(q, command) == Cardinality({k \in DOMAIN q : q[k].command = command})

\* The browser never reads two batches of a file at once, so that
\* sendChunks's read of this.iter after an await is safe: the "next" that
\* starts a batch is only sent for the batch before it.
OneBatch ==
  Count(toRunner, "start_upload") + (IF handler \in {"creating", "waiting"} THEN 1 ELSE 0)
  + Count(toBrowser, "start_upload") + Count(toBrowser, "next")
  + sending + Count(toRunner, "add_chunks") <= 1

\* The queue that CRYPTUPLOAD_Q_DEPTH is meant to limit exceeds it by no more
\* than one batch and one retried chunk for each segment.
BoundedCache == Cardinality(chunk_cache) <= Q_DEPTH + BATCH + Cardinality(Segments)

\* The chunks that slice_segment has put in the body of s
Body(s) == seg_start(s) .. seg_start(s) + sent[s] - 1

\* Every chunk enters the segments' bodies at most once, whatever is retried:
\* what has been yielded is what add_to_chunks refuses to take again.
EachChunkOnce == /\ done_chunks = UNION {Body(s) : s \in Segments}
                 /\ chunk_cache \cap done_chunks = {}
                 /\ \A s, t \in Segments : s # t => Body(s) \cap Body(t) = {}

ObjectComplete == StoredChunks = Chunks

\* The manifest makes the object appear only once all of the file is stored.
StoredComplete == manifest => ObjectComplete

\* Once handle_close has been through, no task of the upload runs and none of
\* its segments is left in the store.
CleanAbort == aborted /\ ~present => /\ \A s \in Segments : task[s] \in Ended
                                      /\ StoredChunks = {} /\ ~manifest

\* A cancel never takes anything from an object that is in the container.
FinalObject == [][manifest => manifest' /\ stored' = stored]_vars

\* A cancelled upload is gone from self.uploads in the end, or was finished.
CancelCompletes == cancelled ~> ~present

\* A "success" reported to the browser means that the file is stored.
SuccessMeansStored ==
  (\E k \in DOMAIN toBrowser : toBrowser[k].command = "success") => ObjectComplete
=============================================================================
