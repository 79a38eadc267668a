---------------------------- MODULE UploadSession ----------------------------
(***************************************************************************)
(* The upload session of one user and project: the map from path to         *)
(* FileUpload that all of the session's websockets share (cryptupload.py,   *)
(* UploadSession and get_encrypted_upload_session), the message loops of    *)
(* those websockets (api.py, handle_upload_ws), interleaved at every await, *)
(* and the browser tabs that open them (crypt-post-upworker.js).            *)
(*                                                                         *)
(* An upload's data is one batch here and its tasks are one task: module    *)
(* FileUpload has the details.  Paths stand for container and object name.  *)
(***************************************************************************)
EXTENDS Integers, Sequences, FiniteSets

CONSTANTS Sockets,     \* websockets that are ever opened
          Paths,       \* files of the container
          MaxUploads,  \* bound: files that are ever added, and FileUpload objects
          MaxCancels,  \* bound: cancels by the user
          None

ASSUME SessionAssumption == /\ MaxUploads \in Nat \ {0} /\ MaxCancels \in Nat
                            /\ None \notin 1 .. MaxUploads /\ None \notin Sockets
                            /\ None \notin Paths

Uploads == 1 .. MaxUploads

VARIABLES
  conn,       \* the browser's end of each socket: "new", "open" or "closed"
  toRunner,   \* messages of each socket to the runner
  toBrowser,  \* messages of each socket to the browser
  files,      \* per socket: files of the worker behind it (none once cancelled)
  added,      \* files added so far
  cancels,    \* cancels so far
  ws,         \* UploadSession.ws, the socket that was opened last
  uploads,    \* UploadSession.uploads
  made,       \* FileUpload objects made so far
  pathOf,     \* FileUpload.path
  socketOf,   \* FileUpload.socket
  got,        \* whether the upload's data has been added to its cache
  task,       \* FileUpload.tasks: "none", "running", "ended" or "raised"
  aborted,    \* FileUpload.aborted
  segments,   \* the upload's segments in the store: "none", "part" or "all"
  manifest,   \* per path: the upload whose manifest is the object, or None
  loop,       \* per socket: where its message loop is
  aborts      \* per socket and upload: where the loop's abort_upload is

vars == <<conn, toRunner, toBrowser, files, added, cancels, ws, uploads, made, pathOf,
          socketOf, got, task, aborted, segments, manifest, loop, aborts>>
tab == <<conn, files, added, cancels>>
objects == <<made, pathOf, socketOf>>
store == <<segments, manifest>>

\* Where a message loop is: at what, for which path and upload
At(at, p, u) == [at |-> at, path |-> p, upload |-> u]
Idle == At("idle", None, None)
LoopStates == {"none", "idle", "replacing", "creating", "gathering", "manifest",
               "closing", "ended", "dead"}
AbortStates == {"none", "start", "gather", "delete"}

Msg(command, p) == [command |-> command, path |-> p]

\* socket.closed as the runner sees it; and a socket whose connection is gone
\* without being closed, on which a send raises ConnectionResetError
Closed(k) == loop[k].at = "ended"
Broken(k) == loop[k].at = "dead"
Dead == At("dead", None, None)
Send(k, command, p) ==
  toBrowser' = IF conn[k] = "open" /\ ~Closed(k) /\ ~Broken(k)
               THEN [toBrowser EXCEPT ![k] = Append(@, Msg(command, p))] ELSE toBrowser
ToRunner(k, command, p) == toRunner' = [toRunner EXCEPT ![k] = Append(@, Msg(command, p))]

Init ==
  /\ conn = [k \in Sockets |-> "new"]
  /\ toRunner = [k \in Sockets |-> <<>>] /\ toBrowser = [k \in Sockets |-> <<>>]
  /\ files = [k \in Sockets |-> {}] /\ added = 0 /\ cancels = 0
  /\ ws = None /\ uploads = [p \in Paths |-> None] /\ made = 0
  /\ pathOf = [u \in Uploads |-> None] /\ socketOf = [u \in Uploads |-> None]
  /\ got = [u \in Uploads |-> FALSE] /\ task = [u \in Uploads |-> "none"]
  /\ aborted = [u \in Uploads |-> FALSE] /\ segments = [u \in Uploads |-> "none"]
  /\ manifest = [p \in Paths |-> None]
  /\ loop = [k \in Sockets |-> At("none", None, None)]
  /\ aborts = [k \in Sockets |-> [u \in Uploads |-> "none"]]

-----------------------------------------------------------------------------
(* The browser tabs *)

\* openWebSocket, and the loop that set_ws and "async for" start: in a new tab,
\* or in a worker whose socket j has been closed
Open(k) ==
  /\ conn[k] = "new"
  /\ conn' = [conn EXCEPT ![k] = "open"]
  /\ \/ UNCHANGED files
     \/ \E j \in Sockets : /\ conn[j] = "closed" /\ files[j] # {}
                           /\ files' = [files EXCEPT ![k] = files[j], ![j] = {}]
  /\ loop' = [loop EXCEPT ![k] = Idle]
  /\ ws' = k
  /\ UNCHANGED <<toRunner, toBrowser, added, cancels, uploads, objects, got, task,
                 aborted, store, aborts>>

\* The user adds a file: addFiles sends start_upload
AddFile(k, p) ==
  /\ conn[k] = "open"
  /\ added < MaxUploads /\ added' = added + 1
  /\ files' = [files EXCEPT ![k] = @ \cup {p}]
  /\ ToRunner(k, "start_upload", p)
  /\ UNCHANGED <<conn, toBrowser, cancels, ws, uploads, objects, got, task, aborted,
                 store, loop, aborts>>

\* The user cancels: closeWebSocket
Cancel(k) ==
  /\ conn[k] = "open" /\ files[k] # {} /\ cancels < MaxCancels
  /\ cancels' = cancels + 1
  /\ files' = [files EXCEPT ![k] = {}]
  /\ ToRunner(k, "cancel", None)
  /\ UNCHANGED <<conn, toBrowser, added, ws, uploads, objects, got, task, aborted, store, loop,
                 aborts>>

\* socket.onmessage: "start_upload" is answered with the data, "success" with
\* "finish", for a file the worker has; "abort" closes the socket
Receive(k) ==
  /\ conn[k] = "open" /\ toBrowser[k] # <<>>
  /\ toBrowser' = [toBrowser EXCEPT ![k] = Tail(@)]
  /\ LET m == Head(toBrowser[k])
         answer == IF m.command = "start_upload" THEN "add_chunks" ELSE "finish" IN
       \/ /\ m.command = "abort"
          /\ conn' = [conn EXCEPT ![k] = "closed"] /\ UNCHANGED toRunner
       \/ /\ m.command # "abort" /\ UNCHANGED conn
          /\ IF m.path \in files[k] THEN ToRunner(k, answer, m.path)
             ELSE UNCHANGED toRunner
  /\ UNCHANGED <<files, added, cancels, ws, uploads, objects, got, task, aborted, store,
                 loop, aborts>>

\* The runner's end went away with an exception
SeeClosed(k) ==
  /\ conn[k] = "open" /\ Broken(k) /\ toBrowser[k] = <<>>
  /\ conn' = [conn EXCEPT ![k] = "closed"]
  /\ UNCHANGED <<toRunner, toBrowser, files, added, cancels, ws, uploads, objects, got, task,
                 aborted, store, loop, aborts>>

-----------------------------------------------------------------------------
(* The message loop of socket k *)

Handles(k, command) ==
  /\ loop[k].at = "idle" /\ toRunner[k] # <<>>
  /\ Head(toRunner[k]).command = command
  /\ toRunner' = [toRunner EXCEPT ![k] = Tail(@)]

\* mutant: the map is set before the FileUpload is made
MakeAfter(k, p) ==
  /\ made < MaxUploads /\ made' = made + 1
  /\ pathOf' = [pathOf EXCEPT ![made'] = p]
  /\ socketOf' = [socketOf EXCEPT ![made'] = ws]
  /\ uploads' = [uploads EXCEPT ![p] = made]
  /\ loop' = [loop EXCEPT ![k] = At("creating", p, made')]

\* The new FileUpload takes the path, whatever is there; its socket is the
\* session's latest; init_upload begins.  (The bound is that of AddFile.)
Make(k, p) ==
  /\ made < MaxUploads /\ made' = made + 1
  /\ pathOf' = [pathOf EXCEPT ![made'] = p]
  /\ socketOf' = [socketOf EXCEPT ![made'] = ws]
  /\ uploads' = [uploads EXCEPT ![p] = made']
  /\ loop' = [loop EXCEPT ![k] = At("creating", p, made')]

\* mutant: self.aborted is not set
StartAbortUnmarked(k, u) ==
  /\ Send(socketOf[u], "abort", pathOf[u])
  /\ UNCHANGED aborted
  /\ aborts' = [aborts EXCEPT ![k][u] = "gather"]

\* abort_upload up to its first wait
StartAbort(k, u) ==
  /\ Send(socketOf[u], "abort", pathOf[u])
  /\ aborted' = [aborted EXCEPT ![u] = TRUE]
  /\ aborts' = [aborts EXCEPT ![k][u] = "gather"]

\* abort_upload raises: its loop, which waits for it, ends
AbortRaises(k, u) ==
  /\ aborts' = [aborts EXCEPT ![k][u] = "none"]
  /\ loop' = [loop EXCEPT ![k] = Dead]

\* mutant: a previous upload of the path is not aborted
HandleBeginOver(k) ==
  /\ Handles(k, "start_upload")
  /\ Make(k, Head(toRunner[k]).path)
  /\ UNCHANGED <<tab, ws, got, task, store, toBrowser, aborted, aborts>>

\* handle_begin_upload: an upload of the same path is aborted first, as long
\* as the latest socket is open
HandleBegin(k) ==
  /\ Handles(k, "start_upload")
  /\ LET p == Head(toRunner[k]).path
         u == uploads[p] IN
       \/ /\ u # None /\ ~Closed(ws) /\ ~Broken(socketOf[u])
          /\ StartAbort(k, u)
          /\ loop' = [loop EXCEPT ![k] = At("replacing", p, u)]
          /\ UNCHANGED <<objects, uploads>>
       \/ /\ u # None /\ ~Closed(ws) /\ Broken(socketOf[u])
          /\ AbortRaises(k, u)
          /\ UNCHANGED <<objects, uploads, toBrowser, aborted>>
       \/ /\ u = None \/ Closed(ws)
          /\ Make(k, p) /\ UNCHANGED <<toBrowser, aborted, aborts>>
  /\ UNCHANGED <<tab, ws, got, task, store>>

Replace(k) ==
  /\ loop[k].at = "replacing" /\ aborts[k][loop[k].upload] = "none"
  /\ Make(k, loop[k].path)
  /\ UNCHANGED <<tab, toRunner, toBrowser, ws, got, task, aborted, store, aborts>>

\* init_upload after a_create_container; the browser is told to start
InitUpload(k) ==
  /\ loop[k].at = "creating"
  /\ LET u == loop[k].upload IN
       /\ task' = [task EXCEPT ![u] = "running"]
       /\ Send(socketOf[u], "start_upload", pathOf[u])
       /\ loop' = [loop EXCEPT ![k] = IF Broken(socketOf[u]) THEN Dead ELSE Idle]
  /\ UNCHANGED <<tab, toRunner, ws, uploads, objects, got, aborted, store, aborts>>

\* handle_upload_chunks: a path without an upload is a KeyError
HandleChunks(k) ==
  /\ Handles(k, "add_chunks")
  /\ LET u == uploads[Head(toRunner[k]).path] IN
       IF u # None
       THEN got' = [got EXCEPT ![u] = TRUE] /\ UNCHANGED loop
       ELSE loop' = [loop EXCEPT ![k] = Dead] /\ UNCHANGED got
  /\ UNCHANGED <<tab, toBrowser, ws, uploads, objects, task, aborted, store, aborts>>

\* handle_finish_upload finds the upload, or raises a KeyError
HandleFinish(k) ==
  /\ Handles(k, "finish")
  /\ LET p == Head(toRunner[k]).path IN
       loop' = [loop EXCEPT ![k] = IF uploads[p] = None THEN Dead
                                   ELSE At("gathering", p, uploads[p])]
  /\ UNCHANGED <<tab, toBrowser, ws, uploads, objects, got, task, aborted, store, aborts>>

FinishGather(k) ==
  /\ loop[k].at = "gathering" /\ task[loop[k].upload] # "running"
  /\ loop' = [loop EXCEPT ![k] = IF task[@.upload] = "raised" THEN Dead
                                 ELSE [@ EXCEPT !.at = "manifest"]]
  /\ UNCHANGED <<tab, toRunner, toBrowser, ws, uploads, objects, got, task, aborted,
                 store, aborts>>

\* mutant: the upload stays in the map
FinishManifestStays(k) ==
  /\ loop[k].at = "manifest"
  /\ manifest' = [manifest EXCEPT ![loop[k].path] = loop[k].upload]
  /\ loop' = [loop EXCEPT ![k] = Idle]
  /\ UNCHANGED <<tab, toRunner, toBrowser, ws, uploads, objects, got, task, aborted,
                 segments, aborts>>

\* The manifest's PUT is answered; then self.uploads[container].pop(path), of
\* whatever upload is there now (a KeyError when there is none)
FinishManifest(k) ==
  /\ loop[k].at = "manifest"
  /\ LET p == loop[k].path IN
       /\ manifest' = [manifest EXCEPT ![p] = loop[k].upload]
       /\ uploads' = [uploads EXCEPT ![p] = None]
       /\ loop' = [loop EXCEPT ![k] = IF uploads[p] = None THEN Dead ELSE Idle]
  /\ UNCHANGED <<tab, toRunner, toBrowser, ws, objects, got, task, aborted, segments,
                 aborts>>

\* "cancel": handle_close starts an abort_upload for every upload
HandleCancel(k) ==
  /\ Handles(k, "cancel")
  /\ aborts' = [aborts EXCEPT ![k] =
       [u \in Uploads |-> IF u \in {uploads[p] : p \in Paths} THEN "start" ELSE "none"]]
  /\ loop' = [loop EXCEPT ![k] = At("closing", None, None)]
  /\ UNCHANGED <<tab, toBrowser, ws, uploads, objects, got, task, aborted, store>>

AbortStart(k, u) ==
  /\ aborts[k][u] = "start"
  /\ IF Broken(socketOf[u]) THEN AbortRaises(k, u) /\ UNCHANGED <<toBrowser, aborted>>
     ELSE StartAbort(k, u) /\ UNCHANGED loop
  /\ UNCHANGED <<tab, toRunner, ws, uploads, objects, got, task, store>>

\* mutant: the tasks are not waited for
AbortGatherAtOnce(k, u) ==
  /\ aborts[k][u] = "gather"
  /\ aborts' = [aborts EXCEPT ![k][u] = "delete"]
  /\ UNCHANGED <<tab, toRunner, toBrowser, ws, uploads, objects, got, task, aborted,
                 store, loop>>

\* asyncio.gather(*self.tasks), which may be none yet
AbortGather(k, u) ==
  /\ aborts[k][u] = "gather" /\ task[u] # "running"
  /\ IF task[u] = "raised" THEN AbortRaises(k, u)
     ELSE aborts' = [aborts EXCEPT ![k][u] = "delete"] /\ UNCHANGED loop
  /\ UNCHANGED <<tab, toRunner, toBrowser, ws, uploads, objects, got, task, aborted, store>>

AbortDelete(k, u) ==
  /\ aborts[k][u] = "delete"
  /\ aborts' = [aborts EXCEPT ![k][u] = "none"]
  /\ segments' = [segments EXCEPT ![u] = "none"]
  /\ UNCHANGED <<tab, toRunner, toBrowser, ws, uploads, objects, got, task, aborted,
                 manifest, loop>>

\* handle_close ends: self.uploads = {}
CloseAll(k) ==
  /\ loop[k].at = "closing" /\ \A u \in Uploads : aborts[k][u] = "none"
  /\ uploads' = [p \in Paths |-> None]
  /\ loop' = [loop EXCEPT ![k] = Idle]
  /\ UNCHANGED <<tab, toRunner, toBrowser, ws, objects, got, task, aborted, store, aborts>>

\* The loop ends with the socket; nothing is closed
LoopEnds(k) ==
  /\ loop[k].at = "idle" /\ conn[k] = "closed" /\ toRunner[k] = <<>>
  /\ loop' = [loop EXCEPT ![k] = At("ended", None, None)]
  /\ UNCHANGED <<tab, toRunner, toBrowser, ws, uploads, objects, got, task, aborted,
                 store, aborts>>

-----------------------------------------------------------------------------
(* The tasks of upload u *)

\* The browser is told; the task ends, or raises when the socket is broken
Report(u) ==
  /\ Send(socketOf[u], "success", pathOf[u])
  /\ task' = [task EXCEPT ![u] = IF Broken(socketOf[u]) THEN "raised" ELSE "ended"]

\* All of the file has been stored: success is reported
TaskStores(u) ==
  /\ task[u] = "running" /\ got[u]
  /\ segments' = [segments EXCEPT ![u] = "all"]
  /\ Report(u)
  /\ UNCHANGED <<tab, toRunner, ws, uploads, objects, got, aborted, manifest, loop, aborts>>

\* An aborted upload ends early: without a PUT, or with a shorter body, which
\* is stored and reported like a whole one
TaskAborts(u) ==
  /\ task[u] = "running" /\ aborted[u]
  /\ \/ task' = [task EXCEPT ![u] = "ended"] /\ UNCHANGED <<segments, toBrowser>>
     \/ /\ got[u]
        /\ segments' = [segments EXCEPT ![u] = "part"]
        /\ Report(u)
  /\ UNCHANGED <<tab, toRunner, ws, uploads, objects, got, aborted, manifest, loop, aborts>>

-----------------------------------------------------------------------------
Loop(k) == \/ HandleBegin(k) \/ Replace(k) \/ InitUpload(k) \/ HandleChunks(k)
           \/ HandleFinish(k) \/ FinishGather(k) \/ FinishManifest(k)
           \/ HandleCancel(k) \/ CloseAll(k) \/ LoopEnds(k)
Abort(k, u) == AbortStart(k, u) \/ AbortGather(k, u) \/ AbortDelete(k, u)
Task(u) == TaskStores(u) \/ TaskAborts(u)

Next == \/ \E k \in Sockets : \/ Open(k) \/ Cancel(k) \/ Receive(k) \/ SeeClosed(k)
                              \/ Loop(k)
                              \/ \E p \in Paths : AddFile(k, p)
                              \/ \E u \in Uploads : Abort(k, u)
        \/ \E u \in Uploads : Task(u)

\* Loops, tasks and tabs run; users need not do anything
Fairness == /\ \A k \in Sockets : /\ WF_vars(Receive(k)) /\ WF_vars(SeeClosed(k))
                                  /\ WF_vars(Loop(k))
                                  /\ \A u \in Uploads : WF_vars(Abort(k, u))
            /\ \A u \in Uploads : WF_vars(Task(u))

Spec == Init /\ [][Next]_vars
FairSpec == Spec /\ Fairness

-----------------------------------------------------------------------------
(* Properties *)

Commands == {"start_upload", "add_chunks", "finish", "cancel", "abort", "success"}
Messages == [command : Commands, path : Paths \cup {None}]

\* Every variable has a value of its type.
TypeOK ==
  /\ conn \in [Sockets -> {"new", "open", "closed"}]
  /\ toRunner \in [Sockets -> Seq(Messages)] /\ toBrowser \in [Sockets -> Seq(Messages)]
  /\ files \in [Sockets -> SUBSET Paths] /\ added \in 0 .. MaxUploads /\ cancels \in 0 .. MaxCancels
  /\ ws \in Sockets \cup {None} /\ uploads \in [Paths -> Uploads \cup {None}]
  /\ made \in 0 .. MaxUploads /\ pathOf \in [Uploads -> Paths \cup {None}]
  /\ socketOf \in [Uploads -> Sockets \cup {None}]
  /\ got \in [Uploads -> BOOLEAN] /\ task \in [Uploads -> {"none", "running", "ended", "raised"}]
  /\ aborted \in [Uploads -> BOOLEAN]
  /\ segments \in [Uploads -> {"none", "part", "all"}]
  /\ manifest \in [Paths -> Uploads \cup {None}]
  /\ loop \in [Sockets -> [at : LoopStates, path : Paths \cup {None},
                           upload : Uploads \cup {None}]]
  /\ aborts \in [Sockets -> [Uploads -> AbortStates]]

\* The session has had a single websocket so far
OneSocket == \A j, k \in Sockets : conn[j] # "new" /\ conn[k] # "new" => j = k

\* An upload leaves the session's map only when it has been aborted or its own
\* manifest has been put in place: none is forgotten while it runs.  (A second
\* websocket may begin one while handle_close of the first empties the map.)
NoLostUpload ==
  [][\A p \in Paths : LET u == uploads[p] IN
       OneSocket /\ u # None /\ uploads'[p] # u => aborted[u] \/ manifest'[p] = u]_vars

\* No manifest points to segments that an abort has deleted or cut short.  (One
\* websocket may finish the upload that another aborts.)
NoDanglingManifest ==
  OneSocket => \A p \in Paths : manifest[p] # None => segments[manifest[p]] = "all"

BeingAborted(u) == \E k \in Sockets : aborts[k][u] # "none"

\* When abort_upload is over, nothing of the upload runs or remains.  (With a
\* second websocket the abort may come before init_upload has made the tasks.)
AbortClean ==
  \A u \in Uploads :
    OneSocket /\ aborted[u] /\ ~BeingAborted(u) => /\ task[u] # "running"
                                                  /\ segments[u] = "none"

\* Loop k waits for a request, or for tasks that an abort has told to end
Released(k) == \/ loop[k].at \in {"replacing", "creating", "manifest", "closing"}
               \/ loop[k].at = "gathering" /\ aborted[loop[k].upload]

\* However aborts, finishes and replacements of several sockets wait for the
\* same uploads, every message loop that does not wait for the browser's data
\* gets back to its socket or ends.
LoopsReturn ==
  \A k \in Sockets : Released(k) ~> loop[k].at \in {"idle", "ended", "dead"}

\* An upload in the map is finished or aborted in the end.
Resolved == \A p \in Paths, u \in Uploads : uploads[p] = u ~> uploads[p] # u
=============================================================================
