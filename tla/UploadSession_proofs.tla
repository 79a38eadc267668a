------------------------- MODULE UploadSession_proofs -------------------------
(***************************************************************************)
(* For any number of websockets, paths and files, the variables of a session *)
(* keep their types.  While it has had a single websocket, no manifest points *)
(* to segments that were deleted or cut short, an abort leaves nothing behind, *)
(* and no upload is forgotten while it runs.                                 *)
(***************************************************************************)
EXTENDS UploadSession, TLAPS

-----------------------------------------------------------------------------
(* What is always so, whatever number of websockets *)

\* What a worker sends: only a cancel has no path.
Requests == [command : {"start_upload", "add_chunks", "finish"}, path : Paths]
              \cup {Msg("cancel", None)}

\* Where a loop works for an upload
Serving == {"replacing", "creating", "gathering", "manifest"}

ShapeOf(k) ==
  /\ loop[k].at \in Serving => loop[k].path \in Paths /\ loop[k].upload \in 1 .. made
  /\ conn[k] = "new" <=> loop[k].at = "none"
  /\ conn[k] = "new" => \A u \in Uploads : aborts[k][u] = "none"
  /\ conn[k] # "new" => ws \in Sockets /\ conn[ws] # "new"
  /\ \A u \in Uploads : aborts[k][u] # "none" => u \in 1 .. made

\* An upload in the map, or that has tasks, has been made; it then has a path and
\* a websocket that has been opened.
MadeOf(u) ==
  IF u \in 1 .. made
  THEN pathOf[u] \in Paths /\ socketOf[u] \in Sockets /\ conn[socketOf[u]] # "new"
  ELSE task[u] = "none" /\ ~aborted[u] /\ segments[u] = "none"

Shape ==
  /\ toRunner \in [Sockets -> Seq(Requests)]
  /\ \A k \in Sockets : ShapeOf(k)
  /\ \A u \in Uploads : MadeOf(u)
  /\ \A p \in Paths : uploads[p] # None => uploads[p] \in 1 .. made
  /\ \A p \in Paths : manifest[p] # None => manifest[p] \in 1 .. made

TypeInv == TypeOK /\ Shape

Serves(k, u) == loop[k].at \in Serving /\ loop[k].upload = u

\* The loop of the only websocket, between its awaits.  Aborts are under way
\* only while it waits for them; an upload in the map is aborted only by them;
\* and an upload that has no tasks yet is being created.
LoopOf(k) ==
  /\ loop[k].at \in Serving => uploads[loop[k].path] = loop[k].upload
  /\ loop[k].at = "creating" => task[loop[k].upload] = "none"
  /\ loop[k].at = "replacing" => aborted[loop[k].upload]
  /\ loop[k].at = "manifest" => task[loop[k].upload] = "ended"
  /\ \A p \in Paths : LET u == uploads[p] IN u # None =>
       /\ aborted[u] => loop[k].at = "closing" \/ (loop[k].at = "replacing" /\ Serves(k, u))
       /\ task[u] = "none" => loop[k].at = "creating" /\ Serves(k, u)
       /\ loop[k].at = "closing" => aborts[k][u] = "start" \/ aborted[u]
  /\ \A u \in Uploads :
       /\ aborts[k][u] # "none" => loop[k].at = "closing" \/ (loop[k].at = "replacing" /\ Serves(k, u))
       /\ aborts[k][u] = "start" => loop[k].at = "closing" /\ \E p \in Paths : uploads[p] = u
       /\ aborts[k][u] \in {"gather", "delete"} => aborted[u]
       /\ aborts[k][u] = "delete" => task[u] # "running"
       /\ task[u] = "raised" => loop[k].at = "dead"

\* An upload of a session that has had one websocket
UploadOf(u) ==
  /\ aborted[u] /\ ~BeingAborted(u) => task[u] # "running" /\ segments[u] = "none"
  /\ task[u] = "ended" /\ ~aborted[u] => segments[u] = "all"

\* A path of it: its upload is under it, and its object is of an upload that has
\* left the map without an abort
PathOf(p) ==
  /\ uploads[p] # None => pathOf[uploads[p]] = p
  /\ manifest[p] # None => /\ task[manifest[p]] = "ended" /\ ~aborted[manifest[p]]
                           /\ \A q \in Paths : uploads[q] # manifest[p]

Single ==
  /\ \A k \in Sockets : conn[k] # "new" => LoopOf(k)
  /\ \A u \in Uploads : UploadOf(u)
  /\ \A p \in Paths : PathOf(p)

SingleInv == OneSocket => Single

-----------------------------------------------------------------------------
(* Type correctness *)

LEMMA RequestTypes ==
  /\ Seq(Requests) \subseteq Seq(Messages)
  /\ \A r \in Requests : r.command # "cancel" => r.path \in Paths
<1>1. Requests \subseteq Messages
  BY DEF Requests, Messages, Commands, Msg
<1>2. Seq(Requests) \subseteq Seq(Messages)
  BY <1>1
<1>3. \A r \in Requests : r.command # "cancel" => r.path \in Paths
  BY DEF Requests, Msg
<1> QED
  BY <1>2, <1>3

LEMMA TakesRequest ==
  ASSUME TypeInv, NEW k \in Sockets, NEW command, command # "cancel", Handles(k, command)
  PROVE  /\ toRunner' \in [Sockets -> Seq(Requests)]
         /\ Head(toRunner[k]).path \in Paths
<1>1. toRunner[k] \in Seq(Requests) /\ toRunner[k] # <<>>
  BY DEF Handles, TypeInv, Shape
<1>2. Head(toRunner[k]) \in Requests /\ Tail(toRunner[k]) \in Seq(Requests)
  BY <1>1
<1>3. toRunner' \in [Sockets -> Seq(Requests)]
  BY <1>2 DEF Handles, TypeInv, Shape
<1> QED
  BY <1>2, <1>3, RequestTypes DEF Handles

LEMMA SendsRequest ==
  ASSUME TypeInv, NEW k \in Sockets, NEW r \in Requests,
         toRunner' = [toRunner EXCEPT ![k] = Append(@, r)]
  PROVE  toRunner' \in [Sockets -> Seq(Requests)]
<1>1. Append(toRunner[k], r) \in Seq(Requests)
  BY DEF TypeInv, Shape
<1> QED
  BY <1>1 DEF TypeInv, Shape

LEMMA SendTyped ==
  ASSUME TypeOK, NEW k \in Sockets, NEW command \in Commands, NEW p \in Paths,
         Send(k, command, p)
  PROVE  toBrowser' \in [Sockets -> Seq(Messages)]
<1>1. Msg(command, p) \in Messages
  BY DEF Msg, Messages
<1>2. Append(toBrowser[k], Msg(command, p)) \in Seq(Messages)
  BY <1>1 DEF TypeOK
<1> QED
  BY <1>2 DEF Send, TypeOK

LEMMA TypeInit == Init => TypeInv
<1> SUFFICES ASSUME Init PROVE TypeInv
  OBVIOUS
<1>1. TypeOK
  BY SessionAssumption DEF Init, TypeOK, At, LoopStates, AbortStates, Uploads
<1>2. Shape
  BY SessionAssumption DEF Init, Shape, ShapeOf, MadeOf, At, Serving, Uploads
<1> QED
  BY <1>1, <1>2 DEF TypeInv

LEMMA TypeOpen == ASSUME TypeInv, NEW k \in Sockets, Open(k) PROVE TypeInv'
<1>0. files' \in [Sockets -> SUBSET Paths]
  <2>1. CASE UNCHANGED files
    BY <2>1 DEF TypeInv, TypeOK
  <2>2. ASSUME NEW j \in Sockets, files' = [files EXCEPT ![k] = files[j], ![j] = {}]
        PROVE  files' \in [Sockets -> SUBSET Paths]
    BY <2>2 DEF TypeInv, TypeOK
  <2> QED
    BY <2>1, <2>2 DEF Open
<1>i. Idle \in [at : LoopStates, path : Paths \cup {None}, upload : Uploads \cup {None}]
  BY DEF Idle, At, LoopStates
<1>1. TypeOK'
  BY <1>0, <1>i DEF TypeInv, TypeOK, Open, objects, store
<1>2. Shape'
  BY DEF TypeInv, TypeOK, Shape, ShapeOf, MadeOf, Open, objects, store, Idle, At, Serving
<1> QED
  BY <1>1, <1>2 DEF TypeInv

LEMMA TypeAdd == ASSUME TypeInv, NEW k \in Sockets, NEW p \in Paths, AddFile(k, p) PROVE TypeInv'
<1>1. Msg("start_upload", p) \in Requests
  BY DEF Msg, Requests
<1>2. toRunner' \in [Sockets -> Seq(Requests)]
  BY <1>1, SendsRequest DEF AddFile, ToRunner
<1>a. added' \in 0 .. MaxUploads /\ files' \in [Sockets -> SUBSET Paths]
  BY SessionAssumption DEF TypeInv, TypeOK, AddFile
<1>3. TypeOK'
  BY <1>2, <1>a, RequestTypes DEF TypeInv, TypeOK, AddFile, objects, store
<1>4. Shape'
  BY <1>2 DEF TypeInv, Shape, ShapeOf, MadeOf, AddFile, objects, store
<1> QED
  BY <1>3, <1>4 DEF TypeInv

LEMMA TypeCancel == ASSUME TypeInv, NEW k \in Sockets, Cancel(k) PROVE TypeInv'
<1>1. Msg("cancel", None) \in Requests
  BY DEF Requests
<1>2. toRunner' \in [Sockets -> Seq(Requests)]
  BY <1>1, SendsRequest DEF Cancel, ToRunner
<1>a. cancels' \in 0 .. MaxCancels /\ files' \in [Sockets -> SUBSET Paths]
  BY SessionAssumption DEF TypeInv, TypeOK, Cancel
<1>3. TypeOK'
  BY <1>2, <1>a, RequestTypes DEF TypeInv, TypeOK, Cancel, objects, store
<1>4. Shape'
  BY <1>2 DEF TypeInv, Shape, ShapeOf, MadeOf, Cancel, objects, store
<1> QED
  BY <1>3, <1>4 DEF TypeInv

LEMMA TypeReceive == ASSUME TypeInv, NEW k \in Sockets, Receive(k) PROVE TypeInv'
<1>1. toRunner' \in [Sockets -> Seq(Requests)]
  <2>1. CASE UNCHANGED toRunner
    BY <2>1 DEF TypeInv, Shape
  <2>2. ASSUME NEW command \in {"add_chunks", "finish"}, NEW p \in files[k],
               ToRunner(k, command, p)
        PROVE  toRunner' \in [Sockets -> Seq(Requests)]
    <3>1. Msg(command, p) \in Requests
      BY DEF Msg, Requests, TypeInv, TypeOK
    <3> QED
      BY <2>2, <3>1, SendsRequest DEF ToRunner
  <2> QED
    BY <2>1, <2>2 DEF Receive
<1>2. toBrowser' \in [Sockets -> Seq(Messages)]
  <2>1. toBrowser[k] \in Seq(Messages) /\ toBrowser[k] # <<>>
    BY DEF Receive, TypeInv, TypeOK
  <2>2. Tail(toBrowser[k]) \in Seq(Messages)
    BY <2>1
  <2> QED
    BY <2>2 DEF Receive, TypeInv, TypeOK
<1>3. conn' = conn \/ (conn' = [conn EXCEPT ![k] = "closed"] /\ conn[k] = "open")
  BY DEF Receive
<1>u. UNCHANGED <<files, added, cancels, ws, uploads, objects, got, task, aborted, store,
                  loop, aborts>>
  BY DEF Receive
<1>4. TypeOK'
  BY <1>1, <1>2, <1>3, <1>u, RequestTypes DEF TypeInv, TypeOK, objects, store
<1>5. Shape'
  BY <1>1, <1>3, <1>u DEF TypeInv, TypeOK, Shape, ShapeOf, MadeOf, objects, store
<1> QED
  BY <1>4, <1>5 DEF TypeInv

LEMMA TypeSeeClosed == ASSUME TypeInv, NEW k \in Sockets, SeeClosed(k) PROVE TypeInv'
<1>1. TypeOK'
  BY DEF TypeInv, TypeOK, SeeClosed, objects, store
<1>2. Shape'
  BY DEF TypeInv, TypeOK, Shape, ShapeOf, MadeOf, SeeClosed, objects, store
<1> QED
  BY <1>1, <1>2 DEF TypeInv

LoopRecords == [at : LoopStates, path : Paths \cup {None}, upload : Uploads \cup {None}]

\* The loop that takes a message is of an open session.
LEMMA Running ==
  ASSUME TypeInv, NEW k \in Sockets, loop[k].at # "none"
  PROVE  ws \in Sockets /\ conn[ws] # "new" /\ conn[k] # "new"
BY DEF TypeInv, Shape, ShapeOf

LEMMA TypeMake ==
  ASSUME TypeInv, NEW k \in Sockets, NEW p \in Paths, loop[k].at # "none", Make(k, p),
         toRunner' \in [Sockets -> Seq(Requests)], toBrowser' = toBrowser,
         UNCHANGED <<tab, ws, got, task, store, aborted, aborts>>
  PROVE  TypeInv'
<1>1. made + 1 \in 1 .. MaxUploads /\ made' = made + 1 /\ 1 .. made' = (1 .. made) \cup {made'}
      /\ made \in Nat /\ made' \in Uploads
  BY SessionAssumption DEF Make, TypeInv, TypeOK, Uploads
<1>2. ws \in Sockets /\ conn[ws] # "new" /\ conn[k] # "new"
  BY Running
<1>3. At("creating", p, made') \in LoopRecords
  BY <1>1 DEF At, LoopRecords, LoopStates
<1>4. /\ pathOf' = [pathOf EXCEPT ![made'] = p] /\ socketOf' = [socketOf EXCEPT ![made'] = ws]
      /\ uploads' = [uploads EXCEPT ![p] = made']
      /\ loop' = [loop EXCEPT ![k] = At("creating", p, made')]
  BY DEF Make
<1>5. TypeOK'
  <2>1. /\ pathOf' \in [Uploads -> Paths \cup {None}]
        /\ socketOf' \in [Uploads -> Sockets \cup {None}]
        /\ uploads' \in [Paths -> Uploads \cup {None}]
    BY <1>1, <1>2, <1>4 DEF TypeInv, TypeOK
  <2>2. loop' \in [Sockets -> LoopRecords]
    BY <1>3, <1>4 DEF TypeInv, TypeOK, LoopRecords
  <2>3. made' \in 0 .. MaxUploads
    BY <1>1
  <2> QED
    BY <2>1, <2>2, <2>3, RequestTypes DEF TypeInv, TypeOK, tab, store, LoopRecords
<1>6. Shape'
  <2>1. \A i \in Sockets : ShapeOf(i)'
    BY <1>1, <1>2, <1>4 DEF TypeInv, TypeOK, Shape, ShapeOf, tab, At, Serving
  <2>2. \A u \in Uploads : MadeOf(u)'
    BY <1>1, <1>2, <1>4 DEF TypeInv, TypeOK, Shape, MadeOf, tab, store
  <2>3. \A q \in Paths : /\ uploads'[q] # None => uploads'[q] \in 1 .. made'
                         /\ manifest'[q] # None => manifest'[q] \in 1 .. made'
    BY <1>1, <1>4 DEF TypeInv, TypeOK, Shape, store
  <2> QED
    BY <2>1, <2>2, <2>3 DEF Shape
<1> QED
  BY <1>5, <1>6 DEF TypeInv

\* A step of loops and aborts that makes no upload
LEMMA TypeLoop ==
  ASSUME TypeInv,
         toRunner' \in [Sockets -> Seq(Requests)], toBrowser' \in [Sockets -> Seq(Messages)],
         loop' \in [Sockets -> LoopRecords], aborts' \in [Sockets -> [Uploads -> AbortStates]],
         UNCHANGED <<tab, ws, objects>>,
         uploads' \in [Paths -> Uploads \cup {None}], manifest' \in [Paths -> Uploads \cup {None}],
         segments' \in [Uploads -> {"none", "part", "all"}],
         got' \in [Uploads -> BOOLEAN], aborted' \in [Uploads -> BOOLEAN],
         task' \in [Uploads -> {"none", "running", "ended", "raised"}],
         \A k \in Sockets :
           /\ loop'[k] = loop[k] \/ (loop[k].at # "none" /\ loop'[k].at # "none")
           /\ loop'[k].at \in Serving =>
                loop'[k].path \in Paths /\ loop'[k].upload \in 1 .. made
           /\ \A u \in Uploads : aborts'[k][u] \in {"none", aborts[k][u]} \/
                                 (u \in 1 .. made /\ loop[k].at # "none")
                                 \/ aborts[k][u] # "none",
         \A p \in Paths : /\ uploads'[p] \in {uploads[p], None}
                          /\ manifest'[p] = manifest[p] \/ manifest'[p] \in 1 .. made,
         \A u \in Uploads : u \notin 1 .. made =>
           task'[u] = task[u] /\ aborted'[u] = aborted[u] /\ segments'[u] \in {segments[u], "none"}
  PROVE  TypeInv'
<1>1. TypeOK'
  BY RequestTypes DEF TypeInv, TypeOK, tab, objects, LoopRecords
<1>2. \A k \in Sockets : ShapeOf(k)'
  BY DEF TypeInv, TypeOK, Shape, ShapeOf, tab, objects, Serving
<1>3. \A u \in Uploads : MadeOf(u)'
  BY DEF TypeInv, TypeOK, Shape, MadeOf, tab, objects
<1>4. \A p \in Paths : /\ uploads'[p] # None => uploads'[p] \in 1 .. made'
                       /\ manifest'[p] # None => manifest'[p] \in 1 .. made'
  BY DEF TypeInv, Shape, objects
<1> QED
  BY <1>1, <1>2, <1>3, <1>4 DEF TypeInv, Shape

LEMMA OfMade ==
  ASSUME TypeInv, NEW u \in 1 .. made
  PROVE  u \in Uploads /\ pathOf[u] \in Paths /\ socketOf[u] \in Sockets /\ conn[socketOf[u]] # "new"
<1>1. u \in Uploads
  BY SessionAssumption DEF TypeInv, TypeOK, Uploads
<1> QED
  BY <1>1 DEF TypeInv, Shape, MadeOf

LEMMA Records ==
  /\ Idle \in LoopRecords /\ Dead \in LoopRecords /\ At("ended", None, None) \in LoopRecords
  /\ At("closing", None, None) \in LoopRecords
  /\ \A at \in LoopStates, p \in Paths, u \in Uploads : At(at, p, u) \in LoopRecords
  /\ \A at, p, u : At(at, p, u).at = at /\ At(at, p, u).path = p /\ At(at, p, u).upload = u
  /\ Idle.at = "idle" /\ Dead.at = "dead"
BY DEF Idle, Dead, At, LoopRecords, LoopStates

LEMMA TypeStart ==
  ASSUME TypeInv, NEW k \in Sockets, NEW u \in 1 .. made, StartAbort(k, u)
  PROVE  /\ toBrowser' \in [Sockets -> Seq(Messages)]
         /\ aborted' \in [Uploads -> BOOLEAN] /\ aborts' \in [Sockets -> [Uploads -> AbortStates]]
         /\ aborted' = [aborted EXCEPT ![u] = TRUE]
         /\ aborts' = [aborts EXCEPT ![k][u] = "gather"]
<1>1. u \in Uploads /\ pathOf[u] \in Paths /\ socketOf[u] \in Sockets
  BY OfMade
<1>2. toBrowser' \in [Sockets -> Seq(Messages)]
  BY <1>1, SendTyped DEF StartAbort, TypeInv, Commands
<1> QED
  BY <1>1, <1>2 DEF StartAbort, TypeInv, TypeOK, AbortStates

LEMMA TypeRaise ==
  ASSUME TypeInv, NEW k \in Sockets, NEW u \in Uploads, AbortRaises(k, u)
  PROVE  /\ aborts' \in [Sockets -> [Uploads -> AbortStates]]
         /\ loop' \in [Sockets -> LoopRecords]
         /\ aborts' = [aborts EXCEPT ![k][u] = "none"] /\ loop' = [loop EXCEPT ![k] = Dead]
BY Records DEF AbortRaises, TypeInv, TypeOK, AbortStates, LoopRecords

\* The loop and the aborts of socket k change, and nothing that uploads share.
LEMMA TypeHandle ==
  ASSUME TypeInv, NEW k \in Sockets, loop[k].at # "none", NEW r \in LoopRecords, r.at # "none",
         r.at \in Serving => r.path \in Paths /\ r.upload \in 1 .. made,
         loop' = [loop EXCEPT ![k] = r],
         toRunner' \in [Sockets -> Seq(Requests)], toBrowser' \in [Sockets -> Seq(Messages)],
         aborts' \in [Sockets -> [Uploads -> AbortStates]],
         \A i \in Sockets, u \in Uploads :
           aborts'[i][u] \in {aborts[i][u], "none"} \/ (i = k /\ u \in 1 .. made),
         UNCHANGED <<tab, ws, objects, task, store>>, got' \in [Uploads -> BOOLEAN],
         uploads' \in [Paths -> Uploads \cup {None}],
         \A p \in Paths : uploads'[p] \in {uploads[p], None},
         aborted' \in [Uploads -> BOOLEAN],
         \A u \in Uploads : u \notin 1 .. made => aborted'[u] = aborted[u]
  PROVE  TypeInv'
<1>1. loop' \in [Sockets -> LoopRecords]
  BY DEF TypeInv, TypeOK, LoopRecords
<1>2. \A i \in Sockets :
        /\ loop'[i] = loop[i] \/ (loop[i].at # "none" /\ loop'[i].at # "none")
        /\ loop'[i].at \in Serving => loop'[i].path \in Paths /\ loop'[i].upload \in 1 .. made
  BY DEF TypeInv, TypeOK, Shape, ShapeOf
<1> QED
  BY <1>1, <1>2, TypeLoop DEF TypeInv, TypeOK, store

LEMMA TypeBegin == ASSUME TypeInv, NEW k \in Sockets, HandleBegin(k) PROVE TypeInv'
<1> DEFINE p == Head(toRunner[k]).path
           u == uploads[p]
<1>1. Handles(k, "start_upload") /\ UNCHANGED <<tab, ws, got, task, store>>
  BY DEF HandleBegin
<1>2. toRunner' \in [Sockets -> Seq(Requests)] /\ p \in Paths
  BY <1>1, TakesRequest
<1>3. loop[k].at = "idle"
  BY <1>1 DEF Handles
<1>4. u # None => u \in 1 .. made
  BY <1>2 DEF TypeInv, Shape
<1>5. CASE /\ u # None /\ StartAbort(k, u) /\ loop' = [loop EXCEPT ![k] = At("replacing", p, u)]
           /\ UNCHANGED <<objects, uploads>>
  <2>1. At("replacing", p, u) \in LoopRecords
    BY <1>2, <1>4, <1>5, OfMade, Records DEF LoopStates
  <2>2. /\ toBrowser' \in [Sockets -> Seq(Messages)]
        /\ aborted' \in [Uploads -> BOOLEAN] /\ aborts' \in [Sockets -> [Uploads -> AbortStates]]
        /\ aborted' = [aborted EXCEPT ![u] = TRUE]
        /\ aborts' = [aborts EXCEPT ![k][u] = "gather"]
    BY <1>4, <1>5, TypeStart
  <2>3. /\ At("replacing", p, u).at # "none" /\ At("replacing", p, u).path = p
        /\ At("replacing", p, u).upload = u
    BY Records
  <2>4. \A i \in Sockets, v \in Uploads :
           aborts'[i][v] \in {aborts[i][v], "none"} \/ (i = k /\ v \in 1 .. made)
    BY <1>4, <1>5, <2>2 DEF TypeInv, TypeOK
  <2>5. \A v \in Uploads : v \notin 1 .. made => aborted'[v] = aborted[v]
    BY <1>4, <1>5, <2>2 DEF TypeInv, TypeOK
  <2> QED
    BY <1>1, <1>2, <1>3, <1>4, <1>5, <2>1, <2>2, <2>3, <2>4, <2>5, TypeHandle DEF TypeInv, TypeOK
<1>6. CASE u # None /\ AbortRaises(k, u) /\ UNCHANGED <<objects, uploads, toBrowser, aborted>>
  <2>1. /\ aborts' \in [Sockets -> [Uploads -> AbortStates]]
        /\ aborts' = [aborts EXCEPT ![k][u] = "none"] /\ loop' = [loop EXCEPT ![k] = Dead]
    BY <1>4, <1>6, TypeRaise, OfMade
  <2>2. Dead \in LoopRecords /\ Dead.at = "dead"
    BY Records
  <2>3. \A i \in Sockets, v \in Uploads : aborts'[i][v] \in {aborts[i][v], "none"}
    BY <2>1 DEF TypeInv, TypeOK
  <2> QED
    BY <1>1, <1>2, <1>3, <1>6, <2>1, <2>2, <2>3, TypeHandle DEF TypeInv, TypeOK, Serving
<1>7. CASE Make(k, p) /\ UNCHANGED <<toBrowser, aborted, aborts>>
  BY <1>1, <1>2, <1>3, <1>7, TypeMake
<1> QED
  BY <1>5, <1>6, <1>7 DEF HandleBegin

LEMMA TypeReplace == ASSUME TypeInv, NEW k \in Sockets, Replace(k) PROVE TypeInv'
<1>1. loop[k].path \in Paths
  BY DEF Replace, TypeInv, Shape, ShapeOf, Serving
<1> QED
  BY <1>1, TypeMake DEF Replace, TypeInv, Shape

LEMMA TypeInitUpload == ASSUME TypeInv, NEW k \in Sockets, InitUpload(k) PROVE TypeInv'
<1> DEFINE u == loop[k].upload
<1>1. u \in 1 .. made /\ loop[k].at = "creating"
  BY DEF InitUpload, TypeInv, Shape, ShapeOf, Serving
<1>2. u \in Uploads /\ pathOf[u] \in Paths /\ socketOf[u] \in Sockets
  BY <1>1, OfMade
<1>3. toBrowser' \in [Sockets -> Seq(Messages)]
  BY <1>2, SendTyped DEF InitUpload, TypeInv, Commands
<1>4. PICK r \in {Idle, Dead} : loop' = [loop EXCEPT ![k] = r]
  BY DEF InitUpload
<1>5. r \in LoopRecords /\ r.at \in {"idle", "dead"}
  BY <1>4, Records
<1>6. loop' \in [Sockets -> LoopRecords] /\ loop'[k] = r /\ \A i \in Sockets \ {k} : loop'[i] = loop[i]
  BY <1>4, <1>5 DEF TypeInv, TypeOK, LoopRecords
<1>7. task' \in [Uploads -> {"none", "running", "ended", "raised"}]
      /\ \A v \in Uploads : v \notin 1 .. made => task'[v] = task[v]
  BY <1>1, <1>2 DEF InitUpload, TypeInv, TypeOK
<1>8. \A i \in Sockets :
        /\ loop'[i] = loop[i] \/ (loop[i].at # "none" /\ loop'[i].at # "none")
        /\ loop'[i].at \in Serving => loop'[i].path \in Paths /\ loop'[i].upload \in 1 .. made
  BY <1>1, <1>5, <1>6 DEF TypeInv, Shape, ShapeOf, Serving
<1> QED
  BY <1>3, <1>6, <1>7, <1>8, TypeLoop DEF InitUpload, TypeInv, TypeOK, Shape, store

LEMMA TypeChunks == ASSUME TypeInv, NEW k \in Sockets, HandleChunks(k) PROVE TypeInv'
<1>1. Handles(k, "add_chunks") /\ loop[k].at = "idle"
      /\ UNCHANGED <<tab, toBrowser, ws, uploads, objects, task, aborted, store, aborts>>
  BY DEF HandleChunks, Handles
<1>2. toRunner' \in [Sockets -> Seq(Requests)] /\ Head(toRunner[k]).path \in Paths
  BY <1>1, TakesRequest
<1>3. PICK r \in {loop[k], Dead} : loop' = [loop EXCEPT ![k] = r]
  <2>1. CASE UNCHANGED loop
    <3>1. loop' = [loop EXCEPT ![k] = loop[k]]
      BY <2>1 DEF TypeInv, TypeOK
    <3> QED
      BY <3>1
  <2> QED
    BY <2>1 DEF HandleChunks
<1>4. r \in LoopRecords /\ r.at \in {"idle", "dead"}
  BY <1>1, Records DEF TypeInv, TypeOK, LoopRecords
<1>5. got' \in [Uploads -> BOOLEAN]
  BY <1>2 DEF HandleChunks, TypeInv, TypeOK
<1> QED
  BY <1>1, <1>2, <1>3, <1>4, <1>5, TypeHandle DEF TypeInv, TypeOK, Serving

LEMMA TypeFinish == ASSUME TypeInv, NEW k \in Sockets, HandleFinish(k) PROVE TypeInv'
<1> DEFINE p == Head(toRunner[k]).path
<1>1. Handles(k, "finish") /\ loop[k].at = "idle"
      /\ UNCHANGED <<tab, toBrowser, ws, uploads, objects, got, task, aborted, store, aborts>>
  BY DEF HandleFinish, Handles
<1>2. toRunner' \in [Sockets -> Seq(Requests)] /\ p \in Paths
  BY <1>1, TakesRequest
<1>3. CASE uploads[p] = None
  <2>1. loop' = [loop EXCEPT ![k] = Dead]
    BY <1>3 DEF HandleFinish
  <2>2. Dead \in LoopRecords /\ Dead.at = "dead"
    BY Records
  <2> QED
    BY <1>1, <1>2, <2>1, <2>2, TypeHandle DEF TypeInv, TypeOK, Serving
<1>4. CASE uploads[p] # None
  <2>1. uploads[p] \in 1 .. made /\ uploads[p] \in Uploads
    BY <1>2, <1>4 DEF TypeInv, TypeOK, Shape
  <2>2. At("gathering", p, uploads[p]) \in LoopRecords
    BY <1>2, <2>1, Records DEF LoopStates
  <2>3. loop' = [loop EXCEPT ![k] = At("gathering", p, uploads[p])]
    BY <1>4 DEF HandleFinish
  <2>4. At("gathering", p, uploads[p]).at # "none" /\ At("gathering", p, uploads[p]).path = p
        /\ At("gathering", p, uploads[p]).upload = uploads[p]
    BY Records
  <2> QED
    BY <1>1, <1>2, <2>1, <2>2, <2>3, <2>4, TypeHandle DEF TypeInv, TypeOK
<1> QED
  BY <1>3, <1>4

LEMMA TypeGather == ASSUME TypeInv, NEW k \in Sockets, FinishGather(k) PROVE TypeInv'
<1>1. loop[k].at = "gathering" /\ loop[k] \in LoopRecords
  BY DEF FinishGather, TypeInv, TypeOK, LoopRecords
<1>2. loop[k].path \in Paths /\ loop[k].upload \in 1 .. made
  BY <1>1 DEF TypeInv, Shape, ShapeOf, Serving
<1>3. UNCHANGED <<tab, toRunner, toBrowser, ws, uploads, objects, got, task, aborted, store, aborts>>
  BY DEF FinishGather
<1>4. PICK r \in {Dead, [loop[k] EXCEPT !.at = "manifest"]} : loop' = [loop EXCEPT ![k] = r]
  BY DEF FinishGather
<1>5. r \in LoopRecords /\ r.at # "none"
      /\ (r.at \in Serving => r.path \in Paths /\ r.upload \in 1 .. made)
  BY <1>1, <1>2, <1>4, Records DEF LoopRecords, LoopStates, Serving
<1> QED
  BY <1>1, <1>3, <1>4, <1>5, TypeHandle DEF TypeInv, TypeOK, Shape

LEMMA TypeManifest == ASSUME TypeInv, NEW k \in Sockets, FinishManifest(k) PROVE TypeInv'
<1> DEFINE p == loop[k].path
<1>1. loop[k].at = "manifest" /\ p \in Paths /\ loop[k].upload \in 1 .. made
  BY DEF FinishManifest, TypeInv, Shape, ShapeOf, Serving
<1>2. loop[k].upload \in Uploads
  BY <1>1, OfMade
<1>3. UNCHANGED <<tab, toRunner, toBrowser, ws, objects, got, task, aborted, segments, aborts>>
  BY DEF FinishManifest
<1>4. PICK r \in {Idle, Dead} : loop' = [loop EXCEPT ![k] = r]
  BY DEF FinishManifest
<1>5. r \in LoopRecords /\ r.at \in {"idle", "dead"}
  BY <1>4, Records
<1>6. loop' \in [Sockets -> LoopRecords] /\ loop'[k] = r /\ \A i \in Sockets \ {k} : loop'[i] = loop[i]
  BY <1>4, <1>5 DEF TypeInv, TypeOK, LoopRecords
<1>7. \A i \in Sockets :
        /\ loop'[i] = loop[i] \/ (loop[i].at # "none" /\ loop'[i].at # "none")
        /\ loop'[i].at \in Serving => loop'[i].path \in Paths /\ loop'[i].upload \in 1 .. made
  BY <1>1, <1>5, <1>6 DEF TypeInv, Shape, ShapeOf, Serving
<1>8. /\ uploads' \in [Paths -> Uploads \cup {None}] /\ manifest' \in [Paths -> Uploads \cup {None}]
      /\ \A q \in Paths : /\ uploads'[q] \in {uploads[q], None}
                          /\ manifest'[q] = manifest[q] \/ manifest'[q] \in 1 .. made
  BY <1>1, <1>2 DEF FinishManifest, TypeInv, TypeOK
<1> QED
  BY <1>3, <1>6, <1>7, <1>8, TypeLoop DEF TypeInv, TypeOK, Shape

LEMMA TypeHandleCancel == ASSUME TypeInv, NEW k \in Sockets, HandleCancel(k) PROVE TypeInv'
<1>1. toRunner' \in [Sockets -> Seq(Requests)] /\ loop[k].at = "idle"
  <2>1. toRunner[k] \in Seq(Requests) /\ toRunner[k] # <<>>
    BY DEF HandleCancel, Handles, TypeInv, Shape
  <2>2. Tail(toRunner[k]) \in Seq(Requests)
    BY <2>1
  <2> QED
    BY <2>2 DEF HandleCancel, Handles, TypeInv, Shape
<1>2. /\ UNCHANGED <<tab, toBrowser, ws, uploads, objects, got, task, aborted, store>>
      /\ loop' = [loop EXCEPT ![k] = At("closing", None, None)]
      /\ aborts' = [aborts EXCEPT ![k] =
           [u \in Uploads |-> IF u \in {uploads[p] : p \in Paths} THEN "start" ELSE "none"]]
  BY DEF HandleCancel
<1>3. At("closing", None, None) \in LoopRecords /\ At("closing", None, None).at = "closing"
  BY Records
<1>4. aborts' \in [Sockets -> [Uploads -> AbortStates]]
  BY <1>2 DEF TypeInv, TypeOK, AbortStates
<1>5. ASSUME NEW i \in Sockets, NEW u \in Uploads
      PROVE  aborts'[i][u] \in {aborts[i][u], "none"} \/ (i = k /\ u \in 1 .. made)
  <2>1. CASE i # k
    BY <1>2, <2>1 DEF TypeInv, TypeOK
  <2>2. CASE i = k
    <3>1. aborts'[k][u] = IF u \in {uploads[p] : p \in Paths} THEN "start" ELSE "none"
      BY <1>2 DEF TypeInv, TypeOK
    <3>2. (\E p \in Paths : uploads[p] = u) => u \in 1 .. made
      BY SessionAssumption DEF TypeInv, Shape, Uploads
    <3> QED
      BY <2>2, <3>1, <3>2
  <2> QED
    BY <2>1, <2>2
<1> QED
  BY <1>1, <1>2, <1>3, <1>4, <1>5, TypeHandle DEF TypeInv, TypeOK, Serving

\* The loop that aborts u is not a new one.
LEMMA Aborting ==
  ASSUME TypeInv, NEW k \in Sockets, NEW u \in Uploads, aborts[k][u] # "none"
  PROVE  loop[k].at # "none" /\ u \in 1 .. made
BY DEF TypeInv, Shape, ShapeOf

\* An abort goes on: neither the loops nor the session's map change.
LEMMA TypeAbort ==
  ASSUME TypeInv, UNCHANGED <<tab, toRunner, ws, uploads, objects, got, task, manifest, loop>>,
         toBrowser' \in [Sockets -> Seq(Messages)], aborted' \in [Uploads -> BOOLEAN],
         segments' \in [Uploads -> {"none", "part", "all"}],
         aborts' \in [Sockets -> [Uploads -> AbortStates]],
         \A i \in Sockets, v \in Uploads : aborts'[i][v] # "none" => aborts[i][v] # "none",
         \A v \in Uploads : v \notin 1 .. made =>
           aborted'[v] = aborted[v] /\ segments'[v] \in {segments[v], "none"}
  PROVE  TypeInv'
<1>1. /\ toRunner' \in [Sockets -> Seq(Requests)] /\ loop' \in [Sockets -> LoopRecords]
      /\ uploads' \in [Paths -> Uploads \cup {None}] /\ manifest' \in [Paths -> Uploads \cup {None}]
      /\ got' \in [Uploads -> BOOLEAN]
      /\ task' \in [Uploads -> {"none", "running", "ended", "raised"}]
  BY DEF TypeInv, TypeOK, Shape, LoopRecords
<1>2. \A i \in Sockets :
        /\ loop'[i] = loop[i]
        /\ loop'[i].at \in Serving => loop'[i].path \in Paths /\ loop'[i].upload \in 1 .. made
  BY DEF TypeInv, Shape, ShapeOf
<1> QED
  BY <1>1, <1>2, TypeLoop

LEMMA TypeAbortStart ==
  ASSUME TypeInv, NEW k \in Sockets, NEW u \in Uploads, AbortStart(k, u) PROVE TypeInv'
<1>1. loop[k].at # "none" /\ u \in 1 .. made /\ aborts[k][u] = "start"
  BY Aborting DEF AbortStart
<1>2. UNCHANGED <<tab, toRunner, ws, uploads, objects, got, task, store>>
  BY DEF AbortStart
<1>3. CASE AbortRaises(k, u) /\ UNCHANGED <<toBrowser, aborted>>
  <2>1. /\ aborts' \in [Sockets -> [Uploads -> AbortStates]]
        /\ aborts' = [aborts EXCEPT ![k][u] = "none"] /\ loop' = [loop EXCEPT ![k] = Dead]
    BY <1>3, TypeRaise
  <2>2. Dead \in LoopRecords /\ Dead.at = "dead"
    BY Records
  <2>3. \A i \in Sockets, v \in Uploads : aborts'[i][v] \in {aborts[i][v], "none"}
    BY <2>1 DEF TypeInv, TypeOK
  <2> QED
    BY <1>1, <1>2, <1>3, <2>1, <2>2, <2>3, TypeHandle DEF TypeInv, TypeOK, Serving, Shape
<1>4. CASE StartAbort(k, u) /\ UNCHANGED loop
  <2>1. /\ toBrowser' \in [Sockets -> Seq(Messages)]
        /\ aborted' \in [Uploads -> BOOLEAN] /\ aborts' \in [Sockets -> [Uploads -> AbortStates]]
        /\ aborted' = [aborted EXCEPT ![u] = TRUE]
        /\ aborts' = [aborts EXCEPT ![k][u] = "gather"]
    BY <1>1, <1>4, TypeStart
  <2>2. \A v \in Uploads : v \notin 1 .. made => aborted'[v] = aborted[v]
    BY <1>1, <2>1 DEF TypeInv, TypeOK
  <2>3. \A i \in Sockets, v \in Uploads : aborts'[i][v] # "none" => aborts[i][v] # "none"
    BY <1>1, <2>1 DEF TypeInv, TypeOK
  <2> QED
    BY <1>2, <1>4, <2>1, <2>2, <2>3, TypeAbort DEF TypeInv, TypeOK, store
<1> QED
  BY <1>3, <1>4 DEF AbortStart

LEMMA TypeAbortGather ==
  ASSUME TypeInv, NEW k \in Sockets, NEW u \in Uploads, AbortGather(k, u) PROVE TypeInv'
<1>1. loop[k].at # "none" /\ aborts[k][u] # "none"
  BY Aborting DEF AbortGather
<1>2. UNCHANGED <<tab, toRunner, toBrowser, ws, uploads, objects, got, task, aborted, store>>
  BY DEF AbortGather
<1>3. CASE AbortRaises(k, u)
  <2>1. /\ aborts' \in [Sockets -> [Uploads -> AbortStates]]
        /\ aborts' = [aborts EXCEPT ![k][u] = "none"] /\ loop' = [loop EXCEPT ![k] = Dead]
    BY <1>3, TypeRaise
  <2>2. Dead \in LoopRecords /\ Dead.at = "dead"
    BY Records
  <2>3. \A i \in Sockets, v \in Uploads : aborts'[i][v] \in {aborts[i][v], "none"}
    BY <2>1 DEF TypeInv, TypeOK
  <2> QED
    BY <1>1, <1>2, <1>3, <2>1, <2>2, <2>3, TypeHandle DEF TypeInv, TypeOK, Serving, Shape
<1>4. CASE aborts' = [aborts EXCEPT ![k][u] = "delete"] /\ UNCHANGED loop
  <2>1. aborts' \in [Sockets -> [Uploads -> AbortStates]]
    BY <1>4 DEF TypeInv, TypeOK, AbortStates
  <2>2. \A i \in Sockets, v \in Uploads : aborts'[i][v] # "none" => aborts[i][v] # "none"
    BY <1>1, <1>4 DEF TypeInv, TypeOK
  <2> QED
    BY <1>2, <1>4, <2>1, <2>2, TypeAbort DEF TypeInv, TypeOK, store
<1> QED
  BY <1>3, <1>4 DEF AbortGather

LEMMA TypeAbortDelete ==
  ASSUME TypeInv, NEW k \in Sockets, NEW u \in Uploads, AbortDelete(k, u) PROVE TypeInv'
<1>1. aborts' = [aborts EXCEPT ![k][u] = "none"] /\ segments' = [segments EXCEPT ![u] = "none"]
      /\ UNCHANGED <<tab, toRunner, toBrowser, ws, uploads, objects, got, task, aborted, manifest, loop>>
  BY DEF AbortDelete
<1>2. /\ aborts' \in [Sockets -> [Uploads -> AbortStates]]
      /\ \A i \in Sockets, v \in Uploads : aborts'[i][v] # "none" => aborts[i][v] # "none"
  BY <1>1 DEF TypeInv, TypeOK, AbortStates
<1>3. /\ segments' \in [Uploads -> {"none", "part", "all"}]
      /\ \A v \in Uploads : segments'[v] \in {segments[v], "none"}
  BY <1>1 DEF TypeInv, TypeOK
<1> QED
  BY <1>1, <1>2, <1>3, TypeAbort DEF TypeInv, TypeOK

LEMMA TypeCloseAll == ASSUME TypeInv, NEW k \in Sockets, CloseAll(k) PROVE TypeInv'
<1>1. /\ uploads' \in [Paths -> Uploads \cup {None}]
      /\ \A p \in Paths : uploads'[p] \in {uploads[p], None}
  BY DEF CloseAll
<1> QED
  BY <1>1, Records, TypeHandle DEF CloseAll, TypeInv, TypeOK, Shape, Serving

LEMMA TypeLoopEnds == ASSUME TypeInv, NEW k \in Sockets, LoopEnds(k) PROVE TypeInv'
<1>1. At("ended", None, None) \in LoopRecords /\ At("ended", None, None).at = "ended"
  BY Records
<1> QED
  BY <1>1, TypeHandle DEF LoopEnds, TypeInv, TypeOK, Shape, Serving

\* A task that runs is of an upload that has been made.
LEMMA TypeReport ==
  ASSUME TypeInv, NEW u \in Uploads, task[u] # "none", Report(u)
  PROVE  toBrowser' \in [Sockets -> Seq(Messages)]
<1>1. u \in 1 .. made
  BY DEF TypeInv, Shape, MadeOf
<1>2. pathOf[u] \in Paths /\ socketOf[u] \in Sockets
  BY <1>1, OfMade
<1> QED
  BY <1>2, SendTyped DEF Report, TypeInv, Commands

LEMMA TypeTask == ASSUME TypeInv, NEW u \in Uploads, Task(u) PROVE TypeInv'
<1>1. task[u] = "running" /\ u \in 1 .. made
  BY DEF Task, TaskStores, TaskAborts, TypeInv, Shape, MadeOf
<1>2. UNCHANGED <<tab, toRunner, ws, uploads, objects, got, aborted, manifest, loop, aborts>>
  BY DEF Task, TaskStores, TaskAborts
<1>3. PICK s \in {"ended", "raised"} : task' = [task EXCEPT ![u] = s]
  BY DEF Task, TaskStores, TaskAborts, Report
<1>4. UNCHANGED toBrowser \/ Report(u)
  BY DEF Task, TaskStores, TaskAborts
<1>5. toBrowser' \in [Sockets -> Seq(Messages)]
  BY <1>1, <1>4, TypeReport DEF TypeInv, TypeOK
<1>6. \E s2 \in {"none", "part", "all"} : segments' = [segments EXCEPT ![u] = s2]
  <2>1. CASE UNCHANGED segments
    <3>1. segments' = [segments EXCEPT ![u] = segments[u]]
      BY <2>1 DEF TypeInv, TypeOK
    <3> QED
      BY <3>1 DEF TypeInv, TypeOK
  <2> QED
    BY <2>1 DEF Task, TaskStores, TaskAborts
<1>7. /\ segments' \in [Uploads -> {"none", "part", "all"}]
      /\ task' \in [Uploads -> {"none", "running", "ended", "raised"}]
      /\ \A v \in Uploads : v \notin 1 .. made => task'[v] = task[v] /\ segments'[v] = segments[v]
  BY <1>1, <1>3, <1>6 DEF TypeInv, TypeOK
<1> QED
  BY <1>2, <1>5, <1>7, TypeLoop DEF TypeInv, TypeOK, Shape, ShapeOf, LoopRecords

LEMMA TypeNext == TypeInv /\ [Next]_vars => TypeInv'
<1> SUFFICES ASSUME TypeInv, [Next]_vars PROVE TypeInv'
  OBVIOUS
<1>1. ASSUME NEW k \in Sockets, \/ Open(k) \/ Cancel(k) \/ Receive(k) \/ SeeClosed(k)
      PROVE  TypeInv'
  BY <1>1, TypeOpen, TypeCancel, TypeReceive, TypeSeeClosed
<1>2. ASSUME NEW k \in Sockets, Loop(k) PROVE TypeInv'
  BY <1>2, TypeBegin, TypeReplace, TypeInitUpload, TypeChunks, TypeFinish, TypeGather,
     TypeManifest, TypeHandleCancel, TypeCloseAll, TypeLoopEnds DEF Loop
<1>3. ASSUME NEW k \in Sockets, NEW u \in Uploads, Abort(k, u) PROVE TypeInv'
  BY <1>3, TypeAbortStart, TypeAbortGather, TypeAbortDelete DEF Abort
<1>4. CASE UNCHANGED vars
  BY <1>4 DEF vars, tab, objects, store, TypeInv, TypeOK, Shape, ShapeOf, MadeOf
<1> QED
  BY <1>1, <1>2, <1>3, <1>4, TypeAdd, TypeTask DEF Next

\* Whatever number of websockets share the session, every variable keeps its type:
\* what a worker asks for, what a loop works at, what the session's map holds.
THEOREM TypeCorrect == Spec => []TypeOK
<1>1. TypeInv => TypeOK
  BY DEF TypeInv
<1> QED
  BY <1>1, TypeInit, TypeNext, PTL DEF Spec

-----------------------------------------------------------------------------
(* A session that has had a single websocket *)

\* It is the session's, and every upload's; no other loop runs or aborts.
LEMMA Only ==
  ASSUME TypeInv, SingleInv, OneSocket, NEW k \in Sockets, conn[k] # "new"
  PROVE  /\ ws = k
         /\ \A u \in 1 .. made : u \in Uploads /\ socketOf[u] = k
         /\ \A u \in Uploads : BeingAborted(u) <=> aborts[k][u] # "none"
         /\ LoopOf(k)
         /\ \A u \in Uploads : UploadOf(u)
         /\ \A p \in Paths : PathOf(p)
<1>1. ws = k
  BY DEF TypeInv, Shape, ShapeOf, OneSocket
<1>2. \A u \in 1 .. made : u \in Uploads /\ socketOf[u] = k
  BY OfMade DEF OneSocket
<1>3. \A j \in Sockets : j # k => \A u \in Uploads : aborts[j][u] = "none"
  BY DEF OneSocket, TypeInv, Shape, ShapeOf
<1>4. \A u \in Uploads : BeingAborted(u) <=> aborts[k][u] # "none"
  BY <1>3 DEF BeingAborted
<1> QED
  BY <1>1, <1>2, <1>4 DEF SingleInv, Single

\* The same of the next state
LEMMA OnlyNext ==
  ASSUME TypeInv', OneSocket', NEW k \in Sockets, conn'[k] # "new",
         LoopOf(k)', \A p \in Paths : PathOf(p)',
         \A u \in Uploads :
           /\ aborted'[u] /\ aborts'[k][u] = "none" => task'[u] # "running" /\ segments'[u] = "none"
           /\ task'[u] = "ended" /\ ~aborted'[u] => segments'[u] = "all"
  PROVE  SingleInv'
<1>1. \A j \in Sockets : conn'[j] # "new" => j = k
  BY DEF OneSocket
<1>2. \A u \in Uploads : UploadOf(u)'
  BY DEF UploadOf, BeingAborted
<1> QED
  BY <1>1, <1>2 DEF SingleInv, Single

LEMMA SingleOpen ==
  ASSUME TypeInv, TypeInv', NEW k \in Sockets, Open(k), OneSocket' PROVE SingleInv'
<1>1. \A j \in Sockets : conn[j] = "new"
  <2>1. conn[k] = "new" /\ conn' = [conn EXCEPT ![k] = "open"]
    BY DEF Open
  <2>2. \A j \in Sockets : j # k => conn'[j] = conn[j]
    BY <2>1 DEF TypeInv, TypeOK
  <2>3. conn'[k] = "open"
    BY <2>1 DEF TypeInv, TypeOK
  <2> QED
    BY <2>1, <2>2, <2>3 DEF OneSocket
<1>2. \A u \in Uploads : u \notin 1 .. made /\ task[u] = "none" /\ ~aborted[u] /\ segments[u] = "none"
  BY <1>1, OfMade DEF TypeInv, Shape, MadeOf
<1>3. \A p \in Paths : uploads[p] = None /\ manifest[p] = None
  BY <1>2, OfMade DEF TypeInv, Shape
<1>4. \A u \in Uploads : aborts[k][u] = "none"
  BY <1>1 DEF TypeInv, Shape, ShapeOf
<1>5. /\ loop'[k] = Idle /\ conn'[k] # "new"
      /\ UNCHANGED <<uploads, task, aborted, aborts, segments, manifest>>
  BY DEF Open, TypeInv, TypeOK, store
<1>6. LoopOf(k)'
  BY <1>2, <1>3, <1>4, <1>5, Records DEF LoopOf, Serving
<1>7. \A p \in Paths : PathOf(p)'
  BY <1>3, <1>5 DEF PathOf
<1> QED
  BY <1>2, <1>5, <1>6, <1>7, OnlyNext

\* The tabs do nothing to what the runner keeps.
LEMMA SingleTab ==
  ASSUME TypeInv, SingleInv, OneSocket', NEW k \in Sockets,
         \/ Cancel(k) \/ Receive(k) \/ SeeClosed(k) \/ \E p \in Paths : AddFile(k, p)
  PROVE  SingleInv'
<1>1. UNCHANGED <<uploads, objects, task, aborted, store, loop, aborts>>
  BY DEF Cancel, Receive, SeeClosed, AddFile
<1>2. conn' = conn \/ (conn[k] = "open" /\ conn' = [conn EXCEPT ![k] = "closed"])
  BY DEF Cancel, Receive, SeeClosed, AddFile
<1>3. \A j \in Sockets : conn'[j] = "new" <=> conn[j] = "new"
  BY <1>2 DEF TypeInv, TypeOK
<1>4. OneSocket
  BY <1>3 DEF OneSocket
<1>5. UNCHANGED <<uploads, pathOf, task, aborted, segments, manifest, loop, aborts>>
  BY <1>1 DEF objects, store
<1>6. \A j \in Sockets : LoopOf(j) => LoopOf(j)'
  BY <1>5 DEF LoopOf, Serves
<1>7. \A u \in Uploads : UploadOf(u) => UploadOf(u)'
  BY <1>5 DEF UploadOf, BeingAborted
<1>8. \A p \in Paths : PathOf(p) => PathOf(p)'
  BY <1>5 DEF PathOf
<1> QED
  BY <1>3, <1>4, <1>6, <1>7, <1>8 DEF SingleInv, Single

\* A new upload takes a path that has none in the map, or one whose abort is over.
LEMMA SingleMake ==
  ASSUME TypeInv, TypeInv', SingleInv, OneSocket, NEW k \in Sockets, conn[k] # "new",
         NEW p \in Paths, Make(k, p), UNCHANGED <<tab, task, store, aborted, aborts>>,
         \/ loop[k].at = "idle" /\ uploads[p] = None
         \/ loop[k].at = "replacing" /\ loop[k].path = p /\ aborts[k][loop[k].upload] = "none"
  PROVE  SingleInv'
<1>1. made + 1 \in 1 .. MaxUploads /\ made' = made + 1 /\ made' \in Uploads
      /\ made' \notin 1 .. made
  BY SessionAssumption DEF Make, TypeInv, TypeOK, Uploads
<1>2. /\ pathOf' = [pathOf EXCEPT ![made'] = p] /\ uploads' = [uploads EXCEPT ![p] = made']
      /\ loop' = [loop EXCEPT ![k] = At("creating", p, made')]
      /\ UNCHANGED <<conn, task, segments, manifest, aborted, aborts>>
  BY DEF Make, tab, store
<1>3. /\ loop'[k].at = "creating" /\ loop'[k].path = p /\ loop'[k].upload = made'
      /\ uploads'[p] = made' /\ \A q \in Paths : q # p => uploads'[q] = uploads[q]
      /\ pathOf'[made'] = p /\ \A u \in Uploads : u # made' => pathOf'[u] = pathOf[u]
  BY <1>1, <1>2, Records DEF TypeInv, TypeOK
<1>4. /\ LoopOf(k)
      /\ \A u \in Uploads : BeingAborted(u) <=> aborts[k][u] # "none"
      /\ \A u \in Uploads : UploadOf(u)
      /\ \A q \in Paths : PathOf(q)
  BY Only
<1>5. task[made'] = "none" /\ ~aborted[made']
  BY <1>1 DEF TypeInv, Shape, MadeOf
<1>6. \A q \in Paths : uploads[q] # None => uploads[q] \in Uploads /\ uploads[q] # made'
  BY <1>1 DEF TypeInv, TypeOK, Shape
<1>7. \A u \in Uploads : aborts[k][u] = "none"
  BY <1>4 DEF LoopOf, Serves
<1>8. ASSUME NEW q \in Paths, q # p, uploads[q] # None
      PROVE  ~aborted[uploads[q]] /\ task[uploads[q]] # "none"
  <2>1. task[uploads[q]] # "none"
    BY <1>4, <1>8 DEF LoopOf
  <2>2. aborted[uploads[q]] => loop[k].at = "replacing" /\ uploads[p] = uploads[q]
    BY <1>4, <1>8 DEF LoopOf, Serves, Serving
  <2>3. uploads[p] = uploads[q] => FALSE
    BY <1>4, <1>8 DEF PathOf
  <2> QED
    BY <2>1, <2>2, <2>3
<1>9. LoopOf(k)'
  <2>1. \A q \in Paths : uploads'[q] # None =>
          /\ ~aborted'[uploads'[q]]
          /\ task'[uploads'[q]] = "none" => uploads'[q] = made'
    BY <1>2, <1>3, <1>5, <1>8
  <2>2. \A u \in Uploads : task[u] # "raised"
    BY <1>4 DEF LoopOf
  <2> QED
    BY <1>2, <1>3, <1>5, <1>7, <2>1, <2>2 DEF LoopOf, Serves, Serving
<1>10. \A q \in Paths : PathOf(q)'
  <2>1. \A q \in Paths : manifest[q] # None => manifest[q] # made'
    BY <1>1 DEF TypeInv, Shape
  <2> QED
    BY <1>2, <1>3, <1>4, <1>6, <2>1 DEF PathOf
<1>11. \A u \in Uploads :
           /\ aborted'[u] /\ aborts'[k][u] = "none" => task'[u] # "running" /\ segments'[u] = "none"
           /\ task'[u] = "ended" /\ ~aborted'[u] => segments'[u] = "all"
  BY <1>2, <1>4 DEF UploadOf
<1>12. OneSocket'
  BY <1>2 DEF OneSocket
<1> QED
  BY <1>2, <1>9, <1>10, <1>11, <1>12, OnlyNext

LEMMA SingleBegin ==
  ASSUME TypeInv, TypeInv', SingleInv, OneSocket, NEW k \in Sockets, conn[k] # "new",
         HandleBegin(k)
  PROVE  SingleInv'
<1> DEFINE p == Head(toRunner[k]).path
           u == uploads[p]
<1>1. Handles(k, "start_upload") /\ loop[k].at = "idle"
      /\ UNCHANGED <<tab, ws, got, task, store>>
  BY DEF HandleBegin, Handles
<1>2. p \in Paths
  BY <1>1, TakesRequest
<1>3. /\ ws = k /\ \A v \in 1 .. made : v \in Uploads /\ socketOf[v] = k
      /\ LoopOf(k)
      /\ \A v \in Uploads : BeingAborted(v) <=> aborts[k][v] # "none"
      /\ \A v \in Uploads : UploadOf(v)
      /\ \A q \in Paths : PathOf(q)
  BY Only
<1>4. u # None => u \in 1 .. made /\ u \in Uploads /\ ~Broken(socketOf[u])
  BY <1>1, <1>2, <1>3 DEF TypeInv, Shape, Broken
<1>5. ~Closed(ws)
  BY <1>1, <1>3 DEF Closed
<1>6. CASE u # None /\ StartAbort(k, u) /\ loop' = [loop EXCEPT ![k] = At("replacing", p, u)]
           /\ UNCHANGED <<objects, uploads>>
  <2>1. /\ aborted'[u] /\ \A v \in Uploads : v # u => aborted'[v] = aborted[v]
        /\ aborts'[k][u] = "gather" /\ \A v \in Uploads : v # u => aborts'[k][v] = aborts[k][v]
    <3>1. aborted' = [aborted EXCEPT ![u] = TRUE] /\ aborts' = [aborts EXCEPT ![k][u] = "gather"]
      BY <1>6 DEF StartAbort
    <3> QED
      BY <1>4, <3>1 DEF TypeInv, TypeOK
  <2>2. loop'[k].at = "replacing" /\ loop'[k].path = p /\ loop'[k].upload = u
    BY <1>6, Records DEF TypeInv, TypeOK
  <2>3. UNCHANGED <<conn, uploads, pathOf, task, segments, manifest>>
    BY <1>1, <1>6 DEF tab, objects, store
  <2>4. /\ \A v \in Uploads : aborts[k][v] = "none" /\ task[v] # "raised"
        /\ \A q \in Paths : uploads[q] # None => ~aborted[uploads[q]] /\ task[uploads[q]] # "none"
    BY <1>1, <1>3 DEF LoopOf
  <2>5. \A q \in Paths : uploads[q] # None => uploads[q] \in Uploads
    BY DEF TypeInv, TypeOK
  <2>6. LoopOf(k)'
    BY <1>2, <1>4, <2>1, <2>2, <2>3, <2>4, <2>5 DEF LoopOf, Serves, Serving
  <2>7. \A q \in Paths : PathOf(q)'
    <3>1. \A q \in Paths : manifest[q] # None => manifest[q] \in Uploads
      BY DEF TypeInv, TypeOK
    <3> QED
      BY <1>2, <1>3, <2>1, <2>3, <3>1 DEF PathOf
  <2>8. \A v \in Uploads :
           /\ aborted'[v] /\ aborts'[k][v] = "none" => task'[v] # "running" /\ segments'[v] = "none"
           /\ task'[v] = "ended" /\ ~aborted'[v] => segments'[v] = "all"
    BY <1>3, <2>1, <2>3 DEF UploadOf
  <2>9. OneSocket'
    BY <2>3 DEF OneSocket
  <2> QED
    BY <2>3, <2>6, <2>7, <2>8, <2>9, OnlyNext
<1>7. CASE u = None /\ Make(k, p) /\ UNCHANGED <<toBrowser, aborted, aborts>>
  BY <1>1, <1>2, <1>7, SingleMake
<1> QED
  BY <1>4, <1>5, <1>6, <1>7 DEF HandleBegin

\* A step of the loop of the only websocket k, that leaves aborts, tasks and the
\* store alone
LEMMA SingleQuiet ==
  ASSUME TypeInv, TypeInv', SingleInv, OneSocket, NEW k \in Sockets, conn[k] # "new",
         LoopOf(k)', UNCHANGED <<tab, uploads, objects, task, aborted, store, aborts>>
  PROVE  SingleInv'
<1>1. UNCHANGED <<conn, uploads, pathOf, task, aborted, segments, manifest, aborts>>
  BY DEF tab, objects, store
<1>2. /\ \A u \in Uploads : BeingAborted(u) <=> aborts[k][u] # "none"
      /\ \A u \in Uploads : UploadOf(u)
      /\ \A p \in Paths : PathOf(p)
  BY Only
<1>3. \A u \in Uploads :
           /\ aborted'[u] /\ aborts'[k][u] = "none" => task'[u] # "running" /\ segments'[u] = "none"
           /\ task'[u] = "ended" /\ ~aborted'[u] => segments'[u] = "all"
  BY <1>1, <1>2 DEF UploadOf
<1>4. \A p \in Paths : PathOf(p)'
  BY <1>1, <1>2 DEF PathOf
<1>5. OneSocket'
  BY <1>1 DEF OneSocket
<1> QED
  BY <1>1, <1>3, <1>4, <1>5, OnlyNext

LEMMA SingleChunks ==
  ASSUME TypeInv, TypeInv', SingleInv, OneSocket, NEW k \in Sockets, conn[k] # "new",
         HandleChunks(k) \/ LoopEnds(k)
  PROVE  SingleInv'
<1>1. /\ loop[k].at = "idle"
      /\ UNCHANGED <<tab, uploads, objects, task, aborted, store, aborts>>
  BY DEF HandleChunks, LoopEnds, Handles
<1>2. loop'[k].at \in {"idle", "dead", "ended"}
  <2>1. DOMAIN loop = Sockets
    BY DEF TypeInv, TypeOK
  <2>2. CASE HandleChunks(k)
    BY <1>1, <2>1, <2>2, Records DEF HandleChunks
  <2>3. CASE LoopEnds(k)
    BY <1>1, <2>1, <2>3, Records DEF LoopEnds
  <2> QED
    BY <2>2, <2>3
<1>3. LoopOf(k)
  BY Only
<1>4. UNCHANGED <<uploads, task, aborted, aborts>>
  BY <1>1
<1>5. LoopOf(k)'
  BY <1>1, <1>2, <1>3, <1>4 DEF LoopOf, Serving
<1> QED
  BY <1>1, <1>5, SingleQuiet

LEMMA SingleFinish ==
  ASSUME TypeInv, TypeInv', SingleInv, OneSocket, NEW k \in Sockets, conn[k] # "new",
         HandleFinish(k)
  PROVE  SingleInv'
<1> DEFINE p == Head(toRunner[k]).path
<1>1. /\ Handles(k, "finish") /\ loop[k].at = "idle"
      /\ UNCHANGED <<tab, uploads, objects, task, aborted, store, aborts>>
  BY DEF HandleFinish, Handles
<1>2. \/ loop'[k].at = "dead"
      \/ loop'[k].at = "gathering" /\ loop'[k].path = p /\ loop'[k].upload = uploads[p]
  BY <1>1, Records DEF HandleFinish, TypeInv, TypeOK
<1>3. LoopOf(k)
  BY Only
<1>4. UNCHANGED <<uploads, task, aborted, aborts>>
  BY <1>1
<1>5. LoopOf(k)'
  BY <1>1, <1>2, <1>3, <1>4 DEF LoopOf, Serving
<1> QED
  BY <1>1, <1>5, SingleQuiet

\* The tasks that a finish waits for have ended, not raised.
LEMMA SingleGather ==
  ASSUME TypeInv, TypeInv', SingleInv, OneSocket, NEW k \in Sockets, conn[k] # "new",
         FinishGather(k)
  PROVE  SingleInv'
<1> DEFINE u == loop[k].upload
<1>1. /\ loop[k].at = "gathering" /\ task[u] # "running"
      /\ UNCHANGED <<tab, uploads, objects, task, aborted, store, aborts>>
  BY DEF FinishGather
<1>2. LoopOf(k)
  BY Only
<1>3. u \in 1 .. made /\ u \in Uploads /\ loop[k].path \in Paths
  BY <1>1, Only DEF TypeInv, Shape, ShapeOf, Serving
<1>4. uploads[loop[k].path] = u /\ u # None
  BY <1>1, <1>2, <1>3, SessionAssumption DEF LoopOf, Serving, Uploads
<1>5. task[u] = "ended"
  BY <1>1, <1>2, <1>3, <1>4 DEF LoopOf, TypeInv, TypeOK
<1>6. loop'[k] = [loop[k] EXCEPT !.at = "manifest"]
  BY <1>5 DEF FinishGather, TypeInv, TypeOK
<1>7. loop'[k].at = "manifest" /\ loop'[k].path = loop[k].path /\ loop'[k].upload = u
  BY <1>6 DEF TypeInv, TypeOK
<1>8. UNCHANGED <<uploads, task, aborted, aborts>>
  BY <1>1
<1>9. LoopOf(k)'
  BY <1>1, <1>2, <1>4, <1>5, <1>7, <1>8 DEF LoopOf, Serving
<1> QED
  BY <1>1, <1>9, SingleQuiet

LEMMA SingleInit ==
  ASSUME TypeInv, TypeInv', SingleInv, OneSocket, NEW k \in Sockets, conn[k] # "new",
         InitUpload(k)
  PROVE  SingleInv'
<1> DEFINE u == loop[k].upload
<1>1. /\ loop[k].at = "creating" /\ task' = [task EXCEPT ![u] = "running"]
      /\ loop' = [loop EXCEPT ![k] = IF Broken(socketOf[u]) THEN Dead ELSE Idle]
      /\ UNCHANGED <<conn, uploads, pathOf, aborted, segments, manifest, aborts>>
  BY DEF InitUpload, tab, objects, store
<1>2. /\ \A v \in 1 .. made : v \in Uploads /\ socketOf[v] = k
      /\ LoopOf(k)
      /\ \A v \in Uploads : BeingAborted(v) <=> aborts[k][v] # "none"
      /\ \A v \in Uploads : UploadOf(v)
      /\ \A q \in Paths : PathOf(q)
  BY Only
<1>3. u \in 1 .. made /\ u \in Uploads /\ loop[k].path \in Paths /\ u # None
  BY <1>1, <1>2, SessionAssumption DEF TypeInv, Shape, ShapeOf, Serving, Uploads
<1>4. loop'[k].at = "idle"
  BY <1>1, <1>2, <1>3, Records DEF Broken, TypeInv, TypeOK
<1>5. uploads[loop[k].path] = u
  BY <1>1, <1>2 DEF LoopOf, Serving
<1>6. ~aborted[u] /\ \A v \in Uploads : aborts[k][v] = "none" /\ task[v] # "raised"
  BY <1>1, <1>2, <1>3, <1>5 DEF LoopOf
<1>7. task'[u] = "running" /\ \A v \in Uploads : v # u => task'[v] = task[v]
  BY <1>1, <1>3 DEF TypeInv, TypeOK
<1>8. LoopOf(k)'
  <2>1. \A q \in Paths : uploads[q] # None =>
          uploads[q] \in Uploads /\ ~aborted[uploads[q]] /\ task'[uploads[q]] # "none"
    BY <1>1, <1>2, <1>7 DEF LoopOf, Serves, TypeInv, TypeOK
  <2> QED
    BY <1>1, <1>4, <1>6, <1>7, <2>1 DEF LoopOf, Serving
<1>9. \A q \in Paths : PathOf(q)'
  <2>1. \A q \in Paths : manifest[q] # None => manifest[q] # u /\ manifest[q] \in Uploads
    BY <1>2, <1>3, <1>5 DEF PathOf, TypeInv, TypeOK
  <2> QED
    BY <1>1, <1>2, <1>7, <2>1 DEF PathOf
<1>10. \A v \in Uploads :
           /\ aborted'[v] /\ aborts'[k][v] = "none" => task'[v] # "running" /\ segments'[v] = "none"
           /\ task'[v] = "ended" /\ ~aborted'[v] => segments'[v] = "all"
  BY <1>1, <1>2, <1>6, <1>7 DEF UploadOf
<1>11. OneSocket'
  BY <1>1 DEF OneSocket
<1> QED
  BY <1>1, <1>8, <1>9, <1>10, <1>11, OnlyNext

\* The object of the path is now of the upload that leaves the map.
LEMMA SingleManifest ==
  ASSUME TypeInv, TypeInv', SingleInv, OneSocket, NEW k \in Sockets, conn[k] # "new",
         FinishManifest(k)
  PROVE  /\ SingleInv'
         /\ \A p \in Paths : uploads'[p] # uploads[p] => manifest'[p] = uploads[p]
<1> DEFINE p == loop[k].path
           u == loop[k].upload
<1>1. /\ loop[k].at = "manifest" /\ manifest' = [manifest EXCEPT ![p] = u]
      /\ uploads' = [uploads EXCEPT ![p] = None]
      /\ loop' = [loop EXCEPT ![k] = IF uploads[p] = None THEN Dead ELSE Idle]
      /\ UNCHANGED <<conn, pathOf, task, aborted, segments, aborts>>
  BY DEF FinishManifest, tab, objects, store
<1>2. /\ \A v \in 1 .. made : v \in Uploads /\ socketOf[v] = k
      /\ LoopOf(k)
      /\ \A v \in Uploads : BeingAborted(v) <=> aborts[k][v] # "none"
      /\ \A v \in Uploads : UploadOf(v)
      /\ \A q \in Paths : PathOf(q)
  BY Only
<1>3. u \in 1 .. made /\ u \in Uploads /\ p \in Paths /\ u # None
  BY <1>1, <1>2, SessionAssumption DEF TypeInv, Shape, ShapeOf, Serving, Uploads
<1>4. uploads[p] = u /\ task[u] = "ended" /\ ~aborted[u]
  BY <1>1, <1>2, <1>3 DEF LoopOf, Serving
<1>5. loop'[k].at = "idle"
  BY <1>1, <1>3, <1>4, Records DEF TypeInv, TypeOK
<1>6. /\ uploads'[p] = None /\ manifest'[p] = u
      /\ \A q \in Paths : q # p => uploads'[q] = uploads[q] /\ manifest'[q] = manifest[q]
  BY <1>1, <1>3 DEF TypeInv, TypeOK
<1>7. LoopOf(k)'
  BY <1>1, <1>2, <1>5, <1>6 DEF LoopOf, Serves, Serving
<1>8. \A q \in Paths : PathOf(q)'
  <2>1. \A q \in Paths : uploads'[q] # u
    BY <1>2, <1>3, <1>4, <1>6 DEF PathOf
  <2>2. ASSUME NEW q \in Paths, q = p PROVE PathOf(q)'
    BY <1>1, <1>4, <1>6, <2>1, <2>2 DEF PathOf
  <2>3. ASSUME NEW q \in Paths, q # p PROVE PathOf(q)'
    BY <1>1, <1>2, <1>6, <2>3 DEF PathOf
  <2> QED
    BY <2>2, <2>3
<1>9. \A v \in Uploads :
           /\ aborted'[v] /\ aborts'[k][v] = "none" => task'[v] # "running" /\ segments'[v] = "none"
           /\ task'[v] = "ended" /\ ~aborted'[v] => segments'[v] = "all"
  BY <1>1, <1>2 DEF UploadOf
<1>10. OneSocket'
  BY <1>1 DEF OneSocket
<1>11. \A q \in Paths : uploads'[q] # uploads[q] => manifest'[q] = uploads[q]
  BY <1>4, <1>6
<1> QED
  BY <1>1, <1>7, <1>8, <1>9, <1>10, <1>11, OnlyNext

LEMMA SingleCancel ==
  ASSUME TypeInv, TypeInv', SingleInv, OneSocket, NEW k \in Sockets, conn[k] # "new",
         HandleCancel(k)
  PROVE  SingleInv'
<1>1. /\ loop[k].at = "idle" /\ loop' = [loop EXCEPT ![k] = At("closing", None, None)]
      /\ aborts' = [aborts EXCEPT ![k] =
           [u \in Uploads |-> IF u \in {uploads[p] : p \in Paths} THEN "start" ELSE "none"]]
      /\ UNCHANGED <<conn, uploads, pathOf, task, aborted, segments, manifest>>
  BY DEF HandleCancel, Handles, tab, objects, store
<1>2. /\ LoopOf(k)
      /\ \A v \in Uploads : BeingAborted(v) <=> aborts[k][v] # "none"
      /\ \A v \in Uploads : UploadOf(v)
      /\ \A q \in Paths : PathOf(q)
  BY Only
<1>3. loop'[k].at = "closing"
  BY <1>1, Records DEF TypeInv, TypeOK
<1>4. \A u \in Uploads : aborts'[k][u] = IF \E p \in Paths : uploads[p] = u THEN "start" ELSE "none"
  <2>1. aborts'[k] = [u \in Uploads |-> IF u \in {uploads[p] : p \in Paths} THEN "start" ELSE "none"]
    BY <1>1 DEF TypeInv, TypeOK
  <2> QED
    BY <2>1
<1>5. LoopOf(k)'
  <2>1. \A p \in Paths : uploads[p] # None =>
          aborts'[k][uploads[p]] = "start" /\ task[uploads[p]] # "none"
    BY <1>1, <1>2, <1>4 DEF LoopOf, TypeInv, TypeOK
  <2>2. \A u \in Uploads : task[u] # "raised"
    BY <1>1, <1>2 DEF LoopOf
  <2> QED
    BY <1>1, <1>3, <1>4, <2>1, <2>2 DEF LoopOf, Serving
<1>6. \A p \in Paths : PathOf(p)'
  BY <1>1, <1>2 DEF PathOf
<1>7. \A v \in Uploads :
           /\ aborted'[v] /\ aborts'[k][v] = "none" => task'[v] # "running" /\ segments'[v] = "none"
           /\ task'[v] = "ended" /\ ~aborted'[v] => segments'[v] = "all"
  <2>1. \A v \in Uploads : aborts[k][v] = "none"
    BY <1>1, <1>2 DEF LoopOf
  <2> QED
    BY <1>1, <1>2, <2>1 DEF UploadOf
<1>8. OneSocket'
  BY <1>1 DEF OneSocket
<1> QED
  BY <1>1, <1>5, <1>6, <1>7, <1>8, OnlyNext

LEMMA SingleAbortStart ==
  ASSUME TypeInv, TypeInv', SingleInv, OneSocket, NEW k \in Sockets, conn[k] # "new",
         NEW u \in Uploads, AbortStart(k, u)
  PROVE  SingleInv'
<1>1. /\ \A v \in 1 .. made : socketOf[v] = k
      /\ LoopOf(k)
      /\ \A v \in Uploads : BeingAborted(v) <=> aborts[k][v] # "none"
      /\ \A v \in Uploads : UploadOf(v)
      /\ \A q \in Paths : PathOf(q)
  BY Only
<1>2. aborts[k][u] = "start" /\ u \in 1 .. made
  BY Aborting DEF AbortStart
<1>3. loop[k].at = "closing" /\ \E p \in Paths : uploads[p] = u
  BY <1>1, <1>2 DEF LoopOf
<1>4. ~Broken(socketOf[u])
  BY <1>1, <1>2, <1>3 DEF Broken
<1>5. /\ aborted' = [aborted EXCEPT ![u] = TRUE] /\ aborts' = [aborts EXCEPT ![k][u] = "gather"]
      /\ UNCHANGED <<conn, uploads, pathOf, task, segments, manifest, loop>>
  BY <1>4 DEF AbortStart, StartAbort, tab, objects, store
<1>6. /\ aborted'[u] /\ \A v \in Uploads : v # u => aborted'[v] = aborted[v]
      /\ aborts'[k][u] = "gather" /\ \A v \in Uploads : v # u => aborts'[k][v] = aborts[k][v]
  BY <1>5 DEF TypeInv, TypeOK
<1>7. LoopOf(k)'
  <2>1. \A p \in Paths : uploads[p] # None =>
          /\ task[uploads[p]] # "none"
          /\ aborts'[k][uploads[p]] = "start" \/ aborted'[uploads[p]]
    <3>1. ASSUME NEW p \in Paths, uploads[p] # None
          PROVE  /\ uploads[p] \in Uploads /\ task[uploads[p]] # "none"
                 /\ aborts[k][uploads[p]] = "start" \/ aborted[uploads[p]]
      BY <1>1, <1>3, <3>1 DEF LoopOf, TypeInv, TypeOK
    <3> QED
      BY <1>6, <3>1
  <2> QED
    BY <1>1, <1>3, <1>5, <1>6, <2>1 DEF LoopOf, Serving
<1>8. \A p \in Paths : PathOf(p)'
  <2>1. \A p \in Paths : manifest[p] # None => manifest[p] # u /\ manifest[p] \in Uploads
    BY <1>1, <1>3 DEF PathOf, TypeInv, TypeOK
  <2> QED
    BY <1>1, <1>5, <1>6, <2>1 DEF PathOf
<1>9. \A v \in Uploads :
           /\ aborted'[v] /\ aborts'[k][v] = "none" => task'[v] # "running" /\ segments'[v] = "none"
           /\ task'[v] = "ended" /\ ~aborted'[v] => segments'[v] = "all"
  BY <1>1, <1>5, <1>6 DEF UploadOf
<1>10. OneSocket'
  BY <1>5 DEF OneSocket
<1> QED
  BY <1>5, <1>7, <1>8, <1>9, <1>10, OnlyNext

\* No task that an abort waits for raises: the socket it reports to lives.
LEMMA SingleAbortGather ==
  ASSUME TypeInv, TypeInv', SingleInv, OneSocket, NEW k \in Sockets, conn[k] # "new",
         NEW u \in Uploads, AbortGather(k, u)
  PROVE  SingleInv'
<1>1. /\ LoopOf(k)
      /\ \A v \in Uploads : BeingAborted(v) <=> aborts[k][v] # "none"
      /\ \A v \in Uploads : UploadOf(v)
      /\ \A q \in Paths : PathOf(q)
  BY Only
<1>2. aborts[k][u] = "gather" /\ task[u] # "running"
  BY DEF AbortGather
<1>3. task[u] # "raised" /\ aborted[u]
  BY <1>1, <1>2 DEF LoopOf, Serves
<1>4. /\ aborts' = [aborts EXCEPT ![k][u] = "delete"]
      /\ UNCHANGED <<conn, uploads, pathOf, task, aborted, segments, manifest, loop>>
  BY <1>3 DEF AbortGather, tab, objects, store
<1>5. aborts'[k][u] = "delete" /\ \A v \in Uploads : v # u => aborts'[k][v] = aborts[k][v]
  BY <1>4 DEF TypeInv, TypeOK
<1>6. LoopOf(k)'
  <2>1. \A p \in Paths : uploads[p] # None => uploads[p] \in Uploads
    BY DEF TypeInv, TypeOK
  <2>2. \A p \in Paths : uploads[p] # None /\ loop'[k].at = "closing" =>
          aborts'[k][uploads[p]] = "start" \/ aborted'[uploads[p]]
    BY <1>1, <1>3, <1>4, <1>5, <2>1 DEF LoopOf
  <2>3. \A v \in Uploads :
       /\ aborts'[k][v] # "none" => loop[k].at = "closing" \/ (loop[k].at = "replacing" /\ loop[k].upload = v)
       /\ aborts'[k][v] = "start" => loop[k].at = "closing" /\ \E p \in Paths : uploads[p] = v
       /\ aborts'[k][v] \in {"gather", "delete"} => aborted[v]
       /\ aborts'[k][v] = "delete" => task[v] # "running"
    BY <1>1, <1>2, <1>3, <1>5 DEF LoopOf, Serves
  <2> QED
    BY <1>1, <1>4, <2>2, <2>3 DEF LoopOf, Serves, Serving
<1>7. \A p \in Paths : PathOf(p)'
  BY <1>1, <1>4 DEF PathOf
<1>8. \A v \in Uploads :
           /\ aborted'[v] /\ aborts'[k][v] = "none" => task'[v] # "running" /\ segments'[v] = "none"
           /\ task'[v] = "ended" /\ ~aborted'[v] => segments'[v] = "all"
  BY <1>1, <1>4, <1>5 DEF UploadOf
<1>9. OneSocket'
  BY <1>4 DEF OneSocket
<1> QED
  BY <1>4, <1>6, <1>7, <1>8, <1>9, OnlyNext

LEMMA SingleAbortDelete ==
  ASSUME TypeInv, TypeInv', SingleInv, OneSocket, NEW k \in Sockets, conn[k] # "new",
         NEW u \in Uploads, AbortDelete(k, u)
  PROVE  SingleInv'
<1>1. /\ LoopOf(k)
      /\ \A v \in Uploads : BeingAborted(v) <=> aborts[k][v] # "none"
      /\ \A v \in Uploads : UploadOf(v)
      /\ \A q \in Paths : PathOf(q)
  BY Only
<1>2. /\ aborts[k][u] = "delete"
      /\ aborts' = [aborts EXCEPT ![k][u] = "none"] /\ segments' = [segments EXCEPT ![u] = "none"]
      /\ UNCHANGED <<conn, uploads, pathOf, task, aborted, manifest, loop>>
  BY DEF AbortDelete, tab, objects
<1>3. aborted[u] /\ task[u] # "running"
  BY <1>1, <1>2 DEF LoopOf
<1>4. /\ aborts'[k][u] = "none" /\ segments'[u] = "none"
      /\ \A v \in Uploads : v # u => aborts'[k][v] = aborts[k][v] /\ segments'[v] = segments[v]
  BY <1>2 DEF TypeInv, TypeOK
<1>5. LoopOf(k)'
  <2>1. \A p \in Paths : uploads[p] # None => uploads[p] \in Uploads
    BY DEF TypeInv, TypeOK
  <2>2. \A p \in Paths : uploads[p] # None /\ loop'[k].at = "closing" =>
          aborts'[k][uploads[p]] = "start" \/ aborted'[uploads[p]]
    BY <1>1, <1>2, <1>3, <1>4, <2>1 DEF LoopOf
  <2>3. \A v \in Uploads :
       /\ aborts'[k][v] # "none" => loop[k].at = "closing" \/ (loop[k].at = "replacing" /\ loop[k].upload = v)
       /\ aborts'[k][v] = "start" => loop[k].at = "closing" /\ \E p \in Paths : uploads[p] = v
       /\ aborts'[k][v] \in {"gather", "delete"} => aborted[v]
       /\ aborts'[k][v] = "delete" => task[v] # "running"
    BY <1>1, <1>4 DEF LoopOf, Serves
  <2> QED
    BY <1>1, <1>2, <2>2, <2>3 DEF LoopOf, Serves, Serving
<1>6. \A p \in Paths : PathOf(p)'
  BY <1>1, <1>2 DEF PathOf
<1>7. \A v \in Uploads :
           /\ aborted'[v] /\ aborts'[k][v] = "none" => task'[v] # "running" /\ segments'[v] = "none"
           /\ task'[v] = "ended" /\ ~aborted'[v] => segments'[v] = "all"
  BY <1>1, <1>2, <1>3, <1>4 DEF UploadOf
<1>8. OneSocket'
  BY <1>2 DEF OneSocket
<1> QED
  BY <1>2, <1>5, <1>6, <1>7, <1>8, OnlyNext

\* When handle_close empties the map, all that it holds has been aborted.
LEMMA SingleCloseAll ==
  ASSUME TypeInv, TypeInv', SingleInv, OneSocket, NEW k \in Sockets, conn[k] # "new",
         CloseAll(k)
  PROVE  SingleInv' /\ \A p \in Paths : uploads[p] # None => aborted[uploads[p]]
<1>1. /\ LoopOf(k)
      /\ \A v \in Uploads : BeingAborted(v) <=> aborts[k][v] # "none"
      /\ \A v \in Uploads : UploadOf(v)
      /\ \A q \in Paths : PathOf(q)
  BY Only
<1>2. /\ loop[k].at = "closing" /\ \A u \in Uploads : aborts[k][u] = "none"
      /\ uploads' = [p \in Paths |-> None] /\ loop' = [loop EXCEPT ![k] = Idle]
      /\ UNCHANGED <<conn, pathOf, task, aborted, segments, manifest, aborts>>
  BY DEF CloseAll, tab, objects, store
<1>3. loop'[k].at = "idle" /\ \A p \in Paths : uploads'[p] = None
  BY <1>2, Records DEF TypeInv, TypeOK
<1>4. LoopOf(k)'
  <2>1. \A u \in Uploads : task[u] # "raised"
    BY <1>1, <1>2 DEF LoopOf
  <2> QED
    BY <1>2, <1>3, <2>1 DEF LoopOf, Serving
<1>5. \A p \in Paths : PathOf(p)'
  BY <1>1, <1>2, <1>3 DEF PathOf
<1>6. \A v \in Uploads :
           /\ aborted'[v] /\ aborts'[k][v] = "none" => task'[v] # "running" /\ segments'[v] = "none"
           /\ task'[v] = "ended" /\ ~aborted'[v] => segments'[v] = "all"
  BY <1>1, <1>2 DEF UploadOf
<1>7. OneSocket'
  BY <1>2 DEF OneSocket
<1>8. \A p \in Paths : uploads[p] # None => aborted[uploads[p]]
  BY <1>1, <1>2 DEF LoopOf, TypeInv, TypeOK
<1> QED
  BY <1>2, <1>4, <1>5, <1>6, <1>7, <1>8, OnlyNext

\* A task ends: with the whole of the file stored, unless the upload was aborted.
LEMMA SingleTask ==
  ASSUME TypeInv, TypeInv', SingleInv, OneSocket, NEW u \in Uploads, Task(u)
  PROVE  SingleInv'
<1> DEFINE k == socketOf[u]
<1>1. task[u] = "running" /\ u \in 1 .. made
  BY DEF Task, TaskStores, TaskAborts, TypeInv, Shape, MadeOf
<1>2. k \in Sockets /\ conn[k] # "new"
  BY <1>1, OfMade
<1>3. /\ LoopOf(k)
      /\ \A v \in Uploads : BeingAborted(v) <=> aborts[k][v] # "none"
      /\ \A v \in Uploads : UploadOf(v)
      /\ \A q \in Paths : PathOf(q)
  BY <1>2, Only
<1>4. UNCHANGED <<conn, uploads, pathOf, socketOf, aborted, manifest, loop, aborts>>
  BY DEF Task, TaskStores, TaskAborts, tab, objects
<1>5. PICK s \in {"ended", "raised"} :
        task' = [task EXCEPT ![u] = s] /\ (s = "raised" => loop[k].at = "dead")
  BY DEF Task, TaskStores, TaskAborts, Report, Broken
<1>6. task'[u] = s /\ \A v \in Uploads : v # u => task'[v] = task[v]
  BY <1>5 DEF TypeInv, TypeOK
<1>7. \/ segments' = [segments EXCEPT ![u] = "all"]
      \/ aborted[u] /\ (UNCHANGED segments \/ segments' = [segments EXCEPT ![u] = "part"])
  BY DEF Task, TaskStores, TaskAborts
<1>8. /\ segments'[u] = "all" \/ aborted[u]
      /\ \A v \in Uploads : v # u => segments'[v] = segments[v]
  BY <1>7 DEF TypeInv, TypeOK
<1>9. LoopOf(k)'
  <2>1. \A p \in Paths : uploads[p] # None => uploads[p] \in Uploads
    BY DEF TypeInv, TypeOK
  <2>2. \A p \in Paths : uploads[p] # None /\ task'[uploads[p]] = "none" => task[uploads[p]] = "none"
    BY <1>6, <2>1
  <2>3. loop[k].at = "creating" => task'[loop[k].upload] = "none"
    <3>1. loop[k].at = "creating" => loop[k].upload # u
      BY <1>1, <1>3 DEF LoopOf
    <3> QED
      BY <1>2, <1>3, <1>5, <3>1 DEF LoopOf, TypeInv, TypeOK
  <2>4. loop[k].at = "manifest" => task'[loop[k].upload] = "ended"
    <3>1. loop[k].at = "manifest" => loop[k].upload # u
      BY <1>1, <1>3 DEF LoopOf
    <3> QED
      BY <1>2, <1>3, <1>5, <3>1 DEF LoopOf, TypeInv, TypeOK
  <2>5. \A v \in Uploads : task'[v] = "raised" => loop[k].at = "dead"
    BY <1>3, <1>5, <1>6 DEF LoopOf
  <2>6. \A v \in Uploads : aborts[k][v] = "delete" => task'[v] # "running"
    BY <1>3, <1>6 DEF LoopOf
  <2> QED
    BY <1>3, <1>4, <2>2, <2>3, <2>4, <2>5, <2>6 DEF LoopOf, Serves, Serving
<1>10. \A p \in Paths : PathOf(p)'
  <2>1. \A p \in Paths : manifest[p] # None => manifest[p] # u /\ manifest[p] \in Uploads
    BY <1>1, <1>3 DEF PathOf, TypeInv, TypeOK
  <2> QED
    BY <1>3, <1>4, <1>6, <2>1 DEF PathOf
<1>11. \A v \in Uploads :
           /\ aborted'[v] /\ aborts'[k][v] = "none" => task'[v] # "running" /\ segments'[v] = "none"
           /\ task'[v] = "ended" /\ ~aborted'[v] => segments'[v] = "all"
  BY <1>1, <1>3, <1>4, <1>6, <1>8 DEF UploadOf
<1>12. OneSocket' /\ k' = k
  BY <1>4 DEF OneSocket
<1> QED
  BY <1>2, <1>4, <1>9, <1>10, <1>11, <1>12, OnlyNext

\* Whether a socket has ever been opened never changes back.
LEMMA OneBefore == TypeInv /\ [Next]_vars /\ OneSocket' => OneSocket
<1> SUFFICES ASSUME TypeInv, [Next]_vars, OneSocket' PROVE OneSocket
  OBVIOUS
<1>1. \/ UNCHANGED conn
      \/ \E k \in Sockets, s \in {"open", "closed"} : conn' = [conn EXCEPT ![k] = s]
  <2>1. ASSUME NEW k \in Sockets, Loop(k) PROVE UNCHANGED conn
    BY <2>1 DEF Loop, HandleBegin, Replace, InitUpload, HandleChunks, HandleFinish, FinishGather,
       FinishManifest, HandleCancel, CloseAll, LoopEnds, tab
  <2>2. ASSUME NEW k \in Sockets, NEW u \in Uploads, Abort(k, u) PROVE UNCHANGED conn
    BY <2>2 DEF Abort, AbortStart, AbortGather, AbortDelete, tab
  <2>3. ASSUME NEW u \in Uploads, Task(u) PROVE UNCHANGED conn
    BY <2>3 DEF Task, TaskStores, TaskAborts, tab
  <2>4. CASE UNCHANGED vars
    BY <2>4 DEF vars
  <2> QED
    BY <2>1, <2>2, <2>3, <2>4 DEF Next, Open, AddFile, Cancel, Receive, SeeClosed
<1>2. \A j \in Sockets : conn[j] # "new" => conn'[j] # "new"
  BY <1>1 DEF TypeInv, TypeOK
<1> QED
  BY <1>2 DEF OneSocket

\* A step of the runner: the socket whose loop it is has been opened.
LEMMA LoopRuns ==
  ASSUME TypeInv, NEW k \in Sockets, Loop(k) \/ \E u \in Uploads : Abort(k, u)
  PROVE  conn[k] # "new"
<1>1. CASE Loop(k)
  BY <1>1, Running DEF Loop, HandleBegin, Replace, InitUpload, HandleChunks, HandleFinish,
     FinishGather, FinishManifest, HandleCancel, CloseAll, LoopEnds, Handles
<1>2. ASSUME NEW u \in Uploads, Abort(k, u) PROVE conn[k] # "new"
  BY <1>2, Running, Aborting DEF Abort, AbortStart, AbortGather, AbortDelete
<1> QED
  BY <1>1, <1>2

LEMMA SingleReplace ==
  ASSUME TypeInv, TypeInv', SingleInv, OneSocket, NEW k \in Sockets, conn[k] # "new", Replace(k)
  PROVE  SingleInv'
<1>1. loop[k].path \in Paths
  BY DEF Replace, TypeInv, Shape, ShapeOf, Serving
<1> QED
  BY <1>1, SingleMake DEF Replace

LEMMA SingleNext == TypeInv /\ SingleInv /\ [Next]_vars => SingleInv'
<1> SUFFICES ASSUME TypeInv, SingleInv, [Next]_vars, OneSocket' PROVE SingleInv'
  BY DEF SingleInv
<1>1. TypeInv' /\ OneSocket
  BY TypeNext, OneBefore
<1>2. ASSUME NEW k \in Sockets, Loop(k) PROVE SingleInv'
  <2>1. conn[k] # "new"
    BY <1>2, LoopRuns
  <2> QED
    BY <1>1, <1>2, <2>1, SingleBegin, SingleReplace, SingleInit, SingleChunks, SingleFinish,
       SingleGather, SingleManifest, SingleCancel, SingleCloseAll DEF Loop
<1>3. ASSUME NEW k \in Sockets, NEW u \in Uploads, Abort(k, u) PROVE SingleInv'
  <2>1. conn[k] # "new"
    BY <1>3, LoopRuns
  <2> QED
    BY <1>1, <1>3, <2>1, SingleAbortStart, SingleAbortGather, SingleAbortDelete DEF Abort
<1>4. CASE UNCHANGED vars
  BY <1>1, <1>4 DEF vars, tab, objects, store, SingleInv, Single, LoopOf, Serves, UploadOf,
     BeingAborted, PathOf
<1> QED
  BY <1>1, <1>2, <1>3, <1>4, SingleOpen, SingleTab, SingleTask DEF Next

LEMMA SingleInit1 == Init => SingleInv
BY DEF Init, SingleInv, Single, LoopOf, UploadOf, PathOf

LEMMA Inductive == Spec => [](TypeInv /\ SingleInv)
BY TypeInit, TypeNext, SingleInit1, SingleNext, PTL DEF Spec

\* While a session has had one websocket, the manifest of an object only ever
\* points to an upload all of whose data is stored and that no abort has touched.
THEOREM ManifestWhole == Spec => []NoDanglingManifest
<1>1. TypeInv /\ SingleInv => NoDanglingManifest
  <2> SUFFICES ASSUME TypeInv, SingleInv, OneSocket, NEW p \in Paths, manifest[p] # None
               PROVE  segments[manifest[p]] = "all"
    BY DEF NoDanglingManifest
  <2>1. manifest[p] \in Uploads
    BY DEF TypeInv, TypeOK
  <2> QED
    BY <2>1 DEF SingleInv, Single, PathOf, UploadOf
<1> QED
  BY <1>1, Inductive, PTL

\* While a session has had one websocket, an upload whose abort_upload is over has
\* no task that runs and no segment in the store.
THEOREM AbortLeavesNothing == Spec => []AbortClean
<1>1. TypeInv /\ SingleInv => AbortClean
  BY DEF SingleInv, Single, UploadOf, AbortClean
<1> QED
  BY <1>1, Inductive, PTL

LEMMA Kept ==
  ASSUME TypeInv, SingleInv, [Next]_vars, OneSocket, NEW p \in Paths, uploads[p] # None,
         uploads'[p] # uploads[p]
  PROVE  aborted[uploads[p]] \/ manifest'[p] = uploads[p]
<1>1. PICK k \in Sockets : HandleBegin(k) \/ Replace(k) \/ FinishManifest(k) \/ CloseAll(k)
  <2>1. ASSUME NEW k \in Sockets, \/ InitUpload(k) \/ HandleChunks(k) \/ HandleFinish(k)
                                   \/ FinishGather(k) \/ HandleCancel(k) \/ LoopEnds(k)
        PROVE  UNCHANGED uploads
    BY <2>1 DEF InitUpload, HandleChunks, HandleFinish, FinishGather, HandleCancel, LoopEnds
  <2>2. ASSUME NEW k \in Sockets, NEW u \in Uploads, Abort(k, u) PROVE UNCHANGED uploads
    BY <2>2 DEF Abort, AbortStart, AbortGather, AbortDelete
  <2>3. ASSUME NEW u \in Uploads, Task(u) PROVE UNCHANGED uploads
    BY <2>3 DEF Task, TaskStores, TaskAborts
  <2>4. CASE UNCHANGED vars
    BY <2>4 DEF vars
  <2> QED
    BY <2>1, <2>2, <2>3, <2>4 DEF Next, Loop, Open, AddFile, Cancel, Receive, SeeClosed
<1>2. conn[k] # "new" /\ TypeInv'
  BY <1>1, LoopRuns, TypeNext DEF Loop
<1>3. LoopOf(k) /\ ws = k
  BY <1>2, Only
<1>4. CASE HandleBegin(k)
  <2>1. Handles(k, "start_upload") /\ loop[k].at = "idle"
    BY <1>4 DEF HandleBegin, Handles
  <2>2. ~Closed(ws) /\ Head(toRunner[k]).path \in Paths
    BY <1>3, <2>1, TakesRequest DEF Closed
  <2>3. uploads[Head(toRunner[k]).path] = None /\ Make(k, Head(toRunner[k]).path)
    BY <1>4, <2>2 DEF HandleBegin
  <2> QED
    BY <2>2, <2>3 DEF Make, TypeInv, TypeOK
<1>5. CASE Replace(k)
  <2>1. loop[k].at = "replacing" /\ Make(k, loop[k].path)
    BY <1>5 DEF Replace
  <2>2. p = loop[k].path
    BY <2>1 DEF Make, TypeInv, TypeOK
  <2> QED
    BY <1>3, <2>1, <2>2 DEF LoopOf, Serving
<1>6. CASE FinishManifest(k)
  BY <1>2, <1>6, SingleManifest
<1>7. CASE CloseAll(k)
  BY <1>2, <1>7, SingleCloseAll
<1> QED
  BY <1>1, <1>4, <1>5, <1>6, <1>7

\* While a session has had one websocket, an upload leaves its map only aborted or
\* with its manifest in place.
THEOREM NoneLost == Spec => NoLostUpload
<1>1. TypeInv /\ SingleInv /\ [Next]_vars =>
        [\A p \in Paths : LET u == uploads[p] IN
           OneSocket /\ u # None /\ uploads'[p] # u => aborted[u] \/ manifest'[p] = u]_vars
  BY Kept
<1> QED
  BY <1>1, Inductive, PTL DEF NoLostUpload, Spec
=============================================================================
