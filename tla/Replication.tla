----------------------------- MODULE Replication -----------------------------
(***************************************************************************)
(* Copying a container in the background (replicate.py and the handlers of   *)
(* api.py that start, poll and cancel it): requests that look whether the     *)
(* destination exists and then create it, jobs that page through the source  *)
(* container and copy object by object, segment by segment, while its owner  *)
(* changes it, and cancels that reach a job at whichever await it is.         *)
(*                                                                         *)
(* An object's name is a number, in the order of the store's listings.  Data  *)
(* is checked by ETag: a PUT stores all of it or nothing.  Every job copies   *)
(* from the one source container.                                            *)
(***************************************************************************)
EXTENDS Integers, FiniteSets

CONSTANTS Jobs,        \* copy requests that are ever made
          Containers,  \* destinations they may name
          Objects,     \* names of the source's objects
          Segs,        \* per object: its number of segments, 0 for a plain one
          PageSize,    \* most names in a page (limit=10000)
          ListLimit,   \* most names the store lists of the segments container
          Faults,      \* "refuse", "list", "source": see the actions
          None

ASSUME ReplicationAssumption ==
  /\ Objects \subseteq Nat \ {0} /\ IsFiniteSet(Objects)
  /\ Segs \in [Objects -> Nat]
  /\ PageSize \in Nat \ {0} /\ ListLimit \in Nat \ {0}
  /\ Faults \subseteq {"refuse", "list", "source"}
  /\ None \notin Containers

VARIABLES
  source,   \* objects of the source container, with their segments
  deleted,  \* objects its owner has deleted
  made,     \* destination containers that exist: <<name, "objects" or "segments">>
  dest,     \* per destination: the objects in it
  copied,   \* per destination: the segments in its segments container
  target,   \* per job: its destination
  single,   \* per job: the one object to copy, 0 for the whole container
  pc,       \* per job: the request that is on its way
  state,    \* replication_jobs[job_id]["state"], "none" without a record
  cancel,   \* replication_jobs[job_id]["cancel"]
  thrown,   \* task.cancel() has been called on the running task
  done,     \* replication_jobs[job_id]["done"]
  total,    \* replication_jobs[job_id]["total"]
  marker,   \* last name of the last page
  page,     \* the page's objects that are still to be copied
  segs,     \* the object's segments that are still to be copied
  kept      \* history: objects in the source ever since the job counted them

vars == <<source, deleted, made, dest, copied, target, single, pc, state, cancel, thrown,
          done, total, marker, page, segs, kept>>
src == <<source, deleted, kept>>
job == <<target, single, cancel, thrown, total>>
place == <<marker, page, segs>>

SegmentsOf(S) == UNION {{o} \X (1 .. Segs[o]) : o \in S}

Requests == {"none", "head", "put", "head segments", "put segments", "refused"}
Running == {"count", "page", "object", "put object", "list", "segment", "put segment",
            "manifest"}

Init ==
  /\ source \in SUBSET Objects /\ deleted = {}
  /\ made = {} /\ dest = [c \in Containers |-> {}] /\ copied = [c \in Containers |-> {}]
  /\ target = [j \in Jobs |-> None] /\ single = [j \in Jobs |-> 0]
  /\ pc = [j \in Jobs |-> "none"]
  /\ state = [j \in Jobs |-> "none"]
  /\ cancel = [j \in Jobs |-> FALSE] /\ thrown = [j \in Jobs |-> FALSE]
  /\ done = [j \in Jobs |-> 0] /\ total = [j \in Jobs |-> 0]
  /\ marker = [j \in Jobs |-> 0] /\ page = [j \in Jobs |-> {}]
  /\ segs = [j \in Jobs |-> {}] /\ kept = [j \in Jobs |-> {}]

At(j, request) == pc[j] = request /\ ~thrown[j]
Goto(j, request) == pc' = [pc EXCEPT ![j] = request]
Ends(j, s) == Goto(j, "ended") /\ state' = [state EXCEPT ![j] = s]

\* The owner of the source adds an object, or deletes one and its segments
SourceChanges(o) ==
  /\ "source" \in Faults /\ o \notin deleted
  /\ IF o \in source
     THEN /\ source' = source \ {o} /\ deleted' = deleted \cup {o}
          /\ kept' = [j \in Jobs |-> kept[j] \ {o}]
     ELSE source' = source \cup {o} /\ UNCHANGED <<deleted, kept>>
  /\ UNCHANGED <<made, dest, copied, job, pc, state, done, place>>

-----------------------------------------------------------------------------
(* handle_replicate_container and handle_replicate_object, until they answer *)

Request(j, c, o) ==
  /\ pc[j] = "none" /\ Goto(j, "head")
  /\ target' = [target EXCEPT ![j] = c] /\ single' = [single EXCEPT ![j] = o]
  /\ UNCHANGED <<src, made, dest, copied, state, cancel, thrown, total, done, place>>

\* The container that a_ensure_container is about
Part(j) == <<target[j], IF pc[j] \in {"head", "put"} THEN "objects" ELSE "segments">>

\* a_ensure_container: a container that exists is a conflict
HeadContainer(j) ==
  /\ pc[j] \in {"head", "head segments"}
  /\ \/ Part(j) \notin made /\ Goto(j, IF pc[j] = "head" THEN "put" ELSE "put segments")
     \/ (Part(j) \in made \/ "refuse" \in Faults) /\ Goto(j, "refused")
  /\ UNCHANGED <<src, made, dest, copied, job, state, done, place>>

\* Creating one that exists by now is answered with 202, and accepted; the job's
\* record is made and its task runs up to its first request.  The task that
\* copies a single object has no record and ends with a TypeError
PutContainer(j) ==
  /\ pc[j] \in {"put", "put segments"}
  /\ \/ /\ made' = made \cup {Part(j)}
        /\ \/ pc[j] = "put" /\ Goto(j, "head segments") /\ UNCHANGED state
           \/ /\ pc[j] = "put segments" /\ single[j] = 0 /\ Goto(j, "count")
              /\ state' = [state EXCEPT ![j] = "running"]
           \/ /\ pc[j] = "put segments" /\ single[j] # 0 /\ Goto(j, "ended")
              /\ UNCHANGED state
     \/ "refuse" \in Faults /\ Goto(j, "refused") /\ UNCHANGED <<made, state>>
  /\ UNCHANGED <<src, dest, copied, job, done, place>>

\* mutant: only the flag is set
HandleCancelFlag(j) ==
  /\ state[j] # "none"
  /\ cancel' = [cancel EXCEPT ![j] = TRUE]
  /\ UNCHANGED <<src, made, dest, copied, target, single, pc, state, thrown, done, total, place>>

\* handle_replicate_cancel
HandleCancel(j) ==
  /\ state[j] # "none"
  /\ cancel' = [cancel EXCEPT ![j] = TRUE]
  /\ thrown' = [thrown EXCEPT ![j] = @ \/ state[j] = "running"]
  /\ UNCHANGED <<src, made, dest, copied, target, single, pc, state, done, total, place>>

-----------------------------------------------------------------------------
(* The job's task: each action is the answer to the request it waits for *)

\* a_get_container_count
CountContainer(j) ==
  /\ At(j, "count") /\ Goto(j, "page")
  /\ total' = [total EXCEPT ![j] = Cardinality(source)]
  /\ done' = [done EXCEPT ![j] = 0]
  /\ kept' = [kept EXCEPT ![j] = source]
  /\ UNCHANGED <<source, deleted, made, dest, copied, target, single, state, cancel, thrown,
                 place>>

\* A page the store may answer with: names after the marker, without a gap
Pages(j) ==
  LET rest == {o \in source : o > marker[j]} IN
    {p \in SUBSET rest : /\ \A x \in p, y \in rest : y < x => y \in p
                         /\ Cardinality(p) <= PageSize
                         /\ p = {} => rest = {}}

\* mutant: a page below the limit is taken for the end
FetchPageShort(j) ==
  /\ At(j, "page")
  /\ \E p \in Pages(j) :
       /\ page' = [page EXCEPT ![j] = p]
       /\ \/ Cardinality(p) < PageSize /\ Ends(j, "finished") /\ UNCHANGED marker
          \/ /\ Cardinality(p) >= PageSize /\ Goto(j, "object") /\ UNCHANGED state
             /\ \E m \in p : /\ \A x \in p : x <= m
                             /\ marker' = [marker EXCEPT ![j] = m]
  /\ UNCHANGED <<src, made, dest, copied, job, done, segs>>

\* a_get_container_page: an empty page is the end, and the job is finished
FetchPage(j) ==
  /\ At(j, "page")
  /\ \E p \in Pages(j) :
       /\ page' = [page EXCEPT ![j] = p]
       /\ \/ p = {} /\ Ends(j, "finished") /\ UNCHANGED marker
          \/ /\ p # {} /\ Goto(j, "object") /\ UNCHANGED state
             /\ \E m \in p : /\ \A x \in p : x <= m
                             /\ marker' = [marker EXCEPT ![j] = m]
  /\ UNCHANGED <<src, made, dest, copied, job, done, segs>>

\* The object that is being copied
IsObject(j, o) == o \in page[j] /\ \A x \in page[j] : o <= x

\* a_copy_object gets the object; one that is gone fails the job
GetObject(j, o) ==
  /\ At(j, "object") /\ IsObject(j, o)
  /\ IF o \in source
     THEN Goto(j, IF Segs[o] = 0 THEN "put object" ELSE "list") /\ UNCHANGED state
     ELSE Ends(j, "failed")
  /\ UNCHANGED <<src, made, dest, copied, job, done, place>>

Store(j, o) == dest' = [dest EXCEPT ![target[j]] = @ \cup {o}]
StoreSegmentSwapped(j, o, n) ==  \* mutant
  copied' = [copied EXCEPT ![target[j]] = @ \cup {<<n, o>>}]
StoreSegment(j, o, n) == copied' = [copied EXCEPT ![target[j]] = @ \cup {<<o, n>>}]

\* The PUT of a plain object or of a manifest; then the next one
PutObject(j, o) ==
  /\ At(j, "put object") \/ At(j, "manifest")
  /\ IsObject(j, o) /\ Store(j, o)
  /\ done' = [done EXCEPT ![j] = @ + 1]
  /\ page' = [page EXCEPT ![j] = @ \ {o}]
  /\ Goto(j, IF page[j] = {o} THEN "page" ELSE "object")
  /\ UNCHANGED <<src, made, copied, job, state, marker, segs>>

Before(s, t) == s[1] < t[1] \/ (s[1] = t[1] /\ s[2] < t[2])

\* a_sync_object_segments: of the names that the store lists of the segments
\* container, those of the object; an error page lists none
ListSegments(j, o) ==
  /\ At(j, "list") /\ IsObject(j, o)
  /\ \/ LET names == SegmentsOf(source) IN
        segs' = [segs EXCEPT ![j] =
          {n \in 1 .. Segs[o] : /\ <<o, n>> \in names
                                /\ Cardinality({s \in names : Before(s, <<o, n>>)}) < ListLimit}]
     \/ "list" \in Faults /\ segs' = [segs EXCEPT ![j] = {}]
  /\ Goto(j, IF segs'[j] = {} THEN "manifest" ELSE "segment")
  /\ UNCHANGED <<src, made, dest, copied, job, state, done, marker, page>>

IsSegment(j, n) == n \in segs[j] /\ \A m \in segs[j] : n <= m

GetSegment(j, o, n) ==
  /\ At(j, "segment") /\ IsObject(j, o) /\ IsSegment(j, n)
  /\ IF o \in source THEN Goto(j, "put segment") /\ UNCHANGED state ELSE Ends(j, "failed")
  /\ UNCHANGED <<src, made, dest, copied, job, done, place>>

NextSegment(j, n) ==
  /\ segs' = [segs EXCEPT ![j] = @ \ {n}]
  /\ Goto(j, IF segs[j] = {n} THEN "manifest" ELSE "segment")

PutSegmentCounts(j, o, n) ==  \* mutant: progress counts segments too
  /\ At(j, "put segment") /\ IsObject(j, o) /\ IsSegment(j, n)
  /\ StoreSegment(j, o, n) /\ NextSegment(j, n)
  /\ done' = [done EXCEPT ![j] = @ + 1]
  /\ UNCHANGED <<src, made, dest, job, state, marker, page>>

PutSegment(j, o, n) ==
  /\ At(j, "put segment") /\ IsObject(j, o) /\ IsSegment(j, n)
  /\ StoreSegment(j, o, n) /\ NextSegment(j, n)
  /\ UNCHANGED <<src, made, dest, job, state, done, marker, page>>

\* What became of the PUT whose answer is not awaited any more
PutMaybeStored(j) ==
  \/ UNCHANGED <<dest, copied>>
  \/ \E o \in Objects : /\ pc[j] \in {"put object", "manifest"}
                        /\ IsObject(j, o) /\ Store(j, o) /\ UNCHANGED copied
  \/ \E o \in Objects, n \in segs[j] : /\ pc[j] = "put segment"
                                       /\ IsObject(j, o) /\ IsSegment(j, n)
                                       /\ StoreSegment(j, o, n) /\ UNCHANGED dest

\* mutant: the status of a segment's PUT is not looked at
FailIgnored(j) ==
  /\ "refuse" \in Faults /\ state[j] = "running" /\ ~thrown[j]
  /\ IF pc[j] = "put segment"
     THEN (\E n \in segs[j] : IsSegment(j, n) /\ NextSegment(j, n))
          /\ UNCHANGED <<state, dest, copied>>
     ELSE Ends(j, "failed") /\ PutMaybeStored(j) /\ UNCHANGED segs
  /\ UNCHANGED <<src, made, job, done, marker, page>>

\* mutant: the task ends and the record still says that it runs
FailUnrecorded(j) ==
  /\ "refuse" \in Faults /\ state[j] = "running" /\ ~thrown[j]
  /\ Goto(j, "ended") /\ UNCHANGED state /\ PutMaybeStored(j)
  /\ UNCHANGED <<src, made, job, done, place>>

\* A request that is refused, times out or lacks a header raises: runner()
Fail(j) ==
  /\ "refuse" \in Faults /\ state[j] = "running" /\ ~thrown[j]
  /\ Ends(j, "failed") /\ PutMaybeStored(j)
  /\ UNCHANGED <<src, made, job, done, place>>

\* CancelledError at the task's await, or raised where the flag is looked at
\* before the next request (every answer but an empty page is followed by one)
Cancelled(j) ==
  /\ state[j] = "running"
  /\ thrown[j] \/ (cancel[j] /\ (pc[j] = "page" => Pages(j) # {{}}))
  /\ Ends(j, "cancelled") /\ PutMaybeStored(j)
  /\ UNCHANGED <<src, made, job, done, place>>

-----------------------------------------------------------------------------
Handler(j) == HeadContainer(j) \/ PutContainer(j)
Answer(j) == \/ CountContainer(j) \/ FetchPage(j)
             \/ \E o \in Objects : \/ GetObject(j, o) \/ PutObject(j, o) \/ ListSegments(j, o)
                                   \/ \E n \in segs[j] : \/ GetSegment(j, o, n)
                                                         \/ PutSegment(j, o, n)
Task(j) == Answer(j) \/ Fail(j) \/ Cancelled(j)

Next == \/ \E j \in Jobs : \/ \E c \in Containers, o \in source \cup {0} : Request(j, c, o)
                           \/ Handler(j) \/ HandleCancel(j) \/ Task(j)
        \/ \E o \in Objects : SourceChanges(o)

\* The store answers every request; the client times out otherwise
Fairness == \A j \in Jobs : WF_vars(Handler(j)) /\ WF_vars(Task(j))

Spec == Init /\ [][Next]_vars
FairSpec == Spec /\ Fairness

-----------------------------------------------------------------------------
(* Properties *)

\* Every variable has a value of its type.
TypeOK ==
  /\ source \in SUBSET Objects /\ deleted \in SUBSET Objects
  /\ made \in SUBSET (Containers \X {"objects", "segments"})
  /\ dest \in [Containers -> SUBSET Objects]
  /\ copied \in [Containers -> SUBSET SegmentsOf(Objects)]
  /\ target \in [Jobs -> Containers \cup {None}]
  /\ single \in [Jobs -> Objects \cup {0}]
  /\ pc \in [Jobs -> Requests \cup Running \cup {"ended"}]
  /\ state \in [Jobs -> {"none", "running", "finished", "failed", "cancelled"}]
  /\ cancel \in [Jobs -> BOOLEAN] /\ thrown \in [Jobs -> BOOLEAN]
  /\ done \in [Jobs -> Nat] /\ total \in [Jobs -> Nat] /\ marker \in [Jobs -> Nat]
  /\ page \in [Jobs -> SUBSET Objects] /\ segs \in [Jobs -> SUBSET Nat]
  /\ kept \in [Jobs -> SUBSET Objects]

\* An object that is present in the destination has been copied completely,
\* unless it was deleted in the source: the manifest is never there before, or
\* without, one of its segments.
PresentComplete ==
  \A c \in Containers : \A o \in dest[c] \ deleted : SegmentsOf({o}) \subseteq copied[c]

\* A finished job has copied every object that was in the source since the
\* count, whatever its owner added and deleted while the pages were fetched.
FinishedCopied == \A j \in Jobs : state[j] = "finished" => kept[j] \subseteq dest[target[j]]

\* A finished copy of a container that nobody has changed since the count shows
\* all of it as done.
ProgressExact ==
  \A j \in Jobs : state[j] = "finished" /\ source = kept[j] /\ deleted = {}
    => done[j] = total[j]

\* A cancel that finds the job running stops it as cancelled: it neither
\* fails nor finishes nor goes on, wherever the task is.
CancelStops == \A j \in Jobs : state[j] = "running" /\ cancel[j] ~> state[j] = "cancelled"

\* No job runs for ever.
JobEnds == \A j \in Jobs : state[j] = "running" ~> state[j] # "running"
=============================================================================
