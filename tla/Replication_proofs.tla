-------------------------- MODULE Replication_proofs --------------------------
(***************************************************************************)
(* For any number of jobs, destinations and objects, any page size and any   *)
(* faults: the variables keep their types, a finished job has copied all that *)
(* stayed in the source, and its count is exact when the source stayed as it  *)
(* was.  Where listings are whole, an object that is present in a destination *)
(* has all of its segments there.                                            *)
(***************************************************************************)
EXTENDS Replication, FiniteSetTheorems, TLAPS

-----------------------------------------------------------------------------
(* Type correctness *)

\* A job has a destination once requested, is running exactly while its task
\* waits for an answer, and has the segments of the object it copies to copy.
ShapeOf(j) ==
  /\ pc[j] # "none" => target[j] \in Containers
  /\ state[j] = "running" <=> pc[j] \in Running
  /\ pc[j] \in {"segment", "put segment"} =>
       \A o \in Objects : IsObject(j, o) => segs[j] \subseteq 1 .. Segs[o]

Shape == \A j \in Jobs : ShapeOf(j)

TypeInv == TypeOK /\ Shape

\* A page's least object is unique.
LEMMA OneObject ==
  ASSUME page \in [Jobs -> SUBSET Objects], NEW j \in Jobs,
         NEW o \in Objects, NEW p \in Objects, IsObject(j, o), IsObject(j, p)
  PROVE  o = p
BY ReplicationAssumption DEF IsObject

\* So is the least segment.
LEMMA SegmentStored ==
  ASSUME TypeInv, NEW j \in Jobs, NEW o \in Objects, NEW n \in segs[j],
         pc[j] = "put segment", IsObject(j, o), StoreSegment(j, o, n)
  PROVE  copied' \in [Containers -> SUBSET SegmentsOf(Objects)]
<1>1. n \in 1 .. Segs[o] /\ target[j] \in Containers
  BY DEF TypeInv, Shape, ShapeOf
<1>2. <<o, n>> \in SegmentsOf(Objects)
  <2>1. <<o, n>> \in {o} \X (1 .. Segs[o])
    BY <1>1
  <2>2. {o} \X (1 .. Segs[o]) \in {{p} \X (1 .. Segs[p]) : p \in Objects}
    OBVIOUS
  <2> QED
    BY <2>1, <2>2 DEF SegmentsOf
<1> QED
  BY <1>1, <1>2 DEF TypeInv, TypeOK, StoreSegment

LEMMA ObjectStored ==
  ASSUME TypeInv, NEW j \in Jobs, NEW o \in Objects, pc[j] # "none", Store(j, o)
  PROVE  dest' \in [Containers -> SUBSET Objects]
BY DEF TypeInv, TypeOK, Shape, ShapeOf, Store

LEMMA MaybeStored ==
  ASSUME TypeInv, NEW j \in Jobs, state[j] = "running", PutMaybeStored(j)
  PROVE  /\ dest' \in [Containers -> SUBSET Objects]
         /\ copied' \in [Containers -> SUBSET SegmentsOf(Objects)]
<1>1. pc[j] # "none"
  BY DEF TypeInv, Shape, ShapeOf, Running
<1>2. CASE UNCHANGED <<dest, copied>>
  BY <1>2 DEF TypeInv, TypeOK
<1>3. ASSUME NEW o \in Objects, Store(j, o), UNCHANGED copied
      PROVE  /\ dest' \in [Containers -> SUBSET Objects]
             /\ copied' \in [Containers -> SUBSET SegmentsOf(Objects)]
  BY <1>1, <1>3, ObjectStored DEF TypeInv, TypeOK
<1>4. ASSUME NEW o \in Objects, NEW n \in segs[j], pc[j] = "put segment", IsObject(j, o),
             StoreSegment(j, o, n), UNCHANGED dest
      PROVE  /\ dest' \in [Containers -> SUBSET Objects]
             /\ copied' \in [Containers -> SUBSET SegmentsOf(Objects)]
  BY <1>4, SegmentStored DEF TypeInv, TypeOK
<1> QED
  BY <1>2, <1>3, <1>4 DEF PutMaybeStored

LEMMA TypeInit == Init => TypeInv
BY ReplicationAssumption DEF Init, TypeInv, TypeOK, Shape, ShapeOf, Requests, Running

\* A job that a step does not touch keeps its shape.
Untouched(j) ==
  /\ pc'[j] = pc[j] /\ state'[j] = state[j] /\ target'[j] = target[j]
  /\ page'[j] = page[j] /\ segs'[j] = segs[j]

LEMMA ShapeKept ==
  ASSUME NEW j \in Jobs, ShapeOf(j), Untouched(j) PROVE ShapeOf(j)'
BY DEF ShapeOf, Untouched, IsObject

LEMMA OthersKept ==
  ASSUME Shape, NEW j \in Jobs, \A i \in Jobs \ {j} : Untouched(i), ShapeOf(j)'
  PROVE  Shape'
BY ShapeKept DEF Shape

LEMMA TypeNext == TypeInv /\ [Next]_vars => TypeInv'
<1> SUFFICES ASSUME TypeInv, [Next]_vars PROVE TypeInv'
  OBVIOUS
<1> USE DEF src, job, place, Goto, Ends, At
<1>1. ASSUME NEW o \in Objects, SourceChanges(o)
      PROVE  TypeInv'
  <2>1. TypeOK'
    BY <1>1 DEF SourceChanges, TypeInv, TypeOK
  <2>2. \A i \in Jobs : Untouched(i)
    BY <1>1 DEF SourceChanges, TypeInv, TypeOK, Untouched
  <2> QED
    BY <2>1, <2>2, ShapeKept DEF TypeInv, Shape
<1>2. ASSUME NEW j \in Jobs, NEW c \in Containers, NEW o \in source \cup {0}, Request(j, c, o)
      PROVE  TypeInv'
  <2>1. TypeOK'
    BY <1>2 DEF Request, TypeInv, TypeOK, Requests, Running
  <2>2. \A i \in Jobs \ {j} : Untouched(i)
    BY <1>2 DEF Request, TypeInv, TypeOK, Untouched
  <2>3. ShapeOf(j)'
    BY <1>2 DEF Request, TypeInv, TypeOK, Shape, ShapeOf, IsObject, Requests, Running
  <2> QED
    BY <2>1, <2>2, <2>3, OthersKept DEF TypeInv
<1>3. ASSUME NEW j \in Jobs, HeadContainer(j)
      PROVE  TypeInv'
  <2>1. TypeOK'
    BY <1>3 DEF HeadContainer, TypeInv, TypeOK, Requests, Running
  <2>2. \A i \in Jobs \ {j} : Untouched(i)
    BY <1>3 DEF HeadContainer, TypeInv, TypeOK, Untouched
  <2>3. ShapeOf(j)'
    BY <1>3 DEF HeadContainer, TypeInv, TypeOK, Shape, ShapeOf, IsObject, Requests, Running
  <2> QED
    BY <2>1, <2>2, <2>3, OthersKept DEF TypeInv
<1>4. ASSUME NEW j \in Jobs, PutContainer(j)
      PROVE  TypeInv'
  <2>0. target[j] \in Containers
    BY <1>4 DEF PutContainer, TypeInv, Shape, ShapeOf
  <2>m. made' \in SUBSET (Containers \X {"objects", "segments"})
    <3>1. Part(j) \in Containers \X {"objects", "segments"}
      BY <2>0 DEF Part
    <3> QED
      BY <1>4, <3>1 DEF PutContainer, TypeInv, TypeOK
  <2>r. PICK r \in {"head segments", "count", "ended", "refused"} : Goto(j, r)
    BY <1>4 DEF PutContainer
  <2>s. state' = state \/ state' = [state EXCEPT ![j] = "running"]
    BY <1>4 DEF PutContainer
  <2>1. TypeOK'
    BY <1>4, <2>m, <2>r, <2>s DEF PutContainer, TypeInv, TypeOK, Requests, Running
  <2>2. \A i \in Jobs \ {j} : Untouched(i)
    BY <1>4, <2>0 DEF PutContainer, Part, TypeInv, TypeOK, Untouched
  <2>u. /\ UNCHANGED <<target, segs, page>> /\ pc[j] \in {"put", "put segments"}
        /\ \/ pc'[j] \in {"head segments", "ended", "refused"} /\ state'[j] = state[j]
           \/ pc'[j] = "count" /\ state'[j] = "running"
    BY <1>4 DEF PutContainer, TypeInv, TypeOK, job, place
  <2>3. ShapeOf(j)'
    BY <2>u DEF TypeInv, Shape, ShapeOf, Requests, Running
  <2> QED
    BY <2>1, <2>2, <2>3, OthersKept DEF TypeInv
<1>5. ASSUME NEW j \in Jobs, HandleCancel(j)
      PROVE  TypeInv'
  <2>1. TypeOK'
    BY <1>5 DEF HandleCancel, TypeInv, TypeOK
  <2>2. \A i \in Jobs : Untouched(i)
    BY <1>5 DEF HandleCancel, TypeInv, TypeOK, Untouched
  <2> QED
    BY <2>1, <2>2, ShapeKept DEF TypeInv, Shape
<1>6. ASSUME NEW j \in Jobs, CountContainer(j)
      PROVE  TypeInv'
  <2>0. Cardinality(source) \in Nat
    BY ReplicationAssumption, FS_Subset, FS_CardinalityType DEF TypeInv, TypeOK
  <2>1. TypeOK'
    BY <1>6, <2>0 DEF CountContainer, TypeInv, TypeOK, Requests, Running
  <2>2. \A i \in Jobs \ {j} : Untouched(i)
    BY <1>6, <2>0 DEF CountContainer, TypeInv, TypeOK, Untouched
  <2>3. ShapeOf(j)'
    BY <1>6, <2>0 DEF CountContainer, TypeInv, TypeOK, Shape, ShapeOf, IsObject, Requests, Running
  <2> QED
    BY <2>1, <2>2, <2>3, OthersKept DEF TypeInv
<1>7. ASSUME NEW j \in Jobs, FetchPage(j)
      PROVE  TypeInv'
  <2>0. PICK p \in Pages(j) :
          /\ page' = [page EXCEPT ![j] = p]
          /\ \/ p = {} /\ Ends(j, "finished") /\ UNCHANGED marker
             \/ /\ p # {} /\ Goto(j, "object") /\ UNCHANGED state
                /\ \E m \in p : marker' = [marker EXCEPT ![j] = m]
    BY <1>7 DEF FetchPage
  <2>p. p \in SUBSET Objects /\ p \in SUBSET Nat
    BY ReplicationAssumption DEF Pages, TypeInv, TypeOK
  <2>1. TypeOK'
    <3>1. page' \in [Jobs -> SUBSET Objects] /\ marker' \in [Jobs -> Nat]
      BY <2>0, <2>p DEF TypeInv, TypeOK
    <3>2. /\ pc' \in [Jobs -> Requests \cup Running \cup {"ended"}]
          /\ state' \in [Jobs -> {"none", "running", "finished", "failed", "cancelled"}]
      BY <2>0 DEF TypeInv, TypeOK, Running
    <3> QED
      BY <1>7, <3>1, <3>2 DEF FetchPage, TypeInv, TypeOK
  <2>2. \A i \in Jobs \ {j} : Untouched(i)
    BY <1>7, <2>0 DEF FetchPage, TypeInv, TypeOK, Untouched
  <2>u. /\ target' = target /\ pc[j] = "page"
        /\ \/ pc'[j] = "object" /\ state'[j] = state[j]
           \/ pc'[j] = "ended" /\ state'[j] \in {"finished", "failed"}
    BY <1>7, <2>0 DEF FetchPage, At, job, TypeInv, TypeOK
  <2>3. ShapeOf(j)'
    BY <2>u DEF TypeInv, Shape, ShapeOf, Running
  <2> QED
    BY <2>1, <2>2, <2>3, OthersKept DEF TypeInv
<1>8. ASSUME NEW j \in Jobs, NEW o \in Objects, GetObject(j, o)
      PROVE  TypeInv'
  <2>1. TypeOK'
    BY <1>8 DEF GetObject, TypeInv, TypeOK, Requests, Running
  <2>2. \A i \in Jobs \ {j} : Untouched(i)
    BY <1>8 DEF GetObject, TypeInv, TypeOK, Untouched
  <2>r. \/ \E r \in {"put object", "list"} : Goto(j, r) /\ UNCHANGED state
        \/ Ends(j, "failed")
    BY <1>8 DEF GetObject
  <2>3. ShapeOf(j)'
    BY <1>8, <2>r DEF GetObject, TypeInv, TypeOK, Shape, ShapeOf, Running
  <2> QED
    BY <2>1, <2>2, <2>3, OthersKept DEF TypeInv
<1>9. ASSUME NEW j \in Jobs, NEW o \in Objects, PutObject(j, o)
      PROVE  TypeInv'
  <2>0. dest' \in [Containers -> SUBSET Objects]
    BY <1>9, ObjectStored DEF PutObject
  <2>1. TypeOK'
    <3>1. \E r \in {"page", "object"} : Goto(j, r)
      BY <1>9 DEF PutObject
    <3>2. pc' \in [Jobs -> Requests \cup Running \cup {"ended"}]
      BY <3>1 DEF TypeInv, TypeOK, Running
    <3>3. page' \in [Jobs -> SUBSET Objects]
      BY <1>9 DEF PutObject, TypeInv, TypeOK
    <3>4. done' \in [Jobs -> Nat]
      <4>1. done \in [Jobs -> Nat] /\ done' = [done EXCEPT ![j] = @ + 1]
        BY <1>9 DEF PutObject, TypeInv, TypeOK
      <4> QED
        BY <4>1
    <3> QED
      BY <1>9, <2>0, <3>2, <3>3, <3>4 DEF PutObject, TypeInv, TypeOK
  <2>2. \A i \in Jobs \ {j} : Untouched(i)
    BY <1>9, <2>0 DEF PutObject, TypeInv, TypeOK, Untouched
  <2>3. ShapeOf(j)'
    BY <1>9, <2>0 DEF PutObject, TypeInv, TypeOK, Shape, ShapeOf, IsObject, Requests, Running
  <2> QED
    BY <2>1, <2>2, <2>3, OthersKept DEF TypeInv
<1>10. ASSUME NEW j \in Jobs, NEW o \in Objects, ListSegments(j, o)
       PROVE  TypeInv'
  <2>0. PICK listed \in SUBSET (1 .. Segs[o]) : segs' = [segs EXCEPT ![j] = listed]
    BY <1>10 DEF ListSegments
  <2>1. TypeOK'
    <3>1. \E r \in {"manifest", "segment"} : Goto(j, r)
      BY <1>10 DEF ListSegments
    <3>2. pc' \in [Jobs -> Requests \cup Running \cup {"ended"}]
      BY <3>1 DEF TypeInv, TypeOK, Running
    <3>3. segs' \in [Jobs -> SUBSET Nat]
      BY <2>0, ReplicationAssumption DEF TypeInv, TypeOK
    <3> QED
      BY <1>10, <3>2, <3>3 DEF ListSegments, TypeInv, TypeOK
  <2>2. \A i \in Jobs \ {j} : Untouched(i)
    BY <1>10, <2>0 DEF ListSegments, TypeInv, TypeOK, Untouched
  <2>3. \A p \in Objects : IsObject(j, p)' => p = o
    BY <1>10, OneObject DEF ListSegments, TypeInv, TypeOK, IsObject
  <2>4. ShapeOf(j)'
    BY <1>10, <2>0, <2>3 DEF ListSegments, TypeInv, TypeOK, Shape, ShapeOf, Running
  <2> QED
    BY <2>1, <2>2, <2>4, OthersKept DEF TypeInv
<1>11. ASSUME NEW j \in Jobs, NEW o \in Objects, NEW n \in segs[j], GetSegment(j, o, n)
      PROVE  TypeInv'
  <2>1. TypeOK'
    BY <1>11 DEF GetSegment, TypeInv, TypeOK, Requests, Running
  <2>2. \A i \in Jobs \ {j} : Untouched(i)
    BY <1>11 DEF GetSegment, TypeInv, TypeOK, Untouched
  <2>r. (Goto(j, "put segment") /\ UNCHANGED state) \/ Ends(j, "failed")
    BY <1>11 DEF GetSegment
  <2>3. ShapeOf(j)'
    BY <1>11, <2>r DEF GetSegment, TypeInv, TypeOK, Shape, ShapeOf, IsObject, Running
  <2> QED
    BY <2>1, <2>2, <2>3, OthersKept DEF TypeInv
<1>12. ASSUME NEW j \in Jobs, NEW o \in Objects, NEW n \in segs[j], PutSegment(j, o, n)
      PROVE  TypeInv'
  <2>0. copied' \in [Containers -> SUBSET SegmentsOf(Objects)]
    BY <1>12, SegmentStored DEF PutSegment
  <2>1. TypeOK'
    BY <1>12, <2>0 DEF PutSegment, NextSegment, TypeInv, TypeOK, Requests, Running
  <2>2. \A i \in Jobs \ {j} : Untouched(i)
    BY <1>12, <2>0 DEF PutSegment, NextSegment, TypeInv, TypeOK, Untouched
  <2>3. ShapeOf(j)'
    BY <1>12, <2>0 DEF PutSegment, NextSegment, TypeInv, TypeOK, Shape, ShapeOf, IsObject, Requests, Running
  <2> QED
    BY <2>1, <2>2, <2>3, OthersKept DEF TypeInv
<1>13. ASSUME NEW j \in Jobs, Fail(j) \/ Cancelled(j)
       PROVE  TypeInv'
  <2>0. PICK s \in {"failed", "cancelled"} :
          /\ state[j] = "running" /\ Ends(j, s) /\ PutMaybeStored(j)
          /\ UNCHANGED <<src, made, job, done, place>>
    BY <1>13 DEF Fail, Cancelled
  <2>d. /\ dest' \in [Containers -> SUBSET Objects]
        /\ copied' \in [Containers -> SUBSET SegmentsOf(Objects)]
    BY <2>0, MaybeStored
  <2>1. TypeOK'
    BY <2>0, <2>d DEF TypeInv, TypeOK
  <2>2. \A i \in Jobs \ {j} : Untouched(i)
    BY <2>0 DEF TypeInv, TypeOK, Untouched
  <2>3. ShapeOf(j)'
    BY <2>0 DEF TypeInv, TypeOK, Shape, ShapeOf, Running
  <2> QED
    BY <2>1, <2>2, <2>3, OthersKept DEF TypeInv
<1>14. CASE UNCHANGED vars
  BY <1>14 DEF vars, TypeInv, TypeOK, Shape, ShapeOf, IsObject
<1> QED
  BY <1>1, <1>2, <1>3, <1>4, <1>5, <1>6, <1>7, <1>8, <1>9, <1>10, <1>11, <1>12, <1>13, <1>14
  DEF Next, Handler, Task, Answer

\* Whatever the store answers and whenever jobs are cancelled, every variable
\* keeps to its type; only the objects' segments are ever written.
THEOREM TypeCorrect == Spec => []TypeOK
<1>1. TypeInv => TypeOK
  BY DEF TypeInv
<1> QED
  BY <1>1, TypeInit, TypeNext, PTL DEF Spec

-----------------------------------------------------------------------------
(* A finished job has copied what stayed in the source *)

\* What stayed since the count is copied, on the page, or behind the marker.
CopyOf(j) ==
  /\ kept[j] \subseteq source
  /\ pc[j] \in Requests \cup {"count"} => marker[j] = 0 /\ page[j] = {}
  /\ pc[j] = "page" => page[j] = {}
  /\ pc[j] \in Running \ {"count"} =>
       \A o \in kept[j] : o \in dest[target[j]] \/ o > marker[j] \/ o \in page[j]
  /\ state[j] \in {"finished", "failed", "cancelled"} => pc[j] = "ended"
  /\ state[j] = "finished" => kept[j] \subseteq dest[target[j]]

CopyInv == \A j \in Jobs : CopyOf(j)

LEMMA DestGrows ==
  ASSUME TypeInv, [Next]_vars PROVE \A c \in Containers : dest[c] \subseteq dest'[c]
<1>1. ASSUME NEW j \in Jobs, NEW o \in Objects, Store(j, o)
      PROVE  \A c \in Containers : dest[c] \subseteq dest'[c]
  BY <1>1 DEF Store, TypeInv, TypeOK
<1>2. ASSUME NEW j \in Jobs, PutMaybeStored(j)
      PROVE  \A c \in Containers : dest[c] \subseteq dest'[c]
  BY <1>1, <1>2 DEF PutMaybeStored
<1>3. CASE UNCHANGED dest
  BY <1>3
<1>4. \/ UNCHANGED dest
      \/ \E j \in Jobs : PutMaybeStored(j)
      \/ \E j \in Jobs, o \in Objects : Store(j, o)
  <2>1. ASSUME NEW o \in Objects, SourceChanges(o) PROVE UNCHANGED dest
    BY <2>1 DEF SourceChanges
  <2>2. ASSUME NEW j \in Jobs,
               \/ \E c \in Containers, o \in source \cup {0} : Request(j, c, o)
               \/ Handler(j) \/ HandleCancel(j) \/ CountContainer(j) \/ FetchPage(j)
        PROVE  UNCHANGED dest
    BY <2>2 DEF Request, Handler, HeadContainer, PutContainer, HandleCancel, CountContainer,
                FetchPage
  <2>3. ASSUME NEW j \in Jobs, NEW o \in Objects,
               \/ GetObject(j, o) \/ ListSegments(j, o)
               \/ \E n \in segs[j] : GetSegment(j, o, n) \/ PutSegment(j, o, n)
        PROVE  UNCHANGED dest
    BY <2>3 DEF GetObject, ListSegments, GetSegment, PutSegment
  <2>4. ASSUME NEW j \in Jobs, NEW o \in Objects, PutObject(j, o) PROVE Store(j, o)
    BY <2>4 DEF PutObject
  <2>5. ASSUME NEW j \in Jobs, Fail(j) \/ Cancelled(j) PROVE PutMaybeStored(j)
    BY <2>5 DEF Fail, Cancelled
  <2>6. CASE UNCHANGED vars
    BY <2>6 DEF vars
  <2> QED
    BY <2>1, <2>2, <2>3, <2>4, <2>5, <2>6 DEF Next, Task, Answer
<1> QED
  BY <1>1, <1>2, <1>3, <1>4

\* A job that a step does not touch, but for the source and for other jobs.
Undisturbed(j) ==
  /\ Untouched(j) /\ marker'[j] = marker[j]
  /\ kept'[j] \subseteq kept[j] /\ kept'[j] \subseteq source'

LEMMA CopyKept ==
  ASSUME TypeInv, NEW j \in Jobs, CopyOf(j), Undisturbed(j),
         \A c \in Containers : dest[c] \subseteq dest'[c]
  PROVE  CopyOf(j)'
BY DEF CopyOf, Undisturbed, Untouched, TypeInv, TypeOK, Shape, ShapeOf, Requests, Running

LEMMA OthersCopied ==
  ASSUME TypeInv, CopyInv, NEW j \in Jobs, \A i \in Jobs \ {j} : Undisturbed(i), CopyOf(j)',
         \A c \in Containers : dest[c] \subseteq dest'[c]
  PROVE  CopyInv'
BY CopyKept DEF CopyInv

LEMMA CopyInit == Init => CopyInv
BY DEF Init, CopyInv, CopyOf, Requests, Running

LEMMA CopyNext == TypeInv /\ CopyInv /\ [Next]_vars => CopyInv'
<1> SUFFICES ASSUME TypeInv, CopyInv, [Next]_vars PROVE CopyInv'
  OBVIOUS
<1> USE DEF src, job, place, Goto, Ends, At
<1>g. \A c \in Containers : dest[c] \subseteq dest'[c]
  BY DestGrows
<1>1. ASSUME NEW o \in Objects, SourceChanges(o)
      PROVE  CopyInv'
  <2>1. \A i \in Jobs : Undisturbed(i)
    BY <1>1 DEF SourceChanges, TypeInv, TypeOK, CopyInv, CopyOf, Undisturbed, Untouched
  <2> QED
    BY <1>g, <2>1, CopyKept DEF CopyInv
<1>2. ASSUME NEW j \in Jobs, NEW c \in Containers, NEW o \in source \cup {0}, Request(j, c, o)
      PROVE  CopyInv'
  <2>1. \A i \in Jobs \ {j} : Undisturbed(i)
    BY <1>2 DEF Request, TypeInv, TypeOK, CopyInv, CopyOf, Undisturbed, Untouched
  <2>2. CopyOf(j)'
    BY <1>2 DEF Request, TypeInv, TypeOK, Shape, ShapeOf, CopyInv, CopyOf, Requests, Running
  <2> QED
    BY <1>g, <2>1, <2>2, OthersCopied
<1>3. ASSUME NEW j \in Jobs, HeadContainer(j)
      PROVE  CopyInv'
  <2>r. PICK r \in {"put", "put segments", "refused"} : Goto(j, r)
    BY <1>3 DEF HeadContainer
  <2>u. /\ UNCHANGED <<src, dest, job, state, done, place>>
        /\ pc[j] \in {"head", "head segments"}
    BY <1>3 DEF HeadContainer
  <2>o. pc'[j] = r /\ \A i \in Jobs \ {j} : pc'[i] = pc[i]
    BY <2>r DEF TypeInv, TypeOK
  <2>1. \A i \in Jobs \ {j} : Undisturbed(i)
    BY <2>u, <2>o DEF CopyInv, CopyOf, Undisturbed, Untouched
  <2>n. state[j] \notin {"finished", "failed", "cancelled"}
    BY <2>u DEF CopyInv, CopyOf
  <2>2. CopyOf(j)'
    BY <2>u, <2>o, <2>n DEF CopyInv, CopyOf, Requests, Running
  <2> QED
    BY <1>g, <2>1, <2>2, OthersCopied
<1>4. ASSUME NEW j \in Jobs, PutContainer(j)
      PROVE  CopyInv'
  <2>r. PICK r \in {"head segments", "count", "ended", "refused"} : Goto(j, r)
    BY <1>4 DEF PutContainer
  <2>s. state' = state \/ (state' = [state EXCEPT ![j] = "running"] /\ Goto(j, "count"))
    BY <1>4 DEF PutContainer
  <2>u. UNCHANGED <<src, dest, copied, job, done, place>> /\ pc[j] \in {"put", "put segments"}
    BY <1>4 DEF PutContainer
  <2>o. \A i \in Jobs \ {j} : pc'[i] = pc[i] /\ state'[i] = state[i]
    BY <2>r, <2>s DEF TypeInv, TypeOK
  <2>1. \A i \in Jobs \ {j} : Undisturbed(i)
    BY <2>u, <2>o DEF CopyInv, CopyOf, Undisturbed, Untouched
  <2>j. pc'[j] = r /\ state'[j] \in {state[j], "running"}
    BY <2>r, <2>s DEF TypeInv, TypeOK
  <2>n. state[j] \notin {"finished", "failed", "cancelled"}
    BY <2>u DEF CopyInv, CopyOf
  <2>2. CopyOf(j)'
    BY <2>u, <2>j, <2>n DEF CopyInv, CopyOf, Requests, Running
  <2> QED
    BY <1>g, <2>1, <2>2, OthersCopied
<1>5. ASSUME NEW j \in Jobs, HandleCancel(j)
      PROVE  CopyInv'
  <2>1. \A i \in Jobs : Undisturbed(i)
    BY <1>5 DEF HandleCancel, TypeInv, TypeOK, CopyInv, CopyOf, Undisturbed, Untouched
  <2> QED
    BY <1>g, <2>1, CopyKept DEF CopyInv
<1>6. ASSUME NEW j \in Jobs, CountContainer(j)
      PROVE  CopyInv'
  <2>1. \A i \in Jobs \ {j} : Undisturbed(i)
    BY <1>6 DEF CountContainer, TypeInv, TypeOK, CopyInv, CopyOf, Undisturbed, Untouched
  <2>2. CopyOf(j)'
    <3>1. /\ kept'[j] = source /\ source' = source /\ pc'[j] = "page" /\ state'[j] = state[j]
          /\ marker'[j] = 0 /\ page'[j] = page[j] /\ pc[j] = "count"
      BY <1>6 DEF CountContainer, TypeInv, TypeOK, CopyInv, CopyOf
    <3>2. \A o \in source : o > 0
      BY ReplicationAssumption DEF TypeInv, TypeOK
    <3>3. page[j] = {}
      BY <3>1 DEF CopyInv, CopyOf
    <3>4. state[j] = "running"
      BY <3>1 DEF TypeInv, Shape, ShapeOf, Running
    <3> QED
      BY <3>1, <3>2, <3>3, <3>4 DEF CopyOf, Requests
  <2> QED
    BY <1>g, <2>1, <2>2, OthersCopied
<1>7. ASSUME NEW j \in Jobs, FetchPage(j)
      PROVE  CopyInv'
  <2>0. PICK p \in Pages(j) :
          /\ page' = [page EXCEPT ![j] = p]
          /\ \/ p = {} /\ Ends(j, "finished") /\ UNCHANGED marker
             \/ /\ p # {} /\ Goto(j, "object") /\ UNCHANGED state
                /\ \E m \in p : /\ \A x \in p : x <= m
                                /\ marker' = [marker EXCEPT ![j] = m]
    BY <1>7 DEF FetchPage
  <2>1. \A i \in Jobs \ {j} : Undisturbed(i)
    BY <1>7, <2>0 DEF FetchPage, TypeInv, TypeOK, CopyInv, CopyOf, Undisturbed, Untouched
  <2>2. /\ \A o \in kept[j] : o \in dest[target[j]] \/ o > marker[j]
        /\ kept[j] \subseteq source /\ source \subseteq Nat /\ marker[j] \in Nat
    BY <1>7, ReplicationAssumption DEF FetchPage, CopyInv, CopyOf, Running, TypeInv, TypeOK
  <2>p. p \subseteq source /\ \A x \in p, y \in source : y > marker[j] /\ y < x => y \in p
    BY DEF Pages
  <2>3. ASSUME p = {} PROVE CopyOf(j)'
    <3>1. \A o \in kept[j] : ~(o > marker[j])
      BY <2>2, <2>3 DEF Pages
    <3> QED
      <4>1. /\ kept' = kept /\ source' = source /\ dest' = dest /\ target' = target
            /\ pc'[j] = "ended" /\ state'[j] = "finished"
        BY <1>7, <2>0, <2>3 DEF FetchPage, TypeInv, TypeOK
      <4>2. kept[j] \subseteq dest[target[j]]
        BY <2>2, <3>1
      <4>3. kept'[j] \subseteq source' /\ kept'[j] \subseteq dest'[target'[j]]
        BY <2>2, <4>1, <4>2
      <4>4. pc'[j] \notin Requests \cup {"count"} /\ pc'[j] \notin Running /\ pc'[j] # "page"
        BY <4>1 DEF Requests, Running
      <4> QED
        BY <4>1, <4>3, <4>4 DEF CopyOf
  <2>4. ASSUME p # {} PROVE CopyOf(j)'
    <3>0. PICK m \in p : (\A x \in p : x <= m) /\ marker' = [marker EXCEPT ![j] = m]
      BY <2>0, <2>4
    <3>1. \A o \in kept[j] : o \in dest[target[j]] \/ o > m \/ o \in p
      <4>1. SUFFICES ASSUME NEW o \in kept[j], ~(o \in dest[target[j]]), ~(o > m)
                     PROVE  o \in p
        OBVIOUS
      <4>2. o > marker[j] /\ o \in source /\ o \in Nat
        BY <2>2, <4>1
      <4>3. m \in Nat /\ (o = m \/ o < m)
        BY <2>2, <2>p, <4>1, <4>2
      <4> QED
        BY <2>p, <4>2, <4>3
    <3>2. /\ kept' = kept /\ source' = source /\ dest' = dest /\ target' = target
          /\ pc'[j] = "object" /\ state'[j] = state[j] /\ marker'[j] = m /\ page'[j] = p
          /\ pc[j] = "page"
      BY <1>7, <2>0, <2>4, <3>0 DEF FetchPage, TypeInv, TypeOK
    <3>3. state[j] = "running"
      BY <3>2 DEF TypeInv, Shape, ShapeOf, Running
    <3> QED
      <4>1. \A o \in kept'[j] : o \in dest'[target'[j]] \/ o > marker'[j] \/ o \in page'[j]
        BY <3>1, <3>2
      <4>2. kept'[j] \subseteq source'
        BY <2>2, <3>2
      <4>3. pc'[j] \notin Requests \cup {"count"} /\ pc'[j] # "page"
        BY <3>2 DEF Requests
      <4>4. state'[j] \notin {"finished", "failed", "cancelled"}
        BY <3>2, <3>3
      <4> QED
        BY <4>1, <4>2, <4>3, <4>4 DEF CopyOf
  <2> QED
    BY <1>g, <2>1, <2>3, <2>4, OthersCopied
<1>8. ASSUME NEW j \in Jobs, NEW o \in Objects, GetObject(j, o)
      PROVE  CopyInv'
  <2>r. \/ \E r \in {"put object", "list"} : Goto(j, r) /\ UNCHANGED state
        \/ Ends(j, "failed")
    BY <1>8 DEF GetObject
  <2>u. UNCHANGED <<src, made, dest, copied, job, done, place>> /\ pc[j] \in Running
    BY <1>8 DEF GetObject, Running
  <2>s. \A i \in Jobs \ {j} : pc'[i] = pc[i] /\ state'[i] = state[i]
    BY <2>r DEF TypeInv, TypeOK
  <2>1. \A i \in Jobs \ {j} : Undisturbed(i)
    BY <2>u, <2>s DEF CopyInv, CopyOf, Undisturbed, Untouched
  <2>j. \/ pc'[j] \in Running \ {"count", "page"} /\ state'[j] = state[j]
        \/ pc'[j] = "ended" /\ state'[j] = "failed"
    BY <2>r DEF TypeInv, TypeOK, Running
  <2>c. pc[j] # "count" /\ state[j] = "running"
    BY <1>8, <2>u DEF GetObject, TypeInv, Shape, ShapeOf
  <2>2. CopyOf(j)'
    BY <2>u, <2>j, <2>c DEF CopyInv, CopyOf, Requests, Running
  <2> QED
    BY <1>g, <2>1, <2>2, OthersCopied
<1>9. ASSUME NEW j \in Jobs, NEW o \in Objects, PutObject(j, o)
      PROVE  CopyInv'
  <2>2. o \in dest'[target[j]] /\ dest[target[j]] \subseteq dest'[target[j]]
    BY <1>9, <1>g DEF PutObject, Store, TypeInv, TypeOK, Shape, ShapeOf, Running
  <2>3. PICK r \in {"page", "object"} : Goto(j, r) /\ (r = "page" => page'[j] = {})
    BY <1>9 DEF PutObject, TypeInv, TypeOK
  <2>4. page'[j] = page[j] \ {o}
    BY <1>9 DEF PutObject, TypeInv, TypeOK
  <2>u. UNCHANGED <<src, made, copied, job, state, marker, segs>> /\ pc[j] \in {"put object", "manifest"}
    BY <1>9 DEF PutObject, At
  <2>o. \A i \in Jobs \ {j} : pc'[i] = pc[i] /\ page'[i] = page[i]
    BY <1>9, <2>3 DEF PutObject, TypeInv, TypeOK
  <2>1. \A i \in Jobs \ {j} : Undisturbed(i)
    BY <2>u, <2>o DEF CopyInv, CopyOf, Undisturbed, Untouched
  <2>n. state[j] = "running"
    BY <2>u DEF TypeInv, Shape, ShapeOf, Running
  <2>k. pc'[j] \in {"page", "object"} /\ (pc'[j] = "page" => page'[j] = {})
    BY <2>3 DEF TypeInv, TypeOK
  <2>5. CopyOf(j)'
    BY <2>2, <2>4, <2>u, <2>n, <2>k DEF CopyInv, CopyOf, Requests, Running
  <2> QED
    BY <1>g, <2>1, <2>5, OthersCopied
<1>10. ASSUME NEW j \in Jobs, NEW o \in Objects, ListSegments(j, o)
      PROVE  CopyInv'
  <2>r. PICK r \in {"manifest", "segment"} : Goto(j, r)
    BY <1>10 DEF ListSegments
  <2>0. PICK listed \in SUBSET (1 .. Segs[o]) : segs' = [segs EXCEPT ![j] = listed]
    BY <1>10 DEF ListSegments
  <2>1. \A i \in Jobs \ {j} : Undisturbed(i)
    BY <1>10, <2>0 DEF ListSegments, TypeInv, TypeOK, CopyInv, CopyOf, Undisturbed, Untouched
  <2>u. UNCHANGED <<src, made, dest, copied, job, state, done, marker, page>> /\ pc[j] = "list"
    BY <1>10 DEF ListSegments, At
  <2>j. pc'[j] \in Running \ {"count", "page"}
    BY <2>r DEF TypeInv, TypeOK, Goto, Running
  <2>c. state[j] = "running"
    BY <2>u DEF TypeInv, Shape, ShapeOf, Running
  <2>2. CopyOf(j)'
    BY <2>u, <2>j, <2>c DEF CopyInv, CopyOf, Requests, Running, src, job
  <2> QED
    BY <1>g, <2>1, <2>2, OthersCopied
<1>11. ASSUME NEW j \in Jobs, NEW o \in Objects, NEW n \in segs[j], GetSegment(j, o, n)
      PROVE  CopyInv'
  <2>r. (Goto(j, "put segment") /\ UNCHANGED state) \/ Ends(j, "failed")
    BY <1>11 DEF GetSegment
  <2>u. UNCHANGED <<src, made, dest, copied, job, done, place>> /\ pc[j] \in Running
    BY <1>11 DEF GetSegment, Running
  <2>s. \A i \in Jobs \ {j} : pc'[i] = pc[i] /\ state'[i] = state[i]
    BY <2>r DEF TypeInv, TypeOK
  <2>1. \A i \in Jobs \ {j} : Undisturbed(i)
    BY <2>u, <2>s DEF CopyInv, CopyOf, Undisturbed, Untouched
  <2>j. \/ pc'[j] \in Running \ {"count", "page"} /\ state'[j] = state[j]
        \/ pc'[j] = "ended" /\ state'[j] = "failed"
    BY <2>r DEF TypeInv, TypeOK, Running
  <2>c. pc[j] # "count" /\ state[j] = "running"
    BY <1>11, <2>u DEF GetSegment, TypeInv, Shape, ShapeOf
  <2>2. CopyOf(j)'
    BY <2>u, <2>j, <2>c DEF CopyInv, CopyOf, Requests, Running
  <2> QED
    BY <1>g, <2>1, <2>2, OthersCopied
<1>12. ASSUME NEW j \in Jobs, NEW o \in Objects, NEW n \in segs[j], PutSegment(j, o, n)
      PROVE  CopyInv'
  <2>r. PICK r \in {"manifest", "segment"} : Goto(j, r)
    BY <1>12 DEF PutSegment, NextSegment
  <2>u. UNCHANGED <<src, made, dest, job, state, done, marker, page>> /\ pc[j] = "put segment"
    BY <1>12 DEF PutSegment, At
  <2>s. \A i \in Jobs \ {j} : pc'[i] = pc[i] /\ segs'[i] = segs[i]
    BY <1>12, <2>r DEF PutSegment, NextSegment, TypeInv, TypeOK
  <2>1. \A i \in Jobs \ {j} : Undisturbed(i)
    BY <2>u, <2>s DEF CopyInv, CopyOf, Undisturbed, Untouched
  <2>j. pc'[j] \in Running \ {"count", "page"}
    BY <2>r DEF TypeInv, TypeOK, Goto, Running
  <2>c. state[j] = "running"
    BY <2>u DEF TypeInv, Shape, ShapeOf, Running
  <2>2. CopyOf(j)'
    BY <2>u, <2>j, <2>c DEF CopyInv, CopyOf, Requests, Running, src, job
  <2> QED
    BY <1>g, <2>1, <2>2, OthersCopied
<1>13. ASSUME NEW j \in Jobs, Fail(j) \/ Cancelled(j)
       PROVE  CopyInv'
  <2>0. PICK s \in {"failed", "cancelled"} :
          /\ state[j] = "running" /\ Ends(j, s)
          /\ UNCHANGED <<src, made, job, done, place>>
    BY <1>13 DEF Fail, Cancelled
  <2>1. \A i \in Jobs \ {j} : Undisturbed(i)
    BY <2>0 DEF TypeInv, TypeOK, CopyInv, CopyOf, Undisturbed, Untouched
  <2>2. CopyOf(j)'
    BY <2>0 DEF TypeInv, TypeOK, CopyInv, CopyOf, Requests, Running
  <2> QED
    BY <1>g, <2>1, <2>2, OthersCopied
<1>14. CASE UNCHANGED vars
  BY <1>14 DEF vars, CopyInv, CopyOf
<1> QED
  BY <1>1, <1>2, <1>3, <1>4, <1>5, <1>6, <1>7, <1>8, <1>9, <1>10, <1>11, <1>12, <1>13, <1>14
  DEF Next, Handler, Task, Answer

\* Whatever the source's owner adds and deletes, and wherever pages end, a
\* finished job has copied every object that stayed since the count.
THEOREM FinishedHasAll == Spec => []FinishedCopied
<1>1. CopyInv => FinishedCopied
  BY DEF CopyInv, CopyOf, FinishedCopied
<1> QED
  BY <1>1, TypeInit, TypeNext, CopyInit, CopyNext, PTL DEF Spec

-----------------------------------------------------------------------------
(* A finished job shows what it has copied *)

\* The source is as job j has counted it.
Steady(j) == deleted = {} /\ source = kept[j]

\* What job j is done with: names up to the marker that are not on its page.
Passed(j) == {o \in source : o <= marker[j]} \ page[j]

\* As long as nobody changes the source, the total is its size, and the counter
\* is the number of objects that the job is done with.
CountOf(j) ==
  /\ pc[j] \in Running \ {"count"} /\ Steady(j) =>
       /\ page[j] \subseteq {o \in source : o <= marker[j]}
       /\ total[j] = Cardinality(source) /\ done[j] = Cardinality(Passed(j))
  /\ state[j] = "finished" /\ Steady(j) => done[j] = total[j]

CountInv == \A j \in Jobs : CountOf(j)

\* A step that a job does not make leaves its progress as it is.
SameCount(j) ==
  /\ pc'[j] = pc[j] /\ state'[j] = state[j] /\ page'[j] = page[j] /\ marker'[j] = marker[j]
  /\ done'[j] = done[j] /\ total'[j] = total[j]
  /\ Steady(j)' => Steady(j) /\ source' = source

LEMMA CountKept ==
  ASSUME NEW j \in Jobs, CountOf(j), SameCount(j) PROVE CountOf(j)'
BY DEF CountOf, SameCount, Passed

\* A source that has changed does not become again what a job has counted.
LEMMA SteadyBefore ==
  ASSUME TypeInv, CopyInv, NEW o \in Objects, SourceChanges(o), NEW j \in Jobs
  PROVE  ~Steady(j)'
<1>1. CASE o \in source
  BY <1>1 DEF SourceChanges, Steady
<1>2. CASE o \notin source
  <2>1. source' = source \cup {o} /\ kept'[j] = kept[j] /\ kept[j] \subseteq source
    BY <1>2 DEF SourceChanges, CopyInv, CopyOf
  <2> QED
    BY <1>2, <2>1 DEF Steady
<1> QED
  BY <1>1, <1>2

LEMMA CountInit == Init => CountInv
BY DEF Init, CountInv, CountOf, Running

LEMMA OthersCounted ==
  ASSUME CountInv, NEW j \in Jobs, \A i \in Jobs \ {j} : SameCount(i), CountOf(j)'
  PROVE  CountInv'
BY CountKept DEF CountInv

LEMMA SourceFinite ==
  ASSUME TypeInv PROVE IsFiniteSet(source) /\ \A S \in SUBSET source : IsFiniteSet(S)
<1>1. IsFiniteSet(source)
  BY ReplicationAssumption, FS_Subset DEF TypeInv, TypeOK
<1> QED
  BY <1>1, FS_Subset

LEMMA CountNext == TypeInv /\ CopyInv /\ CountInv /\ [Next]_vars => CountInv'
<1> SUFFICES ASSUME TypeInv, CopyInv, CountInv, [Next]_vars PROVE CountInv'
  OBVIOUS
<1> USE DEF src, job, place, Goto, Ends, At
<1>1. ASSUME NEW o \in Objects, SourceChanges(o)
      PROVE  CountInv'
  BY <1>1, SteadyBefore DEF CountInv, CountOf
<1>2. ASSUME NEW j \in Jobs, NEW c \in Containers, NEW o \in source \cup {0}, Request(j, c, o)
      PROVE  CountInv'
  <2>1. \A i \in Jobs \ {j} : SameCount(i)
    BY <1>2 DEF Request, TypeInv, TypeOK, SameCount, Steady
  <2>2. pc'[j] = "head" /\ state'[j] # "finished"
    BY <1>2 DEF Request, TypeInv, TypeOK, Shape, ShapeOf, CopyInv, CopyOf
  <2>3. CountOf(j)'
    BY <2>2 DEF CountOf, Running
  <2> QED
    BY <2>1, <2>3, OthersCounted
<1>3. ASSUME NEW j \in Jobs, HeadContainer(j) \/ PutContainer(j)
      PROVE  CountInv'
  <2>r. PICK r \in {"put", "put segments", "refused", "head segments", "count", "ended"} :
          Goto(j, r)
    BY <1>3 DEF HeadContainer, PutContainer
  <2>s. state' = state \/ state' = [state EXCEPT ![j] = "running"]
    BY <1>3 DEF HeadContainer, PutContainer
  <2>u. /\ UNCHANGED <<src, dest, copied, job, done, place>>
        /\ pc[j] \in {"head", "head segments", "put", "put segments"}
    BY <1>3 DEF HeadContainer, PutContainer
  <2>1. \A i \in Jobs \ {j} : SameCount(i)
    BY <2>r, <2>s, <2>u DEF TypeInv, TypeOK, SameCount, Steady
  <2>2. state[j] # "finished"
    BY <2>u DEF CopyInv, CopyOf
  <2>3. pc'[j] \notin Running \ {"count"} /\ state'[j] # "finished"
    BY <2>r, <2>s, <2>2 DEF TypeInv, TypeOK, Running
  <2>4. CountOf(j)'
    BY <2>3 DEF CountOf
  <2> QED
    BY <2>1, <2>4, OthersCounted
<1>4. ASSUME NEW j \in Jobs, HandleCancel(j)
      PROVE  CountInv'
  <2>1. \A i \in Jobs : SameCount(i)
    BY <1>4 DEF HandleCancel, SameCount, Steady
  <2> QED
    BY <2>1, CountKept DEF CountInv
<1>5. ASSUME NEW j \in Jobs, CountContainer(j)
      PROVE  CountInv'
  <2>1. \A i \in Jobs \ {j} : SameCount(i)
    BY <1>5 DEF CountContainer, TypeInv, TypeOK, SameCount, Steady
  <2>2. /\ pc'[j] = "page" /\ state'[j] = state[j] /\ source' = source /\ pc[j] = "count"
        /\ done'[j] = 0 /\ total'[j] = Cardinality(source) /\ marker'[j] = 0 /\ page'[j] = {}
    BY <1>5 DEF CountContainer, TypeInv, TypeOK, CopyInv, CopyOf
  <2>3. state'[j] # "finished"
    BY <2>2 DEF CopyInv, CopyOf
  <2>4. Passed(j)' = {}
    <3>1. \A o \in source : ~(o <= 0)
      BY ReplicationAssumption DEF TypeInv, TypeOK
    <3> QED
      BY <2>2, <3>1 DEF Passed
  <2>5. CountOf(j)'
    BY <2>2, <2>3, <2>4, FS_EmptySet DEF CountOf
  <2> QED
    BY <2>1, <2>5, OthersCounted
<1>6. ASSUME NEW j \in Jobs, FetchPage(j)
      PROVE  CountInv'
  <2>0. PICK p \in Pages(j) :
          /\ page' = [page EXCEPT ![j] = p]
          /\ \/ p = {} /\ Ends(j, "finished") /\ UNCHANGED marker
             \/ /\ p # {} /\ Goto(j, "object") /\ UNCHANGED state
                /\ \E m \in p : /\ \A x \in p : x <= m
                                /\ marker' = [marker EXCEPT ![j] = m]
    BY <1>6 DEF FetchPage
  <2>u. UNCHANGED <<src, made, dest, copied, job, done, segs>> /\ pc[j] = "page"
    BY <1>6 DEF FetchPage
  <2>1. \A i \in Jobs \ {j} : SameCount(i)
    BY <2>0, <2>u DEF TypeInv, TypeOK, SameCount, Steady
  <2>2. /\ page[j] = {} /\ source \subseteq Nat /\ marker[j] \in Nat /\ state[j] = "running"
    BY <2>u, ReplicationAssumption DEF CopyInv, CopyOf, TypeInv, TypeOK, Shape, ShapeOf, Running
  <2>3. Steady(j)' => /\ Steady(j) /\ total[j] = Cardinality(source)
                      /\ done[j] = Cardinality({o \in source : o <= marker[j]})
    <3>1. Passed(j) = {o \in source : o <= marker[j]}
      BY <2>2 DEF Passed
    <3> QED
      BY <2>u, <3>1 DEF CountInv, CountOf, Steady, Running
  <2>4. ASSUME p = {} PROVE CountOf(j)'
    <3>1. \A o \in source : o <= marker[j]
      BY <2>2, <2>4 DEF Pages
    <3>2. {o \in source : o <= marker[j]} = source
      BY <3>1
    <3>3. pc'[j] = "ended" /\ done' = done /\ total' = total
      BY <2>0, <2>4, <2>u DEF TypeInv, TypeOK
    <3> QED
      BY <2>3, <3>2, <3>3 DEF CountOf, Running
  <2>5. ASSUME p # {} PROVE CountOf(j)'
    <3>0. PICK m \in p : (\A x \in p : x <= m) /\ marker' = [marker EXCEPT ![j] = m]
      BY <2>0, <2>5
    <3>1. /\ p \subseteq source /\ \A x \in p, y \in source : y > marker[j] /\ y < x => y \in p
          /\ \A x \in p : x > marker[j]
      BY DEF Pages
    <3>2. /\ marker'[j] = m /\ page'[j] = p /\ state'[j] = state[j] /\ source' = source
          /\ done' = done /\ total' = total
      BY <2>0, <2>5, <2>u, <3>0 DEF TypeInv, TypeOK
    <3>3. p \subseteq {o \in source : o <= m}
      BY <3>0, <3>1
    <3>4. {o \in source : o <= m} \ p = {o \in source : o <= marker[j]}
      <4>1. ASSUME NEW o \in source, o <= m, o \notin p PROVE o <= marker[j]
        BY <2>2, <3>0, <3>1, <4>1
      <4>2. ASSUME NEW o \in source, o <= marker[j] PROVE o <= m /\ o \notin p
        BY <2>2, <3>0, <3>1, <4>2
      <4> QED
        BY <4>1, <4>2
    <3>5. Passed(j)' = {o \in source : o <= marker[j]}
      BY <3>2, <3>4 DEF Passed
    <3> QED
      BY <2>2, <2>3, <3>2, <3>3, <3>5 DEF CountOf
  <2> QED
    BY <2>1, <2>4, <2>5, OthersCounted
<1>7. ASSUME NEW j \in Jobs, NEW o \in Objects,
             GetObject(j, o) \/ \E n \in segs[j] : GetSegment(j, o, n)
      PROVE  CountInv'
  <2>r. \/ \E r \in {"put object", "list", "put segment"} : Goto(j, r) /\ UNCHANGED state
        \/ Ends(j, "failed")
    BY <1>7 DEF GetObject, GetSegment
  <2>u. UNCHANGED <<src, job, done, place>> /\ pc[j] \in {"object", "segment"}
    BY <1>7 DEF GetObject, GetSegment
  <2>1. \A i \in Jobs \ {j} : SameCount(i)
    BY <2>r, <2>u DEF TypeInv, TypeOK, SameCount, Steady
  <2>2. \/ pc'[j] \in Running \ {"count"} /\ state'[j] = state[j]
        \/ pc'[j] = "ended" /\ state'[j] = "failed"
    BY <2>r DEF TypeInv, TypeOK, Running
  <2>3. CountOf(j)'
    BY <2>u, <2>2 DEF CountInv, CountOf, Steady, Passed, Running
  <2> QED
    BY <2>1, <2>3, OthersCounted
<1>8. ASSUME NEW j \in Jobs, NEW o \in Objects, PutObject(j, o)
      PROVE  CountInv'
  <2>u. /\ UNCHANGED <<src, job, state, marker>> /\ pc[j] \in {"put object", "manifest"}
        /\ o \in page[j]
    BY <1>8 DEF PutObject, IsObject
  <2>2. /\ page'[j] = page[j] \ {o} /\ pc'[j] \in {"page", "object"}
        /\ done'[j] = done[j] + 1
    BY <1>8 DEF PutObject, TypeInv, TypeOK
  <2>1. \A i \in Jobs \ {j} : SameCount(i)
    BY <1>8 DEF PutObject, TypeInv, TypeOK, SameCount, Steady
  <2>3. ASSUME Steady(j)
        PROVE  /\ page'[j] \subseteq {x \in source : x <= marker[j]}
               /\ total[j] = Cardinality(source) /\ done'[j] = Cardinality(Passed(j)')
    <3>1. /\ page[j] \subseteq {x \in source : x <= marker[j]}
          /\ total[j] = Cardinality(source) /\ done[j] = Cardinality(Passed(j))
      BY <2>u, <2>3 DEF CountInv, CountOf, Running
    <3>2. Passed(j)' = Passed(j) \cup {o} /\ o \notin Passed(j)
      BY <2>u, <2>2, <3>1 DEF Passed
    <3>3. IsFiniteSet(Passed(j))
      BY SourceFinite DEF Passed
    <3>4. Cardinality(Passed(j)') = Cardinality(Passed(j)) + 1
      BY <3>2, <3>3, FS_AddElement
    <3> QED
      BY <2>2, <3>1, <3>4
  <2>4. state'[j] = "running"
    BY <2>u DEF TypeInv, Shape, ShapeOf, Running
  <2>5. CountOf(j)'
    BY <2>u, <2>2, <2>3, <2>4 DEF CountOf, Steady
  <2> QED
    BY <2>1, <2>5, OthersCounted
<1>9. ASSUME NEW j \in Jobs, NEW o \in Objects,
             ListSegments(j, o) \/ \E n \in segs[j] : PutSegment(j, o, n)
      PROVE  CountInv'
  <2>r. PICK r \in {"manifest", "segment"} : Goto(j, r)
    BY <1>9 DEF ListSegments, PutSegment, NextSegment
  <2>u. /\ UNCHANGED <<src, job, state, done, marker, page>>
        /\ pc[j] \in {"list", "put segment"}
    BY <1>9 DEF ListSegments, PutSegment
  <2>1. \A i \in Jobs \ {j} : SameCount(i)
    BY <2>r, <2>u DEF TypeInv, TypeOK, SameCount, Steady
  <2>2. pc'[j] \in Running \ {"count"} /\ pc[j] \in Running \ {"count"}
    BY <2>r, <2>u DEF TypeInv, TypeOK, Running
  <2>3. CountOf(j)'
    BY <2>u, <2>2 DEF CountInv, CountOf, Steady, Passed
  <2> QED
    BY <2>1, <2>3, OthersCounted
<1>10. ASSUME NEW j \in Jobs, Fail(j) \/ Cancelled(j)
       PROVE  CountInv'
  <2>0. PICK s \in {"failed", "cancelled"} :
          Ends(j, s) /\ UNCHANGED <<src, made, job, done, place>>
    BY <1>10 DEF Fail, Cancelled
  <2>1. \A i \in Jobs \ {j} : SameCount(i)
    BY <2>0 DEF TypeInv, TypeOK, SameCount, Steady
  <2>2. pc'[j] = "ended" /\ state'[j] # "finished"
    BY <2>0 DEF TypeInv, TypeOK
  <2>3. CountOf(j)'
    BY <2>2 DEF CountOf, Running
  <2> QED
    BY <2>1, <2>3, OthersCounted
<1>11. CASE UNCHANGED vars
  BY <1>11 DEF vars, CountInv, CountOf, Steady, Passed
<1> QED
  BY <1>1, <1>2, <1>3, <1>4, <1>5, <1>6, <1>7, <1>8, <1>9, <1>10, <1>11
  DEF Next, Handler, Task, Answer

\* A finished copy of a source that nobody has changed shows all of it as done,
\* for any page size and whatever happens to other jobs.
THEOREM FinishedCounts == Spec => []ProgressExact
<1>1. CountInv => ProgressExact
  BY DEF CountInv, CountOf, Steady, ProgressExact
<1> QED
  BY <1>1, TypeInit, TypeNext, CopyInit, CopyNext, CountInit, CountNext, PTL DEF Spec

-----------------------------------------------------------------------------
(* An object that is present has all of its segments *)

\* The store's listing of the segments container holds all that there can be.
ListsWhole == "list" \notin Faults /\ Cardinality(SegmentsOf(Objects)) <= ListLimit

\* What job j knows of the object that it copies, unless that was deleted: the
\* segments that it has still to copy are all that are missing.
WholeOf(j) ==
  \A o \in Objects : IsObject(j, o) /\ o \notin deleted =>
    /\ pc[j] = "put object" => Segs[o] = 0
    /\ pc[j] \in {"list", "segment", "put segment", "manifest"} => o \in source
    /\ pc[j] \in {"segment", "put segment", "manifest"} =>
         \A n \in 1 .. Segs[o] : n \in segs[j] \/ <<o, n>> \in copied[target[j]]
    /\ pc[j] = "manifest" => segs[j] = {}

\* PresentComplete, segment by segment.
Present ==
  \A c \in Containers : \A o \in dest[c] \ deleted :
    \A n \in 1 .. Segs[o] : <<o, n>> \in copied[c]

WholeInv == Present /\ \A j \in Jobs : WholeOf(j)

LEMMA InSegments ==
  ASSUME NEW S, NEW o \in S, NEW n \in 1 .. Segs[o] PROVE <<o, n>> \in SegmentsOf(S)
<1>1. <<o, n>> \in {o} \X (1 .. Segs[o]) /\ {o} \X (1 .. Segs[o]) \in {{p} \X (1 .. Segs[p]) : p \in S}
  OBVIOUS
<1> QED
  BY <1>1 DEF SegmentsOf

LEMMA PresentIsComplete == Present => PresentComplete
<1> SUFFICES ASSUME Present, NEW c \in Containers, NEW o \in dest[c] \ deleted,
                    NEW s \in SegmentsOf({o})
             PROVE  s \in copied[c]
  BY DEF PresentComplete
<1>1. s \in {o} \X (1 .. Segs[o])
  BY DEF SegmentsOf
<1>2. PICK n \in 1 .. Segs[o] : s = <<o, n>>
  BY <1>1
<1> QED
  BY <1>2 DEF Present

LEMMA SegmentsFinite == IsFiniteSet(SegmentsOf(Objects))
<1> DEFINE family == {{o} \X (1 .. Segs[o]) : o \in Objects}
           f == [o \in Objects |-> {o} \X (1 .. Segs[o])]
<1>1. f \in Surjection(Objects, family)
  BY DEF Surjection
<1>2. IsFiniteSet(family)
  BY <1>1, ReplicationAssumption, FS_Surjection
<1>3. ASSUME NEW o \in Objects PROVE IsFiniteSet({o} \X (1 .. Segs[o]))
  <2>1. Segs[o] \in Int /\ 1 \in Int
    BY ReplicationAssumption
  <2>2. IsFiniteSet(1 .. Segs[o]) /\ IsFiniteSet({o})
    BY <2>1, FS_Interval, FS_Singleton
  <2> QED
    BY <2>2, FS_Product
<1>4. \A T \in family : IsFiniteSet(T)
  BY <1>3
<1> QED
  BY <1>2, <1>4, FS_UNION DEF SegmentsOf

\* Every segment of an object that is there is among the listed ones.
LEMMA ListedAll ==
  ASSUME ListsWhole, TypeInv, NEW o \in source, NEW n \in 1 .. Segs[o]
  PROVE  /\ <<o, n>> \in SegmentsOf(source)
         /\ Cardinality({s \in SegmentsOf(source) : Before(s, <<o, n>>)}) < ListLimit
<1> DEFINE all == SegmentsOf(Objects)
           earlier == {s \in SegmentsOf(source) : Before(s, <<o, n>>)}
<1>1. o \in Objects /\ o \in Nat /\ Segs[o] \in Nat /\ n \in Nat /\ ListLimit \in Nat
  BY ReplicationAssumption DEF TypeInv, TypeOK
<1>2. <<o, n>> \in all /\ <<o, n>> \in SegmentsOf(source)
  BY <1>1, InSegments
<1>3. ~Before(<<o, n>>, <<o, n>>)
  BY <1>1 DEF Before
<1>4. SegmentsOf(source) \subseteq all
  BY DEF SegmentsOf, TypeInv, TypeOK
<1>5. earlier \in SUBSET (all \ {<<o, n>>})
  BY <1>3, <1>4
<1>6. /\ IsFiniteSet(all) /\ IsFiniteSet(all \ {<<o, n>>})
      /\ Cardinality(all \ {<<o, n>>}) = Cardinality(all) - 1
  BY <1>2, SegmentsFinite, FS_RemoveElement
<1>7. Cardinality(earlier) <= Cardinality(all \ {<<o, n>>}) /\ IsFiniteSet(earlier)
  BY <1>5, <1>6, FS_Subset
<1>8. Cardinality(all) \in Nat /\ Cardinality(earlier) \in Nat
  BY <1>6, <1>7, FS_CardinalityType
<1> QED
  BY <1>1, <1>2, <1>6, <1>7, <1>8 DEF ListsWhole

\* Segments that have been copied stay, an object goes only by being deleted, and
\* one that appears is the one that a job puts.
Accrues ==
  /\ \A c \in Containers : copied[c] \subseteq copied'[c]
  /\ deleted \subseteq deleted' /\ \A o \in source : o \in source' \cup deleted'
  /\ \A c \in Containers : \A o \in dest'[c] :
       \/ o \in dest[c]
       \/ \E j \in Jobs : /\ target[j] = c /\ pc[j] \in {"put object", "manifest"}
                          /\ IsObject(j, o)

LEMMA PutOnward ==
  ASSUME TypeInv, UNCHANGED <<source, deleted>>, NEW j \in Jobs,
         \/ \E o \in Objects : /\ pc[j] \in {"put object", "manifest"} /\ IsObject(j, o)
                               /\ Store(j, o) /\ UNCHANGED copied
         \/ \E o \in Objects, n \in segs[j] : StoreSegment(j, o, n) /\ UNCHANGED dest
         \/ UNCHANGED <<dest, copied>>
  PROVE  Accrues
<1>1. ASSUME NEW o \in Objects, pc[j] \in {"put object", "manifest"}, IsObject(j, o),
             Store(j, o), UNCHANGED copied
      PROVE  Accrues
  <2>1. \A c \in Containers :
          dest'[c] \subseteq IF c = target[j] THEN dest[c] \cup {o} ELSE dest[c]
    BY <1>1 DEF Store, TypeInv, TypeOK
  <2> QED
    BY <1>1, <2>1 DEF Accrues
<1>2. ASSUME NEW o \in Objects, NEW n \in segs[j], StoreSegment(j, o, n), UNCHANGED dest
      PROVE  Accrues
  BY <1>2 DEF Accrues, StoreSegment, TypeInv, TypeOK
<1>3. CASE UNCHANGED <<dest, copied>>
  BY <1>3 DEF Accrues
<1> QED
  BY <1>1, <1>2, <1>3

LEMMA StepsOnward == TypeInv /\ [Next]_vars => Accrues
<1> SUFFICES ASSUME TypeInv, [Next]_vars PROVE Accrues
  OBVIOUS
<1> USE DEF At, src
<1>1. ASSUME NEW o \in Objects, SourceChanges(o) PROVE Accrues
  BY <1>1 DEF SourceChanges, Accrues
<1>2. ASSUME NEW j \in Jobs,
             \/ \E c \in Containers, o \in source \cup {0} : Request(j, c, o)
             \/ Handler(j) \/ HandleCancel(j) \/ CountContainer(j) \/ FetchPage(j)
      PROVE  UNCHANGED <<source, deleted, dest, copied>>
  BY <1>2 DEF Request, Handler, HeadContainer, PutContainer, HandleCancel, CountContainer,
              FetchPage
<1>3. ASSUME NEW j \in Jobs, NEW o \in Objects,
             \/ GetObject(j, o) \/ ListSegments(j, o)
             \/ \E n \in segs[j] : GetSegment(j, o, n)
      PROVE  UNCHANGED <<source, deleted, dest, copied>>
  BY <1>3 DEF GetObject, ListSegments, GetSegment
<1>4. ASSUME NEW j \in Jobs, NEW o \in Objects, PutObject(j, o) PROVE Accrues
  BY <1>4, PutOnward DEF PutObject
<1>5. ASSUME NEW j \in Jobs, NEW o \in Objects, NEW n \in segs[j], PutSegment(j, o, n)
      PROVE  Accrues
  BY <1>5, PutOnward DEF PutSegment
<1>6. ASSUME NEW j \in Jobs, Fail(j) \/ Cancelled(j) PROVE Accrues
  <2>1. PutMaybeStored(j) /\ UNCHANGED <<source, deleted>>
    BY <1>6 DEF Fail, Cancelled
  <2> QED
    BY <2>1, PutOnward DEF PutMaybeStored
<1>7. ASSUME UNCHANGED <<source, deleted, dest, copied>> PROVE Accrues
  BY <1>7 DEF Accrues
<1>8. CASE UNCHANGED vars
  BY <1>7, <1>8 DEF vars
<1> QED
  BY <1>1, <1>2, <1>3, <1>4, <1>5, <1>6, <1>7, <1>8 DEF Next, Task, Answer

LEMMA WholeInit == Init => WholeInv
BY DEF Init, WholeInv, Present, WholeOf, IsObject

LEMMA PresentNext == TypeInv /\ WholeInv /\ Accrues => Present'
<1> SUFFICES ASSUME TypeInv, WholeInv, Accrues,
                    NEW c \in Containers, NEW o \in dest'[c] \ deleted', NEW n \in 1 .. Segs[o]
             PROVE  <<o, n>> \in copied'[c]
  BY DEF Present
<1>1. o \notin deleted
  BY DEF Accrues
<1>2. CASE o \in dest[c]
  BY <1>1, <1>2 DEF WholeInv, Present, Accrues
<1>3. ASSUME NEW j \in Jobs, target[j] = c, pc[j] \in {"put object", "manifest"}, IsObject(j, o)
      PROVE  <<o, n>> \in copied[c]
  <2>1. o \in Objects
    BY <1>3 DEF IsObject, TypeInv, TypeOK
  <2>2. CASE pc[j] = "put object"
    <3>1. Segs[o] = 0
      BY <1>1, <1>3, <2>1, <2>2 DEF WholeInv, WholeOf
    <3> QED
      BY <3>1
  <2>3. CASE pc[j] = "manifest"
    BY <1>1, <1>3, <2>1, <2>3 DEF WholeInv, WholeOf
  <2> QED
    BY <1>3, <2>2, <2>3
<1> QED
  BY <1>2, <1>3 DEF Accrues

\* A job that a step does not touch.
LEMMA WholeKept ==
  ASSUME TypeInv, Accrues, NEW j \in Jobs, WholeOf(j), Untouched(j) PROVE WholeOf(j)'
<1> SUFFICES ASSUME NEW o \in Objects, IsObject(j, o)', o \notin deleted'
             PROVE  /\ pc'[j] = "put object" => Segs[o] = 0
                    /\ pc'[j] \in {"list", "segment", "put segment", "manifest"} => o \in source'
                    /\ pc'[j] \in {"segment", "put segment", "manifest"} =>
                         \A n \in 1 .. Segs[o] : n \in segs'[j] \/ <<o, n>> \in copied'[target'[j]]
                    /\ pc'[j] = "manifest" => segs'[j] = {}
  BY DEF WholeOf
<1>1. IsObject(j, o) /\ o \notin deleted
  BY DEF IsObject, Untouched, Accrues
<1>2. pc[j] \in {"segment", "put segment", "manifest"} => target[j] \in Containers
  BY DEF TypeInv, Shape, ShapeOf
<1> QED
  BY <1>1, <1>2 DEF WholeOf, Untouched, Accrues

LEMMA OthersWhole ==
  ASSUME TypeInv, WholeInv, Accrues, NEW j \in Jobs, \A i \in Jobs \ {j} : Untouched(i), WholeOf(j)'
  PROVE  WholeInv'
BY WholeKept, PresentNext DEF WholeInv

\* Where the invariant says nothing of a job.
LEMMA Elsewhere ==
  ASSUME NEW j \in Jobs,
         pc'[j] \notin {"put object", "list", "segment", "put segment", "manifest"}
  PROVE  WholeOf(j)'
BY DEF WholeOf

LEMMA WholeNext ==
  ASSUME ListsWhole PROVE TypeInv /\ WholeInv /\ [Next]_vars => WholeInv'
<1> SUFFICES ASSUME TypeInv, WholeInv, [Next]_vars PROVE WholeInv'
  OBVIOUS
<1> USE DEF src, job, place, Goto, Ends, At
<1>g. Accrues
  BY StepsOnward
<1>1. ASSUME NEW o \in Objects, SourceChanges(o)
      PROVE  WholeInv'
  <2>1. \A i \in Jobs : Untouched(i)
    BY <1>1 DEF SourceChanges, Untouched
  <2> QED
    BY <1>g, <2>1, WholeKept, PresentNext DEF WholeInv
<1>2. ASSUME NEW j \in Jobs, NEW c \in Containers, NEW o \in source \cup {0}, Request(j, c, o)
      PROVE  WholeInv'
  <2>1. \A i \in Jobs \ {j} : Untouched(i)
    BY <1>2 DEF Request, TypeInv, TypeOK, Untouched
  <2>2. pc'[j] = "head"
    BY <1>2 DEF Request, TypeInv, TypeOK
  <2> QED
    BY <1>g, <2>1, <2>2, Elsewhere, OthersWhole
<1>3. ASSUME NEW j \in Jobs, HeadContainer(j) \/ PutContainer(j)
      PROVE  WholeInv'
  <2>r. PICK r \in {"put", "put segments", "refused", "head segments", "count", "ended"} :
          Goto(j, r)
    BY <1>3 DEF HeadContainer, PutContainer
  <2>s. state' = state \/ state' = [state EXCEPT ![j] = "running"]
    BY <1>3 DEF HeadContainer, PutContainer
  <2>u. UNCHANGED <<job, place>>
    BY <1>3 DEF HeadContainer, PutContainer
  <2>1. \A i \in Jobs \ {j} : Untouched(i)
    BY <2>r, <2>s, <2>u DEF TypeInv, TypeOK, Untouched
  <2>2. pc'[j] = r
    BY <2>r DEF TypeInv, TypeOK
  <2> QED
    BY <1>g, <2>1, <2>2, Elsewhere, OthersWhole
<1>4. ASSUME NEW j \in Jobs, HandleCancel(j)
      PROVE  WholeInv'
  <2>1. \A i \in Jobs : Untouched(i)
    BY <1>4 DEF HandleCancel, Untouched
  <2> QED
    BY <1>g, <2>1, WholeKept, PresentNext DEF WholeInv
<1>5. ASSUME NEW j \in Jobs, CountContainer(j)
      PROVE  WholeInv'
  <2>1. \A i \in Jobs \ {j} : Untouched(i)
    BY <1>5 DEF CountContainer, TypeInv, TypeOK, Untouched
  <2>2. pc'[j] = "page"
    BY <1>5 DEF CountContainer, TypeInv, TypeOK
  <2> QED
    BY <1>g, <2>1, <2>2, Elsewhere, OthersWhole
<1>6. ASSUME NEW j \in Jobs, FetchPage(j)
      PROVE  WholeInv'
  <2>0. PICK p \in Pages(j) :
          /\ page' = [page EXCEPT ![j] = p]
          /\ Ends(j, "finished") \/ (Goto(j, "object") /\ UNCHANGED state)
    BY <1>6 DEF FetchPage
  <2>u. UNCHANGED <<job, segs>>
    BY <1>6 DEF FetchPage
  <2>1. \A i \in Jobs \ {j} : Untouched(i)
    BY <2>0, <2>u DEF TypeInv, TypeOK, Untouched
  <2>2. pc'[j] \in {"ended", "object"}
    BY <2>0 DEF TypeInv, TypeOK
  <2> QED
    BY <1>g, <2>1, <2>2, Elsewhere, OthersWhole
<1>7. ASSUME NEW j \in Jobs, NEW o \in Objects, GetObject(j, o)
      PROVE  WholeInv'
  <2>r. \/ /\ o \in source /\ UNCHANGED state
           /\ Goto(j, IF Segs[o] = 0 THEN "put object" ELSE "list")
        \/ Ends(j, "failed")
    BY <1>7 DEF GetObject
  <2>u. UNCHANGED <<src, job, place>> /\ IsObject(j, o)
    BY <1>7 DEF GetObject
  <2>1. \A i \in Jobs \ {j} : Untouched(i)
    BY <2>r, <2>u DEF TypeInv, TypeOK, Untouched
  <2>2. \/ o \in source /\ (pc'[j] = "list" \/ (pc'[j] = "put object" /\ Segs[o] = 0))
        \/ pc'[j] = "ended"
    BY <2>r DEF TypeInv, TypeOK
  <2>3. \A p \in Objects : IsObject(j, p)' => p = o
    BY <2>u, OneObject DEF IsObject, TypeInv, TypeOK
  <2>4. WholeOf(j)'
    BY <2>u, <2>2, <2>3 DEF WholeOf
  <2> QED
    BY <1>g, <2>1, <2>4, OthersWhole
<1>8. ASSUME NEW j \in Jobs, NEW o \in Objects, PutObject(j, o)
      PROVE  WholeInv'
  <2>1. \A i \in Jobs \ {j} : Untouched(i)
    BY <1>8 DEF PutObject, TypeInv, TypeOK, Untouched
  <2>2. pc'[j] \in {"page", "object"}
    BY <1>8 DEF PutObject, TypeInv, TypeOK
  <2> QED
    BY <1>g, <2>1, <2>2, Elsewhere, OthersWhole
<1>9. ASSUME NEW j \in Jobs, NEW o \in Objects, ListSegments(j, o)
      PROVE  WholeInv'
  <2>u. UNCHANGED <<src, copied, job, state, page>> /\ pc[j] = "list" /\ IsObject(j, o)
    BY <1>9 DEF ListSegments
  <2>l. segs' = [segs EXCEPT ![j] =
          {n \in 1 .. Segs[o] :
             /\ <<o, n>> \in SegmentsOf(source)
             /\ Cardinality({s \in SegmentsOf(source) : Before(s, <<o, n>>)}) < ListLimit}]
    BY <1>9 DEF ListSegments, ListsWhole
  <2>2. o \in source => segs'[j] = 1 .. Segs[o]
    BY <2>l, ListedAll DEF TypeInv, TypeOK
  <2>r. pc'[j] = IF segs'[j] = {} THEN "manifest" ELSE "segment"
    BY <1>9 DEF ListSegments, TypeInv, TypeOK
  <2>1. \A i \in Jobs \ {j} : Untouched(i)
    <3>1. \E r \in {"manifest", "segment"} : Goto(j, r)
      BY <1>9 DEF ListSegments
    <3> QED
      BY <2>l, <2>u, <3>1 DEF TypeInv, TypeOK, Untouched
  <2>3. \A p \in Objects : IsObject(j, p)' => p = o
    BY <2>u, OneObject DEF IsObject, TypeInv, TypeOK
  <2>4. o \notin deleted => o \in source
    BY <2>u DEF WholeInv, WholeOf
  <2>5. WholeOf(j)'
    BY <2>u, <2>2, <2>r, <2>3, <2>4 DEF WholeOf
  <2> QED
    BY <1>g, <2>1, <2>5, OthersWhole
<1>10. ASSUME NEW j \in Jobs, NEW o \in Objects, NEW n \in segs[j], GetSegment(j, o, n)
       PROVE  WholeInv'
  <2>r. (Goto(j, "put segment") /\ UNCHANGED state) \/ Ends(j, "failed")
    BY <1>10 DEF GetSegment
  <2>u. UNCHANGED <<src, dest, copied, job, place>> /\ pc[j] = "segment"
    BY <1>10 DEF GetSegment
  <2>1. \A i \in Jobs \ {j} : Untouched(i)
    BY <2>r, <2>u DEF TypeInv, TypeOK, Untouched
  <2>2. pc'[j] \in {"put segment", "ended"}
    BY <2>r DEF TypeInv, TypeOK
  <2>3. WholeOf(j)'
    BY <2>u, <2>2 DEF WholeInv, WholeOf, IsObject
  <2> QED
    BY <1>g, <2>1, <2>3, OthersWhole
<1>11. ASSUME NEW j \in Jobs, NEW o \in Objects, NEW n \in segs[j], PutSegment(j, o, n)
       PROVE  WholeInv'
  <2>u. /\ UNCHANGED <<src, job, state, page>> /\ pc[j] = "put segment"
        /\ IsObject(j, o) /\ IsSegment(j, n) /\ StoreSegment(j, o, n)
    BY <1>11 DEF PutSegment
  <2>2. segs'[j] = segs[j] \ {n} /\ pc'[j] = IF segs[j] = {n} THEN "manifest" ELSE "segment"
    BY <1>11 DEF PutSegment, NextSegment, TypeInv, TypeOK
  <2>1. \A i \in Jobs \ {j} : Untouched(i)
    <3>1. \E r \in {"manifest", "segment"} : Goto(j, r)
      BY <1>11 DEF PutSegment, NextSegment
    <3>2. \A i \in Jobs \ {j} : segs'[i] = segs[i]
      BY <1>11 DEF PutSegment, NextSegment, TypeInv, TypeOK
    <3> QED
      BY <2>u, <3>1, <3>2 DEF TypeInv, TypeOK, Untouched
  <2>3. \A p \in Objects : IsObject(j, p)' => p = o
    BY <2>u, OneObject DEF IsObject, TypeInv, TypeOK
  <2>4. target[j] \in Containers
    BY <2>u DEF TypeInv, Shape, ShapeOf
  <2>5. <<o, n>> \in copied'[target[j]] /\ copied[target[j]] \subseteq copied'[target[j]]
    BY <2>u, <2>4 DEF StoreSegment, TypeInv, TypeOK
  <2>6. o \notin deleted => /\ o \in source
                            /\ \A m \in 1 .. Segs[o] : m \in segs[j] \/ <<o, m>> \in copied[target[j]]
    BY <2>u DEF WholeInv, WholeOf
  <2>7. WholeOf(j)'
    BY <2>u, <2>2, <2>3, <2>5, <2>6 DEF WholeOf
  <2> QED
    BY <1>g, <2>1, <2>7, OthersWhole
<1>12. ASSUME NEW j \in Jobs, Fail(j) \/ Cancelled(j)
       PROVE  WholeInv'
  <2>0. PICK s \in {"failed", "cancelled"} : Ends(j, s) /\ UNCHANGED <<job, place>>
    BY <1>12 DEF Fail, Cancelled
  <2>1. \A i \in Jobs \ {j} : Untouched(i)
    BY <2>0 DEF TypeInv, TypeOK, Untouched
  <2>2. pc'[j] = "ended"
    BY <2>0 DEF TypeInv, TypeOK
  <2> QED
    BY <1>g, <2>1, <2>2, Elsewhere, OthersWhole
<1>13. CASE UNCHANGED vars
  <2>1. \A i \in Jobs : Untouched(i)
    BY <1>13 DEF vars, Untouched
  <2> QED
    BY <1>g, <2>1, WholeKept, PresentNext DEF WholeInv
<1> QED
  BY <1>1, <1>2, <1>3, <1>4, <1>5, <1>6, <1>7, <1>8, <1>9, <1>10, <1>11, <1>12, <1>13
  DEF Next, Handler, Task, Answer

\* Unless the store fails to list an object's segments, an object that is present
\* in a destination and was not deleted in the source has every one of them,
\* whichever jobs share the destination and wherever they fail or are cancelled.
THEOREM PresentHasAll == ASSUME ListsWhole PROVE Spec => []PresentComplete
<1>1. WholeInv => PresentComplete
  BY PresentIsComplete DEF WholeInv
<1>2. TypeInv /\ WholeInv /\ [Next]_vars => WholeInv'
  BY WholeNext
<1> QED
  BY <1>1, <1>2, TypeInit, TypeNext, WholeInit, PTL DEF Spec
=============================================================================
