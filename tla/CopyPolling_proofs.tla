-------------------------- MODULE CopyPolling_proofs --------------------------
(***************************************************************************)
(* For any number of jobs and of polls under way: the page is an environment *)
(* that Replication allows, so that its theorems hold beside it, and what the *)
(* page shows is true, complete and, while polls keep their order, never goes *)
(* back.                                                                     *)
(***************************************************************************)
EXTENDS CopyPolling, Replication_proofs, SequenceTheorems

-----------------------------------------------------------------------------
(* What the page relies on in Replication *)

Final == OnPage \ {"running"}

LEMMA PageAllowed == [PageNext]_allVars => [Next]_vars
BY DEF PageNext, JobStep, PageStep, StartCopyJob, PollCopyJob, Polled, HandleStatus, StatusFails,
       PollAnswered, CancelCopyJob, CancelCopy, DismissCopyJob, Next, allVars

\* Beside a page the jobs do what Replication says they do.
THEOREM JobsBehave == PageSpec => Spec
<1>1. PageInit => Init
  BY DEF PageInit
<1> QED
  BY <1>1, PageAllowed, PTL DEF PageSpec, Spec

\* Nothing is counted before the container is, and a request has no record yet.
FreshOf(j) ==
  /\ pc[j] \in Requests \cup {"count"} => done[j] = 0
  /\ pc[j] \in Requests => state[j] = "none"
Fresh == \A j \in Jobs : FreshOf(j)

\* A count never goes back, and a job that has ended does not change.
Onward(j) ==
  /\ done[j] <= done'[j]
  /\ state[j] # "none" => state'[j] # "none"
  /\ state[j] \in Final => state'[j] = state[j] /\ done'[j] = done[j]

Kept(j) == pc'[j] = pc[j] /\ state'[j] = state[j] /\ done'[j] = done[j]

\* How a step changes its job
Changed(j) ==
  /\ \/ state'[j] = state[j]
     \/ state[j] \notin Final /\ state'[j] # "none"
  /\ \/ done'[j] = done[j]
     \/ state[j] = "running" /\ done'[j] = done[j] + 1
  /\ pc'[j] \in Requests \cup {"count"} =>
       pc[j] \in Requests /\ done'[j] = done[j]
  /\ pc'[j] \in Requests => state'[j] = state[j]

LEMMA OneChanges ==
  ASSUME TypeOK, Fresh, NEW i \in Jobs, \A k \in Jobs \ {i} : Kept(k), Changed(i)
  PROVE  \A j \in Jobs : Onward(j) /\ FreshOf(j)'
<1> SUFFICES ASSUME NEW j \in Jobs PROVE Onward(j) /\ FreshOf(j)'
  OBVIOUS
<1>d. done[j] \in Nat
  BY DEF TypeOK
<1>1. CASE j = i
  BY <1>1, <1>d DEF Changed, Onward, Fresh, FreshOf, Final
<1>2. CASE j # i
  BY <1>2, <1>d DEF Kept, Onward, Fresh, FreshOf, Final
<1> QED
  BY <1>1, <1>2

LEMMA JobsOnward ==
  ASSUME TypeInv, Fresh, [Next]_vars
  PROVE  \A j \in Jobs : Onward(j) /\ FreshOf(j)'
<1> USE DEF src, job, place, Goto, Ends, At
<1>t. TypeOK /\ Shape
  BY DEF TypeInv
<1>s. \A j \in Jobs : state[j] = "running" <=> pc[j] \in Running
  BY <1>t DEF Shape, ShapeOf
<1>k. ASSUME \A k \in Jobs : Kept(k)
      PROVE  \A j \in Jobs : Onward(j) /\ FreshOf(j)'
  BY <1>k, <1>t DEF TypeOK, Kept, Onward, Fresh, FreshOf
<1>1. ASSUME NEW o \in Objects, SourceChanges(o)
      PROVE  \A j \in Jobs : Onward(j) /\ FreshOf(j)'
  BY <1>1, <1>k DEF SourceChanges, Kept
<1>2. ASSUME NEW i \in Jobs, NEW c \in Containers, NEW o \in source \cup {0}, Request(i, c, o)
      PROVE  \A j \in Jobs : Onward(j) /\ FreshOf(j)'
  <2>1. \A k \in Jobs \ {i} : Kept(k)
    BY <1>2, <1>t DEF Request, TypeOK, Kept
  <2>2. Changed(i)
    BY <1>2, <1>t, <1>s DEF Request, TypeOK, Changed, Requests, Running, Final, OnPage
  <2> QED
    BY <2>1, <2>2, <1>t, OneChanges
<1>3. ASSUME NEW i \in Jobs, HeadContainer(i)
      PROVE  \A j \in Jobs : Onward(j) /\ FreshOf(j)'
  <2>1. \A k \in Jobs \ {i} : Kept(k)
    BY <1>3, <1>t DEF HeadContainer, TypeOK, Kept
  <2>2. Changed(i)
    BY <1>3, <1>t, <1>s DEF HeadContainer, TypeOK, Changed, Requests, Running, Final, OnPage
  <2> QED
    BY <2>1, <2>2, <1>t, OneChanges
<1>4. ASSUME NEW i \in Jobs, PutContainer(i)
      PROVE  \A j \in Jobs : Onward(j) /\ FreshOf(j)'
  <2>1. \A k \in Jobs \ {i} : Kept(k)
    BY <1>4, <1>t DEF PutContainer, TypeOK, Kept
  <2>r. PICK r \in {"head segments", "count", "ended", "refused"} :
          Goto(i, r) /\ pc[i] \in Requests /\ UNCHANGED done
    BY <1>4 DEF PutContainer, Requests
  <2>s. \/ state' = state
        \/ state' = [state EXCEPT ![i] = "running"] /\ pc'[i] = "count"
    BY <1>4, <1>t DEF PutContainer, TypeOK
  <2>f. state[i] = "none"
    BY <2>r DEF Fresh, FreshOf
  <2>2. Changed(i)
    BY <2>r, <2>s, <2>f, <1>t DEF TypeOK, Changed, Requests, Running, Final, OnPage
  <2> QED
    BY <2>1, <2>2, <1>t, OneChanges
<1>5. ASSUME NEW i \in Jobs, HandleCancel(i)
      PROVE  \A j \in Jobs : Onward(j) /\ FreshOf(j)'
  BY <1>5, <1>k DEF HandleCancel, Kept
<1>6. ASSUME NEW i \in Jobs, CountContainer(i)
      PROVE  \A j \in Jobs : Onward(j) /\ FreshOf(j)'
  <2>1. \A k \in Jobs \ {i} : Kept(k)
    BY <1>6, <1>t DEF CountContainer, TypeOK, Kept
  <2>0. done[i] = 0
    BY <1>6 DEF CountContainer, Fresh, FreshOf
  <2>2. Changed(i)
    BY <1>6, <2>0, <1>t DEF CountContainer, TypeOK, Changed, Requests
  <2> QED
    BY <2>1, <2>2, <1>t, OneChanges
<1>7. ASSUME NEW i \in Jobs, FetchPage(i)
      PROVE  \A j \in Jobs : Onward(j) /\ FreshOf(j)'
  <2>1. \A k \in Jobs \ {i} : Kept(k)
    BY <1>7, <1>t DEF FetchPage, TypeOK, Kept
  <2>2. Changed(i)
    BY <1>7, <1>t, <1>s DEF FetchPage, TypeOK, Changed, Requests, Running, Final, OnPage
  <2> QED
    BY <2>1, <2>2, <1>t, OneChanges
<1>8. ASSUME NEW i \in Jobs, NEW o \in Objects, GetObject(i, o)
      PROVE  \A j \in Jobs : Onward(j) /\ FreshOf(j)'
  <2>1. \A k \in Jobs \ {i} : Kept(k)
    BY <1>8, <1>t DEF GetObject, TypeOK, Kept
  <2>r. \/ \E r \in {"put object", "list", "put segment"} : Goto(i, r) /\ UNCHANGED state
        \/ Ends(i, "failed")
    BY <1>8 DEF GetObject
  <2>c. state[i] = "running" /\ UNCHANGED done
    BY <1>8, <1>s DEF GetObject, Running
  <2>2. Changed(i)
    BY <2>r, <2>c, <1>t DEF TypeOK, Changed, Requests, Final
  <2> QED
    BY <2>1, <2>2, <1>t, OneChanges
<1>9. ASSUME NEW i \in Jobs, NEW o \in Objects, PutObject(i, o)
      PROVE  \A j \in Jobs : Onward(j) /\ FreshOf(j)'
  <2>1. \A k \in Jobs \ {i} : Kept(k)
    BY <1>9, <1>t DEF PutObject, TypeOK, Kept
  <2>2. Changed(i)
    BY <1>9, <1>t, <1>s DEF PutObject, TypeOK, Changed, Requests, Running, Final, OnPage
  <2> QED
    BY <2>1, <2>2, <1>t, OneChanges
<1>10. ASSUME NEW i \in Jobs, NEW o \in Objects, ListSegments(i, o)
      PROVE  \A j \in Jobs : Onward(j) /\ FreshOf(j)'
  <2>1. \A k \in Jobs \ {i} : Kept(k)
    BY <1>10, <1>t DEF ListSegments, TypeOK, Kept
  <2>2. Changed(i)
    BY <1>10, <1>t, <1>s DEF ListSegments, TypeOK, Changed, Requests, Running, Final, OnPage
  <2> QED
    BY <2>1, <2>2, <1>t, OneChanges
<1>11. ASSUME NEW i \in Jobs, NEW o \in Objects, NEW n \in segs[i], GetSegment(i, o, n)
      PROVE  \A j \in Jobs : Onward(j) /\ FreshOf(j)'
  <2>1. \A k \in Jobs \ {i} : Kept(k)
    BY <1>11, <1>t DEF GetSegment, TypeOK, Kept
  <2>r. \/ \E r \in {"put object", "list", "put segment"} : Goto(i, r) /\ UNCHANGED state
        \/ Ends(i, "failed")
    BY <1>11 DEF GetSegment
  <2>c. state[i] = "running" /\ UNCHANGED done
    BY <1>11, <1>s DEF GetSegment, Running
  <2>2. Changed(i)
    BY <2>r, <2>c, <1>t DEF TypeOK, Changed, Requests, Final
  <2> QED
    BY <2>1, <2>2, <1>t, OneChanges
<1>12. ASSUME NEW i \in Jobs, NEW o \in Objects, NEW n \in segs[i], PutSegment(i, o, n)
      PROVE  \A j \in Jobs : Onward(j) /\ FreshOf(j)'
  <2>1. \A k \in Jobs \ {i} : Kept(k)
    BY <1>12, <1>t DEF PutSegment, NextSegment, TypeOK, Kept
  <2>2. Changed(i)
    BY <1>12, <1>t, <1>s DEF PutSegment, NextSegment, TypeOK, Changed, Requests, Running, Final, OnPage
  <2> QED
    BY <2>1, <2>2, <1>t, OneChanges
<1>13. ASSUME NEW i \in Jobs, Fail(i) \/ Cancelled(i)
       PROVE  \A j \in Jobs : Onward(j) /\ FreshOf(j)'
  <2>0. PICK s \in {"failed", "cancelled"} :
          state[i] = "running" /\ Ends(i, s) /\ UNCHANGED done
    BY <1>13 DEF Fail, Cancelled
  <2>1. \A k \in Jobs \ {i} : Kept(k)
    BY <2>0, <1>t DEF TypeOK, Kept
  <2>2. Changed(i)
    BY <2>0, <1>t DEF TypeOK, Changed, Requests, Final
  <2> QED
    BY <2>1, <2>2, <1>t, OneChanges
<1>14. CASE UNCHANGED vars
  BY <1>14, <1>k DEF vars, Kept
<1> QED
  BY <1>1, <1>2, <1>3, <1>4, <1>5, <1>6, <1>7, <1>8, <1>9, <1>10, <1>11, <1>12, <1>13, <1>14
  DEF Next, Handler, Task, Answer

-----------------------------------------------------------------------------
(* Type correctness of the page *)

StatusRecord == [state : OnPage \cup {"sent", "error"}, done : Nat]

LEMMA SentTyped == Sent \in StatusRecord /\ Error \in StatusRecord /\ Sent # Error
BY DEF Sent, Error, Status, StatusRecord

\* RemoveAt leaves the other elements, in their order.
LEMMA RemoveAtElements ==
  ASSUME NEW S, NEW s \in Seq(S), NEW i \in DOMAIN s
  PROVE  /\ RemoveAt(s, i) \in Seq(S) /\ DOMAIN RemoveAt(s, i) = 1 .. Len(s) - 1
         /\ \A m \in 1 .. Len(s) - 1 : RemoveAt(s, i)[m] = s[IF m < i THEN m ELSE m + 1]
<1> DEFINE front == SubSeq(s, 1, i - 1)
           back == SubSeq(s, i + 1, Len(s))
<1>0. i \in 1 .. Len(s) /\ Len(s) \in Nat
  OBVIOUS
<1>1. /\ front \in Seq(S) /\ Len(front) = i - 1
      /\ \A m \in 1 .. i - 1 : front[m] = s[m]
  BY <1>0
<1>2. /\ back \in Seq(S) /\ Len(back) = Len(s) - i
      /\ \A m \in 1 .. Len(s) - i : back[m] = s[i + m]
  BY <1>0
<1>3. RemoveAt(s, i) = front \o back
  BY DEF RemoveAt
<1> HIDE DEF front, back
<1>4. front \o back \in Seq(S) /\ Len(front \o back) = Len(s) - 1
  BY <1>0, <1>1, <1>2
<1>5. ASSUME NEW m \in 1 .. Len(s) - 1
      PROVE  (front \o back)[m] = s[IF m < i THEN m ELSE m + 1]
  <2>1. CASE m < i
    BY <2>1, <1>0, <1>1, <1>2
  <2>2. CASE ~(m < i)
    <3>1. m - (i - 1) \in 1 .. Len(s) - i
      BY <2>2, <1>0
    <3>0. m \in 1 .. Len(front) + Len(back) /\ ~(m <= Len(front))
      BY <2>2, <1>0, <1>1, <1>2
    <3>2. (front \o back)[m] = back[m - Len(front)]
      BY <3>0, <1>1, <1>2, ConcatProperties
    <3>3. back[m - (i - 1)] = s[i + (m - (i - 1))]
      BY <3>1, <1>2
    <3>4. i + (m - (i - 1)) = m + 1
      BY <1>0
    <3> QED
      BY <2>2, <3>2, <3>3, <3>4, <1>1
  <2> QED
    BY <2>1, <2>2
<1> QED
  BY <1>3, <1>4, <1>5

\* A job with polls is on the page, and one on the page has a record.
Started(j) ==
  /\ shown[j] = "none" => polls[j] = <<>>
  /\ shown[j] # "none" => state[j] # "none"
PageTypeInv == PageTypeOK /\ \A j \in Jobs : Started(j)

LEMMA PageTypeInit == PageInit => PageTypeInv
BY DEF PageInit, PageTypeInv, PageTypeOK, Started

LEMMA AnswerTyped ==
  ASSUME PageTypeOK, NEW j \in Jobs, NEW i \in DOMAIN polls[j], NEW a \in StatusRecord,
         Answered(j, i, a)
  PROVE  /\ polls' \in [Jobs -> Seq(StatusRecord)]
         /\ \A k \in Jobs \ {j} : polls'[k] = polls[k]
         /\ DOMAIN polls'[j] = DOMAIN polls[j]
         /\ polls'[j][i] = a
         /\ \A k \in DOMAIN polls[j] \ {i} : polls'[j][k] = polls[j][k]
<1>1. polls[j] \in Seq(StatusRecord) /\ polls \in [Jobs -> Seq(StatusRecord)]
  BY DEF PageTypeOK, StatusRecord
<1>2. [polls[j] EXCEPT ![i] = a] \in Seq(StatusRecord)
  BY <1>1
<1> QED
  BY <1>1, <1>2 DEF Answered

LEMMA ReturnTyped ==
  ASSUME PageTypeOK, NEW j \in Jobs, NEW i \in DOMAIN polls[j], PollReturns(j, i)
  PROVE  /\ polls' \in [Jobs -> Seq(StatusRecord)]
         /\ \A k \in Jobs \ {j} : polls'[k] = polls[k]
         /\ polls[j][i] \in StatusRecord
         /\ polls[j] \in Seq(StatusRecord) /\ i \in 1 .. Len(polls[j])
         /\ DOMAIN polls'[j] = 1 .. Len(polls[j]) - 1
         /\ \A m \in 1 .. Len(polls[j]) - 1 :
              polls'[j][m] = polls[j][IF m < i THEN m ELSE m + 1]
<1>1. polls[j] \in Seq(StatusRecord) /\ polls \in [Jobs -> Seq(StatusRecord)]
  BY DEF PageTypeOK, StatusRecord
<1>2. polls' = [polls EXCEPT ![j] = RemoveAt(polls[j], i)]
  BY DEF PollReturns
<1>3. /\ RemoveAt(polls[j], i) \in Seq(StatusRecord)
      /\ DOMAIN RemoveAt(polls[j], i) = 1 .. Len(polls[j]) - 1
      /\ \A m \in 1 .. Len(polls[j]) - 1 :
           RemoveAt(polls[j], i)[m] = polls[j][IF m < i THEN m ELSE m + 1]
  BY <1>1, RemoveAtElements
<1> QED
  BY <1>1, <1>2, <1>3

LEMMA TroubleTyped ==
  ASSUME PageTypeOK, NEW j \in Jobs, NEW kind \in {"order", "error"}, NEW P,
         Troubled(j, kind, P)
  PROVE  /\ trouble' \in [Jobs -> SUBSET {"order", "error"}]
         /\ \A k \in Jobs \ {j} : trouble'[k] = trouble[k]
         /\ trouble[j] \subseteq trouble'[j]
         /\ P => kind \in trouble'[j]
BY DEF PageTypeOK, Troubled

\* A step of the page is about one job, and leaves the states of all jobs alone.
PageKept(j) ==
  /\ shown'[j] = shown[j] /\ counted'[j] = counted[j] /\ polls'[j] = polls[j]
  /\ call'[j] = call[j] /\ trouble'[j] = trouble[j]

LEMMA PageFrame ==
  ASSUME PageTypeOK, NEW j \in Jobs, PageStep(j)
  PROVE  UNCHANGED <<state, done>> /\ \A k \in Jobs \ {j} : PageKept(k)
<1>1. UNCHANGED vars \/ HandleCancel(j)
  <2>1. Polled(j) => UNCHANGED vars
    BY DEF Polled, HandleStatus, StatusFails, PollAnswered
  <2>2. StartCopyJob(j) \/ PollCopyJob(j) \/ CancelCopyJob(j) \/ DismissCopyJob(j)
          => UNCHANGED vars
    BY DEF StartCopyJob, PollCopyJob, CancelCopyJob, DismissCopyJob
  <2>3. CancelCopy(j) => HandleCancel(j) \/ UNCHANGED vars
    BY DEF CancelCopy
  <2> QED
    BY <2>1, <2>2, <2>3 DEF PageStep
<1>u. UNCHANGED <<state, done>>
  BY <1>1 DEF HandleCancel, vars
<1>2. ASSUME StartCopyJob(j) \/ PollCopyJob(j)
      PROVE  \A k \in Jobs \ {j} : PageKept(k)
  BY <1>2 DEF StartCopyJob, PollCopyJob, PageTypeOK, PageKept
<1>3. ASSUME CancelCopyJob(j) \/ CancelCopy(j) \/ DismissCopyJob(j)
      PROVE  \A k \in Jobs \ {j} : PageKept(k)
  BY <1>3 DEF CancelCopyJob, CancelCopy, DismissCopyJob, RemoveCopyJob, PageTypeOK, PageKept
<1>4. ASSUME NEW i \in DOMAIN polls[j], HandleStatus(j, i) \/ StatusFails(j, i)
      PROVE  \A k \in Jobs \ {j} : PageKept(k)
  BY <1>4 DEF HandleStatus, StatusFails, Answered, Troubled, PageTypeOK, PageKept
<1>5. ASSUME NEW i \in DOMAIN polls[j], PollAnswered(j, i)
      PROVE  \A k \in Jobs \ {j} : PageKept(k)
  BY <1>5 DEF PollAnswered, PollReturns, UpdateCopyJob, Troubled, PageTypeOK, PageKept
<1> QED
  BY <1>u, <1>2, <1>3, <1>4, <1>5 DEF PageStep, Polled

LEMMA StartedKept ==
  ASSUME NEW j \in Jobs, Started(j), Onward(j), PageKept(j) PROVE Started(j)'
BY DEF Started, Onward, PageKept

\* A step that leaves the jobs' states alone is no step back.
LEMMA Still == ASSUME TypeOK, UNCHANGED <<state, done>> PROVE \A j \in Jobs : Onward(j)
BY DEF TypeOK, Onward

\* What the returned answer does to the page.
LEMMA UpdateTyped ==
  ASSUME PageTypeOK, NEW j \in Jobs, NEW s \in OnPage, NEW n \in Nat, UpdateCopyJob(j, s, n)
  PROVE  /\ shown' \in [Jobs -> OnPage \cup {"none", "removed"}]
         /\ counted' \in [Jobs -> Nat]
         /\ \/ shown[j] \in OnPage /\ shown'[j] = s /\ counted'[j] = n
            \/ shown[j] \notin OnPage /\ shown'[j] = shown[j] /\ counted'[j] = counted[j]
<1>1. CASE shown[j] \in OnPage
  <2>1. shown' = [shown EXCEPT ![j] = s] /\ counted' = [counted EXCEPT ![j] = n]
    BY <1>1 DEF UpdateCopyJob
  <2> QED
    BY <1>1, <2>1 DEF PageTypeOK
<1>2. CASE shown[j] \notin OnPage
  BY <1>2 DEF PageTypeOK, UpdateCopyJob
<1> QED
  BY <1>1, <1>2

\* An error is shown as a failure, and any other answer as it is.
LEMMA AnswerShown ==
  ASSUME PageTypeOK, NEW j \in Jobs, NEW i \in DOMAIN polls[j], PollAnswered(j, i),
         polls[j][i].state = "sent" => polls[j][i] = Sent,
         polls[j][i].state = "error" => polls[j][i] = Error
  PROVE  /\ shown' \in [Jobs -> OnPage \cup {"none", "removed"}]
         /\ counted' \in [Jobs -> Nat]
         /\ \/ /\ shown[j] \in OnPage /\ polls[j][i] = Error
               /\ shown'[j] = "failed" /\ counted'[j] = counted[j]
            \/ /\ shown[j] \in OnPage /\ polls[j][i] # Error /\ polls[j][i].state \in OnPage
               /\ shown'[j] = polls[j][i].state /\ counted'[j] = polls[j][i].done
            \/ shown[j] \notin OnPage /\ shown'[j] = shown[j] /\ counted'[j] = counted[j]
<1>1. polls[j][i] \in StatusRecord /\ polls[j][i] # Sent
  BY ReturnTyped DEF PollAnswered, PollReturns
<1>2. counted[j] \in Nat
  BY DEF PageTypeOK
<1>3. CASE polls[j][i] = Error
  BY <1>2, <1>3, UpdateTyped DEF PollAnswered, OnPage
<1>4. CASE polls[j][i] # Error
  <2>1. polls[j][i].state \in OnPage /\ polls[j][i].done \in Nat
    BY <1>1, <1>4 DEF StatusRecord
  <2>2. UpdateCopyJob(j, polls[j][i].state, polls[j][i].done)
    BY <1>4 DEF PollAnswered
  <2> HIDE DEF UpdateCopyJob
  <2> QED
    BY <1>4, <2>1, <2>2, UpdateTyped
<1> QED
  BY <1>3, <1>4

-----------------------------------------------------------------------------
(* What the page shows is true *)

\* An end that an answer reports is that of the job, whose state is s, count n
\* and trouble t.
TrueAnswer(s, n, t, a) ==
  /\ a.state \in Final => s = a.state /\ n = a.done
  /\ a.state = "error" => a = Error /\ "error" \in t
  /\ a.state = "sent" => a = Sent
  /\ a.done <= n

HonestOf(j) ==
  /\ \A i \in DOMAIN polls[j] : TrueAnswer(state[j], done[j], trouble[j], polls[j][i])
  /\ counted[j] <= done[j]
  /\ shown[j] \in {"finished", "cancelled"} => state[j] = shown[j] /\ counted[j] = done[j]
  /\ shown[j] = "failed" => state[j] = "failed" \/ "error" \in trouble[j]
  /\ shown[j] = "removed" => \/ state[j] \in Final
                            \/ call[j] # "none" \/ "error" \in trouble[j]

Honest == \A j \in Jobs : HonestOf(j)

\* While polls keep their order, those with an answer come before those without,
\* each answer is at least as far as the one before, and the page is behind them.
OrderedOf(j) == trouble[j] = {} =>
  /\ \A i, k \in DOMAIN polls[j] : i < k =>
       /\ polls[j][i] = Sent => polls[j][k] = Sent
       /\ polls[j][k] # Sent => /\ polls[j][i].done <= polls[j][k].done
                                /\ polls[j][i].state \in Final => polls[j][k].state \in Final
  /\ \A i \in DOMAIN polls[j] : polls[j][i] # Sent =>
       /\ counted[j] <= polls[j][i].done
       /\ shown[j] \in Final => polls[j][i].state \in Final

Ordered == \A j \in Jobs : OrderedOf(j)

LEMMA HonestInit == PageInit => Honest /\ Ordered
BY DEF PageInit, Init, Honest, HonestOf, Ordered, OrderedOf, Final, OnPage

LEMMA HonestKept ==
  ASSUME TypeOK, TypeOK', PageTypeOK, NEW j \in Jobs, HonestOf(j), Onward(j), PageKept(j)
  PROVE  HonestOf(j)'
<1>1. done[j] \in Nat /\ done'[j] \in Nat /\ counted[j] \in Nat
  BY DEF TypeOK, PageTypeOK
<1>2. ASSUME NEW i \in DOMAIN polls[j] PROVE TrueAnswer(state[j], done[j], trouble[j], polls[j][i])'
  <2>0. polls[j] \in Seq(StatusRecord)
    BY DEF PageTypeOK, StatusRecord
  <2>1. polls[j][i] \in StatusRecord
    BY <2>0
  <2> QED
    BY <1>1, <2>1 DEF HonestOf, TrueAnswer, Onward, PageKept, StatusRecord
<1> QED
  BY <1>1, <1>2 DEF HonestOf, Onward, PageKept, Final, OnPage

LEMMA OrderedKept ==
  ASSUME NEW j \in Jobs, OrderedOf(j), PageKept(j) PROVE OrderedOf(j)'
BY DEF OrderedOf, PageKept

PageInv == PageTypeInv /\ Honest /\ Ordered

\* The part of it that is about one job, but for its types.
InvOf(j) == Started(j) /\ HonestOf(j) /\ OrderedOf(j)

LEMMA StartStep ==
  ASSUME TypeOK, PageInv, NEW j \in Jobs, StartCopyJob(j), UNCHANGED <<state, done>>
  PROVE  PageTypeOK' /\ InvOf(j)'
<1>1. /\ polls'[j] = <<Sent>> /\ shown'[j] = "running" /\ counted'[j] = counted[j]
      /\ trouble' = trouble /\ call' = call
  BY DEF StartCopyJob, PageInv, PageTypeInv, PageTypeOK
<1>2. PageTypeOK'
  <2>1. <<Sent>> \in Seq(StatusRecord)
    BY SentTyped
  <2> QED
    BY <2>1 DEF StartCopyJob, PageInv, PageTypeInv, PageTypeOK, StatusRecord, OnPage
<1>3. Started(j)'
  BY <1>1 DEF StartCopyJob, Started
<1>4. HonestOf(j)'
  BY <1>1 DEF HonestOf, TrueAnswer, PageInv, Honest, TypeOK, Sent, Status, Final, OnPage
<1>5. OrderedOf(j)'
  BY <1>1 DEF OrderedOf
<1> QED
  BY <1>2, <1>3, <1>4, <1>5 DEF InvOf

LEMMA PollStep ==
  ASSUME TypeOK, PageInv, NEW j \in Jobs, PollCopyJob(j), UNCHANGED <<state, done>>
  PROVE  PageTypeOK' /\ InvOf(j)'
<1>0. polls[j] \in Seq(StatusRecord) /\ polls \in [Jobs -> Seq(StatusRecord)]
  BY DEF PageInv, PageTypeInv, PageTypeOK, StatusRecord
<1>1. /\ polls'[j] = Append(polls[j], Sent)
      /\ UNCHANGED <<shown, counted, poller, call, trouble>>
  BY <1>0 DEF PollCopyJob
<1>2. /\ Append(polls[j], Sent) \in Seq(StatusRecord)
      /\ DOMAIN polls[j] = 1 .. Len(polls[j]) /\ Len(polls[j]) \in Nat
      /\ DOMAIN polls'[j] = 1 .. Len(polls[j]) + 1
      /\ polls'[j][Len(polls[j]) + 1] = Sent
      /\ \A k \in DOMAIN polls[j] : polls'[j][k] = polls[j][k]
  BY <1>0, <1>1, SentTyped
<1>3. PageTypeOK'
  BY <1>0, <1>1, <1>2 DEF PollCopyJob, PageInv, PageTypeInv, PageTypeOK, StatusRecord
<1>4. Started(j)'
  BY <1>1 DEF PollCopyJob, Started, OnPage, PageInv, PageTypeInv
<1>5. HonestOf(j)'
  <2>1. TrueAnswer(state[j], done[j], trouble[j], Sent)
    BY DEF TrueAnswer, TypeOK, Sent, Status, Final, OnPage
  <2>2. \A k \in DOMAIN polls'[j] : TrueAnswer(state[j], done[j], trouble[j], polls'[j][k])
    BY <1>2, <2>1 DEF PageInv, Honest, HonestOf
  <2> QED
    BY <1>1, <2>2 DEF PageInv, Honest, HonestOf, TrueAnswer
<1>6. OrderedOf(j)'
  BY <1>1, <1>2 DEF PageInv, Ordered, OrderedOf
<1> QED
  BY <1>3, <1>4, <1>5, <1>6 DEF InvOf

LEMMA RemoveStep ==
  ASSUME TypeOK, PageInv, NEW j \in Jobs, CancelCopyJob(j) \/ DismissCopyJob(j),
         UNCHANGED <<state, done>>
  PROVE  PageTypeOK' /\ InvOf(j)'
<1>p. PageTypeOK
  BY DEF PageInv, PageTypeInv
<1>r. RemoveCopyJob(j) /\ UNCHANGED <<polls, trouble>>
  BY DEF CancelCopyJob, DismissCopyJob
<1>c. /\ shown[j] \in OnPage /\ call' \in [Jobs -> {"none", "sent", "over"}]
      /\ call'[j] # "none" \/ shown[j] \in Final
  BY <1>p DEF CancelCopyJob, DismissCopyJob, PageTypeOK, Final, OnPage
<1>1. /\ shown'[j] = "removed" /\ counted'[j] = 0 /\ UNCHANGED <<polls, trouble>>
  BY <1>p, <1>r DEF RemoveCopyJob, PageTypeOK
<1>2. PageTypeOK'
  BY <1>p, <1>r, <1>c DEF RemoveCopyJob, PageTypeOK
<1>3. Started(j)'
  BY <1>1, <1>c DEF Started, PageInv, PageTypeInv, OnPage
<1>4. HonestOf(j)'
  BY <1>1, <1>c DEF HonestOf, TrueAnswer, PageInv, Honest, TypeOK, Final, OnPage
<1>5. OrderedOf(j)'
  <2>1. \A i \in DOMAIN polls[j] : polls[j][i].done \in Nat
    <3>1. polls[j] \in Seq(StatusRecord)
      BY DEF PageInv, PageTypeInv, PageTypeOK, StatusRecord
    <3>2. \A i \in DOMAIN polls[j] : polls[j][i] \in StatusRecord
      BY <3>1
    <3> QED
      BY <3>2 DEF StatusRecord
  <2> QED
    BY <1>1, <2>1 DEF OrderedOf, PageInv, Ordered, Final, OnPage
<1> QED
  BY <1>2, <1>3, <1>4, <1>5 DEF InvOf

LEMMA CallStep ==
  ASSUME TypeOK, PageInv, NEW j \in Jobs, CancelCopy(j), UNCHANGED <<state, done>>
  PROVE  PageTypeOK' /\ InvOf(j)'
<1>1. call'[j] # "none" /\ UNCHANGED <<shown, counted, poller, polls, trouble>>
  BY DEF CancelCopy, PageInv, PageTypeInv, PageTypeOK
<1>2. PageTypeOK'
  BY <1>1 DEF CancelCopy, PageInv, PageTypeInv, PageTypeOK
<1>3. Started(j)'
  BY <1>1 DEF Started, PageInv, PageTypeInv
<1>4. HonestOf(j)'
  BY <1>1 DEF HonestOf, TrueAnswer, PageInv, Honest
<1>5. OrderedOf(j)'
  BY <1>1 DEF OrderedOf, PageInv, Ordered
<1> QED
  BY <1>2, <1>3, <1>4, <1>5 DEF InvOf

LEMMA StatusStep ==
  ASSUME TypeOK, PageInv, NEW j \in Jobs, NEW i \in DOMAIN polls[j],
         HandleStatus(j, i) \/ StatusFails(j, i), UNCHANGED <<state, done>>
  PROVE  PageTypeOK' /\ InvOf(j)'
<1>p. PageTypeOK
  BY DEF PageInv, PageTypeInv
<1>q. polls[j] \in Seq(StatusRecord)
  BY <1>p DEF PageTypeOK, StatusRecord
<1>0. polls[j] # <<>> /\ i \in Nat /\ DOMAIN polls[j] \subseteq Nat
  BY <1>q
<1>s. shown[j] # "none" /\ state[j] \in OnPage /\ done[j] \in Nat
  BY <1>0 DEF PageInv, PageTypeInv, Started, TypeOK, OnPage
<1>1. PICK a \in StatusRecord :
        /\ UNCHANGED <<shown, counted, poller, call>> /\ polls[j][i] = Sent /\ Answered(j, i, a)
        /\ \/ HandleStatus(j, i) /\ a = Status(state[j], done[j])
           \/ StatusFails(j, i) /\ a = Error
  <2>1. Status(state[j], done[j]) \in StatusRecord
    BY <1>s DEF Status, StatusRecord
  <2> QED
    BY <2>1, SentTyped DEF HandleStatus, StatusFails, Answered
<1>3. /\ polls' \in [Jobs -> Seq(StatusRecord)]
      /\ DOMAIN polls'[j] = DOMAIN polls[j] /\ polls'[j][i] = a
      /\ \A k \in DOMAIN polls[j] \ {i} : polls'[j][k] = polls[j][k]
  BY <1>p, <1>1, AnswerTyped
<1>4. /\ trouble' \in [Jobs -> SUBSET {"order", "error"}] /\ trouble[j] \subseteq trouble'[j]
      /\ a = Status(state[j], done[j]) \/ (a = Error /\ "error" \in trouble'[j])
      /\ trouble'[j] = {} => \A k \in 1 .. i - 1 : polls[j][k] # Sent
  <2>1. CASE HandleStatus(j, i) /\ a = Status(state[j], done[j])
    BY <2>1, <1>p, TroubleTyped DEF HandleStatus
  <2>2. CASE StatusFails(j, i) /\ a = Error
    BY <2>2, <1>p, TroubleTyped DEF StatusFails
  <2> QED
    BY <1>1, <2>1, <2>2
<1>5. PageTypeOK'
  BY <1>p, <1>1, <1>3, <1>4 DEF PageTypeOK, StatusRecord
<1>6. Started(j)'
  BY <1>1, <1>s DEF Started, PageInv, PageTypeInv
<1>7. HonestOf(j)'
  <2>1. TrueAnswer(state[j], done[j], trouble'[j], a)
    BY <1>4, <1>s DEF TrueAnswer, Status, Error, Final, OnPage
  <2>2. \A k \in DOMAIN polls[j] \ {i} :
          TrueAnswer(state[j], done[j], trouble'[j], polls[j][k])
    BY <1>4 DEF TrueAnswer, PageInv, Honest, HonestOf
  <2>3. \A k \in DOMAIN polls'[j] : TrueAnswer(state[j], done[j], trouble'[j], polls'[j][k])
    BY <2>1, <2>2, <1>3
  <2> QED
    BY <1>1, <1>4, <2>3 DEF PageInv, Honest, HonestOf
<1>8. OrderedOf(j)'
  <2> SUFFICES ASSUME trouble'[j] = {} PROVE OrderedOf(j)'
    BY DEF OrderedOf
  <2>1. a = Status(state[j], done[j]) /\ trouble[j] = {} /\ HonestOf(j) /\ OrderedOf(j)
    BY <1>4 DEF PageInv, Honest, Ordered
  <2>2. a # Sent /\ a.done = done[j] /\ a.state = state[j]
    BY <2>1, <1>s DEF Status, Sent, OnPage
  <2>3. \A k \in DOMAIN polls[j] :
          /\ k < i => /\ polls[j][k] # Sent /\ polls[j][k].done <= a.done
                      /\ polls[j][k].state \in Final => a.state \in Final
          /\ i < k => polls[j][k] = Sent
    <3> SUFFICES ASSUME NEW k \in DOMAIN polls[j]
                 PROVE  /\ k < i => /\ polls[j][k] # Sent /\ polls[j][k].done <= a.done
                                    /\ polls[j][k].state \in Final => a.state \in Final
                        /\ i < k => polls[j][k] = Sent
      OBVIOUS
    <3>1. k < i => k \in 1 .. i - 1
      BY <1>q
    <3>2. TrueAnswer(state[j], done[j], trouble[j], polls[j][k])
      BY <2>1 DEF HonestOf
    <3>3. i < k => polls[j][k] = Sent
      BY <1>1, <2>1 DEF OrderedOf
    <3> QED
      BY <1>4, <2>2, <3>1, <3>2, <3>3 DEF TrueAnswer
  <2>4. counted[j] <= a.done /\ (shown[j] \in Final => a.state \in Final)
    BY <1>s, <1>p, <2>1, <2>2 DEF HonestOf, Final, OnPage
  <2>5. /\ \A m, k \in DOMAIN polls'[j] : m < k =>
             /\ polls'[j][m] = Sent => polls'[j][k] = Sent
             /\ polls'[j][k] # Sent =>
                  /\ polls'[j][m].done <= polls'[j][k].done
                  /\ polls'[j][m].state \in Final => polls'[j][k].state \in Final
    <3> SUFFICES ASSUME NEW m \in DOMAIN polls[j], NEW k \in DOMAIN polls[j], m < k
                 PROVE  /\ polls'[j][m] = Sent => polls'[j][k] = Sent
                        /\ polls'[j][k] # Sent =>
                             /\ polls'[j][m].done <= polls'[j][k].done
                             /\ polls'[j][m].state \in Final => polls'[j][k].state \in Final
      BY <1>3
    <3>1. CASE m = i
      BY <3>1, <1>0, <1>3, <2>2, <2>3
    <3>2. CASE k = i
      BY <3>2, <1>0, <1>3, <2>2, <2>3
    <3>3. CASE m # i /\ k # i
      BY <3>3, <1>3, <2>1 DEF OrderedOf
    <3> QED
      BY <3>1, <3>2, <3>3
  <2>6. \A k \in DOMAIN polls'[j] : polls'[j][k] # Sent =>
             /\ counted[j] <= polls'[j][k].done
             /\ shown[j] \in Final => polls'[j][k].state \in Final
    BY <1>3, <2>1, <2>4 DEF OrderedOf
  <2> QED
    BY <1>1, <2>5, <2>6 DEF OrderedOf
<1> QED
  BY <1>5, <1>6, <1>7, <1>8 DEF InvOf

LEMMA AnswerStep ==
  ASSUME TypeOK, PageInv, NEW j \in Jobs, NEW i \in DOMAIN polls[j], PollAnswered(j, i),
         UNCHANGED <<state, done>>
  PROVE  /\ PageTypeOK' /\ InvOf(j)'
         /\ trouble'[j] = {} /\ shown'[j] \in OnPage =>
              /\ counted[j] <= counted'[j]
              /\ shown[j] \in Final => shown'[j] = shown[j]
<1> DEFINE a == polls[j][i]
<1>p. PageTypeOK /\ HonestOf(j) /\ OrderedOf(j) /\ Started(j)
  BY DEF PageInv, PageTypeInv, Honest, Ordered
<1>r. PollReturns(j, i) /\ UNCHANGED call
  BY DEF PollAnswered
<1>1. /\ polls' \in [Jobs -> Seq(StatusRecord)]
      /\ a \in StatusRecord
      /\ polls[j] \in Seq(StatusRecord) /\ i \in 1 .. Len(polls[j]) /\ Len(polls[j]) \in Nat
      /\ DOMAIN polls[j] = 1 .. Len(polls[j])
      /\ DOMAIN polls'[j] = 1 .. Len(polls[j]) - 1
      /\ \A m \in 1 .. Len(polls[j]) - 1 :
           polls'[j][m] = polls[j][IF m < i THEN m ELSE m + 1]
  BY <1>p, <1>r, ReturnTyped
<1>2. TrueAnswer(state[j], done[j], trouble[j], a) /\ a # Sent
  BY <1>p, <1>r DEF HonestOf, PollReturns
<1>3. /\ trouble' \in [Jobs -> SUBSET {"order", "error"}] /\ trouble[j] \subseteq trouble'[j]
      /\ i > 1 => "order" \in trouble'[j]
  BY <1>p, <1>r, TroubleTyped DEF PollReturns
<1>4. /\ shown' \in [Jobs -> OnPage \cup {"none", "removed"}]
      /\ counted' \in [Jobs -> Nat]
      /\ \/ shown[j] \in OnPage /\ a = Error /\ shown'[j] = "failed" /\ counted'[j] = counted[j]
         \/ /\ shown[j] \in OnPage /\ a # Error /\ a.state \in OnPage
            /\ shown'[j] = a.state /\ counted'[j] = a.done
         \/ shown[j] \notin OnPage /\ shown'[j] = shown[j] /\ counted'[j] = counted[j]
  BY <1>p, <1>2, AnswerShown DEF TrueAnswer
<1>t. counted[j] \in Nat /\ done[j] \in Nat /\ a.done \in Nat
  BY <1>p, <1>1 DEF PageTypeOK, TypeOK, StatusRecord
<1>5. PageTypeOK'
  <2>1. poller' \in [Jobs -> BOOLEAN]
    BY <1>p DEF PollAnswered, PageTypeOK
  <2> QED
    BY <2>1, <1>p, <1>r, <1>1, <1>3, <1>4 DEF PageTypeOK, StatusRecord
<1>e. a = Error => "error" \in trouble[j]
  BY <1>2 DEF TrueAnswer, Error, Status
<1>m. \A m \in DOMAIN polls'[j] : \E k \in DOMAIN polls[j] : polls'[j][m] = polls[j][k]
  <2>1. \A m \in 1 .. Len(polls[j]) - 1 : (IF m < i THEN m ELSE m + 1) \in 1 .. Len(polls[j])
    BY <1>1
  <2> QED
    BY <2>1, <1>1
<1> HIDE DEF a
<1>6. Started(j)'
  <2>1. shown[j] # "none"
    BY <1>1, <1>p DEF Started
  <2> QED
    BY <2>1, <1>4, <1>p DEF Started, OnPage
<1>7. HonestOf(j)'
  <2>1. \A m \in DOMAIN polls'[j] : TrueAnswer(state[j], done[j], trouble'[j], polls'[j][m])
    BY <1>m, <1>3, <1>p DEF HonestOf, TrueAnswer
  <2>2. counted'[j] <= done[j]
    BY <1>2, <1>4, <1>p DEF HonestOf, TrueAnswer
  <2>3. shown'[j] \in {"finished", "cancelled"} => state[j] = shown'[j] /\ counted'[j] = done[j]
    BY <1>2, <1>4, <1>p DEF HonestOf, TrueAnswer, Final, OnPage
  <2>4. shown'[j] = "failed" => state[j] = "failed" \/ "error" \in trouble'[j]
    BY <1>2, <1>3, <1>4, <1>e, <1>p DEF HonestOf, TrueAnswer, Final, OnPage
  <2>5. shown'[j] = "removed" =>
          state[j] \in Final \/ call[j] # "none" \/ "error" \in trouble'[j]
    BY <1>3, <1>4, <1>p DEF HonestOf, OnPage
  <2> QED
    BY <1>r, <2>1, <2>2, <2>3, <2>4, <2>5 DEF HonestOf
<1>8. ASSUME trouble'[j] = {}
      PROVE  /\ OrderedOf(j)'
             /\ counted[j] <= counted'[j]
             /\ shown'[j] \in OnPage /\ shown[j] \in Final => shown'[j] = shown[j]
  <2>1. i = 1 /\ trouble[j] = {} /\ a = polls[j][1]
    BY <1>8, <1>1, <1>3 DEF a
  <2>2. a # Error
    BY <2>1, <1>e
  <2>3. \A m \in DOMAIN polls'[j] : m + 1 \in DOMAIN polls[j] /\ polls'[j][m] = polls[j][m + 1]
    BY <2>1, <1>1
  <2>4. counted[j] <= a.done /\ (shown[j] \in Final => a.state \in Final)
    BY <2>1, <1>1, <1>2, <1>p DEF OrderedOf, a
  <2>5. \A k \in DOMAIN polls[j] : 1 < k /\ polls[j][k] # Sent =>
          a.done <= polls[j][k].done /\ (a.state \in Final => polls[j][k].state \in Final)
    BY <2>1, <1>1, <1>p DEF OrderedOf
  <2>6. counted[j] <= counted'[j]
    BY <2>2, <2>4, <1>t, <1>4
  <2>7. shown'[j] \in OnPage /\ shown[j] \in Final => shown'[j] = shown[j]
    <3> SUFFICES ASSUME shown[j] \in Final PROVE shown'[j] = shown[j]
      OBVIOUS
    <3>1. a.state \in Final /\ a.state = state[j] /\ shown'[j] = a.state
      BY <2>2, <2>4, <1>2, <1>4 DEF TrueAnswer, Final
    <3>2. state[j] = shown[j]
      BY <2>1, <1>p DEF HonestOf, Final, OnPage
    <3> QED
      BY <3>1, <3>2
  <2>8. \A m, k \in DOMAIN polls'[j] : m < k =>
          /\ polls'[j][m] = Sent => polls'[j][k] = Sent
          /\ polls'[j][k] # Sent =>
               /\ polls'[j][m].done <= polls'[j][k].done
               /\ polls'[j][m].state \in Final => polls'[j][k].state \in Final
    <3> SUFFICES ASSUME NEW m \in DOMAIN polls'[j], NEW k \in DOMAIN polls'[j], m < k
                 PROVE  /\ polls'[j][m] = Sent => polls'[j][k] = Sent
                        /\ polls'[j][k] # Sent =>
                             /\ polls'[j][m].done <= polls'[j][k].done
                             /\ polls'[j][m].state \in Final => polls'[j][k].state \in Final
      OBVIOUS
    <3>1. m + 1 < k + 1
      BY <1>1
    <3> QED
      BY <2>1, <2>3, <3>1, <1>p DEF OrderedOf
  <2>9. \A m \in DOMAIN polls'[j] : polls'[j][m] # Sent =>
          /\ counted'[j] <= polls'[j][m].done
          /\ shown'[j] \in Final => polls'[j][m].state \in Final
    <3> SUFFICES ASSUME NEW m \in DOMAIN polls'[j], polls'[j][m] # Sent
                 PROVE  /\ counted'[j] <= polls'[j][m].done
                        /\ shown'[j] \in Final => polls'[j][m].state \in Final
      OBVIOUS
    <3>1. 1 < m + 1 /\ m + 1 \in DOMAIN polls[j] /\ polls[j][m + 1] # Sent
      BY <1>1, <2>3
    <3>2. /\ a.done <= polls[j][m + 1].done /\ counted[j] <= polls[j][m + 1].done
          /\ a.state \in Final => polls[j][m + 1].state \in Final
          /\ shown[j] \in Final => polls[j][m + 1].state \in Final
      BY <3>1, <2>1, <2>5, <1>p DEF OrderedOf
    <3> QED
      BY <3>2, <2>2, <2>3, <1>4
  <2>10. OrderedOf(j)'
    BY <2>8, <2>9 DEF OrderedOf
  <2> QED
    BY <2>6, <2>7, <2>10
<1>9. OrderedOf(j)'
  BY <1>8 DEF OrderedOf
<1> QED
  BY <1>5, <1>6, <1>7, <1>8, <1>9 DEF InvOf

-----------------------------------------------------------------------------
(* All steps together *)

Forward(j) == trouble'[j] = {} /\ shown'[j] \in OnPage =>
  /\ counted[j] <= counted'[j]
  /\ shown[j] \in Final => shown'[j] = shown[j]

Stays(j) == shown[j] = "removed" => shown'[j] = "removed"

\* Each step of the page keeps the invariant of its job, and goes forward.
LEMMA PageStepKeeps ==
  ASSUME TypeOK, PageInv, NEW j \in Jobs, PageStep(j)
  PROVE  PageTypeOK' /\ InvOf(j)' /\ Forward(j) /\ Stays(j)
<1>u. UNCHANGED <<state, done>>
  BY PageFrame DEF PageInv, PageTypeInv
<1>p. PageTypeOK /\ Started(j) /\ counted[j] \in Nat
  BY DEF PageInv, PageTypeInv, PageTypeOK
<1>1. ASSUME StartCopyJob(j)
      PROVE  PageTypeOK' /\ InvOf(j)' /\ Forward(j) /\ Stays(j)
  <2>1. UNCHANGED counted /\ shown[j] = "none"
    BY <1>1 DEF StartCopyJob
  <2> QED
    BY <2>1, <1>1, <1>u, <1>p, StartStep DEF Forward, Stays, Final, OnPage
<1>2. ASSUME PollCopyJob(j)
      PROVE  PageTypeOK' /\ InvOf(j)' /\ Forward(j) /\ Stays(j)
  <2>1. UNCHANGED <<shown, counted>>
    BY <1>2 DEF PollCopyJob
  <2> QED
    BY <2>1, <1>2, <1>u, <1>p, PollStep DEF Forward, Stays
<1>3. ASSUME CancelCopyJob(j) \/ DismissCopyJob(j)
      PROVE  PageTypeOK' /\ InvOf(j)' /\ Forward(j) /\ Stays(j)
  <2>1. shown'[j] = "removed"
    BY <1>3, <1>p DEF CancelCopyJob, DismissCopyJob, RemoveCopyJob, PageTypeOK
  <2> QED
    BY <2>1, <1>3, <1>u, RemoveStep DEF Forward, Stays, OnPage
<1>4. ASSUME CancelCopy(j)
      PROVE  PageTypeOK' /\ InvOf(j)' /\ Forward(j) /\ Stays(j)
  <2>1. UNCHANGED <<shown, counted>>
    BY <1>4 DEF CancelCopy
  <2> QED
    BY <2>1, <1>4, <1>u, <1>p, CallStep DEF Forward, Stays
<1>5. ASSUME NEW i \in DOMAIN polls[j], HandleStatus(j, i) \/ StatusFails(j, i)
      PROVE  PageTypeOK' /\ InvOf(j)' /\ Forward(j) /\ Stays(j)
  <2>1. UNCHANGED <<shown, counted>>
    BY <1>5 DEF HandleStatus, StatusFails
  <2> QED
    BY <2>1, <1>5, <1>u, <1>p, StatusStep DEF Forward, Stays
<1>6. ASSUME NEW i \in DOMAIN polls[j], PollAnswered(j, i)
      PROVE  PageTypeOK' /\ InvOf(j)' /\ Forward(j) /\ Stays(j)
  <2>1. Stays(j)
    BY <1>6, <1>p DEF PollAnswered, UpdateCopyJob, Stays, OnPage
  <2> QED
    BY <2>1, <1>6, <1>u, AnswerStep DEF Forward
<1> QED
  BY <1>1, <1>2, <1>3, <1>4, <1>5, <1>6 DEF PageStep, Polled

LEMMA PageInvNext ==
  ASSUME TypeInv, Fresh, PageInv, [PageNext]_allVars
  PROVE  PageInv' /\ \A j \in Jobs : Forward(j) /\ Stays(j)
<1>t. TypeInv' /\ TypeOK /\ TypeOK'
  BY TypeNext, PageAllowed DEF TypeInv
<1>o. \A j \in Jobs : Onward(j)
  BY JobsOnward, PageAllowed
<1>p. PageTypeOK /\ \A j \in Jobs : Started(j) /\ HonestOf(j) /\ OrderedOf(j)
  BY DEF PageInv, PageTypeInv, Honest, Ordered
<1>k. ASSUME NEW j \in Jobs, PageKept(j) PROVE InvOf(j)' /\ Forward(j) /\ Stays(j)
  <2>1. InvOf(j)'
    BY <1>t, <1>o, <1>p, <1>k, StartedKept, HonestKept, OrderedKept DEF InvOf
  <2> QED
    BY <2>1, <1>p, <1>k DEF PageKept, Forward, Stays, PageTypeOK
<1>1. ASSUME NEW j \in Jobs, PageStep(j)
      PROVE  PageInv' /\ \A k \in Jobs : Forward(k) /\ Stays(k)
  <2>1. PageTypeOK' /\ InvOf(j)' /\ Forward(j) /\ Stays(j)
    BY <1>1, <1>t, PageStepKeeps
  <2>2. \A k \in Jobs \ {j} : InvOf(k)' /\ Forward(k) /\ Stays(k)
    BY <1>1, <1>p, <1>k, PageFrame
  <2> QED
    BY <2>1, <2>2 DEF PageInv, PageTypeInv, Honest, Ordered, InvOf
<1>2. CASE UNCHANGED pageVars
  <2>1. PageTypeOK' /\ \A k \in Jobs : PageKept(k)
    BY <1>2, <1>p DEF pageVars, PageTypeOK, PageKept
  <2>2. \A k \in Jobs : InvOf(k)' /\ Forward(k) /\ Stays(k)
    BY <2>1, <1>k
  <2> QED
    BY <2>1, <2>2 DEF PageInv, PageTypeInv, Honest, Ordered, InvOf
<1> QED
  BY <1>1, <1>2 DEF PageNext, JobStep, allVars

LEMMA FreshNext == TypeInv /\ Fresh /\ [Next]_vars => Fresh'
BY JobsOnward DEF Fresh

LEMMA FreshInit == Init => Fresh
BY DEF Init, Fresh, FreshOf, Requests

\* The invariant that all theorems below follow from.
LEMMA PageAlways == PageSpec => [](TypeInv /\ Fresh /\ PageInv)
<1>1. PageInit => TypeInv /\ Fresh /\ PageInv
  BY TypeInit, FreshInit, PageTypeInit, HonestInit DEF PageInit, PageInv
<1>2. TypeInv /\ Fresh /\ PageInv /\ [PageNext]_allVars => (TypeInv /\ Fresh /\ PageInv)'
  BY TypeNext, FreshNext, PageInvNext, PageAllowed
<1> QED
  BY <1>1, <1>2, PTL DEF PageSpec

-----------------------------------------------------------------------------
(* Theorems *)

\* The variables of the page keep their types.
THEOREM PageTypeCorrect == PageSpec => []PageTypeOK
<1>1. PageInv => PageTypeOK
  BY DEF PageInv, PageTypeInv
<1> QED
  BY <1>1, PageAlways, PTL

\* However polls overlap, fail or overtake each other, a copy that the page
\* shows as finished is finished, and has all that stayed in the source.
THEOREM ShownIsComplete == PageSpec => []ShownComplete
<1>1. PageInv /\ FinishedCopied => ShownComplete
  BY DEF PageInv, Honest, HonestOf, FinishedCopied, ShownComplete
<1> QED
  BY <1>1, PageAlways, JobsBehave, FinishedHasAll, PTL

\* A job that was closed without a cancel or an error has ended.
THEOREM ClosedHasEnded == PageSpec => []ClosedEnded
<1>1. PageInv => ClosedEnded
  BY DEF PageInv, Honest, HonestOf, ClosedEnded, Final, OnPage
<1> QED
  BY <1>1, PageAlways, PTL

\* What was removed from the page stays removed.
THEOREM RemovedForGood == PageSpec => RemovedStays
<1>1. TypeInv /\ Fresh /\ PageInv /\ [PageNext]_allVars
        => [\A j \in Jobs : shown[j] = "removed" => shown'[j] = "removed"]_allVars
  BY PageInvNext DEF Stays
<1> QED
  BY <1>1, PageAlways, PTL DEF PageSpec, RemovedStays

\* While polls keep their order, the page never goes back.
THEOREM ShownGoesForward == PageSpec => ShownForward
<1>1. TypeInv /\ Fresh /\ PageInv /\ [PageNext]_allVars
        => [\A j \in Jobs : trouble'[j] = {} /\ shown'[j] \in OnPage =>
              /\ counted[j] <= counted'[j]
              /\ shown[j] \in OnPage \ {"running"} => shown'[j] = shown[j]]_allVars
  BY PageInvNext DEF Forward, Final
<1> QED
  BY <1>1, PageAlways, PTL DEF PageSpec, ShownForward
=============================================================================
