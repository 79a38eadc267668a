----------------------------- MODULE CopyPolling -----------------------------
(***************************************************************************)
(* The page that started a copy (store.js, CopyProgressToast.vue) beside the *)
(* job of Replication: a timer polls the job's record every 1.5 s without     *)
(* waiting for the answers, so that polls overlap and overtake each other on  *)
(* the way to the runner and back; each answer changes what is shown and may  *)
(* stop the timer; the user cancels the job or closes its card.               *)
(*                                                                         *)
(* Left out: the refresh of the page's list of containers, and that of         *)
(* several jobs only one has a card.                                         *)
(***************************************************************************)
EXTENDS Replication, SequencesExt

CONSTANT MaxPolls  \* bound: most polls of a job that are under way at once

ASSUME MaxPollsAssumption == MaxPolls \in Nat \ {0}

VARIABLES
  shown,    \* copyJobs[jobId].state; "none" before there is one, "removed" after
  counted,  \* copyJobs[jobId].done
  poller,   \* pollers[jobId] is set
  polls,    \* the polls under way, in the order of sending: Sent, or the answer
  call,     \* cancelCopy: "none", "sent" or "over"
  trouble   \* history: "order", a poll overtook another; "error", one failed

pageVars == <<shown, counted, poller, polls, call, trouble>>
allVars == <<vars, pageVars>>

OnPage == {"running", "finished", "failed", "cancelled"}
Status(s, n) == [state |-> s, done |-> n]
Sent == Status("sent", 0)
Error == Status("error", 0)

PageInit ==
  /\ Init
  /\ shown = [j \in Jobs |-> "none"] /\ counted = [j \in Jobs |-> 0]
  /\ poller = [j \in Jobs |-> FALSE] /\ polls = [j \in Jobs |-> <<>>]
  /\ call = [j \in Jobs |-> "none"] /\ trouble = [j \in Jobs |-> {}]

\* The job's requests and task, and the source's owner
JobStep ==
  /\ \/ \E j \in Jobs : (\E c \in Containers : Request(j, c, 0)) \/ Handler(j) \/ Task(j)
     \/ \E o \in Objects : SourceChanges(o)
  /\ UNCHANGED pageVars

\* startCopyJob, if the request's answer reaches the page: a card, the timer and
\* a first poll
StartCopyJob(j) ==
  /\ state[j] # "none" /\ shown[j] = "none"
  /\ shown' = [shown EXCEPT ![j] = "running"]
  /\ poller' = [poller EXCEPT ![j] = TRUE]
  /\ polls' = [polls EXCEPT ![j] = <<Sent>>]
  /\ UNCHANGED <<vars, counted, call, trouble>>

\* pollCopyJob, when the timer ticks
PollCopyJob(j) ==
  /\ poller[j] /\ shown[j] \in OnPage /\ Len(polls[j]) < MaxPolls
  /\ polls' = [polls EXCEPT ![j] = Append(@, Sent)]
  /\ UNCHANGED <<vars, shown, counted, poller, call, trouble>>

Answered(j, i, answer) ==
  polls[j][i] = Sent /\ polls' = [polls EXCEPT ![j] = [@ EXCEPT ![i] = answer]]
Troubled(j, kind, happens) ==
  trouble' = [trouble EXCEPT ![j] = @ \cup {k \in {kind} : happens}]

\* mutant: it counts the objects that are left
HandleStatusLeft(j, i) ==
  /\ Answered(j, i, Status(state[j], total[j] - done[j]))
  /\ Troubled(j, "order", \E k \in 1 .. i - 1 : polls[j][k] = Sent)
  /\ UNCHANGED <<vars, shown, counted, poller, call>>

\* mutant: a job whose task is done is taken for finished
HandleStatusDone(j, i) ==
  /\ Answered(j, i, Status(IF state[j] = "running" THEN "running" ELSE "finished", done[j]))
  /\ Troubled(j, "order", \E k \in 1 .. i - 1 : polls[j][k] = Sent)
  /\ UNCHANGED <<vars, shown, counted, poller, call>>

\* handle_replicate_status, called through the backend
HandleStatus(j, i) ==
  /\ Answered(j, i, Status(state[j], done[j]))
  /\ Troubled(j, "order", \E k \in 1 .. i - 1 : polls[j][k] = Sent)
  /\ UNCHANGED <<vars, shown, counted, poller, call>>

\* The runner has lost the job, or a hop on the way refuses or breaks off
StatusFails(j, i) ==
  /\ Answered(j, i, Error) /\ Troubled(j, "error", TRUE)
  /\ UNCHANGED <<vars, shown, counted, poller, call>>

\* updateCopyJob: a job that was removed stays so
UpdateCopyJob(j, s, n) ==
  IF shown[j] \in OnPage
  THEN shown' = [shown EXCEPT ![j] = s] /\ counted' = [counted EXCEPT ![j] = n]
  ELSE UNCHANGED <<shown, counted>>

PollReturns(j, i) ==
  /\ polls[j][i] # Sent
  /\ polls' = [polls EXCEPT ![j] = RemoveAt(@, i)]
  /\ Troubled(j, "order", i > 1)

\* mutant: one tick per job, as with setTimeout
PollAnsweredOnce(j, i) ==
  LET answer == polls[j][i] IN
    /\ PollReturns(j, i)
    /\ IF answer = Error THEN UpdateCopyJob(j, "failed", counted[j])
                         ELSE UpdateCopyJob(j, answer.state, answer.done)
    /\ poller' = [poller EXCEPT ![j] = FALSE]
    /\ UNCHANGED <<vars, call>>

\* The answer reaches pollCopyJob: an error is shown as a failure, and a final
\* state or an error stops the timer
PollAnswered(j, i) ==
  LET answer == polls[j][i] IN
    /\ PollReturns(j, i)
    /\ IF answer = Error THEN UpdateCopyJob(j, "failed", counted[j])
                         ELSE UpdateCopyJob(j, answer.state, answer.done)
    /\ poller' = [poller EXCEPT ![j] = @ /\ answer.state = "running"]
    /\ UNCHANGED <<vars, call>>

\* stopCopyJobPolling and removeCopyJob
RemoveCopyJob(j) ==
  /\ poller' = [poller EXCEPT ![j] = FALSE]
  /\ shown' = [shown EXCEPT ![j] = "removed"] /\ counted' = [counted EXCEPT ![j] = 0]

\* cancelCopyJob, offered while the card says that the job runs
CancelCopyJob(j) ==
  /\ shown[j] = "running" /\ RemoveCopyJob(j)
  /\ call' = [call EXCEPT ![j] = "sent"]
  /\ UNCHANGED <<vars, polls, trouble>>

\* The call reaches the job, or fails, which nobody looks at
CancelCopy(j) ==
  /\ call[j] = "sent" /\ call' = [call EXCEPT ![j] = "over"]
  /\ HandleCancel(j) \/ UNCHANGED vars
  /\ UNCHANGED <<shown, counted, poller, polls, trouble>>

\* mutant: the card can be closed at any time
DismissAnyTime(j) ==
  /\ shown[j] \in OnPage /\ RemoveCopyJob(j)
  /\ UNCHANGED <<vars, polls, call, trouble>>

\* dismissCopyJob, offered otherwise
DismissCopyJob(j) ==
  /\ shown[j] \in OnPage \ {"running"} /\ RemoveCopyJob(j)
  /\ UNCHANGED <<vars, polls, call, trouble>>

-----------------------------------------------------------------------------
Polled(j) == \E i \in DOMAIN polls[j] :
               HandleStatus(j, i) \/ StatusFails(j, i) \/ PollAnswered(j, i)
PageStep(j) == \/ StartCopyJob(j) \/ PollCopyJob(j) \/ Polled(j)
               \/ CancelCopyJob(j) \/ CancelCopy(j) \/ DismissCopyJob(j)

PageNext == JobStep \/ \E j \in Jobs : PageStep(j)

PageSpec == PageInit /\ [][PageNext]_allVars

\* The runner and the store as in Replication; the timer ticks, and each poll is
\* answered or fails
PageFairness ==
  \A j \in Jobs : /\ WF_allVars(Handler(j) /\ UNCHANGED pageVars)
                  /\ WF_allVars(Task(j) /\ UNCHANGED pageVars)
                  /\ WF_allVars(PollCopyJob(j)) /\ WF_allVars(Polled(j))

PageFairSpec == PageSpec /\ PageFairness

-----------------------------------------------------------------------------
(* Properties *)

\* Every variable of the page has a value of its type.
PageTypeOK ==
  /\ shown \in [Jobs -> OnPage \cup {"none", "removed"}]
  /\ counted \in [Jobs -> Nat] /\ poller \in [Jobs -> BOOLEAN]
  /\ polls \in [Jobs -> Seq([state : OnPage \cup {"sent", "error"}, done : Nat])]
  /\ call \in [Jobs -> {"none", "sent", "over"}]
  /\ trouble \in [Jobs -> SUBSET {"order", "error"}]

\* A copy that the page shows as finished is finished and complete, with the
\* final count: however polls overlap, fail or overtake each other, the page
\* never says so too early.
ShownComplete ==
  \A j \in Jobs : shown[j] = "finished" =>
    /\ state[j] = "finished" /\ counted[j] = done[j]
    /\ kept[j] \subseteq dest[target[j]]

\* A job whose card was closed, and not cancelled, has ended unless a poll
\* failed: no copy goes on unseen.
ClosedEnded ==
  \A j \in Jobs : shown[j] = "removed" /\ call[j] = "none" /\ "error" \notin trouble[j]
    => state[j] # "running"

\* As long as no poll fails or overtakes another, what the page shows never goes
\* back: not the count, and not from an end to running.
ShownForward ==
  [][\A j \in Jobs : trouble'[j] = {} /\ shown'[j] \in OnPage =>
       /\ counted[j] <= counted'[j]
       /\ shown[j] \in OnPage \ {"running"} => shown'[j] = shown[j]]_allVars

\* A job that the user has cancelled or closed does not come back on the page,
\* whatever answers are still on their way.
RemovedStays == [][\A j \in Jobs : shown[j] = "removed" => shown'[j] = "removed"]_allVars

\* A card that says that the job runs is brought up to date in the end, as long
\* as no poll fails or overtakes another.
ShownSettles ==
  \A j \in Jobs : shown[j] = "running" ~> (shown[j] # "running" \/ trouble[j] # {})
=============================================================================
