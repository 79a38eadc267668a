---------------------------- MODULE ObjectUpload ----------------------------
(***************************************************************************)
(* What the upload of one file promises to the readers of its container:    *)
(* the object appears in one step with all of the file, or, when the upload *)
(* is cancelled first, never.  FileUpload implements this.                  *)
(***************************************************************************)
CONSTANT File        \* the chunks of the file

VARIABLES content,   \* the chunks a reader of the object gets; {}: no object
          outcome    \* "open", "stored" or "cancelled"

ovars == <<content, outcome>>

Init == content = {} /\ outcome = "open"

Commit == /\ outcome = "open"
          /\ content' = File /\ outcome' = "stored"

Cancel == /\ outcome = "open"
          /\ outcome' = "cancelled" /\ UNCHANGED content

Next == Commit \/ Cancel

Spec == Init /\ [][Next]_ovars

\* With the promise that the upload does not stay open for ever
FairSpec == Spec /\ WF_ovars(Next)
=============================================================================
