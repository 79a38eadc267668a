----------------------------- MODULE AccessTokens -----------------------------
(***************************************************************************)
(* The tokens with which a project's scripts sign their requests to the     *)
(* sharing API: the dialog that creates, lists and removes them             *)
(* (TokenModal.vue), the backend that forwards its calls (ui/signature.py), *)
(* the sharing API (sharing/api.py, common_middleware.py) and its table     *)
(* (common/db.py), and the cache of project ids beside it.                  *)
(*                                                                         *)
(* One project is modelled.  A call of a dialog is one HTTP request that    *)
(* the backend forwards; its awaits are the table's statements.  The n-th   *)
(* call creates token n.                                                    *)
(***************************************************************************)
EXTENDS Naturals, FiniteSets

CONSTANTS Pages,    \* the open pages, each with its dialog
          Names,    \* identifiers that users give to tokens
          None,     \* no page, no name
          MaxCalls, \* bound: calls in a behaviour
          MaxFlight \* bound: calls under way at the same time

ASSUME AccessTokensAssumption ==
  None \notin Pages /\ None \notin Names /\ {MaxCalls, MaxFlight} \subseteq Nat

Calls == 1..MaxCalls
Tokens == 0..MaxCalls  \* 0: none

VARIABLES
  rows,    \* the table Tokens of the project: (owner, identifier) is its key
  id,      \* the table ProjectIDs: the call that cached the project's name, or 0
  call,    \* the calls under way
  begun,   \* calls begun so far
  dialog,  \* per page: the identifiers listed, the token displayed and the
           \* identifier remembered for it, the identifier typed
  gone,    \* history: tokens that were removed or pruned
  lost,    \* history: tokens that a server which was closing down did not store
  synced   \* history: pages that show a listing with which nothing overlapped

vars == <<rows, id, call, begun, dialog, gone, lost, synced>>

NoRow == [token |-> 0, stale |-> FALSE]
NoCall == [kind |-> "none", page |-> None, name |-> None, pc |-> "none",
           late |-> FALSE, alone |-> FALSE, seen |-> {}]
Blank == [tokens |-> {}, latest |-> 0, as |-> None, typed |-> None]

Init ==
  /\ rows = [x \in Names |-> NoRow] /\ id = 0
  /\ call = [n \in Calls |-> NoCall] /\ begun = 0
  /\ dialog = [a \in Pages |-> Blank]
  /\ gone = {} /\ lost = {} /\ synced = {}

UnderWay(n) == call[n].kind # "none"

\* get_tokens: the rows of an owner, or those that bear its name and are young
Found(by) == {rows[x].token : x \in {y \in Names : by = "id" \/ ~rows[y].stale}} \ {0}

\* handle_validate_authentication, for a request that is signed with token t
\* and whose path has the project's id or its name
Accepts(t, by) == t \in Found(by)

-----------------------------------------------------------------------------
(* The dialog *)

\* for the history: all listings that are under way are overlapped
Overlapped == [m \in Calls |-> [call[m] EXCEPT !.alone = FALSE]]

Begins(n, kind, a, x) ==
  /\ begun' = n
  /\ call' = [Overlapped EXCEPT ![n] =
       [NoCall EXCEPT !.kind = kind, !.page = a, !.name = x, !.pc = "sent",
                      !.alone = \A m \in Calls : ~UnderWay(m)]]
  /\ synced' = {} /\ UNCHANGED <<rows, id, gone, lost>>

Open(n) == \E a \in Pages : Begins(n, "list", a, None) /\ UNCHANGED dialog

Create(n) ==
  \E a \in Pages : \E x \in Names \ dialog[a].tokens :
    Begins(n, "create", a, x) /\ dialog' = [dialog EXCEPT ![a].typed = x]

Remove(n) ==
  \E a \in Pages : \E x \in dialog[a].tokens :
    Begins(n, "remove", a, x) /\ UNCHANGED dialog

Close(a) ==
  /\ dialog[a].latest # 0
  /\ dialog' = [dialog EXCEPT ![a].latest = 0, ![a].as = None, ![a].typed = None]
  /\ UNCHANGED <<rows, id, call, begun, gone, lost, synced>>

\* someone looks a project up by its name, which is cached for the next one
CacheId(n) == Begins(n, "id", None, None) /\ UNCHANGED dialog

\* the next call
Begin(n) ==
  /\ n = begun + 1 /\ Cardinality({m \in Calls : UnderWay(m)}) < MaxFlight
  /\ Open(n) \/ Create(n) \/ Remove(n) \/ CacheId(n)

-----------------------------------------------------------------------------
(* The sharing API.  The backend signs its calls with a master key, so that   *)
(* handle_validate_authentication lets them pass.                           *)

At(n, kind, pc) == call[n].kind = kind /\ call[n].pc = pc
Goes(n, pc) == call' = [call EXCEPT ![n].pc = pc]
Rest == UNCHANGED <<begun, dialog, synced>>

\* (mutant) an identifier that is in use gets the new token
InsertOver(n) ==
  /\ rows' = [rows EXCEPT ![call[n].name] = [token |-> n, stale |-> FALSE]] /\ Goes(n, "ok")

\* the statement of add_token; a duplicate is answered with a conflict
Insert(n) ==
  LET x == call[n].name
  IN  IF rows[x] = NoRow THEN rows' = [rows EXCEPT ![x].token = n] /\ Goes(n, "ok")
      ELSE Goes(n, "refused") /\ UNCHANGED rows

\* Without a pool the statement is skipped, and the answer is as if it had
\* been executed; so it is with every other statement.
AddToken(n) ==
  /\ At(n, "create", "sent")
  /\ IF call[n].late THEN Goes(n, "ok") /\ lost' = lost \cup {n} /\ UNCHANGED rows
     ELSE Insert(n) /\ UNCHANGED lost
  /\ UNCHANGED <<id, gone>> /\ Rest

RevokeToken(n) ==
  LET x == call[n].name
  IN  /\ At(n, "remove", "sent") /\ Goes(n, "ok")
      /\ IF call[n].late THEN UNCHANGED <<rows, gone>>
         ELSE rows' = [rows EXCEPT ![x] = NoRow] /\ gone' = gone \cup {rows[x].token}
      /\ UNCHANGED <<id, lost>> /\ Rest

\* (mutant) stale tokens are left in the table
PruneNone(n) ==
  /\ At(n, "list", "sent") /\ Goes(n, "pruned")
  /\ UNCHANGED <<rows, id, gone, lost>> /\ Rest

\* handle_user_list_tokens, its two statements: prune_tokens
PruneTokens(n) ==
  /\ At(n, "list", "sent") /\ Goes(n, "pruned")
  /\ IF call[n].late THEN UNCHANGED <<rows, gone>>
     ELSE /\ rows' = [x \in Names |-> IF rows[x].stale THEN NoRow ELSE rows[x]]
          /\ gone' = gone \cup {rows[x].token : x \in {y \in Names : rows[y].stale}}
  /\ UNCHANGED <<id, lost>> /\ Rest

\* (mutant) the tokens themselves are listed
GetTokensWhole(n) ==
  /\ At(n, "list", "pruned")
  /\ call' = [call EXCEPT ![n].pc = "ok", ![n].seen = Found("id")]
  /\ UNCHANGED <<rows, id, gone, lost>> /\ Rest

\* and get_tokens, of which the identifiers are answered
GetTokens(n) ==
  /\ At(n, "list", "pruned")
  /\ call' = [call EXCEPT ![n].pc = "ok",
                ![n].seen = IF call[n].late THEN {} ELSE {x \in Names : rows[x] # NoRow}]
  /\ UNCHANGED <<rows, id, gone, lost>> /\ Rest

\* handle_project_add_ids: a look and, when the id is not there, an insertion
MatchId(n) ==
  /\ At(n, "id", "sent")
  /\ Goes(n, IF ~call[n].late /\ id # 0 THEN "ok" ELSE "missing")
  /\ UNCHANGED <<rows, id, gone, lost>> /\ Rest

\* (mutant) the row that was not there is overwritten
AddIdOver(n) ==
  /\ At(n, "id", "missing") /\ Goes(n, "ok") /\ id' = n
  /\ UNCHANGED <<rows, gone, lost>> /\ Rest

AddId(n) ==
  /\ At(n, "id", "missing")
  /\ \/ call[n].late /\ Goes(n, "ok") /\ UNCHANGED id
     \/ ~call[n].late /\ id = 0 /\ Goes(n, "ok") /\ id' = n
     \/ ~call[n].late /\ id # 0 /\ Goes(n, "refused") /\ UNCHANGED id
  /\ UNCHANGED <<rows, gone, lost>> /\ Rest

\* check_db_conn, or the database: an error
Refuse(n) ==
  /\ call[n].pc \in {"sent", "pruned", "missing"}
  /\ Goes(n, "refused") /\ UNCHANGED <<rows, id, gone, lost>> /\ Rest

\* db_graceful_close, while handlers that have passed the middlewares are under
\* way; another server takes over
ShutDown ==
  /\ \E S \in SUBSET {n \in Calls : call[n].pc \in {"sent", "pruned", "missing"} /\ ~call[n].late} :
       S # {} /\ call' = [n \in Calls |-> [call[n] EXCEPT !.late = @ \/ n \in S]]
  /\ UNCHANGED <<rows, id, gone, lost>> /\ Rest

DayPasses ==
  /\ \A n \in Calls : ~UnderWay(n)
  /\ \E x \in Names : rows[x] # NoRow /\ ~rows[x].stale
  /\ rows' = [x \in Names |-> IF rows[x] = NoRow THEN NoRow ELSE [rows[x] EXCEPT !.stale = TRUE]]
  /\ synced' = {} /\ UNCHANGED <<id, call, begun, dialog, gone, lost>>

-----------------------------------------------------------------------------
(* Answers *)

Tables == UNCHANGED <<rows, id, begun, gone, lost>>

\* getTokens after an answer
Relists(n) ==
  /\ call' = [Overlapped EXCEPT ![n] =
       [NoCall EXCEPT !.kind = "list", !.page = call[n].page, !.pc = "sent",
                      !.alone = \A m \in Calls \ {n} : ~UnderWay(m)]]
  /\ synced' = {} /\ Tables

\* the new token is displayed, under the identifier in the input field
Created(n) ==
  LET a == call[n].page
  IN  /\ At(n, "create", "ok") /\ Relists(n)
      /\ dialog' = [dialog EXCEPT ![a].latest = n, ![a].as = dialog[a].typed,
                                  ![a].typed = None]

\* handle_ext_token_remove answers 204 whatever the sharing API has answered
Removed(n) ==
  LET a == call[n].page
  IN  /\ At(n, "remove", "ok") \/ At(n, "remove", "refused")
      /\ Relists(n)
      /\ dialog' = IF dialog[a].as = call[n].name
                   THEN [dialog EXCEPT ![a].latest = 0, ![a].as = None] ELSE dialog

\* no token may be displayed but those that the call saw
Listed(n) ==
  /\ At(n, "list", "ok") /\ dialog' = [dialog EXCEPT ![call[n].page].tokens = call[n].seen]
  /\ call' = [call EXCEPT ![n] = NoCall]
  /\ synced' = IF call[n].alone /\ ~call[n].late THEN synced \cup {call[n].page} ELSE synced
  /\ Tables

\* a call or its answer is lost, or the answer is an error
Ends(n) ==
  /\ \/ call[n].pc \in {"sent", "ok"}
     \/ call[n].pc = "refused" /\ call[n].kind # "remove"
  /\ call' = [call EXCEPT ![n] = NoCall] /\ UNCHANGED <<dialog, synced>> /\ Tables

Next ==
  \/ \E n \in Calls :
       \/ Begin(n) \/ AddToken(n) \/ RevokeToken(n) \/ PruneTokens(n) \/ GetTokens(n)
       \/ MatchId(n) \/ AddId(n) \/ Refuse(n)
       \/ Created(n) \/ Removed(n) \/ Listed(n) \/ Ends(n)
  \/ \E a \in Pages : Close(a)
  \/ ShutDown \/ DayPasses

Spec == Init /\ [][Next]_vars

-----------------------------------------------------------------------------
(* Properties *)

CallRecord ==
  [kind : {"none", "list", "create", "remove", "id"}, page : Pages \cup {None},
   name : Names \cup {None}, pc : {"none", "sent", "pruned", "missing", "ok", "refused"},
   late : BOOLEAN, alone : BOOLEAN, seen : SUBSET Names]

DialogRecord ==
  [tokens : SUBSET Names, latest : Tokens, as : Names \cup {None}, typed : Names \cup {None}]

TypeOK ==
  /\ rows \in [Names -> [token : Tokens, stale : BOOLEAN]]
  /\ id \in Tokens /\ begun \in Tokens
  /\ call \in [Calls -> CallRecord] /\ dialog \in [Pages -> DialogRecord]
  /\ gone \subseteq Tokens /\ lost \subseteq Tokens /\ synced \subseteq Pages

\* A token that a dialog displays works, whoever else creates one under the
\* same identifier at the same time: unless it was removed or pruned meanwhile,
\* or the server was closing down when it answered.
ShownWorks ==
  \A a \in Pages :
    LET t == dialog[a].latest IN t # 0 => t \in gone \cup lost \/ Accepts(t, "id")

\* A listing that nothing overlapped shows what works: exactly the tokens that
\* are in the table and not older than a day, whatever went wrong before.
ListedTrue ==
  \A a \in synced : dialog[a].tokens = {x \in Names : rows[x] # NoRow /\ ~rows[x].stale}

\* The name under which a project was first cached stays, also when two
\* requests find it missing at the same time.
IdKept == [][id # 0 => id' = id]_vars

\* "The token will be valid for 24 hours, and will be deleted after this time
\* period." (lang.js:334)
StaleRefused ==
  \A x \in Names : rows[x].stale => ~Accepts(rows[x].token, "id")
=============================================================================
