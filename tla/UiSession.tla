------------------------------ MODULE UiSession ------------------------------
(***************************************************************************)
(* The sessions of the browser's user: logging in, locking a session to a   *)
(* project, logging out (ui/login.py), the middlewares that every request   *)
(* passes (ui/middlewares.py), and what handlers keep in a session or in    *)
(* an account on the user's behalf: sessions of the upload runner           *)
(* (_convenience.py, upload/auth.py) and keys of temporary URLs.            *)
(*                                                                         *)
(* A request loads the whole session when it begins, works on its copy      *)
(* across its awaits, and saves the whole copy with its answer, if it has   *)
(* changed it.  Requests of the same browser overlap as they please.  The   *)
(* n-th request gives its number to what it creates: a session's key, the   *)
(* token of a login, a runner session, a temporary-URL key.                 *)
(***************************************************************************)
EXTENDS Naturals, FiniteSets

CONSTANTS Projects,  \* the user's projects
          None,      \* no project, or no list of projects
          Settings,  \* the settings of the server to consider: subsets of Options
          Claims,    \* the lists of projects that a user may come with
          MaxReqs,   \* bound: requests in a behaviour
          MaxFlight  \* bound: requests in flight at the same time

Options == {"oidc", "sdconnect", "restricted"}

ASSUME UiSessionAssumption ==
  /\ None \notin Projects
  /\ Settings \subseteq SUBSET Options /\ Claims \subseteq {None} \cup SUBSET Projects
  /\ {MaxReqs, MaxFlight} \subseteq Nat

Requests == 1..MaxReqs
Ids == 0..MaxReqs  \* 0: none

VARIABLES
  mode,     \* the settings in force
  cookie,   \* the session key that the browser sends
  store,    \* redis: the session saved under each key
  req,      \* the requests in flight
  begun,    \* requests begun so far
  runners,  \* the map of sessions that the upload runner keeps in its memory
  tempkey,  \* per project: the second temporary-URL key of its account
  urls,     \* temporary URLs that are not older than their lifetime
  granted,  \* history: per login, the projects that keystone gave access to
  out,      \* history: the requests begun when the last logout was answered, while
            \* it is in force: 0 after a login, or once one of these has undone it
  calm      \* history: no two requests that work on the same key or runner
            \* session overlapped, and none of these failed

vars == <<mode, cookie, store, req, begun, runners, tempkey, urls, granted, out, calm>>

NoRunner == [p \in Projects |-> 0]
\* part, a history: the last login into the session broke off and left its projects
Empty == [at |-> "absent", oidc |-> FALSE, csc |-> None, login |-> 0, projects |-> {},
          runner |-> NoRunner, taint |-> FALSE, part |-> FALSE]
NoRequest == [kind |-> "none", project |-> None, pc |-> "none", key |-> 0, sess |-> Empty,
              todo |-> {}, tempkey |-> 0]
NoRunnerSession == [state |-> "none", project |-> None, login |-> 0]

Init ==
  /\ mode \in Settings /\ cookie = 0 /\ store = [k \in Requests |-> Empty]
  /\ req = [n \in Requests |-> NoRequest] /\ begun = 0
  /\ runners = [n \in Requests |-> NoRunnerSession]
  /\ tempkey = [p \in Projects |-> 0] /\ urls = {}
  /\ granted = [n \in Requests |-> {}] /\ out = 0 /\ calm = TRUE

InFlight(n) == req[n].kind # "none"

\* the session that a request sent now loads; an empty one is a new one
Loaded == IF cookie # 0 THEN store[cookie] ELSE Empty
LoadedKey == IF Loaded = Empty THEN 0 ELSE cookie

-----------------------------------------------------------------------------
(* Ends of a request *)

Answer(n) == req' = [req EXCEPT ![n] = NoRequest]
Fields(n, s, pc) == req' = [req EXCEPT ![n].sess = s, ![n].pc = pc]
Accounts == UNCHANGED <<runners, tempkey, urls>>
History == UNCHANGED <<granted, out, calm>>
Sessions == UNCHANGED <<mode, cookie, store, begun>>

\* for the history: a new login ends the last logout, and so does a request that
\* was in flight when it was answered and saves a copy with the old login
After(n, s) ==
  IF req[n].kind = "logout" THEN begun
  ELSE IF s.login = n \/ (s.login # 0 /\ n <= out) THEN 0 ELSE out

\* the answer of a request that has changed its session to s; the key of an
\* empty session is as good as none
Saved(n, s) ==
  LET k == IF req[n].key = 0 THEN n ELSE req[n].key
  IN  /\ Answer(n) /\ out' = After(n, s)
      /\ store' = [store EXCEPT ![k] = s]
      /\ cookie' = IF s = Empty THEN 0 ELSE k
      /\ UNCHANGED <<mode, begun, calm>> /\ Accounts

\* a request whose last await is over
Save(n) == req[n].pc = "save" /\ Saved(n, req[n].sess) /\ UNCHANGED granted

\* An exception other than an HTTP error is no answer, and loses the changes to
\* the session.
Fail(n) == Answer(n) /\ Sessions /\ Accounts /\ History

-----------------------------------------------------------------------------
(* The beginning of a request: the session is loaded, the middlewares let   *)
(* the request pass or answer it, and the handler runs to its first await.  *)
(* Requests that are answered there and change nothing are left out.        *)

\* Both middlewares look for words in the path to let a request through
\* unchecked: check_session has "login" and check_session_taintness "lock", and
\* so does a path with a container or an object that is named with such a word.
Words == {"login", "lock"}
PathWords(kind) ==
  CASE kind \in {"enter", "oidc", "login", "logout"} -> {"login"}
    [] kind = "lock" -> {"lock"}
    [] OTHER -> {}

Invalid(s) ==
  s = Empty \/ s.login = 0 \/ s.at = "old" \/ ("oidc" \in mode /\ ~s.oidc)
Rejected(words) == "login" \notin words /\ Invalid(Loaded)
Bounced(words) == Loaded.taint /\ "lock" \notin words

Collides(kind) ==
  \E m \in Requests : /\ InFlight(m)
                      /\ \/ kind = "download" /\ req[m].kind = "download"
                         \/ "close" \in {kind, req[m].kind}

\* the request is of this kind and has got as far as pc
Begins(n, kind, project, key, s, pc, todo) ==
  /\ begun' = n
  /\ req' = [req EXCEPT ![n] = [kind |-> kind, project |-> project, pc |-> pc, key |-> key,
                               sess |-> s, todo |-> todo, tempkey |-> 0]]
  /\ calm' = (calm /\ ~Collides(kind))
  /\ UNCHANGED <<mode, cookie, store, granted, out>> /\ Accounts

\* a request to a path without "login" in it; one without a session gets a new,
\* empty one, the key of which takes the place of the browser's
Reject(n) == Rejected({}) /\ Begins(n, "reject", None, LoadedKey, Empty, "save", {})
Passes(words) == ~Rejected(words) /\ ~Bounced(words)

\* handle_login and the pages that lead on to keystone
Enter(n) ==
  /\ Passes(PathWords("enter")) /\ "oidc" \in mode /\ ~Loaded.oidc
  /\ Begins(n, "enter", None, LoadedKey, Empty, "save", {})

\* a user without the claim is no member of any project where it is required;
\* the session, which is new, is saved all the same
NoMember(claim) == claim = None /\ "sdconnect" \in mode

\* oidc_end: the claims of the user may list the projects that are enabled
OidcEnd(n) ==
  /\ Passes(PathWords("oidc")) /\ "oidc" \in mode
  /\ \E claim \in Claims, pouta \in BOOLEAN :
       Begins(n, "oidc", None, 0, [Empty EXCEPT !.at = "fresh", !.oidc = TRUE, !.csc = claim],
              IF pouta /\ ~NoMember(claim) THEN "pouta" ELSE "save", {})

\* sso_query_end, credentials_login_end, up to keystone's list of projects
Login(n) ==
  /\ Passes(PathWords("login"))
  /\ IF "oidc" \notin mode
     THEN Begins(n, "login", None, 0, [Empty EXCEPT !.at = "fresh"], "avail", {})
     ELSE /\ Loaded.oidc
          /\ Begins(n, "login", None, LoadedKey, [Loaded EXCEPT !.at = "fresh"], "avail", {})

\* (mutant) an unknown project leaves the session as it is
LockedAll(s, p) ==
  LET left == IF p \in s.projects THEN {p} ELSE s.projects
  IN  IF left = {} THEN Empty
      ELSE [s EXCEPT !.projects = left, !.taint = FALSE,
                     !.runner = [q \in Projects |-> IF q \in left THEN @[q] ELSE 0]]

\* a project is tainted when the server is in restricted mode
Locked(s, p) ==
  LET left == IF p \in s.projects THEN {p}
              ELSE {q \in s.projects : "restricted" \notin mode}
  IN  IF left = {} THEN Empty
      ELSE [s EXCEPT !.projects = left, !.taint = FALSE,
                     !.runner = [q \in Projects |-> IF q \in left THEN @[q] ELSE 0]]

Lock(n) ==
  /\ Passes(PathWords("lock"))
  /\ \E p \in Projects \cup {None} :
       Begins(n, "lock", p, LoadedKey, Locked(Loaded, p), "save", {})

\* The projects of a session are there after a login that broke off, too; a token
\* is not, and without it the first of them is a KeyError.
Logout(n) ==
  /\ Passes(PathWords("logout"))
  /\ Loaded.login # 0 \/ (Loaded.part /\ Loaded.projects = {})
  /\ Begins(n, "logout", None, LoadedKey, Loaded, "revoke", Loaded.projects)

\* open_upload_runner_session looks for a runner session in its copy; without
\* a login there is no token to open one with: KeyError
NeedsRunner(n, words) ==
  \E p \in Projects :
    /\ Passes(words) /\ Loaded.login # 0 /\ Loaded.runner[p] = 0
    /\ Begins(n, "runner", p, LoadedKey, Loaded, "post", {})

\* downloads and copies, the paths of which have names; the status and the
\* cancelling of a copy, with the identifier of a job; uploads, with both kinds
NamedCall(n) == \E words \in SUBSET Words : NeedsRunner(n, words)
JobCall(n) == NeedsRunner(n, {})
Runner(n) == NamedCall(n) \/ JobCall(n)

Close(n) ==
  \E p \in Projects :
    /\ Passes({}) /\ Loaded.runner[p] # 0
    /\ Begins(n, "close", p, LoadedKey, Loaded, "delete", {})

Download(n) ==
  \E p \in Projects, words \in SUBSET Words :
    /\ Passes(words) /\ p \in Loaded.projects
    /\ Begins(n, "download", p, LoadedKey, Loaded, "head", {})

\* the next request
Begin(n) ==
  /\ n = begun + 1 /\ Cardinality({m \in Requests : InFlight(m)}) < MaxFlight
  /\ \/ Reject(n) \/ Enter(n) \/ OidcEnd(n) \/ Login(n) \/ Lock(n)
     \/ Logout(n) \/ Runner(n) \/ Close(n) \/ Download(n)

-----------------------------------------------------------------------------
(* Logging in, the awaits *)

\* aai_pouta_token_end: the session, which is new, is saved also when it fails
Pouta(n) ==
  /\ req[n].pc = "pouta"
  /\ \/ Saved(n, req[n].sess) /\ UNCHANGED granted
     \/ Fields(n, req[n].sess, "avail") /\ Sessions /\ Accounts /\ History

\* get_availability_from_token: the session is saved also when it fails
Avail(n) ==
  /\ req[n].pc = "avail"
  /\ \/ Saved(n, req[n].sess) /\ UNCHANGED granted
     \/ /\ \E enabled \in SUBSET Projects \ {{}} :
             req' = [req EXCEPT ![n].pc = "scope",
                       ![n].sess = [@ EXCEPT !.projects = {}, !.runner = NoRunner],
                       ![n].todo = IF req[n].sess.csc = None THEN enabled
                                   ELSE enabled \cap req[n].sess.csc]
        /\ Sessions /\ Accounts /\ History

\* one project's token, or none without an accepted role
Scope(n) ==
  /\ req[n].pc = "scope"
  /\ \E p \in req[n].todo : \E got \in {{}, {p}} :
       req' = [req EXCEPT ![n].todo = @ \ {p},
                 ![n].sess = [@ EXCEPT !.projects = req[n].sess.projects \cup got]]
  /\ Sessions /\ Accounts /\ History

\* (mutant) a token that became invalid leaves the projects it has got so far
DeniedKeeps(n) ==
  /\ req[n].pc = "scope" /\ req[n].todo # {}
  /\ Saved(n, req[n].sess) /\ UNCHANGED granted

\* keystone refuses to scope the token
Denied(n) ==
  /\ req[n].pc = "scope" /\ req[n].todo # {}
  /\ Saved(n, Empty) /\ UNCHANGED granted

LoggedIn(n) ==
  /\ req[n].pc = "scope" /\ req[n].todo = {}
  /\ IF req[n].sess.projects = {} THEN Saved(n, Empty) /\ UNCHANGED granted
     ELSE /\ Saved(n, [req[n].sess EXCEPT !.login = n, !.taint = "restricted" \in mode,
                                           !.part = FALSE])
          /\ granted' = [granted EXCEPT ![n] = req[n].sess.projects]

\* Keystone fails, or does not answer as it should: check_session makes any
\* exception of a login an HTTP error, with which the session is saved as it is.
LoginFails(n) ==
  /\ req[n].pc = "scope" /\ req[n].todo # {}
  /\ Saved(n, [req[n].sess EXCEPT !.part = TRUE]) /\ UNCHANGED granted

-----------------------------------------------------------------------------
(* Logging out: keystone is asked to revoke the token of one project after  *)
(* the other. *)

Revoke(n) ==
  /\ req[n].pc = "revoke"
  /\ \E p \in req[n].todo : req' = [req EXCEPT ![n].todo = @ \ {p}]
  /\ Sessions /\ Accounts /\ History

\* (mutant) the session is saved as it was
LoggedOutKeeps(n) ==
  req[n].pc = "revoke" /\ req[n].todo = {} /\ Saved(n, req[n].sess) /\ UNCHANGED granted

LoggedOut(n) ==
  req[n].pc = "revoke" /\ req[n].todo = {} /\ Saved(n, Empty) /\ UNCHANGED granted

LogoutFails(n) == req[n].pc = "revoke" /\ req[n].todo # {} /\ Fail(n)

-----------------------------------------------------------------------------
(* Sessions of the upload runner *)

\* upload/auth.py handle_login: the entry is made before keystone is asked
RunnerEnter(n) ==
  /\ req[n].pc = "post"
  /\ runners' = [runners EXCEPT ![n] = [state |-> "entered", project |-> req[n].project,
                                        login |-> req[n].sess.login]]
  /\ req' = [req EXCEPT ![n].pc = "scoping"]
  /\ Sessions /\ UNCHANGED <<tempkey, urls>> /\ History

\* (mutant) the new runner session is recorded for every project
RunnerOpenAll(n) ==
  /\ req[n].pc = "scoping" /\ runners[n].state = "entered"
  /\ runners' = [runners EXCEPT ![n].state = "open"]
  /\ Fields(n, [req[n].sess EXCEPT !.runner = [p \in Projects |-> n]], "save")
  /\ Sessions /\ UNCHANGED <<tempkey, urls>> /\ History

\* a project that is not in the session: KeyError, the runner session stays open
RunnerOpen(n) ==
  /\ req[n].pc = "scoping" /\ runners[n].state = "entered"
  /\ runners' = [runners EXCEPT ![n].state = "open"]
  /\ IF req[n].project \in req[n].sess.projects
     THEN Fields(n, [req[n].sess EXCEPT !.runner[req[n].project] = n], "save")
     ELSE Answer(n)
  /\ Sessions /\ UNCHANGED <<tempkey, urls>> /\ History

\* a refused or failed runner login: there is no cookie in the answer, KeyError
RunnerFails(n) == req[n].pc \in {"post", "scoping"} /\ Fail(n)

\* a later part of the request raises: the runner session is forgotten
RunnerLost(n) == req[n].kind = "runner" /\ req[n].pc = "save" /\ Fail(n)

\* (mutant) the session that lost its runner session is not marked as changed
RunnerClosedUnsaved(n) ==
  /\ req[n].pc = "delete"
  /\ runners' = [runners EXCEPT ![req[n].sess.runner[req[n].project]].state = "closed"]
  /\ Answer(n)
  /\ Sessions /\ UNCHANGED <<tempkey, urls>> /\ History

\* upload/auth.py handle_logout, unless the runner answers with an error
MayClose(r) == runners' \in {runners, [runners EXCEPT ![r].state = "closed"]}

\* close_upload_session: the runner session is forgotten whatever the answer is
RunnerClosed(n) ==
  /\ req[n].pc = "delete" /\ MayClose(req[n].sess.runner[req[n].project])
  /\ Fields(n, [req[n].sess EXCEPT !.runner[req[n].project] = 0], "save")
  /\ Sessions /\ UNCHANGED <<tempkey, urls>> /\ History

\* the request fails before the runner gets it, or its answer is lost
CloseFails(n) ==
  /\ req[n].pc = "delete" /\ Answer(n) /\ calm' = FALSE
  /\ MayClose(req[n].sess.runner[req[n].project])
  /\ Sessions /\ UNCHANGED <<tempkey, urls, granted, out>>

\* the runner keeps its sessions in memory
RunnerRestart ==
  /\ \E n \in Requests : runners[n].state \in {"entered", "open"}
  /\ runners' = [n \in Requests |-> IF runners[n].state = "none" THEN runners[n]
                                    ELSE [runners[n] EXCEPT !.state = "closed"]]
  /\ calm' = FALSE
  /\ Sessions /\ UNCHANGED <<req, tempkey, urls, granted, out>>

-----------------------------------------------------------------------------
(* Temporary URLs *)

Verifies(u) == u.key = tempkey[u.project]

\* (mutant) only the first key is looked for
HeadFirst(n) ==
  /\ req[n].pc = "head" /\ req' = [req EXCEPT ![n].pc = "setkey", ![n].tempkey = n]
  /\ Sessions /\ Accounts /\ History

\* (mutant) an account without a key is not noticed
HeadNoKey(n) ==
  LET k == tempkey[req[n].project]
  IN  /\ req[n].pc = "head"
      /\ req' = [req EXCEPT ![n].pc = "object", ![n].tempkey = IF k # 0 THEN k ELSE None]
      /\ Sessions /\ Accounts /\ History

\* get_tempurl_key: the keys are headers of the account.  One that has the
\* first of them keeps it for good and is left out here.
Head(n) ==
  LET k == tempkey[req[n].project]
  IN  /\ req[n].pc = "head"
      /\ req' = IF k # 0 THEN [req EXCEPT ![n].pc = "object", ![n].tempkey = k]
                ELSE [req EXCEPT ![n].pc = "setkey", ![n].tempkey = n]
      /\ Sessions /\ Accounts /\ History

\* an error answer has no keys either
HeadFails(n) ==
  /\ req[n].pc = "head" /\ req' = [req EXCEPT ![n].pc = "setkey", ![n].tempkey = n]
  /\ calm' = FALSE /\ Sessions /\ Accounts /\ UNCHANGED <<granted, out>>

SetKey(n) ==
  /\ req[n].pc = "setkey" /\ tempkey' = [tempkey EXCEPT ![req[n].project] = req[n].tempkey]
  /\ req' = [req EXCEPT ![n].pc = "object"]
  /\ Sessions /\ UNCHANGED <<runners, urls>> /\ History

\* swift_download_object, once the object's type is known
GiveUrl(n) ==
  /\ req[n].pc = "object" /\ Answer(n)
  /\ urls' = urls \cup {[project |-> req[n].project, key |-> req[n].tempkey]}
  /\ Sessions /\ UNCHANGED <<runners, tempkey>> /\ History

DownloadFails(n) == req[n].pc \in {"setkey", "object"} /\ Fail(n)

-----------------------------------------------------------------------------
(* Time *)

\* the lifetime of a session passes, which is longer than that of a URL
SessionsAge ==
  /\ \A n \in Requests : ~InFlight(n)
  /\ \E k \in Requests : store[k].at = "fresh"
  /\ store' = [k \in Requests |-> IF store[k].at = "fresh" THEN [store[k] EXCEPT !.at = "old"]
                                  ELSE store[k]]
  /\ urls' = {}
  /\ UNCHANGED <<mode, cookie, begun, req, runners, tempkey>> /\ History

Next ==
  \/ \E n \in Requests :
       \/ Begin(n) \/ Save(n)
       \/ Pouta(n) \/ Avail(n) \/ Scope(n) \/ Denied(n) \/ LoggedIn(n) \/ LoginFails(n)
       \/ Revoke(n) \/ LoggedOut(n) \/ LogoutFails(n)
       \/ RunnerEnter(n) \/ RunnerOpen(n) \/ RunnerFails(n) \/ RunnerLost(n)
       \/ RunnerClosed(n) \/ CloseFails(n)
       \/ Head(n) \/ HeadFails(n) \/ SetKey(n) \/ GiveUrl(n) \/ DownloadFails(n)
  \/ RunnerRestart \/ SessionsAge

Spec == Init /\ [][Next]_vars

-----------------------------------------------------------------------------
(* Properties *)

Session == [at : {"absent", "fresh", "old"}, oidc : BOOLEAN, csc : {None} \cup SUBSET Projects,
            login : Ids, projects : SUBSET Projects, runner : [Projects -> Ids], taint : BOOLEAN,
            part : BOOLEAN]

Request == [kind : {"none", "reject", "enter", "oidc", "login", "lock", "logout", "runner", "close",
                    "download"},
            project : Projects \cup {None},
            pc : {"none", "save", "pouta", "avail", "scope", "revoke", "post", "scoping",
                  "delete", "head", "setkey", "object"},
            key : Ids, sess : Session, todo : SUBSET Projects, tempkey : Ids]

\* Types, for the sessions in redis as for the copies of the requests.
TypeOK ==
  /\ mode \in SUBSET Options /\ cookie \in Ids /\ begun \in Ids
  /\ store \in [Requests -> Session]
  /\ req \in [Requests -> Request]
  /\ runners \in [Requests -> [state : {"none", "entered", "open", "closed"},
                               project : Projects \cup {None}, login : Ids]]
  /\ tempkey \in [Projects -> Ids]
  /\ urls \subseteq [project : Projects, key : Ids]
  /\ granted \in [Requests -> SUBSET Projects]
  /\ out \in Ids /\ calm \in BOOLEAN

\* The projects in a saved session are all that one and the same login was
\* granted, or the one that the session was locked to, and its token is that
\* login's; never a part of a login that keystone refused, or a mixture of two.
\* (A login that breaks off otherwise leaves what it has got so far.)  With a
\* list of enabled projects they are among these.
Whole ==
  \A k \in Requests :
    LET s == store[k]
    IN  /\ s.login = 0 /\ ~s.part => s.projects = {}
        /\ s.login # 0 /\ ~s.part =>
                          /\ s.projects \subseteq granted[s.login]
                          /\ s.projects = granted[s.login] \/ Cardinality(s.projects) = 1
        /\ s.csc # None => s.projects \subseteq s.csc

\* In restricted mode a session that has been released to the application
\* (it is not tainted any more) has one project, also when it is saved by a
\* request that read it before the lock; but for a login that broke off in it.
RestrictedToOne ==
  "restricted" \in mode =>
    \A k \in Requests : ~store[k].taint /\ ~store[k].part => Cardinality(store[k].projects) <= 1

\* A runner session that a saved session has for a project was opened for
\* that project, with the token of the login that the session is of.
RunnerOwned ==
  \A k \in Requests, p \in Projects :
    LET r == store[k].runner[p]
    IN  r # 0 => /\ p \in store[k].projects
                 /\ runners[r].project = p /\ runners[r].login = store[k].login

\* The runner knows the runner session that a saved session has, unless it is
\* just being closed, was closed while another request was in flight, or the
\* runner restarted.
RunnerAlive ==
  calm => \A k \in Requests, p \in Projects :
            \/ store[k].runner[p] = 0 \/ runners[store[k].runner[p]].state = "open"
            \/ \E n \in Requests : req[n].kind = "close" /\ req[n].key = k

\* A temporary URL works for its lifetime, when no request for one ran at the
\* same time as another and no account could not be read.
UrlsWork == calm => \A u \in urls : Verifies(u)

\* A logout lasts until the next login, whatever overlaps it: only a request that
\* was in flight when the logout was answered, and saves its copy of the session
\* after it, can bring the old login back, and no request begun later.
LogoutEnds == out # 0 => Loaded.login = 0
=============================================================================
