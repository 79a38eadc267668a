-------------------------- MODULE UiSession_proofs --------------------------
(***************************************************************************)
(* For any projects, settings and claims, and any number of requests that   *)
(* overlap in any way: what redis holds is typed, and fits one login, one   *)
(* lock and the runner sessions it names; a logout that nothing overlapped  *)
(* is final.  A URL for a download verifies with the key its account has,   *)
(* and a runner session that is named is alive, unless requests overlap.    *)
(***************************************************************************)
EXTENDS UiSession, FiniteSetTheorems, TLAPS

-----------------------------------------------------------------------------
(* Type correctness *)

\* A request that is about a project has one; one that is over has nothing.
Shape ==
  \A n \in Requests :
    /\ req[n].pc \in {"post", "scoping", "delete", "head", "setkey", "object"} =>
         req[n].project \in Projects
    /\ req[n].kind = "none" <=> req[n].pc = "none"

TypeInv == TypeOK /\ Shape

LEMMA ZeroId == 0 \in Ids
BY UiSessionAssumption DEF Ids

LEMMA RequestId == Requests \subseteq Ids \ {0}
BY UiSessionAssumption DEF Requests, Ids

LEMMA NoRunnerTyped == NoRunner \in [Projects -> Ids]
BY ZeroId DEF NoRunner

LEMMA EmptyTyped == Empty \in Session
BY ZeroId, NoRunnerTyped DEF Empty, Session

LEMMA NoRequestTyped == NoRequest \in Request
BY ZeroId, EmptyTyped DEF NoRequest, Request

LEMMA TypeInit == Init => TypeInv
<1> SUFFICES ASSUME Init PROVE TypeInv
  OBVIOUS
<1>1. Shape
  BY DEF Init, NoRequest, Shape
<1>2. TypeOK
  BY ZeroId, EmptyTyped, NoRequestTyped, UiSessionAssumption
  DEF Init, NoRunnerSession, TypeOK
<1> QED
  BY <1>1, <1>2 DEF TypeInv

LEMMA LoadedTyped ==
  ASSUME TypeOK
  PROVE  Loaded \in Session /\ LoadedKey \in Ids
<1>1. CASE cookie = 0
  BY <1>1, EmptyTyped, ZeroId DEF Loaded, LoadedKey, TypeOK
<1>2. CASE cookie # 0
  <2>1. cookie \in Requests
    BY <1>2 DEF TypeOK, Ids, Requests
  <2> QED
    BY <1>2, <2>1, ZeroId DEF Loaded, LoadedKey, TypeOK
<1> QED
  BY <1>1, <1>2

LEMMA LockedTyped ==
  ASSUME NEW s \in Session, NEW p
  PROVE  Locked(s, p) \in Session
<1> DEFINE left == IF p \in s.projects THEN {p}
                   ELSE {q \in s.projects : "restricted" \notin mode}
           runner == [q \in Projects |-> IF q \in left THEN s.runner[q] ELSE 0]
<1>1. left \subseteq Projects
  BY DEF Session
<1>2. runner \in [Projects -> Ids]
  BY ZeroId DEF Session
<1>3. Locked(s, p) = IF left = {} THEN Empty
                     ELSE [s EXCEPT !.projects = left, !.taint = FALSE, !.runner = runner]
  BY DEF Locked
<1> HIDE DEF left, runner
<1>4. [s EXCEPT !.projects = left, !.taint = FALSE, !.runner = runner] \in Session
  BY <1>1, <1>2 DEF Session
<1> QED
  BY <1>3, <1>4, EmptyTyped

\* What a request becomes when it begins, goes on with another session, ends.
LEMMA BeginsTyped ==
  ASSUME TypeInv, NEW n \in Requests, NEW kind, NEW project \in Projects \cup {None},
         NEW key \in Ids, NEW s \in Session, NEW pc, NEW todo \in SUBSET Projects,
         kind \in {"reject", "enter", "oidc", "login", "lock", "logout", "runner", "close",
                  "download"},
         pc \in {"save", "pouta", "avail", "revoke", "post", "delete", "head"},
         pc \in {"post", "delete", "head"} => project \in Projects,
         Begins(n, kind, project, key, s, pc, todo)
  PROVE  TypeInv'
<1>1. [kind |-> kind, project |-> project, pc |-> pc, key |-> key, sess |-> s,
       todo |-> todo, tempkey |-> 0] \in Request
  BY ZeroId DEF Request
<1>2. req' \in [Requests -> Request]
  BY <1>1 DEF Begins, TypeInv, TypeOK
<1>3. Shape'
  BY DEF Begins, TypeInv, TypeOK, Shape
<1>4. begun' \in Ids /\ calm' \in BOOLEAN
  BY RequestId DEF Begins
<1> QED
  BY <1>2, <1>3, <1>4 DEF Begins, Accounts, TypeInv, TypeOK

LEMMA AnswerTyped ==
  ASSUME TypeInv, NEW n \in Requests, Answer(n)
  PROVE  req' \in [Requests -> Request] /\ Shape'
BY NoRequestTyped DEF Answer, TypeInv, TypeOK, Shape, NoRequest

LEMMA GoesOnTyped ==
  ASSUME TypeInv, NEW n \in Requests, req[n].kind # "none", NEW r \in Request,
         req' = [req EXCEPT ![n] = r], r.kind = req[n].kind, r.pc # "none",
         r.pc \in {"post", "scoping", "delete", "head", "setkey", "object"} =>
           r.project \in Projects
  PROVE  req' \in [Requests -> Request] /\ Shape'
BY DEF TypeInv, TypeOK, Shape

LEMMA SavedTyped ==
  ASSUME TypeInv, NEW n \in Requests, NEW s \in Session, Saved(n, s),
         granted' \in [Requests -> SUBSET Projects]
  PROVE  TypeInv'
<1> DEFINE k == IF req[n].key = 0 THEN n ELSE req[n].key
<1>1. k \in Requests
  BY UiSessionAssumption DEF TypeInv, TypeOK, Request, Requests, Ids
<1>2. store' \in [Requests -> Session] /\ cookie' \in Ids
  BY <1>1, ZeroId, RequestId DEF Saved, TypeInv, TypeOK
<1>3. req' \in [Requests -> Request] /\ Shape'
  BY AnswerTyped DEF Saved
<1>4. out' \in Ids
  BY ZeroId DEF Saved, After, TypeInv, TypeOK
<1> QED
  BY <1>2, <1>3, <1>4 DEF Saved, Accounts, TypeInv, TypeOK

LEMMA BeginTyped ==
  ASSUME TypeInv, NEW n \in Requests, Begin(n)
  PROVE  TypeInv'
<1> USE LoadedTyped, EmptyTyped
<1>0. TypeOK
  BY DEF TypeInv
<1>1. CASE Reject(n)
  BY <1>0, <1>1, BeginsTyped DEF Reject
<1>2. CASE Enter(n)
  BY <1>0, <1>2, BeginsTyped DEF Enter
<1>3. CASE OidcEnd(n)
  <2>1. PICK claim \in Claims, pouta \in BOOLEAN :
          Begins(n, "oidc", None, 0, [Empty EXCEPT !.at = "fresh", !.oidc = TRUE, !.csc = claim],
                 IF pouta /\ ~NoMember(claim) THEN "pouta" ELSE "save", {})
    BY <1>3 DEF OidcEnd
  <2>2. [Empty EXCEPT !.at = "fresh", !.oidc = TRUE, !.csc = claim] \in Session
    BY UiSessionAssumption DEF Session
  <2> DEFINE pc == IF pouta /\ ~NoMember(claim) THEN "pouta" ELSE "save"
  <2>3. pc \in {"save", "pouta"}
    OBVIOUS
  <2> HIDE DEF pc
  <2> QED
    BY <2>1, <2>2, <2>3, ZeroId, BeginsTyped DEF pc
<1>4. CASE Login(n)
  <2>1. /\ [Empty EXCEPT !.at = "fresh"] \in Session
        /\ [Loaded EXCEPT !.at = "fresh"] \in Session
    BY <1>0 DEF Session
  <2> QED
    BY <1>0, <1>4, <2>1, ZeroId, BeginsTyped DEF Login
<1>5. CASE Lock(n)
  BY <1>0, <1>5, LockedTyped, BeginsTyped DEF Lock
<1>6. CASE Logout(n)
  <2>1. Loaded.projects \in SUBSET Projects
    BY <1>0 DEF Session
  <2> QED
    BY <1>0, <1>6, <2>1, BeginsTyped DEF Logout
<1>7. CASE Runner(n)
  <2>1. PICK words : NeedsRunner(n, words)
    BY <1>7 DEF Runner, NamedCall, JobCall
  <2> QED
    BY <1>0, <2>1, BeginsTyped DEF NeedsRunner
<1>8. CASE Close(n)
  BY <1>0, <1>8, BeginsTyped DEF Close
<1>9. CASE Download(n)
  BY <1>0, <1>9, BeginsTyped DEF Download
<1> QED
  BY <1>1, <1>2, <1>3, <1>4, <1>5, <1>6, <1>7, <1>8, <1>9 DEF Begin

\* The awaits of a login.
LEMMA LoginTyped ==
  ASSUME TypeInv, NEW n \in Requests,
         \/ Pouta(n) \/ Avail(n) \/ Scope(n) \/ Denied(n) \/ LoggedIn(n) \/ LoginFails(n)
  PROVE  TypeInv'
<1>0. req[n] \in Request /\ req[n].sess \in Session
  BY DEF TypeInv, TypeOK, Request
<1>g. granted \in [Requests -> SUBSET Projects]
  BY DEF TypeInv, TypeOK
<1>1. ASSUME req' \in [Requests -> Request] /\ Shape', Sessions, Accounts, History
      PROVE  TypeInv'
  BY <1>1 DEF Sessions, Accounts, History, TypeInv, TypeOK
<1>2. CASE Pouta(n)
  <2>1. CASE Saved(n, req[n].sess) /\ UNCHANGED granted
    BY <1>0, <1>g, <2>1, SavedTyped
  <2>2. CASE Fields(n, req[n].sess, "avail") /\ Sessions /\ Accounts /\ History
    <3>1. req' = [req EXCEPT ![n] = [req[n] EXCEPT !.sess = req[n].sess, !.pc = "avail"]]
      BY <2>2 DEF Fields, TypeInv, TypeOK
    <3>2. [req[n] EXCEPT !.sess = req[n].sess, !.pc = "avail"] \in Request
      BY <1>0 DEF Request
    <3>3. req[n].kind # "none"
      BY <1>2 DEF Pouta, TypeInv, Shape
    <3> QED
      <4>1. PICK r \in Request : r = [req[n] EXCEPT !.sess = req[n].sess, !.pc = "avail"]
        BY <3>2
      <4>2. req' = [req EXCEPT ![n] = r] /\ r.kind = req[n].kind /\ r.pc = "avail"
        BY <1>0, <3>1, <4>1 DEF Request
      <4> QED
        BY <1>1, <2>2, <3>3, <4>2, GoesOnTyped
  <2> QED
    BY <1>2, <2>1, <2>2 DEF Pouta
<1>3. CASE Avail(n)
  <2>1. CASE Saved(n, req[n].sess) /\ UNCHANGED granted
    BY <1>0, <1>g, <2>1, SavedTyped
  <2>2. ASSUME NEW enabled \in SUBSET Projects, Sessions, Accounts, History,
               req' = [req EXCEPT ![n].pc = "scope",
                         ![n].sess = [@ EXCEPT !.projects = {}, !.runner = NoRunner],
                         ![n].todo = IF req[n].sess.csc = None THEN enabled
                                     ELSE enabled \cap req[n].sess.csc]
        PROVE  TypeInv'
    <3> DEFINE todo == IF req[n].sess.csc = None THEN enabled ELSE enabled \cap req[n].sess.csc
               s == [req[n].sess EXCEPT !.projects = {}, !.runner = NoRunner]
               r == [req[n] EXCEPT !.pc = "scope", !.sess = s, !.todo = todo]
    <3>1. req' = [req EXCEPT ![n] = r]
      BY <2>2 DEF TypeInv, TypeOK, Request, Session
    <3>2. todo \in SUBSET Projects
      BY <2>2
    <3>3. s \in Session
      BY <1>0, NoRunnerTyped DEF Session
    <3> HIDE DEF todo, s
    <3>4. r \in Request
      BY <1>0, <3>2, <3>3 DEF Request
    <3>5. req[n].kind # "none" /\ r.kind = req[n].kind /\ r.pc = "scope"
      BY <1>0, <1>3 DEF Avail, TypeInv, Shape, Request
    <3> HIDE DEF r
    <3> QED
      BY <1>1, <2>2, <3>1, <3>4, <3>5, GoesOnTyped
  <2> QED
    BY <1>3, <2>1, <2>2 DEF Avail
<1>4. CASE Scope(n)
  <2>0. PICK p \in req[n].todo : \E got \in {{}, {p}} :
          req' = [req EXCEPT ![n].todo = @ \ {p},
                    ![n].sess = [@ EXCEPT !.projects = req[n].sess.projects \cup got]]
    BY <1>4 DEF Scope
  <2>1. PICK got \in {{}, {p}} :
          req' = [req EXCEPT ![n].todo = @ \ {p},
                    ![n].sess = [@ EXCEPT !.projects = req[n].sess.projects \cup got]]
    BY <2>0
  <2> DEFINE s == [req[n].sess EXCEPT !.projects = req[n].sess.projects \cup got]
             r == [req[n] EXCEPT !.todo = req[n].todo \ {p}, !.sess = s]
  <2>2. req' = [req EXCEPT ![n] = r]
    BY <1>0, <2>1 DEF TypeInv, TypeOK, Request
  <2>3. p \in Projects
    BY <1>0, <2>1 DEF Request
  <2>4. s \in Session
    BY <1>0, <2>1, <2>3 DEF Session
  <2> HIDE DEF s
  <2>5. r \in Request
    BY <1>0, <2>4 DEF Request
  <2>6. req[n].kind # "none" /\ r.kind = req[n].kind /\ r.pc = "scope"
    BY <1>0, <1>4 DEF Scope, TypeInv, Shape, Request
  <2> HIDE DEF r
  <2> QED
    BY <1>1, <1>4, <2>2, <2>5, <2>6, GoesOnTyped DEF Scope
<1>5. CASE Denied(n)
  BY <1>g, <1>5, EmptyTyped, SavedTyped DEF Denied
<1>6. CASE LoggedIn(n)
  <2>1. CASE req[n].sess.projects = {}
    BY <1>g, <1>6, <2>1, EmptyTyped, SavedTyped DEF LoggedIn
  <2>2. CASE req[n].sess.projects # {}
    <3> DEFINE restricted == "restricted" \in mode
    <3>1. /\ Saved(n, [req[n].sess EXCEPT !.login = n, !.taint = restricted, !.part = FALSE])
          /\ granted' = [granted EXCEPT ![n] = req[n].sess.projects]
      BY <1>6, <2>2 DEF LoggedIn
    <3>2. restricted \in BOOLEAN
      OBVIOUS
    <3> HIDE DEF restricted
    <3>3. [req[n].sess EXCEPT !.login = n, !.taint = restricted, !.part = FALSE] \in Session
      BY <1>0, <3>2, RequestId DEF Session
    <3>4. granted' \in [Requests -> SUBSET Projects]
      BY <1>0, <1>g, <3>1 DEF Session
    <3> QED
      BY <3>1, <3>3, <3>4, SavedTyped
  <2> QED
    BY <2>1, <2>2
<1>7. CASE LoginFails(n)
  <2>1. [req[n].sess EXCEPT !.part = TRUE] \in Session
    BY <1>0 DEF Session
  <2> QED
    BY <1>g, <1>7, <2>1, SavedTyped DEF LoginFails
<1> QED
  BY <1>2, <1>3, <1>4, <1>5, <1>6, <1>7

\* Logging out, runner sessions and temporary URLs.
LEMMA AwaitTyped ==
  ASSUME TypeInv, NEW n \in Requests,
         \/ Revoke(n) \/ LogoutFails(n)
         \/ RunnerEnter(n) \/ RunnerOpen(n) \/ RunnerFails(n) \/ RunnerLost(n)
         \/ RunnerClosed(n) \/ CloseFails(n)
         \/ Head(n) \/ HeadFails(n) \/ SetKey(n) \/ GiveUrl(n) \/ DownloadFails(n)
  PROVE  TypeInv'
<1>0. /\ req[n] \in Request /\ req[n].sess \in Session /\ req[n].kind # "none"
      /\ req[n].todo \subseteq Projects
  BY DEF Revoke, LogoutFails, RunnerEnter, RunnerOpen, RunnerFails, RunnerLost, RunnerClosed,
         CloseFails, Head, HeadFails, SetKey, GiveUrl, DownloadFails, TypeInv, TypeOK, Shape, Request
<1>p. req[n].pc \in {"post", "scoping", "delete", "head", "setkey", "object"} =>
        req[n].project \in Projects
  BY DEF TypeInv, Shape
<1>i. n \in Ids
  BY RequestId
<1>r. ASSUME NEW r, NEW state \in {"entered", "open", "closed"},
             runners' = [runners EXCEPT ![r].state = state]
      PROVE  runners' \in [Requests -> [state : {"none", "entered", "open", "closed"},
                                        project : Projects \cup {None}, login : Ids]]
  BY <1>r DEF TypeInv, TypeOK
\* the request ends, or goes on with its fields f
<1>1. ASSUME req' \in [Requests -> Request] /\ Shape', Sessions, UNCHANGED <<granted, out>>,
             calm' \in BOOLEAN, tempkey' \in [Projects -> Ids],
             urls' \subseteq [project : Projects, key : Ids],
             runners' \in [Requests -> [state : {"none", "entered", "open", "closed"},
                                        project : Projects \cup {None}, login : Ids]]
      PROVE  TypeInv'
  BY <1>1 DEF Sessions, TypeInv, TypeOK
<1>2. CASE Revoke(n)
  <2>1. PICK p \in req[n].todo : req' = [req EXCEPT ![n] = [req[n] EXCEPT !.todo = req[n].todo \ {p}]]
    BY <1>2 DEF Revoke, TypeInv, TypeOK
  <2>2. [req[n] EXCEPT !.todo = req[n].todo \ {p}] \in Request
    BY <1>0 DEF Request
  <2>3. req' \in [Requests -> Request] /\ Shape'
    BY <1>0, <1>2, <2>1, <2>2, GoesOnTyped DEF Revoke, Request
  <2> QED
    BY <1>1, <1>2, <2>3 DEF Revoke, Accounts, History, TypeInv, TypeOK
<1>3. CASE LogoutFails(n) \/ RunnerFails(n) \/ RunnerLost(n) \/ DownloadFails(n)
  BY <1>1, <1>3, AnswerTyped
  DEF LogoutFails, RunnerFails, RunnerLost, DownloadFails, Fail, Accounts, History, TypeInv, TypeOK
<1>4. CASE RunnerEnter(n)
  <2>1. req' = [req EXCEPT ![n] = [req[n] EXCEPT !.pc = "scoping"]]
    BY <1>4 DEF RunnerEnter, TypeInv, TypeOK
  <2>2. [req[n] EXCEPT !.pc = "scoping"] \in Request
    BY <1>0 DEF Request
  <2>3. req' \in [Requests -> Request] /\ Shape'
    BY <1>0, <1>4, <1>p, <2>1, <2>2, GoesOnTyped DEF RunnerEnter, Request
  <2>4. [state |-> "entered", project |-> req[n].project, login |-> req[n].sess.login]
          \in [state : {"none", "entered", "open", "closed"},
               project : Projects \cup {None}, login : Ids]
    BY <1>0 DEF Request, Session
  <2> QED
    BY <1>1, <1>4, <2>3, <2>4 DEF RunnerEnter, History, TypeInv, TypeOK
<1>5. CASE RunnerOpen(n)
  <2>1. req' \in [Requests -> Request] /\ Shape'
    <3>1. CASE Answer(n)
      BY <3>1, AnswerTyped
    <3>2. CASE Fields(n, [req[n].sess EXCEPT !.runner[req[n].project] = n], "save")
      <4> DEFINE s == [req[n].sess EXCEPT !.runner[req[n].project] = n]
      <4>1. s \in Session
        BY <1>0, <1>i DEF Session
      <4> HIDE DEF s
      <4>2. req' = [req EXCEPT ![n] = [req[n] EXCEPT !.sess = s, !.pc = "save"]]
        BY <3>2 DEF Fields, TypeInv, TypeOK, s
      <4>3. [req[n] EXCEPT !.sess = s, !.pc = "save"] \in Request
        BY <1>0, <4>1 DEF Request
      <4> QED
        <5>1. PICK r \in Request : r = [req[n] EXCEPT !.sess = s, !.pc = "save"]
          BY <4>3
        <5>2. req' = [req EXCEPT ![n] = r] /\ r.kind = req[n].kind /\ r.pc = "save"
          BY <1>0, <4>2, <5>1 DEF Request
        <5> QED
          BY <1>0, <5>2, GoesOnTyped
    <3> QED
      BY <1>5, <3>1, <3>2 DEF RunnerOpen
  <2> QED
    BY <1>1, <1>5, <1>r, <2>1 DEF RunnerOpen, History, TypeInv, TypeOK
<1>6. CASE RunnerClosed(n)
  <2> DEFINE s == [req[n].sess EXCEPT !.runner[req[n].project] = 0]
  <2>1. s \in Session
    BY <1>0, ZeroId DEF Session
  <2>2. req' = [req EXCEPT ![n] = [req[n] EXCEPT !.sess = s, !.pc = "save"]]
    BY <1>6 DEF RunnerClosed, Fields, TypeInv, TypeOK
  <2> HIDE DEF s
  <2>3. [req[n] EXCEPT !.sess = s, !.pc = "save"] \in Request
    BY <1>0, <2>1 DEF Request
  <2>4. req' \in [Requests -> Request] /\ Shape'
    <3>1. PICK r \in Request : r = [req[n] EXCEPT !.sess = s, !.pc = "save"]
      BY <2>3
    <3>2. req' = [req EXCEPT ![n] = r] /\ r.kind = req[n].kind /\ r.pc = "save"
      BY <1>0, <2>2, <3>1 DEF Request
    <3> QED
      BY <1>0, <3>2, GoesOnTyped
  <2>5. runners' \in [Requests -> [state : {"none", "entered", "open", "closed"},
                                   project : Projects \cup {None}, login : Ids]]
    BY <1>6, <1>r DEF RunnerClosed, MayClose, TypeInv, TypeOK
  <2> QED
    BY <1>1, <1>6, <2>4, <2>5 DEF RunnerClosed, History, TypeInv, TypeOK
<1>7. CASE CloseFails(n)
  <2>1. runners' \in [Requests -> [state : {"none", "entered", "open", "closed"},
                                   project : Projects \cup {None}, login : Ids]]
    BY <1>7, <1>r DEF CloseFails, MayClose, TypeInv, TypeOK
  <2> QED
    BY <1>1, <1>7, <2>1, AnswerTyped DEF CloseFails, TypeInv, TypeOK
<1>8. CASE Head(n) \/ HeadFails(n)
  <2>1. PICK pc \in {"setkey", "object"}, k \in Ids :
          req' = [req EXCEPT ![n] = [req[n] EXCEPT !.pc = pc, !.tempkey = k]]
    <3>1. req[n].project \in Projects
      BY <1>8, <1>p DEF Head, HeadFails
    <3>2. tempkey[req[n].project] \in Ids
      BY <3>1 DEF TypeInv, TypeOK
    <3> DEFINE old == tempkey[req[n].project]
    <3>3. \/ req' = [req EXCEPT ![n].pc = "object", ![n].tempkey = old]
          \/ req' = [req EXCEPT ![n].pc = "setkey", ![n].tempkey = n]
      BY <1>8 DEF Head, HeadFails
    <3> HIDE DEF old
    <3>4. CASE req' = [req EXCEPT ![n].pc = "object", ![n].tempkey = old]
      <4>1. req' = [req EXCEPT ![n] = [req[n] EXCEPT !.pc = "object", !.tempkey = old]]
        BY <1>0, <3>4 DEF TypeInv, TypeOK
      <4> QED
        BY <3>2, <4>1 DEF old
    <3>5. CASE req' = [req EXCEPT ![n].pc = "setkey", ![n].tempkey = n]
      <4>1. req' = [req EXCEPT ![n] = [req[n] EXCEPT !.pc = "setkey", !.tempkey = n]]
        BY <1>0, <3>5 DEF TypeInv, TypeOK
      <4> QED
        BY <1>i, <4>1
    <3> QED
      BY <3>3, <3>4, <3>5
  <2>2. [req[n] EXCEPT !.pc = pc, !.tempkey = k] \in Request
    BY <1>0, <2>1 DEF Request
  <2>3. req' \in [Requests -> Request] /\ Shape'
    <3>1. PICK r \in Request : r = [req[n] EXCEPT !.pc = pc, !.tempkey = k]
      BY <2>2
    <3>2. /\ req' = [req EXCEPT ![n] = r] /\ r.kind = req[n].kind /\ r.pc # "none"
          /\ r.project = req[n].project /\ r.project \in Projects
      BY <1>0, <1>8, <1>p, <2>1, <3>1 DEF Head, HeadFails, Request
    <3> QED
      BY <1>0, <3>2, GoesOnTyped
  <2> QED
    BY <1>1, <1>8, <2>3 DEF Head, HeadFails, Accounts, History, TypeInv, TypeOK
<1>9. CASE SetKey(n)
  <2>1. req' = [req EXCEPT ![n] = [req[n] EXCEPT !.pc = "object"]]
    BY <1>9 DEF SetKey, TypeInv, TypeOK
  <2>2. [req[n] EXCEPT !.pc = "object"] \in Request
    BY <1>0 DEF Request
  <2>3. req' \in [Requests -> Request] /\ Shape'
    BY <1>0, <1>9, <1>p, <2>1, <2>2, GoesOnTyped DEF SetKey, Request
  <2>4. tempkey' \in [Projects -> Ids]
    BY <1>0, <1>9 DEF SetKey, TypeInv, TypeOK, Request
  <2> QED
    BY <1>1, <1>9, <2>3, <2>4 DEF SetKey, History, TypeInv, TypeOK
<1>10. CASE GiveUrl(n)
  <2>1. urls' \subseteq [project : Projects, key : Ids]
    BY <1>0, <1>10, <1>p DEF GiveUrl, TypeInv, TypeOK, Request
  <2> QED
    BY <1>1, <1>10, <2>1, AnswerTyped DEF GiveUrl, History, TypeInv, TypeOK
<1> QED
  BY <1>2, <1>3, <1>4, <1>5, <1>6, <1>7, <1>8, <1>9, <1>10

LEMMA TypeNext == TypeInv /\ [Next]_vars => TypeInv'
<1> SUFFICES ASSUME TypeInv, [Next]_vars PROVE TypeInv'
  OBVIOUS
<1>1. ASSUME NEW n \in Requests, Save(n) \/ LoggedOut(n)
      PROVE  TypeInv'
  <2>1. PICK s \in Session : Saved(n, s) /\ UNCHANGED granted
    BY <1>1, EmptyTyped DEF Save, LoggedOut, TypeInv, TypeOK, Request
  <2> QED
    BY <2>1, SavedTyped DEF TypeInv, TypeOK
<1>2. CASE RunnerRestart
  BY <1>2 DEF RunnerRestart, Sessions, TypeInv, TypeOK, Shape
<1>3. CASE SessionsAge
  <2>1. store' \in [Requests -> Session]
    <3>1. ASSUME NEW k \in Requests
          PROVE  [store[k] EXCEPT !.at = "old"] \in Session
      <4>1. store[k] \in Session
        BY DEF TypeInv, TypeOK
      <4> QED
        BY <4>1 DEF Session
    <3> QED
      BY <1>3, <3>1 DEF SessionsAge, TypeInv, TypeOK
  <2> QED
    BY <1>3, <2>1 DEF SessionsAge, History, TypeInv, TypeOK, Shape
<1>4. CASE UNCHANGED vars
  BY <1>4 DEF vars, TypeInv, TypeOK, Shape
<1> QED
  BY <1>1, <1>2, <1>3, <1>4, BeginTyped, LoginTyped, AwaitTyped DEF Next

\* The sessions in redis and the requests' copies of them keep their types, for
\* all projects, settings and requests that overlap.
THEOREM TypeCorrect == Spec => []TypeOK
<1>1. TypeInv => TypeOK
  BY DEF TypeInv
<1> QED
  BY <1>1, TypeInit, TypeNext, PTL DEF Spec

-----------------------------------------------------------------------------
(* What a session holds fits together: the runner sessions are of its login  *)
(* and its projects, the projects are what the login was granted or the one  *)
(* that the session was locked to.                                          *)

RunnersFit(s) ==
  \A p \in Projects :
    LET r == s.runner[p]
    IN  r # 0 => /\ p \in s.projects /\ runners[r].state # "none"
                 /\ runners[r].project = p /\ runners[r].login = s.login

LockFits(s) == "restricted" \in mode /\ ~s.taint /\ ~s.part => Cardinality(s.projects) <= 1

GrantFits(s) ==
  /\ s.login = 0 /\ ~s.part => s.projects = {}
  /\ s.login # 0 /\ ~s.part =>
       /\ s.projects \subseteq granted[s.login]
       /\ s.projects = granted[s.login] \/ Cardinality(s.projects) = 1
  /\ s.login # 0 => granted[s.login] # {}
  /\ s.csc # None => s.projects \subseteq s.csc

Fits(s) == RunnersFit(s) /\ LockFits(s) /\ GrantFits(s)

\* The same of a request's copy, except while a login collects its projects;
\* and a request creates what is its own once.
CopyFits(n) ==
  LET s == req[n].sess
  IN  /\ req[n].pc # "scope" => Fits(s)
      /\ req[n].pc = "scope" =>
           /\ s.runner = NoRunner /\ (s.login # 0 => granted[s.login] # {})
           /\ s.csc # None => s.projects \cup req[n].todo \subseteq s.csc
      /\ n > begun => req[n].pc = "none" /\ runners[n].state = "none" /\ granted[n] = {}
      /\ req[n].pc = "post" => runners[n].state = "none"
      /\ req[n].pc \in {"pouta", "avail", "scope"} => granted[n] = {}
      /\ req[n].pc = "scoping" => /\ runners[n].state # "none"
                                  /\ runners[n].project = req[n].project
                                  /\ runners[n].login = s.login

FitInv == /\ \A k \in Requests : Fits(store[k])
          /\ \A n \in Requests : CopyFits(n)

LEMMA EmptyFits == Fits(Empty)
<1>1. Empty.projects = {} /\ Empty.login = 0 /\ Empty.csc = None /\ Empty.runner = NoRunner
  BY DEF Empty
<1>2. Cardinality({}) = 0
  BY FS_EmptySet
<1> QED
  BY <1>1, <1>2 DEF Fits, RunnersFit, LockFits, GrantFits, NoRunner

LEMMA LockedFits ==
  ASSUME TypeOK, NEW s \in Session, Fits(s), NEW p
  PROVE  Fits(Locked(s, p))
<1> DEFINE left == IF p \in s.projects THEN {p}
                   ELSE {q \in s.projects : "restricted" \notin mode}
           runner == [q \in Projects |-> IF q \in left THEN s.runner[q] ELSE 0]
           t == [s EXCEPT !.projects = left, !.taint = FALSE, !.runner = runner]
<1>1. Locked(s, p) = IF left = {} THEN Empty ELSE t
  BY DEF Locked
<1>2. CASE left = {}
  BY <1>1, <1>2, EmptyFits
<1>3. CASE left # {}
  <2>1. /\ left \subseteq s.projects
        /\ left = s.projects \/ left = {p}
        /\ "restricted" \in mode => left = {p}
    <3>1. CASE p \in s.projects
      BY <3>1
    <3>2. CASE p \notin s.projects /\ "restricted" \in mode
      BY <1>3, <3>2
    <3>3. CASE p \notin s.projects /\ "restricted" \notin mode
      BY <3>3
    <3> QED
      BY <3>1, <3>2, <3>3
  <2>2. /\ t.projects = left /\ t.taint = FALSE /\ t.runner = runner /\ t.login = s.login
        /\ t.csc = s.csc /\ t.part = s.part
    BY DEF Session
  <2>3. \A q \in Projects : runner[q] # 0 => q \in left /\ runner[q] = s.runner[q]
    OBVIOUS
  <2> HIDE DEF t, runner, left
  <2>4. Cardinality({p}) = 1
    BY FS_Singleton
  <2>5. RunnersFit(t)
    BY <2>2, <2>3 DEF Fits, RunnersFit
  <2>6. LockFits(t)
    BY <2>1, <2>2, <2>4 DEF LockFits
  <2>7. GrantFits(t)
    BY <2>1, <2>2, <2>4 DEF Fits, GrantFits
  <2> QED
    BY <1>1, <1>3, <2>5, <2>6, <2>7 DEF Fits
<1> QED
  BY <1>2, <1>3

LEMMA LoadedFits ==
  ASSUME TypeOK, FitInv
  PROVE  Fits(Loaded)
<1>1. cookie # 0 => cookie \in Requests
  BY DEF TypeOK, Ids, Requests
<1> QED
  BY <1>1, EmptyFits DEF Loaded, FitInv

\* No step changes the settings, takes a runner session from its login, or
\* grants a login anything else.
LEMMA Frame ==
  ASSUME TypeInv, FitInv, [Next]_vars
  PROVE  /\ mode' = mode
         /\ \A r \in Requests : runners[r].state # "none" =>
              /\ runners'[r].state # "none" /\ runners'[r].project = runners[r].project
              /\ runners'[r].login = runners[r].login
         /\ \A l \in Requests : granted[l] # {} => granted'[l] = granted[l]
<1> DEFINE Kept == \A r \in Requests : runners[r].state # "none" =>
                     /\ runners'[r].state # "none" /\ runners'[r].project = runners[r].project
                     /\ runners'[r].login = runners[r].login
<1> USE DEF Sessions, Accounts, History
<1>1. ASSUME NEW n \in Requests, Begin(n)
      PROVE  UNCHANGED <<mode, runners, granted>>
  BY <1>1 DEF Begin, Reject, Enter, OidcEnd, Login, Lock, Logout, Runner, NamedCall, JobCall,
              NeedsRunner, Close, Download, Begins
<1>2. ASSUME NEW n \in Requests, NEW s, Saved(n, s)
      PROVE  UNCHANGED <<mode, runners>>
  BY <1>2 DEF Saved
<1>3. ASSUME NEW n \in Requests,
             \/ Save(n) \/ Pouta(n) \/ Avail(n) \/ Scope(n) \/ Denied(n) \/ LoginFails(n)
             \/ Revoke(n) \/ LoggedOut(n) \/ LogoutFails(n) \/ RunnerFails(n) \/ RunnerLost(n)
             \/ Head(n) \/ HeadFails(n) \/ SetKey(n) \/ GiveUrl(n) \/ DownloadFails(n)
      PROVE  UNCHANGED <<mode, runners, granted>>
  BY <1>2, <1>3
  DEF Save, Pouta, Avail, Scope, Denied, LoginFails, Revoke, LoggedOut, LogoutFails, RunnerFails,
      RunnerLost, Head, HeadFails, SetKey, GiveUrl, DownloadFails, Fail
<1>4. ASSUME NEW n \in Requests, LoggedIn(n)
      PROVE  /\ UNCHANGED <<mode, runners>>
             /\ \A l \in Requests : granted[l] # {} => granted'[l] = granted[l]
  <2>1. granted[n] = {} /\ granted \in [Requests -> SUBSET Projects]
    BY <1>4 DEF LoggedIn, FitInv, CopyFits, TypeInv, TypeOK
  <2> QED
    BY <1>2, <1>4, <2>1 DEF LoggedIn
<1>5. ASSUME NEW n \in Requests, RunnerEnter(n)
      PROVE  UNCHANGED <<mode, granted>> /\ Kept
  <2>1. runners[n].state = "none"
    BY <1>5 DEF RunnerEnter, FitInv, CopyFits
  <2> QED
    BY <1>5, <2>1 DEF RunnerEnter, TypeInv, TypeOK
<1>6. ASSUME NEW n \in Requests, NEW r, NEW state \in {"open", "closed"},
             runners' = [runners EXCEPT ![r].state = state]
      PROVE  Kept
  BY <1>6 DEF TypeInv, TypeOK
<1>7. ASSUME NEW n \in Requests, RunnerOpen(n) \/ RunnerClosed(n) \/ CloseFails(n)
      PROVE  UNCHANGED <<mode, granted>> /\ Kept
  <2>1. UNCHANGED <<mode, granted>>
    BY <1>7 DEF RunnerOpen, RunnerClosed, CloseFails, MayClose
  <2>2. CASE UNCHANGED runners
    BY <2>1, <2>2
  <2>3. CASE \E r : \E state \in {"open", "closed"} : runners' = [runners EXCEPT ![r].state = state]
    BY <1>6, <1>7, <2>1, <2>3
  <2> QED
    BY <1>7, <2>2, <2>3 DEF RunnerOpen, RunnerClosed, CloseFails, MayClose
<1>8. CASE RunnerRestart
  <2>1. UNCHANGED <<mode, granted>>
    BY <1>8 DEF RunnerRestart
  <2>2. Kept
    BY <1>8 DEF RunnerRestart, TypeInv, TypeOK
  <2> QED
    BY <2>1, <2>2
<1>9. CASE SessionsAge \/ UNCHANGED vars
  BY <1>9 DEF SessionsAge, vars
<1> QED
  BY <1>1, <1>3, <1>4, <1>5, <1>7, <1>8, <1>9 DEF Next

\* So whatever fits goes on to fit.
LEMMA FitsStays ==
  ASSUME TypeInv, FitInv, [Next]_vars, NEW s \in Session, Fits(s)
  PROVE  Fits(s)'
<1>1. s.login # 0 => s.login \in Requests
  BY DEF Session, Ids, Requests
<1>2. \A p \in Projects : s.runner[p] # 0 => s.runner[p] \in Requests
  BY DEF Session, Ids, Requests
<1>3. RunnersFit(s)'
  BY <1>2, Frame DEF Fits, RunnersFit
<1>4. LockFits(s)'
  BY Frame DEF Fits, LockFits
<1>5. GrantFits(s)'
  BY <1>1, Frame DEF Fits, GrantFits
<1> QED
  BY <1>3, <1>4, <1>5 DEF Fits

LEMMA CopyStays ==
  ASSUME TypeInv, FitInv, [Next]_vars, NEW m \in Requests, UNCHANGED req[m],
         m > begun' => m > begun, runners[m].state = "none" => runners'[m].state = "none",
         granted[m] = {} => granted'[m] = {}
  PROVE  CopyFits(m)'
<1>1. PICK s \in Session : s = req[m].sess /\ s = req'[m].sess
  BY DEF TypeInv, TypeOK, Request
<1>2. s.login # 0 => s.login \in Requests
  BY DEF Session, Ids, Requests
<1>3. req[m].pc # "scope" => Fits(s)'
  BY <1>1, FitsStays DEF FitInv, CopyFits
<1>4. (req[m].pc # "scope" => Fits(req[m].sess))'
  BY <1>1, <1>3 DEF Fits, RunnersFit, LockFits, GrantFits
<1>5. CopyFits(m)
  BY DEF FitInv
<1>6. /\ (req[m].pc = "scoping")' => /\ runners'[m].state # "none"
                                    /\ runners'[m].project = req[m].project
                                    /\ runners'[m].login = s.login
      /\ s.login # 0 /\ granted[s.login] # {} => granted'[s.login] # {}
  BY <1>1, <1>2, <1>5, Frame DEF CopyFits
<1> QED
  BY <1>1, <1>4, <1>5, <1>6 DEF CopyFits

\* A step of request n: the other requests stay, and a session s may be saved.
LEMMA StepFits ==
  ASSUME TypeInv, FitInv, [Next]_vars, NEW n \in Requests, CopyFits(n)',
         \A m \in Requests \ {n} :
           /\ req'[m] = req[m] /\ (m > begun' => m > begun)
           /\ runners'[m] = runners[m] \/ runners[m].state # "none"
           /\ granted'[m] = granted[m],
         NEW s \in Session, Fits(s)', \A k \in Requests : store'[k] = store[k] \/ store'[k] = s
  PROVE  FitInv'
<1>1. ASSUME NEW m \in Requests
      PROVE  CopyFits(m)'
  BY CopyStays
<1>2. ASSUME NEW k \in Requests
      PROVE  Fits(store[k])'
  <2>1. PICK t \in Session : t = store[k]
    BY DEF TypeInv, TypeOK
  <2>2. Fits(t)'
    BY <2>1, FitsStays DEF FitInv
  <2> QED
    BY <2>1, <2>2 DEF Fits, RunnersFit, LockFits, GrantFits
<1> QED
  BY <1>1, <1>2 DEF FitInv

LEMMA OverFits ==
  ASSUME TypeInv, FitInv, [Next]_vars, NEW n \in Requests, Answer(n), begun' = begun,
         req[n].pc # "none"
  PROVE  CopyFits(n)'
<1>1. req'[n] = NoRequest /\ ~(n > begun')
  BY DEF Answer, FitInv, CopyFits, TypeInv, TypeOK
<1>2. Fits(Empty)'
  BY EmptyFits, EmptyTyped, FitsStays
<1> QED
  BY <1>1, <1>2 DEF CopyFits, NoRequest, Fits, RunnersFit, LockFits, GrantFits

LEMMA SavedFits ==
  ASSUME TypeInv, FitInv, [Next]_vars, NEW n \in Requests, req[n].pc # "none",
         NEW s \in Session, Fits(s)', Saved(n, s),
         \A m \in Requests \ {n} : granted'[m] = granted[m]
  PROVE  FitInv'
<1>1. CopyFits(n)'
  BY OverFits DEF Saved
<1>2. \A m \in Requests \ {n} : req'[m] = req[m]
  BY DEF Saved, Answer, TypeInv, TypeOK
<1>3. \A k \in Requests : store'[k] = store[k] \/ store'[k] = s
  BY DEF Saved, TypeInv, TypeOK
<1>4. UNCHANGED <<runners, begun>>
  BY DEF Saved, Accounts
<1> QED
  BY <1>1, <1>2, <1>3, <1>4, StepFits

\* A step that only changes the request n itself.
LEMMA GoesOnFits ==
  ASSUME TypeInv, FitInv, [Next]_vars, NEW n \in Requests, NEW r,
         req' = [req EXCEPT ![n] = r], UNCHANGED <<store, begun, granted>>, CopyFits(n)',
         \A m \in Requests \ {n} : runners'[m] = runners[m] \/ runners[m].state # "none"
  PROVE  FitInv'
<1>1. Fits(Empty)'
  BY EmptyFits, EmptyTyped, FitsStays
<1> QED
  BY <1>1, EmptyTyped, StepFits DEF TypeInv, TypeOK

LEMMA BeginsFits ==
  ASSUME TypeInv, FitInv, [Next]_vars, NEW n \in Requests, n = begun + 1,
         NEW kind, NEW project, NEW key, NEW s \in Session, NEW pc, NEW todo,
         pc \notin {"none", "scope", "scoping"}, Fits(s),
         Begins(n, kind, project, key, s, pc, todo)
  PROVE  FitInv'
<1>1. /\ req' = [req EXCEPT ![n] = [kind |-> kind, project |-> project, pc |-> pc, key |-> key,
                                   sess |-> s, todo |-> todo, tempkey |-> 0]]
      /\ UNCHANGED <<store, runners, granted>> /\ begun' = n
  BY DEF Begins, Accounts
<1>2. Fits(s)'
  BY FitsStays
<1>3. begun \in Nat /\ n \in Nat
  BY UiSessionAssumption DEF TypeInv, TypeOK, Ids
<1>4. CopyFits(n)'
  <2>1. req'[n].pc = pc /\ req'[n].sess = s
    BY <1>1 DEF TypeInv, TypeOK
  <2>2. runners[n].state = "none" /\ granted[n] = {}
    BY <1>3 DEF FitInv, CopyFits
  <2>3. ~(n > begun')
    BY <1>1, <1>3
  <2>4. (req[n].pc # "scope" => Fits(req[n].sess))'
    BY <1>2, <2>1 DEF Fits, RunnersFit, LockFits, GrantFits
  <2> QED
    BY <1>1, <2>1, <2>2, <2>3, <2>4 DEF CopyFits
<1>5. \A m \in Requests \ {n} : req'[m] = req[m] /\ (m > begun' => m > begun)
  BY <1>1, <1>3 DEF TypeInv, TypeOK, Requests
<1> QED
  BY <1>1, <1>2, <1>4, <1>5, StepFits

LEMMA BeginFits ==
  ASSUME TypeInv, FitInv, [Next]_vars, NEW n \in Requests, Begin(n)
  PROVE  FitInv'
<1>0. n = begun + 1 /\ Loaded \in Session /\ Fits(Loaded) /\ Empty \in Session /\ Fits(Empty)
  BY LoadedTyped, LoadedFits, EmptyTyped, EmptyFits DEF Begin, TypeInv
<1>1. CASE Reject(n)
  BY <1>0, <1>1, BeginsFits DEF Reject
<1>2. CASE Enter(n)
  BY <1>0, <1>2, BeginsFits DEF Enter
<1>3. CASE OidcEnd(n)
  <2>1. PICK claim \in Claims, pouta \in BOOLEAN :
          Begins(n, "oidc", None, 0, [Empty EXCEPT !.at = "fresh", !.oidc = TRUE, !.csc = claim],
                 IF pouta /\ ~NoMember(claim) THEN "pouta" ELSE "save", {})
    BY <1>3 DEF OidcEnd
  <2> DEFINE s == [Empty EXCEPT !.at = "fresh", !.oidc = TRUE, !.csc = claim]
             pc == IF pouta /\ ~NoMember(claim) THEN "pouta" ELSE "save"
  <2>2. s \in Session
    BY <1>0, UiSessionAssumption DEF Session
  <2>3. Fits(s)
    BY <1>0 DEF Fits, RunnersFit, LockFits, GrantFits, Empty
  <2>4. pc \in {"save", "pouta"}
    OBVIOUS
  <2>5. Begins(n, "oidc", None, 0, s, pc, {})
    BY <2>1
  <2> HIDE DEF pc, s
  <2> QED
    BY <1>0, <2>2, <2>3, <2>4, <2>5, BeginsFits
<1>4. CASE Login(n)
  <2>1. /\ [Empty EXCEPT !.at = "fresh"] \in Session
        /\ [Loaded EXCEPT !.at = "fresh"] \in Session
    BY <1>0 DEF Session
  <2>2. ASSUME NEW s \in Session, Fits(s)
        PROVE  Fits([s EXCEPT !.at = "fresh"])
    BY <2>2 DEF Session, Fits, RunnersFit, LockFits, GrantFits
  <2> QED
    BY <1>0, <1>4, <2>1, <2>2, BeginsFits DEF Login
<1>5. CASE Lock(n)
  BY <1>0, <1>5, LockedTyped, LockedFits, BeginsFits DEF Lock, TypeInv
<1>6. CASE Logout(n)
  BY <1>0, <1>6, BeginsFits DEF Logout
<1>7. CASE Runner(n)
  <2>1. PICK words : NeedsRunner(n, words)
    BY <1>7 DEF Runner, NamedCall, JobCall
  <2> QED
    BY <1>0, <2>1, BeginsFits DEF NeedsRunner
<1>8. CASE Close(n)
  BY <1>0, <1>8, BeginsFits DEF Close
<1>9. CASE Download(n)
  BY <1>0, <1>9, BeginsFits DEF Download
<1> QED
  BY <1>1, <1>2, <1>3, <1>4, <1>5, <1>6, <1>7, <1>8, <1>9 DEF Begin

\* A login saves what fits, whether it succeeds, is refused or breaks off.
LEMMA LoginEndFits ==
  ASSUME TypeInv, FitInv, [Next]_vars, NEW n \in Requests, req[n].pc = "scope",
         Denied(n) \/ LoggedIn(n) \/ LoginFails(n)
  PROVE  FitInv'
<1>0. PICK s \in Session : s = req[n].sess
  BY DEF TypeInv, TypeOK, Request
<1>1. /\ s.runner = NoRunner /\ (s.login # 0 => granted[s.login] # {})
      /\ s.csc # None => s.projects \subseteq s.csc
      /\ granted[n] = {}
  BY <1>0 DEF FitInv, CopyFits
<1>e. Fits(Empty)'
  BY EmptyFits, EmptyTyped, FitsStays
<1>2. CASE Denied(n) \/ (LoggedIn(n) /\ s.projects = {})
  <2>1. Saved(n, Empty) /\ UNCHANGED granted
    BY <1>0, <1>2 DEF Denied, LoggedIn
  <2> QED
    BY <1>e, <2>1, EmptyTyped, SavedFits
<1>3. CASE LoggedIn(n) /\ s.projects # {}
  <2>1. PICK restricted \in BOOLEAN :
          /\ restricted <=> "restricted" \in mode
          /\ Saved(n, [s EXCEPT !.login = n, !.taint = restricted, !.part = FALSE])
    <3> DEFINE tainted == "restricted" \in mode
    <3>1. Saved(n, [s EXCEPT !.login = n, !.taint = tainted, !.part = FALSE])
      BY <1>0, <1>3 DEF LoggedIn
    <3>2. tainted \in BOOLEAN /\ (tainted <=> "restricted" \in mode)
      OBVIOUS
    <3> HIDE DEF tainted
    <3> QED
      BY <3>1, <3>2
  <2>2. PICK t : t = [s EXCEPT !.login = n, !.taint = restricted, !.part = FALSE]
    OBVIOUS
  <2>3. mode' = mode /\ Saved(n, t) /\ granted' = [granted EXCEPT ![n] = s.projects]
    BY <1>0, <1>3, <2>1, <2>2, Frame DEF LoggedIn
  <2>4. /\ t \in Session /\ t.login = n /\ t.taint = restricted /\ t.runner = NoRunner
        /\ t.projects = s.projects /\ t.csc = s.csc /\ n # 0
    BY <1>1, <2>1, <2>2, RequestId DEF Session
  <2>5. granted'[n] = t.projects
    BY <2>3, <2>4 DEF TypeInv, TypeOK
  <2>6. RunnersFit(t)'
    BY <2>4 DEF RunnersFit, NoRunner
  <2>7. LockFits(t)'
    BY <2>1, <2>3, <2>4 DEF LockFits
  <2>8. GrantFits(t)'
    BY <1>1, <1>3, <2>4, <2>5 DEF GrantFits
  <2>9. \A m \in Requests \ {n} : granted'[m] = granted[m]
    BY <2>3 DEF TypeInv, TypeOK
  <2> QED
    BY <2>3, <2>4, <2>6, <2>7, <2>8, <2>9, SavedFits DEF Fits
<1>4. CASE LoginFails(n)
  <2> DEFINE t == [s EXCEPT !.part = TRUE]
  <2>1. Saved(n, t) /\ UNCHANGED granted
    BY <1>0, <1>4 DEF LoginFails
  <2>2. /\ t \in Session /\ t.login = s.login /\ t.runner = NoRunner /\ t.part
        /\ t.projects = s.projects /\ t.csc = s.csc
    BY <1>1 DEF Session
  <2> HIDE DEF t
  <2>3. Fits(t)
    BY <1>1, <2>2 DEF Fits, RunnersFit, LockFits, GrantFits, NoRunner
  <2>4. Fits(t)'
    BY <2>2, <2>3, FitsStays
  <2> QED
    BY <2>1, <2>2, <2>4, SavedFits
<1> QED
  BY <1>0, <1>2, <1>3, <1>4

\* A request that answers without saving, or goes on with what fits.
LEMMA AnswerFits ==
  ASSUME TypeInv, FitInv, [Next]_vars, NEW n \in Requests, Answer(n), req[n].pc # "none",
         UNCHANGED <<store, begun, granted>>,
         \A m \in Requests \ {n} : runners'[m] = runners[m] \/ runners[m].state # "none"
  PROVE  FitInv'
BY OverFits, GoesOnFits DEF Answer

LEMMA FieldsFits ==
  ASSUME TypeInv, FitInv, [Next]_vars, NEW n \in Requests, req[n].pc # "none",
         NEW s \in Session, Fits(s)', NEW pc \in {"avail", "save"},
         pc = "avail" => granted[n] = {},
         Fields(n, s, pc), UNCHANGED <<store, begun, granted>>,
         \A m \in Requests \ {n} : runners'[m] = runners[m] \/ runners[m].state # "none"
  PROVE  FitInv'
<1>1. PICK r : r = [req[n] EXCEPT !.sess = s, !.pc = pc]
  OBVIOUS
<1>2. req' = [req EXCEPT ![n] = r]
  BY <1>1 DEF Fields, TypeInv, TypeOK
<1>3. r.sess = s /\ r.pc = pc /\ ~(n > begun')
  BY <1>1 DEF FitInv, CopyFits, TypeInv, TypeOK, Request
<1>4. req'[n].sess = s /\ req'[n].pc = pc
  BY <1>2, <1>3 DEF TypeInv, TypeOK
<1>5. (Fits(req[n].sess))'
  BY <1>4 DEF Fits, RunnersFit, LockFits, GrantFits
<1>6. CopyFits(n)'
  BY <1>3, <1>4, <1>5 DEF CopyFits
<1> QED
  BY <1>2, <1>6, GoesOnFits

\* The awaits of a login, and a logout.
LEMMA LoginFits ==
  ASSUME TypeInv, FitInv, [Next]_vars, NEW n \in Requests,
         Save(n) \/ Pouta(n) \/ Avail(n) \/ Scope(n) \/ Revoke(n) \/ LoggedOut(n)
  PROVE  FitInv'
<1>0. PICK s \in Session : s = req[n].sess
  BY DEF TypeInv, TypeOK, Request
<1>1. req[n] \in Request /\ req[n].pc # "none" /\ CopyFits(n)
  BY DEF Save, Pouta, Avail, Scope, Revoke, LoggedOut, FitInv, TypeInv, TypeOK
<1>2. req[n].pc # "scope" => Fits(s)'
  BY <1>0, <1>1, FitsStays DEF CopyFits
<1>e. Fits(Empty)'
  BY EmptyFits, EmptyTyped, FitsStays
<1>3. CASE req[n].pc # "scope" /\ Saved(n, req[n].sess) /\ UNCHANGED granted
  BY <1>0, <1>1, <1>2, <1>3, SavedFits
<1>4. CASE LoggedOut(n)
  BY <1>1, <1>4, <1>e, EmptyTyped, SavedFits DEF LoggedOut
<1>5. CASE /\ req[n].pc = "pouta" /\ Fields(n, req[n].sess, "avail")
           /\ Sessions /\ Accounts /\ History
  BY <1>0, <1>1, <1>2, <1>5, FieldsFits DEF Sessions, Accounts, History, CopyFits
<1>6. ASSUME req[n].pc = "avail", NEW enabled \in SUBSET Projects, Sessions, Accounts, History,
             req' = [req EXCEPT ![n].pc = "scope",
                       ![n].sess = [@ EXCEPT !.projects = {}, !.runner = NoRunner],
                       ![n].todo = IF req[n].sess.csc = None THEN enabled
                                   ELSE enabled \cap req[n].sess.csc]
      PROVE  FitInv'
  <2>1. PICK t, todo, r : /\ t = [s EXCEPT !.projects = {}, !.runner = NoRunner]
                          /\ todo = IF s.csc = None THEN enabled ELSE enabled \cap s.csc
                          /\ r = [req[n] EXCEPT !.pc = "scope", !.sess = t, !.todo = todo]
    OBVIOUS
  <2>2. req' = [req EXCEPT ![n] = r]
    BY <1>0, <1>1, <1>6, <2>1 DEF TypeInv, TypeOK, Request
  <2>3. /\ t.projects = {} /\ t.runner = NoRunner /\ t.login = s.login /\ t.csc = s.csc
        /\ s.csc # None => todo \subseteq s.csc
    BY <2>1 DEF Session
  <2>4. r.pc = "scope" /\ r.sess = t /\ r.todo = todo
    BY <1>1, <2>1 DEF Request
  <2>5. req'[n] = r /\ ~(n > begun')
    BY <1>1, <1>6, <2>2 DEF Sessions, CopyFits, TypeInv, TypeOK
  <2>6. (s.login # 0 => granted[s.login] # {}) /\ granted[n] = {} /\ UNCHANGED granted
    BY <1>0, <1>1, <1>6 DEF CopyFits, Fits, GrantFits, History
  <2>7. CopyFits(n)'
    BY <2>3, <2>4, <2>5, <2>6 DEF CopyFits
  <2> QED
    BY <1>6, <2>2, <2>7, GoesOnFits DEF Sessions, Accounts, History
<1>7. CASE Scope(n)
  <2>0. PICK p \in req[n].todo : \E got \in {{}, {p}} :
          req' = [req EXCEPT ![n].todo = @ \ {p},
                    ![n].sess = [@ EXCEPT !.projects = req[n].sess.projects \cup got]]
    BY <1>7 DEF Scope
  <2>1. PICK got \in {{}, {p}} :
          req' = [req EXCEPT ![n].todo = @ \ {p},
                    ![n].sess = [@ EXCEPT !.projects = req[n].sess.projects \cup got]]
    BY <2>0
  <2>2. PICK t, r : /\ t = [s EXCEPT !.projects = s.projects \cup got]
                    /\ r = [req[n] EXCEPT !.todo = req[n].todo \ {p}, !.sess = t]
    OBVIOUS
  <2>3. req' = [req EXCEPT ![n] = r]
    BY <1>0, <1>1, <2>1, <2>2 DEF TypeInv, TypeOK, Request
  <2>4. /\ t.projects = s.projects \cup got /\ t.runner = s.runner /\ t.login = s.login
        /\ t.csc = s.csc
    BY <2>2 DEF Session
  <2>5. r.pc = "scope" /\ r.sess = t /\ r.todo = req[n].todo \ {p}
    BY <1>1, <1>7, <2>2 DEF Scope, Request
  <2>6. req'[n] = r /\ ~(n > begun')
    BY <1>1, <1>7, <2>3 DEF Scope, Sessions, CopyFits, TypeInv, TypeOK
  <2>7. /\ s.runner = NoRunner /\ (s.login # 0 => granted[s.login] # {})
        /\ s.csc # None => s.projects \cup req[n].todo \subseteq s.csc
        /\ granted[n] = {} /\ UNCHANGED granted
    BY <1>0, <1>1, <1>7 DEF CopyFits, Scope, History
  <2>8. CopyFits(n)'
    BY <2>1, <2>4, <2>5, <2>6, <2>7 DEF CopyFits
  <2> QED
    <3>1. UNCHANGED <<store, begun, granted, runners>>
      BY <1>7 DEF Scope, Sessions, Accounts, History
    <3> QED
      BY <2>3, <2>8, <3>1, GoesOnFits
<1>8. CASE Revoke(n)
  <2>0. PICK p : req' = [req EXCEPT ![n] = [req[n] EXCEPT !.todo = req[n].todo \ {p}]]
    BY <1>8 DEF Revoke
  <2>1. PICK r : /\ req' = [req EXCEPT ![n] = r] /\ r.pc = req[n].pc /\ r.sess = s
    <3>1. PICK r : r = [req[n] EXCEPT !.todo = req[n].todo \ {p}]
      OBVIOUS
    <3>2. r.pc = req[n].pc /\ r.sess = s
      BY <1>0, <1>1, <3>1 DEF Request
    <3> QED
      BY <2>0, <3>1, <3>2
  <2>2. req'[n] = r /\ ~(n > begun')
    <3>1. req'[n] = r
      BY <2>1 DEF TypeInv, TypeOK
    <3>2. begun' = begun /\ ~(n > begun)
      BY <1>1, <1>8 DEF Revoke, Sessions, CopyFits
    <3> QED
      BY <3>1, <3>2
  <2>3. (Fits(req[n].sess))'
    <3>1. Fits(s)' /\ req'[n].sess = s
      BY <1>2, <1>8, <2>1, <2>2 DEF Revoke
    <3> QED
      BY <3>1 DEF Fits, RunnersFit, LockFits, GrantFits
  <2>4. CopyFits(n)'
    BY <1>8, <2>1, <2>2, <2>3 DEF Revoke, CopyFits
  <2> QED
    BY <1>8, <2>1, <2>4, GoesOnFits DEF Revoke, Sessions, Accounts, History
<1> QED
  BY <1>3, <1>4, <1>5, <1>6, <1>7, <1>8 DEF Save, Pouta, Avail

\* Sessions of the upload runner.
LEMMA RunnerFits ==
  ASSUME TypeInv, FitInv, [Next]_vars, NEW n \in Requests,
         RunnerEnter(n) \/ RunnerOpen(n) \/ RunnerClosed(n) \/ CloseFails(n)
  PROVE  FitInv'
<1>0. PICK s \in Session : s = req[n].sess
  BY DEF TypeInv, TypeOK, Request
<1>1. /\ req[n] \in Request /\ CopyFits(n) /\ Fits(s) /\ Fits(s)'
      /\ req[n].pc \in {"post", "scoping", "delete"} /\ req[n].project \in Projects
  <2>1. /\ req[n] \in Request /\ CopyFits(n)
        /\ req[n].pc \in {"post", "scoping", "delete"}
    BY DEF RunnerEnter, RunnerOpen, RunnerClosed, CloseFails, FitInv, TypeInv, TypeOK
  <2> QED
    BY <1>0, <2>1, FitsStays DEF CopyFits, TypeInv, Shape
<1>2. UNCHANGED <<store, begun, granted>>
  BY DEF RunnerEnter, RunnerOpen, RunnerClosed, CloseFails, Sessions, History
<1>3. ~(n > begun')
  BY <1>1, <1>2 DEF CopyFits
<1>4. CASE RunnerEnter(n)
  <2>1. PICK r : r = [req[n] EXCEPT !.pc = "scoping"]
    OBVIOUS
  <2>2. req' = [req EXCEPT ![n] = r]
    BY <1>4, <2>1 DEF RunnerEnter, TypeInv, TypeOK
  <2>3. r.pc = "scoping" /\ r.sess = s /\ r.project = req[n].project
    BY <1>0, <1>1, <2>1 DEF Request
  <2>4. req'[n] = r
    BY <2>2 DEF TypeInv, TypeOK
  <2>5. (Fits(req[n].sess))'
    BY <1>1, <2>3, <2>4 DEF Fits, RunnersFit, LockFits, GrantFits
  <2>6. /\ runners'[n].state = "entered" /\ runners'[n].project = req[n].project
        /\ runners'[n].login = s.login
        /\ \A m \in Requests \ {n} : runners'[m] = runners[m]
    BY <1>0, <1>4 DEF RunnerEnter, TypeInv, TypeOK
  <2>7. CopyFits(n)'
    BY <1>3, <2>3, <2>4, <2>5, <2>6 DEF CopyFits
  <2> QED
    BY <1>2, <2>2, <2>6, <2>7, GoesOnFits
<1>5. CASE RunnerOpen(n)
  <2>1. \A m \in Requests \ {n} : runners'[m] = runners[m]
    BY <1>5 DEF RunnerOpen, TypeInv, TypeOK
  <2>2. CASE Answer(n)
    BY <1>1, <1>2, <2>1, <2>2, AnswerFits
  <2>3. CASE /\ req[n].project \in req[n].sess.projects
             /\ Fields(n, [req[n].sess EXCEPT !.runner[req[n].project] = n], "save")
    <3>1. PICK p \in Projects : p = req[n].project
      BY <1>1
    <3>2. PICK t : t = [s EXCEPT !.runner[p] = n]
      OBVIOUS
    <3>3. /\ t \in Session /\ t.projects = s.projects /\ t.login = s.login /\ t.csc = s.csc
          /\ t.taint = s.taint /\ t.part = s.part
          /\ t.runner = [s.runner EXCEPT ![p] = n]
      BY <3>2, RequestId DEF Session
    <3>4. /\ runners'[n].state = "open" /\ runners'[n].project = p
          /\ runners'[n].login = s.login
      BY <1>0, <1>1, <1>5, <3>1 DEF RunnerOpen, CopyFits, TypeInv, TypeOK
    <3>5. \A q \in Projects : t.runner[q] = IF q = p THEN n ELSE s.runner[q]
      BY <3>3 DEF Session
    <3>6. RunnersFit(t)'
      <4> SUFFICES ASSUME NEW q \in Projects, t.runner[q] # 0
                   PROVE  /\ q \in t.projects /\ runners'[t.runner[q]].state # "none"
                          /\ runners'[t.runner[q]].project = q
                          /\ runners'[t.runner[q]].login = t.login
        BY DEF RunnersFit
      <4>1. CASE q = p
        BY <1>0, <2>3, <3>1, <3>3, <3>4, <3>5, <4>1
      <4>2. CASE q # p
        BY <1>1, <3>3, <3>5, <4>2 DEF Fits, RunnersFit
      <4> QED
        BY <4>1, <4>2
    <3>7. LockFits(t)' /\ GrantFits(t)'
      BY <1>1, <3>3 DEF Fits, LockFits, GrantFits
    <3> QED
      BY <1>0, <1>1, <1>2, <2>1, <2>3, <3>1, <3>2, <3>3, <3>6, <3>7, FieldsFits DEF Fits
  <2> QED
    BY <1>5, <2>2, <2>3 DEF RunnerOpen
<1>6. CASE RunnerClosed(n) \/ CloseFails(n)
  <2>1. PICK p \in Projects : p = req[n].project
    BY <1>1
  <2>2. \A m \in Requests : runners'[m] = runners[m] \/ runners[m].state # "none"
    <3>1. \/ runners' = runners
          \/ runners' = [runners EXCEPT ![s.runner[p]].state = "closed"]
      BY <1>0, <1>6, <2>1 DEF RunnerClosed, CloseFails, MayClose
    <3>2. s.runner[p] # 0 => runners[s.runner[p]].state # "none"
      BY <1>1 DEF Fits, RunnersFit
    <3>3. 0 \notin Requests
      BY RequestId
    <3> QED
      BY <3>1, <3>2, <3>3 DEF TypeInv, TypeOK
  <2>3. CASE CloseFails(n)
    BY <1>1, <1>2, <2>2, <2>3, AnswerFits DEF CloseFails
  <2>4. CASE RunnerClosed(n)
    <3>1. PICK t : t = [s EXCEPT !.runner[p] = 0]
      OBVIOUS
    <3>2. /\ t \in Session /\ t.projects = s.projects /\ t.login = s.login /\ t.csc = s.csc
          /\ t.taint = s.taint /\ t.part = s.part
          /\ t.runner = [s.runner EXCEPT ![p] = 0]
      BY <3>1, ZeroId DEF Session
    <3>3. \A q \in Projects : t.runner[q] = IF q = p THEN 0 ELSE s.runner[q]
      BY <3>2 DEF Session
    <3>4. Fits(t)'
      BY <1>1, <3>2, <3>3 DEF Fits, RunnersFit, LockFits, GrantFits
    <3> QED
      BY <1>0, <1>1, <1>2, <2>1, <2>2, <2>4, <3>1, <3>2, <3>4, FieldsFits DEF RunnerClosed
  <2> QED
    BY <1>6, <2>3, <2>4
<1> QED
  BY <1>4, <1>5, <1>6

\* What fails, and what is about temporary URLs.
LEMMA RestFits ==
  ASSUME TypeInv, FitInv, [Next]_vars, NEW n \in Requests,
         \/ LogoutFails(n) \/ RunnerFails(n) \/ RunnerLost(n) \/ DownloadFails(n)
         \/ Head(n) \/ HeadFails(n) \/ SetKey(n) \/ GiveUrl(n)
  PROVE  FitInv'
<1>1. UNCHANGED <<store, begun, granted, runners>>
  BY DEF LogoutFails, RunnerFails, RunnerLost, DownloadFails, Fail, Head, HeadFails, SetKey,
         GiveUrl, Sessions, Accounts, History
<1>2. req[n].pc \in {"save", "revoke", "post", "scoping", "head", "setkey", "object"}
  BY DEF LogoutFails, RunnerFails, RunnerLost, DownloadFails, Head, HeadFails, SetKey, GiveUrl
<1>3. CASE Answer(n)
  BY <1>1, <1>2, <1>3, AnswerFits
<1>4. CASE Head(n) \/ HeadFails(n) \/ SetKey(n)
  <2>1. PICK r : req' = [req EXCEPT ![n] = r] /\ r.pc \in {"setkey", "object"}
                 /\ r.sess = req[n].sess
    BY <1>4 DEF Head, HeadFails, SetKey, TypeInv, TypeOK, Request
  <2>2. PICK s \in Session : s = req[n].sess
    BY DEF TypeInv, TypeOK, Request
  <2>3. req'[n] = r /\ ~(n > begun') /\ Fits(s)'
    BY <1>1, <1>2, <2>1, <2>2, FitsStays DEF FitInv, CopyFits, TypeInv, TypeOK
  <2>4. (Fits(req[n].sess))'
    BY <2>1, <2>2, <2>3 DEF Fits, RunnersFit, LockFits, GrantFits
  <2>5. CopyFits(n)'
    BY <2>1, <2>3, <2>4 DEF CopyFits
  <2> QED
    BY <1>1, <2>1, <2>5, GoesOnFits
<1> QED
  BY <1>3, <1>4 DEF LogoutFails, RunnerFails, RunnerLost, DownloadFails, Fail, GiveUrl

LEMMA FitNext == TypeInv /\ FitInv /\ [Next]_vars => FitInv'
<1> SUFFICES ASSUME TypeInv, FitInv, [Next]_vars PROVE FitInv'
  OBVIOUS
<1>1. ASSUME NEW n \in Requests, Denied(n) \/ LoggedIn(n) \/ LoginFails(n)
      PROVE  FitInv'
  BY <1>1, LoginEndFits DEF Denied, LoggedIn, LoginFails
<1>2. CASE RunnerRestart
  <2>1. /\ UNCHANGED <<store, begun, granted, req>>
        /\ \A m \in Requests : runners'[m] = runners[m] \/ runners[m].state # "none"
    BY <1>2 DEF RunnerRestart, Sessions, TypeInv, TypeOK
  <2>2. \A m \in Requests : CopyFits(m)'
    BY <2>1, CopyStays
  <2>3. PICK n \in Requests : TRUE
    BY <1>2 DEF RunnerRestart
  <2>4. Fits(Empty)'
    BY EmptyFits, EmptyTyped, FitsStays
  <2> QED
    BY <2>1, <2>2, <2>3, <2>4, EmptyTyped, StepFits
<1>3. CASE SessionsAge
  <2>1. UNCHANGED <<mode, req, begun, granted, runners>>
    BY <1>3 DEF SessionsAge, History
  <2>2. ASSUME NEW k \in Requests
        PROVE  Fits(store[k])'
    <3>1. PICK s \in Session : s = store[k] /\ Fits(s)
      BY DEF FitInv, TypeInv, TypeOK
    <3>2. store'[k] = s \/ store'[k] = [s EXCEPT !.at = "old"]
      BY <1>3, <3>1 DEF SessionsAge
    <3>3. /\ store'[k].runner = s.runner /\ store'[k].projects = s.projects
          /\ store'[k].login = s.login /\ store'[k].taint = s.taint
          /\ store'[k].part = s.part /\ store'[k].csc = s.csc
      BY <3>2 DEF Session
    <3> QED
      BY <2>1, <3>1, <3>3 DEF Fits, RunnersFit, LockFits, GrantFits
  <2>3. \A m \in Requests : CopyFits(m)'
    BY <2>1, CopyStays
  <2> QED
    BY <2>2, <2>3 DEF FitInv
<1>4. CASE UNCHANGED vars
  <2>1. \A m \in Requests : CopyFits(m)'
    BY <1>4, CopyStays DEF vars
  <2>2. \A k \in Requests : Fits(store[k])'
    BY <1>4 DEF vars, FitInv, Fits, RunnersFit, LockFits, GrantFits
  <2> QED
    BY <2>1, <2>2 DEF FitInv
<1> QED
  BY <1>1, <1>2, <1>3, <1>4, BeginFits, LoginFits, RunnerFits, RestFits DEF Next

LEMMA FitInit == Init => FitInv
<1> SUFFICES ASSUME Init PROVE FitInv
  OBVIOUS
<1>1. Fits(Empty)
  BY EmptyFits
<1> QED
  BY <1>1 DEF Init, FitInv, CopyFits, NoRequest, NoRunnerSession

\* A runner session that redis has for a project was opened for it with the
\* token of the login that it is stored with, however requests overlap.
THEOREM RunnersOwned == Spec => []RunnerOwned
<1>1. FitInv => RunnerOwned
  BY DEF FitInv, Fits, RunnersFit, RunnerOwned
<1> QED
  BY <1>1, TypeInit, TypeNext, FitInit, FitNext, PTL DEF Spec

\* In restricted mode no session that a lock has released gets a second
\* project, also by the late save of a request that is older than the lock.
THEOREM LockHolds == Spec => []RestrictedToOne
<1>1. FitInv => RestrictedToOne
  BY DEF FitInv, Fits, LockFits, RestrictedToOne
<1> QED
  BY <1>1, TypeInit, TypeNext, FitInit, FitNext, PTL DEF Spec

\* The projects of a saved session are what one login was granted, or the one
\* that it was locked to.
THEOREM SessionsWhole == Spec => []Whole
<1>1. FitInv => Whole
  BY DEF FitInv, Fits, GrantFits, Whole
<1> QED
  BY <1>1, TypeInit, TypeNext, FitInit, FitNext, PTL DEF Spec

-----------------------------------------------------------------------------
(* Logging out *)

\* While a logout is in force, neither the browser's session nor the copy of a
\* request that began after it has a login.
OutInv ==
  /\ \A n \in Requests :
       /\ req[n].kind = "logout" <=> req[n].pc = "revoke"
       /\ req[n].kind = "none" => req[n].sess.login = 0
       /\ n > begun => req[n].kind = "none"
  /\ out # 0 => Loaded.login = 0 /\ \A n \in Requests : n > out => req[n].sess.login = 0

LEMMA GoesOnOut ==
  ASSUME TypeInv, OutInv, NEW n \in Requests, NEW r, req' = [req EXCEPT ![n] = r],
         UNCHANGED <<cookie, store, out>>, r.sess.login \in {0, req[n].sess.login, Loaded.login},
         r.kind = "logout" <=> r.pc = "revoke", r.kind = "none" => r.sess.login = 0,
         \/ begun' = begun /\ (n > begun => r.kind = "none")
         \/ begun' = n /\ n = begun + 1
  PROVE  OutInv'
<1>1. req'[n] = r /\ \A m \in Requests \ {n} : req'[m] = req[m]
  BY DEF TypeInv, TypeOK
<1>2. Loaded' = Loaded
  BY DEF Loaded
<1>3. begun \in Nat /\ n \in Nat /\ \A m \in Requests : m \in Nat
  BY DEF TypeInv, TypeOK, Ids, Requests
<1>4. \A m \in Requests : m > begun' => req'[m].kind = "none"
  BY <1>1, <1>3 DEF OutInv
<1> QED
  BY <1>1, <1>2, <1>4 DEF OutInv

LEMMA AnswerOut ==
  ASSUME TypeInv, OutInv, NEW n \in Requests, Answer(n),
         UNCHANGED <<cookie, store, out, begun>>
  PROVE  OutInv'
<1>1. /\ NoRequest.kind = "none" /\ NoRequest.pc = "none" /\ NoRequest.sess.login = 0
  BY DEF NoRequest, Empty
<1> HIDE DEF NoRequest
<1> QED
  BY <1>1, GoesOnOut DEF Answer

LEMMA BeginsOut ==
  ASSUME TypeInv, OutInv, NEW n \in Requests, NEW kind, NEW project, NEW key, NEW s, NEW pc,
         NEW todo, kind # "none", kind = "logout" <=> pc = "revoke",
         s.login \in {0, Loaded.login}, n = begun + 1,
         Begins(n, kind, project, key, s, pc, todo)
  PROVE  OutInv'
<1>1. PICK r : r = [kind |-> kind, project |-> project, pc |-> pc, key |-> key,
                    sess |-> s, todo |-> todo, tempkey |-> 0]
  OBVIOUS
<1>2. req' = [req EXCEPT ![n] = r] /\ UNCHANGED <<cookie, store, out>> /\ begun' = n
  BY <1>1 DEF Begins
<1>3. r.kind = kind /\ r.pc = pc /\ r.sess = s
  BY <1>1
<1> QED
  BY <1>2, <1>3, GoesOnOut

\* What a request saves has the login of its copy, or its own.
LEMMA SavedOut ==
  ASSUME TypeInv, OutInv, NEW n \in Requests, NEW s \in Session, Saved(n, s),
         s.login \in {0, n, req[n].sess.login}, req[n].kind = "logout" => s = Empty
  PROVE  OutInv'
<1> DEFINE k == IF req[n].key = 0 THEN n ELSE req[n].key
<1>1. k \in Requests
  BY UiSessionAssumption DEF TypeInv, TypeOK, Request, Requests, Ids
<1>2. /\ req'[n] = NoRequest /\ \A m \in Requests \ {n} : req'[m] = req[m]
      /\ NoRequest.kind = "none" /\ NoRequest.pc = "none" /\ NoRequest.sess.login = 0
  BY DEF Saved, Answer, NoRequest, Empty, TypeInv, TypeOK
<1>3. Loaded'.login = s.login
  <2>1. CASE s = Empty
    BY <2>1 DEF Saved, Loaded
  <2>2. CASE s # Empty
    <3>1. cookie' = k /\ store'[k] = s /\ k # 0
      BY <1>1, <2>2, RequestId DEF Saved, TypeInv, TypeOK
    <3> QED
      BY <3>1 DEF Loaded
  <2> QED
    BY <2>1, <2>2
<1>4. out' # 0 => s.login = 0 /\ \A m \in Requests \ {n} : m > out' => req[m].sess.login = 0
  <2>1. CASE req[n].kind = "logout"
    <3>1. s.login = 0
      BY <2>1 DEF Empty
    <3>2. out' = begun
      BY <2>1 DEF Saved, After
    <3> QED
      BY <3>1, <3>2 DEF OutInv
  <2>2. CASE req[n].kind # "logout"
    <3>1. out' # 0 => out' = out /\ s.login # n /\ (s.login # 0 => ~(n <= out))
      BY <2>2 DEF Saved, After
    <3>2. n \in Nat /\ out \in Nat
      BY DEF TypeInv, TypeOK, Ids, Requests
    <3>3. out' # 0 => s.login = 0
      <4> SUFFICES ASSUME out' # 0, s.login # 0 PROVE FALSE
        OBVIOUS
      <4>1. n > out /\ out # 0 /\ s.login = req[n].sess.login
        BY <3>1, <3>2
      <4> QED
        BY <4>1 DEF OutInv
    <3> QED
      BY <3>1, <3>3 DEF OutInv
  <2> QED
    BY <2>1, <2>2
<1>5. UNCHANGED begun
  BY DEF Saved
<1> QED
  BY <1>2, <1>3, <1>4, <1>5 DEF OutInv

LEMMA BeginOut ==
  ASSUME TypeInv, OutInv, NEW n \in Requests, Begin(n)
  PROVE  OutInv'
<1>0. n = begun + 1 /\ Loaded \in Session /\ Empty \in Session /\ Empty.login = 0
  BY LoadedTyped, EmptyTyped DEF Begin, TypeInv, Empty
<1>1. CASE Reject(n)
  BY <1>0, <1>1, BeginsOut DEF Reject
<1>2. CASE Enter(n)
  BY <1>0, <1>2, BeginsOut DEF Enter
<1>3. CASE OidcEnd(n)
  <2>1. PICK claim \in Claims, pouta \in BOOLEAN :
          Begins(n, "oidc", None, 0, [Empty EXCEPT !.at = "fresh", !.oidc = TRUE, !.csc = claim],
                 IF pouta /\ ~NoMember(claim) THEN "pouta" ELSE "save", {})
    BY <1>3 DEF OidcEnd
  <2>2. PICK s : s = [Empty EXCEPT !.at = "fresh", !.oidc = TRUE, !.csc = claim]
    OBVIOUS
  <2>3. s.login = 0
    BY <1>0, <2>2 DEF Session
  <2>4. PICK pc \in {"pouta", "save"} : Begins(n, "oidc", None, 0, s, pc, {})
    BY <2>1, <2>2
  <2> QED
    BY <1>0, <2>3, <2>4, BeginsOut
<1>4. CASE Login(n)
  <2>1. /\ [Empty EXCEPT !.at = "fresh"].login = 0
        /\ [Loaded EXCEPT !.at = "fresh"].login = Loaded.login
    BY <1>0 DEF Session
  <2>2. CASE "oidc" \notin mode
    <3>1. PICK s : s = [Empty EXCEPT !.at = "fresh"]
      OBVIOUS
    <3>2. Begins(n, "login", None, 0, s, "avail", {}) /\ s.login = 0
      BY <1>4, <2>1, <2>2, <3>1 DEF Login
    <3> QED
      BY <1>0, <3>2, BeginsOut
  <2>3. CASE "oidc" \in mode
    <3>1. PICK s : s = [Loaded EXCEPT !.at = "fresh"]
      OBVIOUS
    <3>2. Begins(n, "login", None, LoadedKey, s, "avail", {}) /\ s.login = Loaded.login
      BY <1>4, <2>1, <2>3, <3>1 DEF Login
    <3> QED
      BY <1>0, <3>2, BeginsOut
  <2> QED
    BY <2>2, <2>3
<1>5. CASE Lock(n)
  <2>1. ASSUME NEW p
        PROVE  Locked(Loaded, p).login \in {0, Loaded.login}
    <3> DEFINE left == IF p \in Loaded.projects THEN {p}
                       ELSE {q \in Loaded.projects : "restricted" \notin mode}
               runner == [q \in Projects |-> IF q \in left THEN Loaded.runner[q] ELSE 0]
    <3>1. Locked(Loaded, p) = IF left = {} THEN Empty
            ELSE [Loaded EXCEPT !.projects = left, !.taint = FALSE, !.runner = runner]
      BY DEF Locked
    <3> HIDE DEF left, runner
    <3> QED
      BY <1>0, <3>1 DEF Session
  <2> QED
    BY <1>0, <1>5, <2>1, BeginsOut DEF Lock
<1>6. CASE Logout(n)
  BY <1>0, <1>6, BeginsOut DEF Logout
<1>7. CASE Runner(n)
  <2>1. PICK words : NeedsRunner(n, words)
    BY <1>7 DEF Runner, NamedCall, JobCall
  <2> QED
    BY <1>0, <2>1, BeginsOut DEF NeedsRunner
<1>8. CASE Close(n)
  BY <1>0, <1>8, BeginsOut DEF Close
<1>9. CASE Download(n)
  BY <1>0, <1>9, BeginsOut DEF Download
<1> QED
  BY <1>1, <1>2, <1>3, <1>4, <1>5, <1>6, <1>7, <1>8, <1>9 DEF Begin

LEMMA LoginOut ==
  ASSUME TypeInv, OutInv, NEW n \in Requests,
         \/ Save(n) \/ Pouta(n) \/ Avail(n) \/ Scope(n) \/ Denied(n) \/ LoggedIn(n)
         \/ LoginFails(n) \/ LoggedOut(n)
  PROVE  OutInv'
<1>0. PICK s \in Session : s = req[n].sess
  BY DEF TypeInv, TypeOK, Request
<1>1. /\ req[n] \in Request /\ req[n].kind # "none"
      /\ req[n].kind = "logout" <=> req[n].pc = "revoke"
      /\ ~(n > begun)
      /\ req[n].pc \in {"save", "pouta", "avail", "scope", "revoke"}
  BY DEF Save, Pouta, Avail, Scope, Denied, LoggedIn, LoginFails, LoggedOut,
         OutInv, TypeInv, TypeOK, Shape
<1>2. CASE /\ req[n].pc \in {"save", "pouta", "avail"}
           /\ Saved(n, req[n].sess)
  BY <1>0, <1>1, <1>2, SavedOut
<1>3. CASE Denied(n) \/ LoggedOut(n) \/ (LoggedIn(n) /\ req[n].sess.projects = {})
  <2>1. Saved(n, Empty) /\ Empty.login = 0
    BY <1>3 DEF Denied, LoggedOut, LoggedIn, Empty
  <2> QED
    BY <2>1, EmptyTyped, SavedOut
<1>4. CASE LoggedIn(n) /\ req[n].sess.projects # {}
  <2> DEFINE tainted == "restricted" \in mode
  <2>1. Saved(n, [s EXCEPT !.login = n, !.taint = tainted, !.part = FALSE])
    BY <1>0, <1>4 DEF LoggedIn
  <2>2. tainted \in BOOLEAN
    OBVIOUS
  <2> HIDE DEF tainted
  <2>3. PICK t : t = [s EXCEPT !.login = n, !.taint = tainted, !.part = FALSE]
    OBVIOUS
  <2>4. t \in Session /\ t.login = n
    BY <2>2, <2>3, RequestId DEF Session
  <2> QED
    BY <1>1, <1>4, <2>1, <2>3, <2>4, SavedOut DEF LoggedIn
<1>5. CASE LoginFails(n)
  <2>1. PICK t : t = [s EXCEPT !.part = TRUE]
    OBVIOUS
  <2>2. t \in Session /\ t.login = s.login /\ Saved(n, t)
    BY <1>0, <1>5, <2>1 DEF LoginFails, Session
  <2> QED
    BY <1>0, <1>1, <1>5, <2>2, SavedOut DEF LoginFails
<1>6. CASE req[n].pc = "pouta" /\ Fields(n, req[n].sess, "avail") /\ Sessions /\ History
  <2>1. PICK r : r = [req[n] EXCEPT !.sess = s, !.pc = "avail"]
    OBVIOUS
  <2>2. req' = [req EXCEPT ![n] = r]
    BY <1>0, <1>6, <2>1 DEF Fields, TypeInv, TypeOK
  <2>3. r.sess = s /\ r.pc = "avail" /\ r.kind = req[n].kind
    BY <1>1, <2>1 DEF Request
  <2> QED
    BY <1>0, <1>1, <1>6, <2>2, <2>3, GoesOnOut DEF Sessions, History
<1>7. ASSUME req[n].pc = "avail", NEW enabled, Sessions, History,
             req' = [req EXCEPT ![n].pc = "scope",
                       ![n].sess = [@ EXCEPT !.projects = {}, !.runner = NoRunner],
                       ![n].todo = IF req[n].sess.csc = None THEN enabled
                                   ELSE enabled \cap req[n].sess.csc]
      PROVE  OutInv'
  <2>1. PICK t, todo, r : /\ t = [s EXCEPT !.projects = {}, !.runner = NoRunner]
                          /\ todo = IF s.csc = None THEN enabled ELSE enabled \cap s.csc
                          /\ r = [req[n] EXCEPT !.pc = "scope", !.sess = t, !.todo = todo]
    OBVIOUS
  <2>2. req' = [req EXCEPT ![n] = r]
    BY <1>0, <1>1, <1>7, <2>1 DEF TypeInv, TypeOK, Request
  <2>3. r.sess.login = s.login /\ r.pc = "scope" /\ r.kind = req[n].kind
    BY <1>1, <2>1 DEF Request, Session
  <2> QED
    BY <1>0, <1>1, <1>7, <2>2, <2>3, GoesOnOut DEF Sessions, History
<1>8. CASE Scope(n)
  <2>0. PICK p \in req[n].todo : \E got \in {{}, {p}} :
          req' = [req EXCEPT ![n].todo = @ \ {p},
                    ![n].sess = [@ EXCEPT !.projects = req[n].sess.projects \cup got]]
    BY <1>8 DEF Scope
  <2>1. PICK got \in {{}, {p}} :
          req' = [req EXCEPT ![n].todo = @ \ {p},
                    ![n].sess = [@ EXCEPT !.projects = req[n].sess.projects \cup got]]
    BY <2>0
  <2>2. PICK t, r : /\ t = [s EXCEPT !.projects = s.projects \cup got]
                    /\ r = [req[n] EXCEPT !.todo = req[n].todo \ {p}, !.sess = t]
    OBVIOUS
  <2>3. req' = [req EXCEPT ![n] = r]
    BY <1>0, <1>1, <2>1, <2>2 DEF TypeInv, TypeOK, Request
  <2>4. r.sess.login = s.login /\ r.pc = req[n].pc /\ r.kind = req[n].kind
    BY <1>1, <2>2 DEF Request, Session
  <2> QED
    BY <1>0, <1>1, <1>8, <2>3, <2>4, GoesOnOut DEF Scope, Sessions, History
<1> QED
  BY <1>2, <1>3, <1>4, <1>5, <1>6, <1>7, <1>8 DEF Save, Pouta, Avail

LEMMA AwaitOut ==
  ASSUME TypeInv, OutInv, NEW n \in Requests,
         \/ Revoke(n) \/ LogoutFails(n)
         \/ RunnerEnter(n) \/ RunnerOpen(n) \/ RunnerFails(n) \/ RunnerLost(n)
         \/ RunnerClosed(n) \/ CloseFails(n)
         \/ Head(n) \/ HeadFails(n) \/ SetKey(n) \/ GiveUrl(n) \/ DownloadFails(n)
  PROVE  OutInv'
<1>0. PICK s \in Session : s = req[n].sess
  BY DEF TypeInv, TypeOK, Request
<1>1. /\ req[n] \in Request /\ req[n].kind # "none"
      /\ req[n].kind = "logout" <=> req[n].pc = "revoke"
      /\ ~(n > begun)
  BY DEF Revoke, LogoutFails, RunnerEnter, RunnerOpen, RunnerFails, RunnerLost, RunnerClosed,
         CloseFails, Head, HeadFails, SetKey, GiveUrl, DownloadFails, OutInv, TypeInv, TypeOK, Shape
<1>2. UNCHANGED <<cookie, store, out, begun>>
  BY DEF Revoke, LogoutFails, RunnerEnter, RunnerOpen, RunnerFails, RunnerLost, RunnerClosed,
         CloseFails, Head, HeadFails, SetKey, GiveUrl, DownloadFails, Fail, Sessions, History
<1>3. CASE Answer(n)
  BY <1>2, <1>3, AnswerOut
<1>4. CASE Revoke(n) \/ RunnerEnter(n) \/ Head(n) \/ HeadFails(n) \/ SetKey(n)
  <2>1. PICK r : /\ req' = [req EXCEPT ![n] = r] /\ r.sess = s /\ r.kind = req[n].kind
                 /\ r.pc = "revoke" <=> req[n].pc = "revoke"
    BY <1>0, <1>1, <1>4 DEF Revoke, RunnerEnter, Head, HeadFails, SetKey, TypeInv, TypeOK, Request
  <2> QED
    BY <1>0, <1>1, <1>2, <2>1, GoesOnOut
<1>5. ASSUME NEW p, NEW id, Fields(n, [req[n].sess EXCEPT !.runner[p] = id], "save"),
             req[n].pc # "revoke"
      PROVE  OutInv'
  <2>1. PICK t, r : /\ t = [s EXCEPT !.runner[p] = id]
                    /\ r = [req[n] EXCEPT !.sess = t, !.pc = "save"]
    OBVIOUS
  <2>2. req' = [req EXCEPT ![n] = r]
    BY <1>0, <1>5, <2>1 DEF Fields, TypeInv, TypeOK
  <2>3. r.sess.login = s.login /\ r.pc = "save" /\ r.kind = req[n].kind
    BY <1>1, <2>1 DEF Request, Session
  <2> QED
    BY <1>0, <1>1, <1>2, <1>5, <2>2, <2>3, GoesOnOut
<1> QED
  BY <1>3, <1>4, <1>5
  DEF LogoutFails, RunnerOpen, RunnerFails, RunnerLost, RunnerClosed, CloseFails, GiveUrl,
      DownloadFails, Fail

LEMMA OutNext == TypeInv /\ OutInv /\ [Next]_vars => OutInv'
<1> SUFFICES ASSUME TypeInv, OutInv, [Next]_vars PROVE OutInv'
  OBVIOUS
<1>1. CASE RunnerRestart
  BY <1>1 DEF RunnerRestart, Sessions, OutInv, Loaded
<1>2. CASE SessionsAge
  <2>1. UNCHANGED <<cookie, req, out, begun>>
    BY <1>2 DEF SessionsAge, History
  <2>2. \A k \in Requests : store'[k].login = store[k].login
    <3>1. ASSUME NEW k \in Requests
          PROVE  store'[k].login = store[k].login
      <4>1. PICK s \in Session : s = store[k]
        BY DEF TypeInv, TypeOK
      <4> QED
        BY <1>2, <4>1 DEF SessionsAge, Session
    <3> QED
      BY <3>1
  <2>3. cookie # 0 => cookie \in Requests
    BY DEF TypeInv, TypeOK, Ids, Requests
  <2>4. Loaded'.login = Loaded.login
    BY <2>1, <2>2, <2>3 DEF Loaded
  <2> QED
    BY <2>1, <2>4 DEF OutInv
<1>3. CASE UNCHANGED vars
  BY <1>3 DEF vars, OutInv, Loaded
<1> QED
  BY <1>1, <1>2, <1>3, BeginOut, LoginOut, AwaitOut DEF Next

\* A logout is final until the next login, but for the requests that were in
\* flight when it was answered: no request that begins later brings the old
\* session back, whatever overlaps and whatever is saved late.
THEOREM LogoutFinal == Spec => []LogoutEnds
<1>1. Init => OutInv
  BY DEF Init, OutInv, NoRequest, Empty
<1>2. OutInv => LogoutEnds
  BY DEF OutInv, LogoutEnds
<1> QED
  BY <1>1, <1>2, TypeInit, TypeNext, OutNext, PTL DEF Spec

-----------------------------------------------------------------------------
(* What the steps of the requests have in common for the rest: how a request  *)
(* begins, and how one that logs in or out, or that is over, goes on.         *)

\* The runner sessions that a session has.
Held(s) == {s.runner[p] : p \in Projects} \ {0}

Starts(kind, key, s, pc) ==
  /\ kind \in {"reject", "enter", "oidc", "login", "lock", "logout", "runner", "close",
               "download"}
  /\ pc \in {"save", "pouta", "avail", "revoke", "post", "delete", "head"}
  /\ pc = "head" => kind = "download"
  /\ pc = "delete" => kind = "close"
  /\ kind = "close" => pc \in {"delete", "save"}
  /\ pc = "post" => key # 0
  /\ Held(s) # {} => key = cookie /\ cookie \in Requests /\ Held(s) \subseteq Held(store[cookie])

LEMMA HeldTyped ==
  ASSUME NEW s \in Session
  PROVE  Held(s) \subseteq Requests
BY DEF Held, Session, Ids, Requests

LEMMA HeldIds ==
  ASSUME TypeInv
  PROVE  \A k \in Requests : Held(store[k]) \subseteq Requests /\ Held(req[k].sess) \subseteq Requests
<1>1. ASSUME NEW k \in Requests
      PROVE  store[k] \in Session /\ req[k].sess \in Session
  BY DEF TypeInv, TypeOK, Request
<1> QED
  BY <1>1, HeldTyped

LEMMA NoneHeld == Held(Empty) = {} /\ Empty \in Session
BY EmptyTyped DEF Held, Empty, NoRunner

LEMMA BeginStep ==
  ASSUME TypeInv, NEW n \in Requests, Begin(n)
  PROVE  \E kind, project, key, pc, todo : \E s \in Session :
           Begins(n, kind, project, key, s, pc, todo) /\ Starts(kind, key, s, pc)
<1>0. Loaded \in Session /\ Empty \in Session /\ Held(Empty) = {}
  BY LoadedTyped, NoneHeld DEF TypeInv
<1>1. Held(Loaded) # {} \/ Loaded.login # 0 =>
        LoadedKey = cookie /\ cookie \in Requests /\ Loaded = store[cookie]
  <2>1. Empty.login = 0
    BY DEF Empty
  <2>2. cookie # 0 => cookie \in Requests
    BY DEF TypeInv, TypeOK, Ids, Requests
  <2>3. CASE Loaded = Empty
    BY <1>0, <2>1, <2>3
  <2>4. CASE Loaded # Empty
    BY <2>2, <2>4 DEF Loaded, LoadedKey
  <2> QED
    BY <2>3, <2>4
<1>2. CASE Reject(n)
  BY <1>0, <1>2 DEF Reject, Starts
<1>3. CASE Enter(n)
  BY <1>0, <1>3 DEF Enter, Starts
<1>4. CASE OidcEnd(n)
  <2>1. PICK claim \in Claims, pouta \in BOOLEAN :
          Begins(n, "oidc", None, 0, [Empty EXCEPT !.at = "fresh", !.oidc = TRUE, !.csc = claim],
                 IF pouta /\ ~NoMember(claim) THEN "pouta" ELSE "save", {})
    BY <1>4 DEF OidcEnd
  <2>2. PICK s : s = [Empty EXCEPT !.at = "fresh", !.oidc = TRUE, !.csc = claim]
    OBVIOUS
  <2>3. s \in Session /\ s.runner = Empty.runner
    BY <1>0, <2>2, UiSessionAssumption DEF Session
  <2>4. PICK pc \in {"pouta", "save"} : Begins(n, "oidc", None, 0, s, pc, {})
    BY <2>1, <2>2
  <2>5. Starts("oidc", 0, s, pc)
    BY <1>0, <2>3 DEF Starts, Held
  <2> QED
    BY <2>3, <2>4, <2>5
<1>5. CASE Login(n)
  <2>1. PICK old, key :
          /\ old \in {Empty, Loaded}
          /\ Begins(n, "login", None, key, [old EXCEPT !.at = "fresh"], "avail", {})
          /\ old = Loaded => key = LoadedKey
          /\ old # Loaded => old = Empty
    <3>1. CASE "oidc" \in mode
      BY <1>5, <3>1 DEF Login
    <3>2. CASE "oidc" \notin mode
      <4>1. Begins(n, "login", None, 0, [Empty EXCEPT !.at = "fresh"], "avail", {})
        BY <1>5, <3>2 DEF Login
      <4>2. Empty = Loaded => LoadedKey = 0
        BY DEF LoadedKey
      <4> QED
        BY <4>1, <4>2
    <3> QED
      BY <3>1, <3>2
  <2>2. PICK s : s = [old EXCEPT !.at = "fresh"]
    OBVIOUS
  <2>3. s \in Session /\ s.runner = old.runner
    BY <1>0, <2>1, <2>2 DEF Session
  <2>4. Held(s) = Held(old)
    BY <2>3 DEF Held
  <2>5. Starts("login", key, s, "avail")
    BY <1>0, <1>1, <2>1, <2>4 DEF Starts
  <2> QED
    BY <2>1, <2>2, <2>3, <2>5
<1>6. CASE Lock(n)
  <2>1. PICK p \in Projects \cup {None} :
          Begins(n, "lock", p, LoadedKey, Locked(Loaded, p), "save", {})
    BY <1>6 DEF Lock
  <2>2. Locked(Loaded, p) \in Session
    BY <1>0, LockedTyped
  <2>3. Held(Locked(Loaded, p)) \subseteq Held(Loaded)
    <3> DEFINE left == IF p \in Loaded.projects THEN {p}
                       ELSE {q \in Loaded.projects : "restricted" \notin mode}
               runner == [q \in Projects |-> IF q \in left THEN Loaded.runner[q] ELSE 0]
               t == [Loaded EXCEPT !.projects = left, !.taint = FALSE, !.runner = runner]
    <3>1. Locked(Loaded, p) = IF left = {} THEN Empty ELSE t
      BY DEF Locked
    <3>2. t.runner = runner
      BY <1>0 DEF Session
    <3>3. \A q \in Projects : runner[q] \in {0, Loaded.runner[q]}
      OBVIOUS
    <3> HIDE DEF left, runner, t
    <3>4. Held(t) \subseteq Held(Loaded)
      BY <3>2, <3>3 DEF Held
    <3> QED
      BY <1>0, <3>1, <3>4
  <2>4. Starts("lock", LoadedKey, Locked(Loaded, p), "save")
    BY <1>1, <2>3 DEF Starts
  <2> QED
    BY <2>1, <2>2, <2>4
<1>7. CASE Logout(n)
  BY <1>0, <1>1, <1>7 DEF Logout, Starts
<1>8. CASE Runner(n)
  <2>1. PICK words : NeedsRunner(n, words)
    BY <1>8 DEF Runner, NamedCall, JobCall
  <2>2. PICK p \in Projects : Begins(n, "runner", p, LoadedKey, Loaded, "post", {})
    BY <2>1 DEF NeedsRunner
  <2>3. Loaded.login # 0
    BY <2>1 DEF NeedsRunner
  <2>4. Starts("runner", LoadedKey, Loaded, "post")
    BY <1>1, <2>3, RequestId DEF Starts
  <2> QED
    BY <1>0, <2>2, <2>4
<1>9. CASE Close(n)
  BY <1>0, <1>1, <1>9 DEF Close, Starts
<1>10. CASE Download(n)
  BY <1>0, <1>1, <1>10 DEF Download, Starts
<1> QED
  BY <1>0, <1>2, <1>3, <1>4, <1>5, <1>6, <1>7, <1>8, <1>9, <1>10 DEF Begin

\* A login or a logout saves no runner session that its copy does not have.
GoesOn(n) ==
  /\ UNCHANGED <<cookie, store, runners, tempkey, urls, calm>>
  /\ req[n].pc \in {"pouta", "avail", "scope", "revoke"}
  /\ \E r \in Request : /\ req' = [req EXCEPT ![n] = r] /\ r.pc \in {"avail", "scope", "revoke"}
                       /\ r.kind = req[n].kind /\ r.key = req[n].key
                       /\ Held(r.sess) \subseteq Held(req[n].sess)

LEMMA LoginStep ==
  ASSUME TypeInv, FitInv, NEW n \in Requests,
         \/ Save(n) \/ Pouta(n) \/ Avail(n) \/ Scope(n) \/ Denied(n) \/ LoggedIn(n)
         \/ LoginFails(n) \/ Revoke(n) \/ LoggedOut(n)
  PROVE  \/ GoesOn(n)
         \/ \E s \in Session : Saved(n, s) /\ Held(s) \subseteq Held(req[n].sess)
<1>0. PICK s \in Session : s = req[n].sess
  BY DEF TypeInv, TypeOK, Request
<1>1. req[n] \in Request /\ Empty \in Session /\ Held(Empty) = {}
  BY NoneHeld DEF TypeInv, TypeOK
<1>2. CASE Saved(n, req[n].sess) \/ Saved(n, Empty)
  BY <1>0, <1>1, <1>2
<1>3. CASE LoggedIn(n) /\ req[n].sess.projects # {}
  <2> DEFINE tainted == "restricted" \in mode
  <2>1. Saved(n, [s EXCEPT !.login = n, !.taint = tainted, !.part = FALSE])
    BY <1>0, <1>3 DEF LoggedIn
  <2>2. tainted \in BOOLEAN
    OBVIOUS
  <2> HIDE DEF tainted
  <2>3. PICK t : t = [s EXCEPT !.login = n, !.taint = tainted, !.part = FALSE]
    OBVIOUS
  <2>4. t \in Session /\ t.runner = s.runner
    BY <2>2, <2>3, RequestId DEF Session
  <2> QED
    BY <1>0, <2>1, <2>3, <2>4 DEF Held
<1>4. CASE LoginFails(n)
  <2>1. PICK t : t = [s EXCEPT !.part = TRUE]
    OBVIOUS
  <2>2. t \in Session /\ t.runner = s.runner /\ Saved(n, t)
    BY <1>0, <1>4, <2>1 DEF LoginFails, Session
  <2> QED
    BY <1>0, <2>2 DEF Held
<1>5. CASE /\ req[n].pc = "pouta" /\ Fields(n, req[n].sess, "avail")
           /\ Sessions /\ Accounts /\ History
  <2>1. PICK r : r = [req[n] EXCEPT !.sess = s, !.pc = "avail"]
    OBVIOUS
  <2>2. req' = [req EXCEPT ![n] = r]
    BY <1>0, <1>5, <2>1 DEF Fields, TypeInv, TypeOK
  <2>3. r \in Request /\ r.sess = s /\ r.pc = "avail" /\ r.kind = req[n].kind /\ r.key = req[n].key
    BY <1>1, <2>1 DEF Request
  <2> QED
    BY <1>0, <1>5, <2>2, <2>3 DEF GoesOn, Sessions, Accounts, History
<1>6. ASSUME req[n].pc = "avail", NEW enabled \in SUBSET Projects, Sessions, Accounts, History,
             req' = [req EXCEPT ![n].pc = "scope",
                       ![n].sess = [@ EXCEPT !.projects = {}, !.runner = NoRunner],
                       ![n].todo = IF req[n].sess.csc = None THEN enabled
                                   ELSE enabled \cap req[n].sess.csc]
      PROVE  GoesOn(n)
  <2>1. PICK t, todo, r : /\ t = [s EXCEPT !.projects = {}, !.runner = NoRunner]
                          /\ todo = IF s.csc = None THEN enabled ELSE enabled \cap s.csc
                          /\ r = [req[n] EXCEPT !.pc = "scope", !.sess = t, !.todo = todo]
    OBVIOUS
  <2>2. req' = [req EXCEPT ![n] = r]
    BY <1>0, <1>1, <1>6, <2>1 DEF TypeInv, TypeOK, Request
  <2>3. t \in Session /\ t.runner = NoRunner /\ todo \subseteq Projects
    BY <1>6, <2>1, NoRunnerTyped DEF Session
  <2>4. r \in Request /\ r.sess = t /\ r.pc = "scope" /\ r.kind = req[n].kind /\ r.key = req[n].key
    BY <1>1, <2>1, <2>3 DEF Request
  <2>5. Held(t) = {}
    BY <2>3 DEF Held, NoRunner
  <2> QED
    BY <1>6, <2>2, <2>4, <2>5 DEF GoesOn, Sessions, Accounts, History
<1>7. CASE Scope(n)
  <2>0. PICK p \in req[n].todo : \E got \in {{}, {p}} :
          req' = [req EXCEPT ![n].todo = @ \ {p},
                    ![n].sess = [@ EXCEPT !.projects = req[n].sess.projects \cup got]]
    BY <1>7 DEF Scope
  <2>1. PICK got \in {{}, {p}} :
          req' = [req EXCEPT ![n].todo = @ \ {p},
                    ![n].sess = [@ EXCEPT !.projects = req[n].sess.projects \cup got]]
    BY <2>0
  <2>2. PICK t, r : /\ t = [s EXCEPT !.projects = s.projects \cup got]
                    /\ r = [req[n] EXCEPT !.todo = req[n].todo \ {p}, !.sess = t]
    OBVIOUS
  <2>3. req' = [req EXCEPT ![n] = r]
    BY <1>0, <1>1, <2>1, <2>2 DEF TypeInv, TypeOK, Request
  <2>4. p \in Projects
    BY <1>1, <2>1 DEF Request
  <2>5. t \in Session /\ t.runner = s.runner
    BY <2>1, <2>2, <2>4 DEF Session
  <2>6. r \in Request /\ r.sess = t /\ r.pc = "scope" /\ r.kind = req[n].kind /\ r.key = req[n].key
    BY <1>1, <1>7, <2>2, <2>5 DEF Request, Scope
  <2>7. /\ UNCHANGED <<cookie, store, runners, tempkey, urls, calm>> /\ req[n].pc = "scope"
        /\ Held(t) = Held(s)
    BY <1>7, <2>5 DEF Scope, Sessions, Accounts, History, Held
  <2> QED
    BY <1>0, <2>3, <2>6, <2>7 DEF GoesOn
<1>8. CASE Revoke(n)
  <2>1. PICK p : req' = [req EXCEPT ![n] = [req[n] EXCEPT !.todo = req[n].todo \ {p}]]
    BY <1>8 DEF Revoke
  <2>2. PICK r : r = [req[n] EXCEPT !.todo = req[n].todo \ {p}]
    OBVIOUS
  <2>3. r \in Request /\ r.sess = s /\ r.pc = req[n].pc /\ r.kind = req[n].kind /\ r.key = req[n].key
    BY <1>0, <1>1, <2>2 DEF Request
  <2> QED
    BY <1>0, <1>8, <2>1, <2>2, <2>3 DEF GoesOn, Revoke, Sessions, Accounts, History
<1> QED
  BY <1>2, <1>3, <1>4, <1>5, <1>6, <1>7, <1>8
  DEF Save, Pouta, Avail, Denied, LoggedIn, LoggedOut

-----------------------------------------------------------------------------
(* Temporary URLs: while no two requests for one overlap, the key that one is *)
(* given with is the one that its account has, and it keeps it.              *)

UrlInv ==
  /\ \A n \in Requests : req[n].pc \in {"head", "setkey", "object"} => req[n].kind = "download"
  /\ calm =>
       /\ \A m, n \in Requests : req[m].kind = "download" /\ req[n].kind = "download" => m = n
       /\ \A n \in Requests :
            LET k == tempkey[req[n].project]
            IN  /\ req[n].pc = "setkey" => k = 0 /\ req[n].tempkey # 0
                /\ req[n].pc = "object" => k # 0 /\ req[n].tempkey = k
       /\ \A u \in urls : u.key # 0 /\ Verifies(u)

\* A request that is over, or goes on with something else.
LEMMA OtherUrls ==
  ASSUME TypeInv, UrlInv, NEW n \in Requests, NEW r, req' = [req EXCEPT ![n] = r],
         r.kind \in {"none", req[n].kind}, r.pc \notin {"head", "setkey", "object"},
         tempkey' = tempkey, urls' \subseteq urls, calm' => calm
  PROVE  UrlInv'
<1>1. req'[n] = r /\ \A m \in Requests \ {n} : req'[m] = req[m]
  BY DEF TypeInv, TypeOK
<1> QED
  BY <1>1 DEF UrlInv, Verifies

LEMMA OverUrls ==
  ASSUME TypeInv, UrlInv, NEW n \in Requests, Answer(n),
         tempkey' = tempkey, urls' \subseteq urls, calm' => calm
  PROVE  UrlInv'
<1>1. NoRequest.kind = "none" /\ NoRequest.pc = "none"
  BY DEF NoRequest
<1> QED
  BY <1>1, OtherUrls DEF Answer

LEMMA BeginUrls ==
  ASSUME TypeInv, UrlInv, NEW n \in Requests, Begin(n)
  PROVE  UrlInv'
<1>1. PICK kind, project, key, pc, todo :
        \E s \in Session : Begins(n, kind, project, key, s, pc, todo) /\ Starts(kind, key, s, pc)
  BY BeginStep
<1>2. PICK s \in Session : Begins(n, kind, project, key, s, pc, todo) /\ Starts(kind, key, s, pc)
  BY <1>1
<1>3. /\ req'[n].kind = kind /\ req'[n].pc = pc
      /\ \A m \in Requests \ {n} : req'[m] = req[m]
      /\ UNCHANGED <<tempkey, urls>> /\ calm' = (calm /\ ~Collides(kind))
  BY <1>2 DEF Begins, Accounts, TypeInv, TypeOK
<1>4. pc \notin {"setkey", "object"} /\ (pc = "head" => kind = "download")
  BY <1>2 DEF Starts
<1>5. calm' /\ kind = "download" => \A m \in Requests : req[m].kind # "download"
  BY <1>3 DEF Collides, InFlight
<1> QED
  BY <1>3, <1>4, <1>5 DEF UrlInv, Verifies

\* The steps of a request for a URL.
LEMMA DownloadUrls ==
  ASSUME TypeInv, UrlInv, NEW n \in Requests,
         Head(n) \/ HeadFails(n) \/ SetKey(n) \/ GiveUrl(n)
  PROVE  UrlInv'
<1>0. /\ req[n] \in Request /\ req[n].pc \in {"head", "setkey", "object"}
      /\ req[n].kind = "download" /\ n # 0
  BY RequestId DEF Head, HeadFails, SetKey, GiveUrl, UrlInv, TypeInv, TypeOK
<1>1. PICK p \in Projects : p = req[n].project
  BY <1>0 DEF TypeInv, Shape
<1>2. calm => \A m \in Requests \ {n} : req[m].pc \notin {"head", "setkey", "object"}
  BY <1>0 DEF UrlInv
<1>3. CASE Head(n) \/ HeadFails(n)
  <2>0. UNCHANGED <<tempkey, urls>> /\ (calm' => calm)
    BY <1>3 DEF Head, HeadFails, Accounts, History
  <2>1. PICK k, pc : /\ \/ pc = "object" /\ k = tempkey[p] /\ k # 0
                        \/ pc = "setkey" /\ k = n /\ (calm' => tempkey[p] = 0)
                     /\ req' = [req EXCEPT ![n].pc = pc, ![n].tempkey = k]
    <3>1. CASE Head(n) /\ tempkey[p] # 0
      BY <1>1, <3>1 DEF Head
    <3>2. CASE Head(n) /\ tempkey[p] = 0
      BY <1>1, <3>2 DEF Head
    <3>3. CASE HeadFails(n)
      BY <3>3 DEF HeadFails
    <3> QED
      BY <1>3, <3>1, <3>2, <3>3
  <2>2. PICK r : r = [req[n] EXCEPT !.pc = pc, !.tempkey = k]
    OBVIOUS
  <2>3. req'[n] = r /\ \A m \in Requests \ {n} : req'[m] = req[m]
    BY <1>0, <2>1, <2>2 DEF TypeInv, TypeOK
  <2>4. r.pc = pc /\ r.tempkey = k /\ r.kind = "download" /\ r.project = p
    BY <1>0, <1>1, <2>2 DEF Request
  <2>5. \A m \in Requests : req'[m].kind = "download" => req[m].kind = "download"
    BY <1>0, <2>3
  <2>6. calm' => \A m \in Requests \ {n} : req'[m].pc \notin {"setkey", "object"}
    BY <1>2, <2>0, <2>3
  <2>7. calm' => /\ r.pc = "setkey" => tempkey[p] = 0 /\ r.tempkey # 0
                 /\ r.pc = "object" => tempkey[p] # 0 /\ r.tempkey = tempkey[p]
    BY <1>0, <2>1, <2>4
  <2>8. calm' => \A m \in Requests :
          LET key == tempkey'[req'[m].project]
          IN  /\ req'[m].pc = "setkey" => key = 0 /\ req'[m].tempkey # 0
              /\ req'[m].pc = "object" => key # 0 /\ req'[m].tempkey = key
    BY <2>0, <2>3, <2>4, <2>6, <2>7
  <2>9. \A m \in Requests : req'[m].pc \in {"head", "setkey", "object"} => req'[m].kind = "download"
    BY <2>3, <2>4 DEF UrlInv
  <2> QED
    BY <2>0, <2>5, <2>8, <2>9 DEF UrlInv, Verifies
<1>4. CASE SetKey(n)
  <2>1. PICK r : r = [req[n] EXCEPT !.pc = "object"]
    OBVIOUS
  <2>2. req' = [req EXCEPT ![n] = r]
    BY <1>4, <2>1 DEF SetKey, TypeInv, TypeOK
  <2>3. /\ r.pc = "object" /\ r.tempkey = req[n].tempkey /\ r.kind = "download" /\ r.project = p
        /\ req'[n] = r /\ \A m \in Requests \ {n} : req'[m] = req[m]
    BY <1>0, <1>1, <2>1, <2>2 DEF Request, TypeInv, TypeOK
  <2>4. /\ tempkey'[p] = req[n].tempkey /\ \A q \in Projects \ {p} : tempkey'[q] = tempkey[q]
        /\ UNCHANGED <<urls, calm>>
    BY <1>1, <1>4 DEF SetKey, History, TypeInv, TypeOK
  <2>5. calm => tempkey[p] = 0 /\ req[n].tempkey # 0
    BY <1>1, <1>4 DEF SetKey, UrlInv
  <2>6. \A u \in urls : u.project \in Projects
    BY DEF TypeInv, TypeOK
  <2>7. calm => \A u \in urls : u.key # 0 /\ u.key = tempkey'[u.project]
    BY <2>4, <2>5, <2>6 DEF UrlInv, Verifies
  <2> QED
    BY <1>0, <1>2, <2>3, <2>4, <2>5, <2>7 DEF UrlInv, Verifies
<1>5. CASE GiveUrl(n)
  <2>1. /\ req'[n].kind = "none" /\ req'[n].pc = "none"
        /\ \A m \in Requests \ {n} : req'[m] = req[m]
    BY <1>5 DEF GiveUrl, Answer, NoRequest, TypeInv, TypeOK
  <2>2. /\ UNCHANGED <<tempkey, calm>>
        /\ urls' = urls \cup {[project |-> p, key |-> req[n].tempkey]}
    BY <1>1, <1>5 DEF GiveUrl, History
  <2>3. calm => req[n].tempkey # 0 /\ req[n].tempkey = tempkey[p]
    BY <1>1, <1>5 DEF GiveUrl, UrlInv
  <2>4. calm => \A u \in urls' : u.key # 0 /\ u.key = tempkey[u.project]
    BY <2>2, <2>3 DEF UrlInv, Verifies
  <2> QED
    BY <2>1, <2>2, <2>4 DEF UrlInv, Verifies
<1> QED
  BY <1>3, <1>4, <1>5

LEMMA RunnerUrls ==
  ASSUME TypeInv, UrlInv, NEW n \in Requests,
         \/ LogoutFails(n) \/ RunnerFails(n) \/ RunnerLost(n) \/ DownloadFails(n)
         \/ RunnerEnter(n) \/ RunnerOpen(n) \/ RunnerClosed(n) \/ CloseFails(n)
  PROVE  UrlInv'
<1>1. UNCHANGED <<tempkey, urls>> /\ (calm' => calm)
  <2>1. UNCHANGED <<tempkey, urls>>
    BY DEF LogoutFails, RunnerFails, RunnerLost, DownloadFails, Fail, RunnerEnter, RunnerOpen,
           RunnerClosed, CloseFails, Accounts
  <2>2. calm' = calm \/ calm' = FALSE
    BY DEF LogoutFails, RunnerFails, RunnerLost, DownloadFails, Fail, RunnerEnter, RunnerOpen,
           RunnerClosed, CloseFails, History
  <2> QED
    BY <2>1, <2>2
<1>2. CASE Answer(n)
  BY <1>1, <1>2, OverUrls
<1>3. ASSUME NEW s, Fields(n, s, "save")
      PROVE  UrlInv'
  <2>1. PICK r : r = [req[n] EXCEPT !.sess = s, !.pc = "save"]
    OBVIOUS
  <2>2. req' = [req EXCEPT ![n] = r]
    BY <1>3, <2>1 DEF Fields, TypeInv, TypeOK
  <2>3. r.pc = "save" /\ r.kind = req[n].kind
    BY <2>1 DEF TypeInv, TypeOK, Request
  <2> QED
    BY <1>1, <2>2, <2>3, OtherUrls
<1>4. CASE RunnerEnter(n)
  <2>1. PICK r : r = [req[n] EXCEPT !.pc = "scoping"]
    OBVIOUS
  <2>2. req' = [req EXCEPT ![n] = r]
    BY <1>4, <2>1 DEF RunnerEnter
  <2>3. r.pc = "scoping" /\ r.kind = req[n].kind
    BY <2>1 DEF TypeInv, TypeOK, Request
  <2> QED
    BY <1>1, <2>2, <2>3, OtherUrls
<1> QED
  BY <1>2, <1>3, <1>4
  DEF LogoutFails, RunnerFails, RunnerLost, DownloadFails, Fail, RunnerOpen, RunnerClosed,
      CloseFails

LEMMA UrlNext == TypeInv /\ FitInv /\ UrlInv /\ [Next]_vars => UrlInv'
<1> SUFFICES ASSUME TypeInv, FitInv, UrlInv, [Next]_vars PROVE UrlInv'
  OBVIOUS
<1>1. ASSUME NEW n \in Requests,
             \/ Save(n) \/ Pouta(n) \/ Avail(n) \/ Scope(n) \/ Denied(n) \/ LoggedIn(n)
             \/ LoginFails(n) \/ Revoke(n) \/ LoggedOut(n)
      PROVE  UrlInv'
  <2>1. CASE GoesOn(n)
    BY <2>1, OtherUrls DEF GoesOn
  <2>2. ASSUME NEW s, Saved(n, s)
        PROVE  UrlInv'
    BY <2>2, OverUrls DEF Saved, Accounts
  <2> QED
    BY <1>1, <2>1, <2>2, LoginStep
<1>2. CASE RunnerRestart
  BY <1>2 DEF RunnerRestart, UrlInv
<1>3. CASE SessionsAge
  BY <1>3 DEF SessionsAge, History, UrlInv
<1>4. CASE UNCHANGED vars
  BY <1>4 DEF vars, UrlInv, Verifies
<1> QED
  BY <1>1, <1>2, <1>3, <1>4, BeginUrls, DownloadUrls, RunnerUrls DEF Next

\* A temporary URL works as long as it lives, when requests for one did not
\* overlap and the keys of the account could be read: no request replaces a key
\* that another one's URL was signed with.
THEOREM UrlsVerify == Spec => []UrlsWork
<1>1. Init => UrlInv
  BY DEF Init, NoRequest, UrlInv
<1>2. UrlInv => UrlsWork
  BY DEF UrlInv, UrlsWork
<1> QED
  BY <1>1, <1>2, TypeInit, TypeNext, FitInit, FitNext, UrlNext, PTL DEF Spec

-----------------------------------------------------------------------------
(* Runner sessions that are alive: each belongs to the one session of a       *)
(* browser that a request opened it for, so that closing it there takes it    *)
(* from no other.                                                            *)

Owned ==
  \E own \in [Requests -> Requests] :
    /\ \A k \in Requests : \A r \in Held(store[k]) : own[r] = k
    /\ \A n \in Requests : \A r \in Held(req[n].sess) : own[r] = req[n].key

\* What a session holds has been opened, and only requests that close a runner
\* session delete it.
KindInv ==
  \A n \in Requests :
    /\ \A r \in Held(store[n]) \cup Held(req[n].sess) : runners[r].state \in {"open", "closed"}
    /\ req[n].pc \in {"post", "scoping"} => req[n].key # 0
    /\ req[n].kind = "none" => Held(req[n].sess) = {}
    /\ req[n].kind = "close" => req[n].pc \in {"delete", "save"}
    /\ req[n].pc = "delete" => req[n].kind = "close"

Closing(k) == \E n \in Requests : req[n].kind = "close" /\ req[n].key = k

AliveInv ==
  calm =>
    /\ \A m, n \in Requests : req[m].kind = "close" /\ InFlight(n) => m = n
    /\ \A n \in Requests : \A r \in Held(req[n].sess) : runners[r].state = "open"
    /\ \A k \in Requests : \A r \in Held(store[k]) : runners[r].state = "open" \/ Closing(k)

HolderInv == Owned /\ KindInv /\ AliveInv

LEMMA NoneAlive ==
  /\ NoRequest.kind = "none" /\ NoRequest.pc = "none" /\ Held(NoRequest.sess) = {}
BY NoneHeld DEF NoRequest

\* A step of request n that hands runner sessions only between its copy and the
\* session that the copy is of, and forgets none that was opened.
LEMMA StepHolds ==
  ASSUME TypeInv, Owned, KindInv, NEW n \in Requests,
         \A m \in Requests \ {n} : req'[m] = req[m],
         \A r \in Requests : runners[r].state \in {"open", "closed"} =>
                             runners'[r].state \in {"open", "closed"},
         \A r \in Held(req'[n].sess) :
           \/ r \in Held(req[n].sess) /\ req'[n].key = req[n].key
           \/ \E k \in Requests : req'[n].key = k /\ r \in Held(store[k]),
         \A k \in Requests : \A r \in Held(store'[k]) :
           r \in Held(store[k]) \/ (r \in Held(req[n].sess) /\ req[n].key = k),
         req'[n].pc \in {"post", "scoping"} => req'[n].key # 0,
         req'[n].kind = "none" => Held(req'[n].sess) = {},
         req'[n].kind = "close" => req'[n].pc \in {"delete", "save"},
         req'[n].pc = "delete" => req'[n].kind = "close"
  PROVE  Owned' /\ KindInv'
<1>1. \A k \in Requests : Held(store[k]) \subseteq Requests /\ Held(req[k].sess) \subseteq Requests
  BY HeldIds
<1>2. Owned'
  <2>1. PICK own \in [Requests -> Requests] :
          /\ \A k \in Requests : \A r \in Held(store[k]) : own[r] = k
          /\ \A m \in Requests : \A r \in Held(req[m].sess) : own[r] = req[m].key
    BY DEF Owned
  <2>2. \A k \in Requests : \A r \in Held(store'[k]) : own[r] = k
    BY <2>1
  <2>3. \A r \in Held(req'[n].sess) : own[r] = req'[n].key
    BY <2>1
  <2>4. \A m \in Requests : \A r \in Held(req'[m].sess) : own[r] = req'[m].key
    BY <2>1, <2>3
  <2>5. \E o \in [Requests -> Requests] :
          /\ \A k \in Requests : \A r \in Held(store'[k]) : o[r] = k
          /\ \A m \in Requests : \A r \in Held(req'[m].sess) : o[r] = req'[m].key
    BY <2>1, <2>2, <2>4
  <2> QED
    BY <2>5 DEF Owned, Held
<1>3. KindInv'
  <2>1. \A m \in Requests :
          \A r \in Held(store'[m]) \cup Held(req'[m].sess) : runners'[r].state \in {"open", "closed"}
    BY <1>1 DEF KindInv
  <2>2. \A m \in Requests :
          /\ req'[m].pc \in {"post", "scoping"} => req'[m].key # 0
          /\ req'[m].kind = "none" => Held(req'[m].sess) = {}
          /\ req'[m].kind = "close" => req'[m].pc \in {"delete", "save"}
          /\ req'[m].pc = "delete" => req'[m].kind = "close"
    BY DEF KindInv
  <2> QED
    BY <2>1, <2>2 DEF KindInv, Held
<1> QED
  BY <1>2, <1>3

LEMMA BeginHolds ==
  ASSUME TypeInv, FitInv, HolderInv, NEW n \in Requests, Begin(n)
  PROVE  HolderInv'
<1>1. PICK kind, project, key, pc, todo :
        \E s \in Session : Begins(n, kind, project, key, s, pc, todo) /\ Starts(kind, key, s, pc)
  BY BeginStep
<1>2. PICK s \in Session : Begins(n, kind, project, key, s, pc, todo) /\ Starts(kind, key, s, pc)
  BY <1>1
<1>3. PICK r : r = [kind |-> kind, project |-> project, pc |-> pc, key |-> key,
                    sess |-> s, todo |-> todo, tempkey |-> 0]
  OBVIOUS
<1>4. req' = [req EXCEPT ![n] = r]
  BY <1>2, <1>3 DEF Begins
<1>5. /\ req'[n] = r /\ r.kind = kind /\ r.pc = pc /\ r.key = key /\ r.sess = s
      /\ \A m \in Requests \ {n} : req'[m] = req[m]
  BY <1>3, <1>4 DEF TypeInv, TypeOK
<1>6. UNCHANGED <<store, runners>> /\ calm' = (calm /\ ~Collides(kind))
  BY <1>2 DEF Begins, Accounts
<1>7. /\ kind # "none" /\ pc # "scoping" /\ (pc = "post" => key # 0)
      /\ (kind = "close" => pc \in {"delete", "save"}) /\ (pc = "delete" => kind = "close")
      /\ Held(s) # {} => /\ key = cookie /\ cookie \in Requests
                        /\ Held(s) \subseteq Held(store[cookie])
  BY <1>2 DEF Starts
<1>8. req[n].kind = "none"
  <2>1. begun \in Nat
    BY UiSessionAssumption DEF TypeInv, TypeOK, Ids
  <2> QED
    BY <2>1 DEF Begin, FitInv, CopyFits, TypeInv, Shape
<1>9. \A x \in Held(s) : \E k \in Requests : key = k /\ x \in Held(store[k])
  BY <1>7
<1>10. \A k \in Requests : Held(store'[k]) = Held(store[k])
  BY <1>6
<1>11. Owned' /\ KindInv'
  BY <1>5, <1>6, <1>7, <1>9, <1>10, StepHolds DEF HolderInv
<1>12. AliveInv'
  <2> SUFFICES ASSUME calm' = TRUE
               PROVE  /\ \A m, k \in Requests : req'[m].kind = "close" /\ req'[k].kind # "none" => m = k
                      /\ \A m \in Requests : \A x \in Held(req'[m].sess) : runners'[x].state = "open"
                      /\ \A k \in Requests : \A x \in Held(store'[k]) :
                           runners'[x].state = "open" \/ Closing(k)'
    BY DEF AliveInv, InFlight, Held
  <2>1. calm /\ ~Collides(kind)
    BY <1>6
  <2>2. /\ \A m \in Requests : req[m].kind # "close"
        /\ kind = "close" => \A m \in Requests : req[m].kind = "none"
    BY <2>1 DEF Collides, InFlight
  <2>3. \A k \in Requests : \A x \in Held(store[k]) : runners[x].state = "open"
    BY <2>1, <2>2 DEF HolderInv, AliveInv, Closing
  <2>4. \A m, k \in Requests : req'[m].kind = "close" /\ req'[k].kind # "none" => m = k
    BY <1>5, <2>2
  <2>5. \A m \in Requests : \A x \in Held(req'[m].sess) : runners'[x].state = "open"
    BY <1>5, <1>6, <1>9, <2>1, <2>3 DEF HolderInv, AliveInv
  <2> QED
    BY <1>6, <1>10, <2>3, <2>4, <2>5
<1> QED
  BY <1>11, <1>12 DEF HolderInv

\* A request that is over and has saved nothing; one that closes a runner
\* session ends so only when it fails.
LEMMA AnswerHolds ==
  ASSUME TypeInv, HolderInv, NEW n \in Requests, Answer(n), UNCHANGED store,
         \A r \in Requests : runners[r].state \in {"open", "closed"} =>
                             runners'[r].state \in {"open", "closed"},
         calm' => /\ calm /\ req[n].kind # "close"
                  /\ \A r \in Requests : runners[r].state = "open" => runners'[r].state = "open"
  PROVE  HolderInv'
<1>1. /\ req'[n] = NoRequest
      /\ \A m \in Requests \ {n} : req'[m] = req[m]
  BY DEF Answer, TypeInv, TypeOK
<1>2. \A k \in Requests : Held(store[k]) \subseteq Requests /\ Held(req[k].sess) \subseteq Requests
  BY HeldIds
<1>3. Owned' /\ KindInv'
  BY <1>1, NoneAlive, StepHolds DEF HolderInv
<1>4. AliveInv'
  <2> SUFFICES ASSUME calm'
               PROVE  /\ \A m, k \in Requests : req'[m].kind = "close" /\ req'[k].kind # "none" => m = k
                      /\ \A m \in Requests : \A x \in Held(req'[m].sess) : runners'[x].state = "open"
                      /\ \A k \in Requests : \A x \in Held(store'[k]) :
                           \/ runners'[x].state = "open"
                           \/ \E m \in Requests : req'[m].kind = "close" /\ req'[m].key = k
    BY DEF AliveInv, InFlight, Held, Closing
  <2>1. /\ \A m, k \in Requests : req[m].kind = "close" /\ req[k].kind # "none" => m = k
        /\ \A m \in Requests : \A x \in Held(req[m].sess) : runners[x].state = "open"
        /\ \A k \in Requests : \A x \in Held(store[k]) :
             \/ runners[x].state = "open"
             \/ \E m \in Requests : req[m].kind = "close" /\ req[m].key = k
    BY DEF HolderInv, AliveInv, InFlight, Closing
  <2>2. \A m, k \in Requests : req'[m].kind = "close" /\ req'[k].kind # "none" => m = k
    BY <1>1, <2>1, NoneAlive
  <2>3. \A m \in Requests : \A x \in Held(req'[m].sess) : runners'[x].state = "open"
    BY <1>1, <1>2, <2>1, NoneAlive
  <2>4. \A k \in Requests : \A x \in Held(store'[k]) :
          \/ runners'[x].state = "open"
          \/ \E m \in Requests : req'[m].kind = "close" /\ req'[m].key = k
    BY <1>1, <1>2, <2>1
  <2> QED
    BY <2>2, <2>3, <2>4
<1> QED
  BY <1>3, <1>4 DEF HolderInv

\* A request that saves what it has of runner sessions.
LEMMA SavedHolds ==
  ASSUME TypeInv, HolderInv, NEW n \in Requests, NEW s \in Session, Saved(n, s),
         Held(s) \subseteq Held(req[n].sess)
  PROVE  HolderInv'
<1> DEFINE k0 == IF req[n].key = 0 THEN n ELSE req[n].key
<1>1. /\ req'[n] = NoRequest
      /\ \A m \in Requests \ {n} : req'[m] = req[m]
      /\ UNCHANGED runners /\ calm' = calm
  BY DEF Saved, Answer, Accounts, TypeInv, TypeOK
<1>2. k0 \in Requests /\ req[n].key \in {0, k0}
  BY UiSessionAssumption DEF TypeInv, TypeOK, Request, Requests, Ids
<1>3. store' = [store EXCEPT ![k0] = s]
  BY DEF Saved
<1> HIDE DEF k0
<1>4. /\ store'[k0] = s
      /\ \A k \in Requests \ {k0} : store'[k] = store[k]
  BY <1>2, <1>3 DEF TypeInv, TypeOK
<1>5. Held(s) # {} => req[n].key = k0
  <2>1. req[n].sess \in Session
    BY DEF TypeInv, TypeOK, Request
  <2>2. Held(s) # {} => req[n].key \in Requests
    BY <2>1, HeldTyped DEF HolderInv, Owned
  <2> QED
    BY <1>2, <2>2, RequestId
<1>6. \A k \in Requests : \A r \in Held(store'[k]) :
        r \in Held(store[k]) \/ (r \in Held(req[n].sess) /\ req[n].key = k)
  BY <1>4, <1>5
<1>7. Owned' /\ KindInv'
  BY <1>1, <1>6, NoneAlive, StepHolds DEF HolderInv
<1>8. AliveInv'
  <2> SUFFICES ASSUME calm
               PROVE  /\ \A m, k \in Requests : req'[m].kind = "close" /\ req'[k].kind # "none" => m = k
                      /\ \A m \in Requests : \A x \in Held(req'[m].sess) : runners[x].state = "open"
                      /\ \A k \in Requests : \A x \in Held(store'[k]) :
                           \/ runners[x].state = "open"
                           \/ \E m \in Requests : req'[m].kind = "close" /\ req'[m].key = k
    BY <1>1 DEF AliveInv, InFlight, Held, Closing
  <2>1. /\ \A m, k \in Requests : req[m].kind = "close" /\ req[k].kind # "none" => m = k
        /\ \A m \in Requests : \A x \in Held(req[m].sess) : runners[x].state = "open"
        /\ \A k \in Requests : \A x \in Held(store[k]) :
             \/ runners[x].state = "open"
             \/ \E m \in Requests : req[m].kind = "close" /\ req[m].key = k
    BY DEF HolderInv, AliveInv, InFlight, Closing
  <2>2. \A m, k \in Requests : req'[m].kind = "close" /\ req'[k].kind # "none" => m = k
    BY <1>1, <2>1, NoneAlive
  <2>3. \A m \in Requests : \A x \in Held(req'[m].sess) : runners[x].state = "open"
    BY <1>1, <2>1, NoneAlive
  <2>4. \A x \in Held(store'[k0]) : runners[x].state = "open"
    BY <1>4, <2>1
  <2>5. ASSUME NEW k \in Requests \ {k0}, NEW x \in Held(store'[k])
        PROVE  \/ runners[x].state = "open"
               \/ \E m \in Requests : req'[m].kind = "close" /\ req'[m].key = k
    <3>1. k # 0
      BY RequestId
    <3> QED
      BY <1>1, <1>2, <1>4, <2>1, <2>5, <3>1
  <2> QED
    BY <2>2, <2>3, <2>4, <2>5
<1> QED
  BY <1>7, <1>8 DEF HolderInv

\* A request that goes on, and closes nothing.
LEMMA MovesHold ==
  ASSUME TypeInv, HolderInv, NEW n \in Requests, NEW r, req' = [req EXCEPT ![n] = r],
         UNCHANGED store, Held(r.sess) \subseteq Held(req[n].sess),
         r.key = req[n].key, r.kind = req[n].kind, req[n].kind \notin {"none", "close"},
         r.pc \notin {"delete", "post"}, r.pc = "scoping" => req[n].pc = "post",
         \A x \in Requests : runners[x].state \in {"open", "closed"} => runners'[x] = runners[x],
         calm' => calm
  PROVE  HolderInv'
<1>1. req'[n] = r /\ \A m \in Requests \ {n} : req'[m] = req[m]
  BY DEF TypeInv, TypeOK
<1>2. \A k \in Requests : Held(store[k]) \subseteq Requests /\ Held(req[k].sess) \subseteq Requests
  BY HeldIds
<1>3. r.pc = "scoping" => r.key # 0
  BY DEF HolderInv, KindInv
<1>4. Owned' /\ KindInv'
  <2>1. \A x \in Requests : runners[x].state \in {"open", "closed"} =>
                            runners'[x].state \in {"open", "closed"}
    OBVIOUS
  <2> QED
    BY <1>1, <1>3, <2>1, StepHolds DEF HolderInv
<1>5. AliveInv'
  <2> SUFFICES ASSUME calm'
               PROVE  /\ \A m, k \in Requests : req'[m].kind = "close" /\ req'[k].kind # "none" => m = k
                      /\ \A m \in Requests : \A x \in Held(req'[m].sess) : runners'[x].state = "open"
                      /\ \A k \in Requests : \A x \in Held(store'[k]) :
                           \/ runners'[x].state = "open"
                           \/ \E m \in Requests : req'[m].kind = "close" /\ req'[m].key = k
    BY DEF AliveInv, InFlight, Held, Closing
  <2>1. /\ \A m, k \in Requests : req[m].kind = "close" /\ req[k].kind # "none" => m = k
        /\ \A m \in Requests : \A x \in Held(req[m].sess) : runners[x].state = "open"
        /\ \A k \in Requests : \A x \in Held(store[k]) :
             \/ runners[x].state = "open"
             \/ \E m \in Requests : req[m].kind = "close" /\ req[m].key = k
    BY DEF HolderInv, AliveInv, InFlight, Closing
  <2>2. \A m \in Requests : req'[m].kind = req[m].kind /\ req'[m].key = req[m].key
    BY <1>1
  <2>3. \A x \in Requests : runners[x].state = "open" => runners'[x].state = "open"
    OBVIOUS
  <2>4. \A m \in Requests : \A x \in Held(req'[m].sess) : runners'[x].state = "open"
    BY <1>1, <1>2, <2>1, <2>3
  <2>5. \A k \in Requests : \A x \in Held(store'[k]) :
          \/ runners'[x].state = "open"
          \/ \E m \in Requests : req'[m].kind = "close" /\ req'[m].key = k
    BY <1>2, <2>1, <2>2, <2>3
  <2> QED
    BY <2>1, <2>2, <2>4, <2>5
<1> QED
  BY <1>4, <1>5 DEF HolderInv

\* A runner session that was just entered is in no session, and is then in the
\* copy of the request that opened it.
LEMMA OpenHolds ==
  ASSUME TypeInv, FitInv, HolderInv, NEW n \in Requests, RunnerOpen(n)
  PROVE  HolderInv'
<1>0. PICK s \in Session : s = req[n].sess
  BY DEF TypeInv, TypeOK, Request
<1>1. /\ req[n] \in Request /\ req[n].pc = "scoping" /\ runners[n].state = "entered"
      /\ req[n].kind \notin {"none", "close"} /\ req[n].key \in Requests
  <2>1. req[n] \in Request /\ req[n].pc = "scoping" /\ runners[n].state = "entered"
    BY DEF RunnerOpen, TypeInv, TypeOK
  <2>2. req[n].kind \notin {"none", "close"} /\ req[n].key # 0
    BY <2>1 DEF TypeInv, Shape, HolderInv, KindInv
  <2> QED
    BY <2>1, <2>2 DEF Request, Ids, Requests
<1>2. PICK p \in Projects : p = req[n].project
  BY <1>1 DEF TypeInv, Shape
<1>3. /\ runners'[n].state = "open" /\ \A x \in Requests \ {n} : runners'[x] = runners[x]
      /\ UNCHANGED <<store, calm>>
  BY DEF RunnerOpen, Sessions, History, TypeInv, TypeOK
<1>4. CASE Answer(n)
  <2>1. \A x \in Requests : /\ runners[x].state \in {"open", "closed"} =>
                                runners'[x].state \in {"open", "closed"}
                           /\ runners[x].state = "open" => runners'[x].state = "open"
    BY <1>3
  <2> QED
    BY <1>1, <1>3, <1>4, <2>1, AnswerHolds
<1>5. CASE Fields(n, [req[n].sess EXCEPT !.runner[req[n].project] = n], "save")
  <2>1. PICK t, r : /\ t = [s EXCEPT !.runner[p] = n]
                    /\ r = [req[n] EXCEPT !.sess = t, !.pc = "save"]
    OBVIOUS
  <2>2. req' = [req EXCEPT ![n] = r]
    BY <1>0, <1>2, <1>5, <2>1 DEF Fields, TypeInv, TypeOK
  <2>3. /\ req'[n] = r /\ \A m \in Requests \ {n} : req'[m] = req[m]
        /\ r.sess = t /\ r.pc = "save" /\ r.kind = req[n].kind /\ r.key = req[n].key
    BY <1>1, <2>1, <2>2 DEF Request, TypeInv, TypeOK
  <2>4. Held(t) \subseteq Held(s) \cup {n}
    <3>1. t.runner = [s.runner EXCEPT ![p] = n] /\ s.runner \in [Projects -> Ids]
      BY <2>1 DEF Session
    <3> QED
      BY <3>1 DEF Held
  <2>5. \A k \in Requests : /\ Held(store[k]) \subseteq Requests \ {n}
                           /\ Held(req[k].sess) \subseteq Requests \ {n}
    <3>1. ASSUME NEW k \in Requests
          PROVE  store[k] \in Session /\ req[k].sess \in Session
      BY DEF TypeInv, TypeOK, Request
    <3>2. \A k \in Requests : n \notin Held(store[k]) \cup Held(req[k].sess)
      BY <1>1 DEF HolderInv, KindInv
    <3> QED
      BY <3>1, <3>2, HeldTyped
  <2>6. Owned'
    <3>1. PICK own \in [Requests -> Requests] :
            /\ \A k \in Requests : \A x \in Held(store[k]) : own[x] = k
            /\ \A m \in Requests : \A x \in Held(req[m].sess) : own[x] = req[m].key
      BY DEF HolderInv, Owned
    <3>2. PICK o \in [Requests -> Requests] :
            /\ o[n] = req[n].key /\ \A x \in Requests \ {n} : o[x] = own[x]
      <4>1. [own EXCEPT ![n] = req[n].key] \in [Requests -> Requests]
        BY <1>1
      <4> QED
        BY <4>1
    <3>3. \A k \in Requests : \A x \in Held(store'[k]) : o[x] = k
      BY <1>3, <2>5, <3>1, <3>2
    <3>4. \A m \in Requests \ {n} : \A x \in Held(req'[m].sess) : o[x] = req'[m].key
      BY <2>3, <2>5, <3>1, <3>2
    <3>5. \A x \in Held(req'[n].sess) : o[x] = req'[n].key
      BY <1>0, <2>3, <2>4, <2>5, <3>1, <3>2
    <3>6. \E f \in [Requests -> Requests] :
            /\ \A k \in Requests : \A x \in Held(store'[k]) : f[x] = k
            /\ \A m \in Requests : \A x \in Held(req'[m].sess) : f[x] = req'[m].key
      BY <3>2, <3>3, <3>4, <3>5
    <3> QED
      BY <3>6 DEF Owned, Held
  <2>7. KindInv'
    <3>1. \A m \in Requests :
            \A x \in Held(store'[m]) \cup Held(req'[m].sess) : runners'[x].state \in {"open", "closed"}
      BY <1>0, <1>3, <2>3, <2>4, <2>5 DEF HolderInv, KindInv
    <3>2. \A m \in Requests :
            /\ req'[m].pc \in {"post", "scoping"} => req'[m].key # 0
            /\ req'[m].kind = "none" => Held(req'[m].sess) = {}
            /\ req'[m].kind = "close" => req'[m].pc \in {"delete", "save"}
            /\ req'[m].pc = "delete" => req'[m].kind = "close"
      BY <1>1, <2>3 DEF HolderInv, KindInv
    <3> QED
      BY <3>1, <3>2 DEF KindInv, Held
  <2>8. AliveInv'
    <3> SUFFICES ASSUME calm
                 PROVE  /\ \A m, k \in Requests : req'[m].kind = "close" /\ req'[k].kind # "none" => m = k
                        /\ \A m \in Requests : \A x \in Held(req'[m].sess) : runners'[x].state = "open"
                        /\ \A k \in Requests : \A x \in Held(store'[k]) :
                             \/ runners'[x].state = "open"
                             \/ \E m \in Requests : req'[m].kind = "close" /\ req'[m].key = k
      BY <1>3 DEF AliveInv, InFlight, Held, Closing
    <3>1. /\ \A m, k \in Requests : req[m].kind = "close" /\ req[k].kind # "none" => m = k
          /\ \A m \in Requests : \A x \in Held(req[m].sess) : runners[x].state = "open"
          /\ \A k \in Requests : \A x \in Held(store[k]) :
               \/ runners[x].state = "open"
               \/ \E m \in Requests : req[m].kind = "close" /\ req[m].key = k
      BY DEF HolderInv, AliveInv, InFlight, Closing
    <3>2. \A m \in Requests : req'[m].kind = req[m].kind /\ req'[m].key = req[m].key
      BY <2>3
    <3>3. \A m \in Requests : \A x \in Held(req'[m].sess) : runners'[x].state = "open"
      BY <1>0, <1>3, <2>3, <2>4, <2>5, <3>1
    <3>4. \A k \in Requests : \A x \in Held(store'[k]) :
            \/ runners'[x].state = "open"
            \/ \E m \in Requests : req'[m].kind = "close" /\ req'[m].key = k
      BY <1>3, <2>5, <3>1, <3>2
    <3> QED
      BY <3>1, <3>2, <3>3, <3>4
  <2> QED
    BY <2>6, <2>7, <2>8 DEF HolderInv
<1> QED
  BY <1>4, <1>5 DEF RunnerOpen

\* A runner session that is closed is in no session but the one of the request
\* that closes it, and in its copy for one project only.
LEMMA CloseHolds ==
  ASSUME TypeInv, FitInv, HolderInv, NEW n \in Requests, RunnerClosed(n)
  PROVE  HolderInv'
<1>0. PICK s \in Session : s = req[n].sess
  BY DEF TypeInv, TypeOK, Request
<1>1. /\ req[n] \in Request /\ req[n].pc = "delete" /\ req[n].kind = "close" /\ Fits(s)
  BY <1>0 DEF RunnerClosed, FitInv, CopyFits, HolderInv, KindInv, TypeInv, TypeOK
<1>2. PICK p \in Projects : p = req[n].project
  BY <1>1 DEF TypeInv, Shape
<1>3. PICK gone \in Ids : gone = s.runner[p]
  BY DEF Session
<1>4. /\ \A x \in Requests \ {gone} : runners'[x] = runners[x]
      /\ gone \in Requests => runners'[gone].state \in {runners[gone].state, "closed"}
      /\ UNCHANGED <<store, calm>>
  BY <1>0, <1>2, <1>3 DEF RunnerClosed, MayClose, Sessions, History, TypeInv, TypeOK
<1>5. PICK t, r : /\ t = [s EXCEPT !.runner[p] = 0]
                  /\ r = [req[n] EXCEPT !.sess = t, !.pc = "save"]
  OBVIOUS
<1>6. req' = [req EXCEPT ![n] = r]
  BY <1>0, <1>2, <1>5 DEF RunnerClosed, Fields, TypeInv, TypeOK
<1>7. /\ req'[n] = r /\ \A m \in Requests \ {n} : req'[m] = req[m]
      /\ r.sess = t /\ r.pc = "save" /\ r.kind = "close" /\ r.key = req[n].key
  BY <1>1, <1>5, <1>6 DEF Request, TypeInv, TypeOK
<1>8. Held(t) \subseteq Held(s) \ {gone}
  <2>1. t.runner = [s.runner EXCEPT ![p] = 0] /\ s.runner \in [Projects -> Ids]
    BY <1>5 DEF Session
  <2> SUFFICES ASSUME NEW q \in Projects, t.runner[q] # 0
               PROVE  t.runner[q] \in Held(s) /\ t.runner[q] # gone
    BY DEF Held
  <2>2. q # p /\ t.runner[q] = s.runner[q]
    BY <2>1
  <2>3. runners[s.runner[q]].project = q /\ (gone # 0 => runners[gone].project = p)
    BY <1>1, <1>3, <2>2 DEF Fits, RunnersFit
  <2> QED
    BY <2>2, <2>3 DEF Held
<1>9. \A k \in Requests : Held(store[k]) \subseteq Requests /\ Held(req[k].sess) \subseteq Requests
  BY HeldIds
<1>10. Owned' /\ KindInv'
  <2>1. \A x \in Requests : runners[x].state \in {"open", "closed"} =>
                            runners'[x].state \in {"open", "closed"}
    BY <1>4
  <2>2. \A x \in Held(req'[n].sess) : x \in Held(req[n].sess) /\ req'[n].key = req[n].key
    BY <1>0, <1>7, <1>8
  <2> QED
    BY <1>4, <1>7, <2>1, <2>2, StepHolds DEF HolderInv
<1>11. \A k \in Requests : gone \in Held(store[k]) => req[n].key = k
  <2>1. gone # 0 => gone \in Held(req[n].sess)
    BY <1>0, <1>3 DEF Held
  <2>2. \A k \in Requests : 0 \notin Held(store[k])
    BY DEF Held
  <2> QED
    BY <2>1, <2>2 DEF HolderInv, Owned
<1>12. AliveInv'
  <2> SUFFICES ASSUME calm
               PROVE  /\ \A m, k \in Requests : req'[m].kind = "close" /\ req'[k].kind # "none" => m = k
                      /\ \A m \in Requests : \A x \in Held(req'[m].sess) : runners'[x].state = "open"
                      /\ \A k \in Requests : \A x \in Held(store'[k]) :
                           \/ runners'[x].state = "open"
                           \/ \E m \in Requests : req'[m].kind = "close" /\ req'[m].key = k
    BY <1>4 DEF AliveInv, InFlight, Held, Closing
  <2>1. /\ \A m, k \in Requests : req[m].kind = "close" /\ req[k].kind # "none" => m = k
        /\ \A m \in Requests : \A x \in Held(req[m].sess) : runners[x].state = "open"
        /\ \A k \in Requests : \A x \in Held(store[k]) :
             \/ runners[x].state = "open"
             \/ \E m \in Requests : req[m].kind = "close" /\ req[m].key = k
    BY DEF HolderInv, AliveInv, InFlight, Closing
  <2>2. \A m \in Requests : req'[m].kind = req[m].kind /\ req'[m].key = req[m].key
    BY <1>1, <1>7
  <2>3. \A m \in Requests \ {n} : Held(req'[m].sess) = {}
    BY <1>1, <1>7, <2>1 DEF HolderInv, KindInv
  <2>4. \A x \in Held(req'[n].sess) : runners'[x].state = "open"
    BY <1>0, <1>4, <1>7, <1>8, <1>9, <2>1
  <2>5. \A k \in Requests : \A x \in Held(store'[k]) :
          \/ runners'[x].state = "open"
          \/ \E m \in Requests : req'[m].kind = "close" /\ req'[m].key = k
    BY <1>1, <1>4, <1>9, <1>11, <2>1, <2>2
  <2> QED
    BY <2>1, <2>2, <2>3, <2>4, <2>5
<1> QED
  BY <1>10, <1>12 DEF HolderInv

LEMMA AwaitHolds ==
  ASSUME TypeInv, FitInv, HolderInv, NEW n \in Requests,
         \/ LogoutFails(n) \/ RunnerEnter(n) \/ RunnerFails(n) \/ RunnerLost(n) \/ CloseFails(n)
         \/ Head(n) \/ HeadFails(n) \/ SetKey(n) \/ GiveUrl(n) \/ DownloadFails(n)
  PROVE  HolderInv'
<1>0. /\ req[n] \in Request /\ req[n].kind # "none" /\ UNCHANGED store
      /\ ~CloseFails(n) => req[n].kind # "close"
  <2>1. /\ \/ req[n].pc \in {"revoke", "post", "scoping", "head", "setkey", "object"}
           \/ req[n].kind = "runner" \/ CloseFails(n)
        /\ req[n].pc # "none" /\ UNCHANGED store
    BY DEF LogoutFails, RunnerEnter, RunnerFails, RunnerLost, CloseFails, Head, HeadFails, SetKey,
           GiveUrl, DownloadFails, Fail, Sessions
  <2> QED
    BY <2>1 DEF HolderInv, KindInv, TypeInv, TypeOK, Shape
<1>1. CASE LogoutFails(n) \/ RunnerFails(n) \/ RunnerLost(n) \/ DownloadFails(n) \/ GiveUrl(n)
  <2>1. Answer(n) /\ UNCHANGED <<runners, calm>>
    BY <1>1 DEF LogoutFails, RunnerFails, RunnerLost, DownloadFails, GiveUrl, Fail, Accounts,
                History
  <2>2. ~CloseFails(n)
    BY <1>1 DEF LogoutFails, RunnerFails, RunnerLost, DownloadFails, GiveUrl, CloseFails
  <2> QED
    BY <1>0, <2>1, <2>2, AnswerHolds
<1>2. CASE CloseFails(n)
  <2>1. Answer(n) /\ calm' = FALSE
    BY <1>2 DEF CloseFails
  <2>2. \A r \in Requests : runners[r].state \in {"open", "closed"} =>
                            runners'[r].state \in {"open", "closed"}
    <3>1. \/ runners' = runners
          \/ \E x : runners' = [runners EXCEPT ![x].state = "closed"]
      BY <1>2 DEF CloseFails, MayClose
    <3> QED
      BY <3>1 DEF TypeInv, TypeOK
  <2> QED
    BY <1>0, <2>1, <2>2, AnswerHolds
<1>3. CASE RunnerEnter(n)
  <2>1. PICK r : r = [req[n] EXCEPT !.pc = "scoping"]
    OBVIOUS
  <2>2. /\ req' = [req EXCEPT ![n] = r] /\ UNCHANGED calm /\ req[n].pc = "post"
        /\ ~CloseFails(n)
    BY <1>3, <2>1 DEF RunnerEnter, History, CloseFails
  <2>3. r.pc = "scoping" /\ r.kind = req[n].kind /\ r.key = req[n].key /\ r.sess = req[n].sess
    BY <1>0, <2>1 DEF Request
  <2>4. runners[n].state = "none"
    BY <2>2 DEF FitInv, CopyFits
  <2>5. \A x \in Requests : runners[x].state \in {"open", "closed"} => runners'[x] = runners[x]
    BY <1>3, <2>4 DEF RunnerEnter, TypeInv, TypeOK
  <2> QED
    BY <1>0, <2>2, <2>3, <2>5, MovesHold
<1>4. CASE Head(n) \/ HeadFails(n) \/ SetKey(n)
  <2>1. UNCHANGED runners /\ (calm' = calm \/ calm' = FALSE) /\ ~CloseFails(n)
    BY <1>4 DEF Head, HeadFails, SetKey, CloseFails, Accounts, History
  <2>2. PICK r : /\ req' = [req EXCEPT ![n] = r] /\ r.pc \in {"setkey", "object"}
                 /\ r.kind = req[n].kind /\ r.key = req[n].key /\ r.sess = req[n].sess
    BY <1>0, <1>4 DEF Head, HeadFails, SetKey, TypeInv, TypeOK, Request
  <2>3. calm' => calm
    BY <2>1
  <2>4. Held(r.sess) \subseteq Held(req[n].sess) /\ r.pc \notin {"delete", "post", "scoping"}
    BY <2>2
  <2>5. req[n].kind \notin {"none", "close"}
    BY <1>0, <2>1
  <2>6. \A x \in Requests : runners[x].state \in {"open", "closed"} => runners'[x] = runners[x]
    BY <2>1
  <2> QED
    BY <1>0, <2>2, <2>3, <2>4, <2>5, <2>6, MovesHold
<1> QED
  BY <1>1, <1>2, <1>3, <1>4

LEMMA HolderNext == TypeInv /\ FitInv /\ HolderInv /\ [Next]_vars => HolderInv'
<1> SUFFICES ASSUME TypeInv, FitInv, HolderInv, [Next]_vars PROVE HolderInv'
  OBVIOUS
<1>1. ASSUME NEW n \in Requests,
             \/ Save(n) \/ Pouta(n) \/ Avail(n) \/ Scope(n) \/ Denied(n) \/ LoggedIn(n)
             \/ LoginFails(n) \/ Revoke(n) \/ LoggedOut(n)
      PROVE  HolderInv'
  <2>1. CASE GoesOn(n)
    <3>1. req[n].kind \notin {"none", "close"}
      BY <2>1 DEF GoesOn, HolderInv, KindInv, TypeInv, Shape
    <3> QED
      BY <2>1, <3>1, MovesHold DEF GoesOn
  <2> QED
    BY <1>1, <2>1, LoginStep, SavedHolds
<1>2. CASE RunnerRestart
  <2>1. /\ UNCHANGED <<store, req>> /\ calm' = FALSE
        /\ \A x \in Requests : runners[x].state \in {"open", "closed"} =>
                                runners'[x].state = "closed"
    BY <1>2 DEF RunnerRestart, Sessions, TypeInv, TypeOK
  <2>2. PICK n \in Requests : TRUE
    BY <1>2 DEF RunnerRestart
  <2>3. Owned' /\ KindInv'
    BY <2>1, <2>2, StepHolds DEF HolderInv, KindInv
  <2> QED
    BY <2>1, <2>3 DEF HolderInv, AliveInv
<1>3. CASE SessionsAge
  <2>1. UNCHANGED <<req, runners, calm>>
    BY <1>3 DEF SessionsAge, History
  <2>2. ASSUME NEW k \in Requests
        PROVE  Held(store'[k]) = Held(store[k])
    <3>1. PICK s \in Session : s = store[k]
      BY DEF TypeInv, TypeOK
    <3>2. store'[k] = s \/ store'[k] = [s EXCEPT !.at = "old"]
      BY <1>3, <3>1 DEF SessionsAge
    <3>3. store'[k].runner = s.runner
      BY <3>2 DEF Session
    <3> QED
      BY <3>1, <3>3 DEF Held
  <2>3. PICK n \in Requests : TRUE
    BY <1>3 DEF SessionsAge
  <2>4. Owned' /\ KindInv'
    BY <2>1, <2>2, <2>3, StepHolds DEF HolderInv, KindInv
  <2>5. AliveInv'
    <3>1. (\A k \in Requests : \A r \in Held(store[k]) : runners[r].state = "open" \/ Closing(k))
            => \A k \in Requests : \A r \in Held(store'[k]) : runners'[r].state = "open" \/ Closing(k)'
      BY <2>1, <2>2 DEF Closing
    <3> QED
      BY <2>1, <3>1 DEF HolderInv, AliveInv, InFlight, Held, Closing
  <2> QED
    BY <2>4, <2>5 DEF HolderInv
<1>4. CASE UNCHANGED vars
  <2>1. UNCHANGED <<store, req, runners, calm>>
    BY <1>4 DEF vars
  <2>2. Owned'
    BY <2>1 DEF HolderInv, Owned, Held
  <2>3. KindInv'
    BY <2>1 DEF HolderInv, KindInv, Held
  <2>4. AliveInv'
    BY <2>1 DEF HolderInv, AliveInv, InFlight, Held, Closing
  <2> QED
    BY <2>2, <2>3, <2>4 DEF HolderInv
<1> QED
  BY <1>1, <1>2, <1>3, <1>4, BeginHolds, OpenHolds, CloseHolds, AwaitHolds DEF Next

LEMMA HolderInit == Init => HolderInv
<1> SUFFICES ASSUME Init PROVE HolderInv
  OBVIOUS
<1>1. \A k \in Requests : Held(store[k]) = {} /\ Held(req[k].sess) = {}
  BY NoneHeld, NoneAlive DEF Init
<1>2. \A n \in Requests : req[n].kind = "none" /\ req[n].pc = "none"
  BY NoneAlive DEF Init
<1>3. [n \in Requests |-> n] \in [Requests -> Requests]
  OBVIOUS
<1> QED
  BY <1>1, <1>2, <1>3 DEF HolderInv, Owned, KindInv, AliveInv, InFlight

\* The upload runner knows the runner session that a saved session has, unless
\* requests that work on it overlapped or failed: closing one never takes the
\* runner session of another session, or of another project.
THEOREM RunnersAlive == Spec => []RunnerAlive
<1>1. HolderInv => RunnerAlive
  <2> SUFFICES ASSUME HolderInv, calm, NEW k \in Requests, NEW p \in Projects,
                      store[k].runner[p] # 0
               PROVE  runners[store[k].runner[p]].state = "open" \/ Closing(k)
    BY DEF RunnerAlive, Closing
  <2>1. store[k].runner[p] \in Held(store[k])
    BY DEF Held
  <2> QED
    BY <2>1 DEF HolderInv, AliveInv
<1> QED
  BY <1>1, TypeInit, TypeNext, FitInit, FitNext, HolderInit, HolderNext, PTL DEF Spec
=============================================================================
