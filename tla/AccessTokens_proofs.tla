------------------------- MODULE AccessTokens_proofs -------------------------
(***************************************************************************)
(* For any number of pages, identifiers and calls, under way at any time:   *)
(* the variables keep their types, a displayed token works, a listing that  *)
(* nothing overlapped is exact, and a cached project id stays.              *)
(***************************************************************************)
EXTENDS AccessTokens, TLAPS

-----------------------------------------------------------------------------
(* Type correctness.  A call that names an identifier or a page has one.     *)

Shape ==
  \A n \in Calls :
    /\ call[n].kind \in {"list", "create", "remove"} => call[n].page \in Pages
    /\ call[n].kind \in {"create", "remove"} => call[n].name \in Names
    /\ call[n].kind = "none" => call[n].pc = "none"

TypeInv == TypeOK /\ Shape

LEMMA OverlappedTyped == TypeInv => Overlapped \in [Calls -> CallRecord]
<1> SUFFICES ASSUME TypeInv, NEW m \in Calls
             PROVE  [call[m] EXCEPT !.alone = FALSE] \in CallRecord
  BY DEF Overlapped
<1>1. call[m] \in CallRecord
  BY DEF TypeInv, TypeOK
<1> QED
  BY <1>1 DEF CallRecord

LEMMA NoRowTyped == NoRow \in [token : Tokens, stale : BOOLEAN]
BY AccessTokensAssumption DEF NoRow, Tokens

LEMMA TypeInit == Init => TypeInv
BY AccessTokensAssumption
DEF Init, TypeInv, TypeOK, Shape, CallRecord, DialogRecord, Calls, Tokens, NoRow, NoCall, Blank

\* Whatever call begins, or is made again after an answer.
LEMMA BeginsTyped ==
  ASSUME TypeInv, NEW n \in Calls, NEW kind \in {"list", "create", "remove", "id"},
         NEW a \in Pages \cup {None}, NEW x \in Names \cup {None}, Begins(n, kind, a, x),
         kind # "id" => a \in Pages, kind \in {"create", "remove"} => x \in Names,
         dialog' \in [Pages -> DialogRecord]
  PROVE  TypeInv'
<1> DEFINE alone == \A m \in Calls : ~UnderWay(m)
<1>0. /\ alone \in BOOLEAN
      /\ call' = [Overlapped EXCEPT ![n] =
                   [NoCall EXCEPT !.kind = kind, !.page = a, !.name = x, !.pc = "sent",
                                  !.alone = alone]]
  BY DEF Begins
<1> HIDE DEF alone
<1>a. [NoCall EXCEPT !.kind = kind, !.page = a, !.name = x, !.pc = "sent", !.alone = alone]
        \in CallRecord
  BY <1>0 DEF NoCall, CallRecord
<1>1. call' \in [Calls -> CallRecord]
  BY <1>0, <1>a, OverlappedTyped
<1>2. Shape'
  BY <1>0 DEF Overlapped, NoCall, TypeInv, TypeOK, CallRecord, Shape
<1>3. begun' \in Tokens
  BY AccessTokensAssumption DEF Begins, Calls, Tokens
<1> QED
  BY <1>1, <1>2, <1>3 DEF Begins, TypeInv, TypeOK

LEMMA BeginTyped ==
  ASSUME TypeInv, NEW n \in Calls, Begin(n)
  PROVE  TypeInv'
<1>1. CASE Open(n)
  <2>1. PICK a \in Pages : Begins(n, "list", a, None) /\ UNCHANGED dialog
    BY <1>1 DEF Open
  <2> QED
    BY <2>1, BeginsTyped DEF TypeInv, TypeOK
<1>2. CASE Create(n)
  <2>1. PICK a \in Pages, x \in Names :
          Begins(n, "create", a, x) /\ dialog' = [dialog EXCEPT ![a].typed = x]
    BY <1>2 DEF Create
  <2>2. dialog' \in [Pages -> DialogRecord]
    BY <2>1 DEF TypeInv, TypeOK, DialogRecord
  <2> QED
    BY <2>1, <2>2, BeginsTyped
<1>3. CASE Remove(n)
  <2>1. PICK a \in Pages : \E x \in dialog[a].tokens : Begins(n, "remove", a, x) /\ UNCHANGED dialog
    BY <1>3 DEF Remove
  <2>2. PICK x \in Names : Begins(n, "remove", a, x) /\ UNCHANGED dialog
    BY <2>1 DEF TypeInv, TypeOK, DialogRecord
  <2> QED
    BY <2>2, BeginsTyped DEF TypeInv, TypeOK
<1>4. CASE CacheId(n)
  BY <1>4, BeginsTyped DEF CacheId, TypeInv, TypeOK
<1> QED
  BY <1>1, <1>2, <1>3, <1>4 DEF Begin

\* A call that goes on stays what it is.
LEMMA GoesTyped ==
  ASSUME TypeInv, NEW n \in Calls, call[n].kind # "none",
         NEW pc \in {"pruned", "missing", "ok", "refused"}, Goes(n, pc)
  PROVE  call' \in [Calls -> CallRecord] /\ Shape'
BY DEF Goes, TypeInv, TypeOK, CallRecord, Shape

LEMMA ServerTyped ==
  ASSUME TypeInv, NEW n \in Calls,
         \/ AddToken(n) \/ RevokeToken(n) \/ PruneTokens(n) \/ GetTokens(n)
         \/ MatchId(n) \/ AddId(n) \/ Refuse(n)
  PROVE  TypeInv'
<1> USE DEF Rest, At
<1>n. n \in Tokens \ {0}
  BY AccessTokensAssumption DEF Calls, Tokens
<1>1. CASE AddToken(n)
  <2>1. call' \in [Calls -> CallRecord] /\ Shape'
    BY <1>1, GoesTyped DEF AddToken, Insert
  <2>2. rows' \in [Names -> [token : Tokens, stale : BOOLEAN]]
    BY <1>1, <1>n DEF AddToken, Insert, TypeInv, TypeOK
  <2> QED
    BY <1>1, <1>n, <2>1, <2>2 DEF AddToken, TypeInv, TypeOK
<1>2. CASE RevokeToken(n)
  <2>1. call' \in [Calls -> CallRecord] /\ Shape'
    BY <1>2, GoesTyped DEF RevokeToken
  <2>2. call[n].name \in Names
    BY <1>2 DEF RevokeToken, TypeInv, Shape
  <2>3. CASE call[n].late
    BY <1>2, <2>1, <2>3 DEF RevokeToken, TypeInv, TypeOK
  <2>4. CASE ~call[n].late
    <3>1. /\ rows' = [rows EXCEPT ![call[n].name] = NoRow]
          /\ gone' = gone \cup {rows[call[n].name].token}
      BY <1>2, <2>4 DEF RevokeToken
    <3>2. rows' \in [Names -> [token : Tokens, stale : BOOLEAN]] /\ gone' \subseteq Tokens
      BY <2>2, <3>1, NoRowTyped DEF TypeInv, TypeOK
    <3> QED
      BY <1>2, <2>1, <3>2 DEF RevokeToken, TypeInv, TypeOK
  <2> QED
    BY <2>3, <2>4
<1>3. CASE PruneTokens(n)
  <2>1. call' \in [Calls -> CallRecord] /\ Shape'
    BY <1>3, GoesTyped DEF PruneTokens
  <2>2. CASE call[n].late
    BY <1>3, <2>1, <2>2 DEF PruneTokens, TypeInv, TypeOK
  <2>3. CASE ~call[n].late
    <3>1. /\ rows' = [x \in Names |-> IF rows[x].stale THEN NoRow ELSE rows[x]]
          /\ gone' = gone \cup {rows[x].token : x \in {y \in Names : rows[y].stale}}
      BY <1>3, <2>3 DEF PruneTokens
    <3>2. rows' \in [Names -> [token : Tokens, stale : BOOLEAN]] /\ gone' \subseteq Tokens
      BY <3>1, NoRowTyped DEF TypeInv, TypeOK
    <3> QED
      BY <1>3, <2>1, <3>2 DEF PruneTokens, TypeInv, TypeOK
  <2> QED
    BY <2>2, <2>3
<1>4. CASE GetTokens(n)
  <2>1. PICK S \in SUBSET Names : call' = [call EXCEPT ![n].pc = "ok", ![n].seen = S]
    BY <1>4 DEF GetTokens
  <2>2. /\ call[n].kind = "list" /\ call[n] \in CallRecord
        /\ call' = [call EXCEPT ![n] = [call[n] EXCEPT !.pc = "ok", !.seen = S]]
    BY <1>4, <2>1 DEF GetTokens, TypeInv, TypeOK
  <2>3. [call[n] EXCEPT !.pc = "ok", !.seen = S] \in CallRecord
    BY <2>2 DEF CallRecord
  <2>4. call' \in [Calls -> CallRecord]
    BY <2>2, <2>3 DEF TypeInv, TypeOK
  <2>5. Shape'
    BY <2>2 DEF TypeInv, TypeOK, CallRecord, Shape
  <2> QED
    BY <1>4, <2>4, <2>5 DEF GetTokens, TypeInv, TypeOK
<1>5. CASE MatchId(n)
  <2>1. call' \in [Calls -> CallRecord] /\ Shape'
    BY <1>5, GoesTyped DEF MatchId
  <2> QED
    BY <1>5, <2>1 DEF MatchId, TypeInv, TypeOK
<1>6. CASE AddId(n)
  <2>1. call' \in [Calls -> CallRecord] /\ Shape'
    BY <1>6, GoesTyped DEF AddId
  <2> QED
    BY <1>6, <1>n, <2>1 DEF AddId, TypeInv, TypeOK
<1>7. CASE Refuse(n)
  <2>1. call' \in [Calls -> CallRecord] /\ Shape'
    BY <1>7, GoesTyped DEF Refuse, TypeInv, Shape
  <2> QED
    BY <1>7, <2>1 DEF Refuse, TypeInv, TypeOK
<1> QED
  BY <1>1, <1>2, <1>3, <1>4, <1>5, <1>6, <1>7

LEMMA RelistsTyped ==
  ASSUME TypeInv, NEW n \in Calls, call[n].page \in Pages, Relists(n),
         dialog' \in [Pages -> DialogRecord]
  PROVE  TypeInv'
<1> DEFINE alone == \A m \in Calls \ {n} : ~UnderWay(m)
<1>0. /\ alone \in BOOLEAN
      /\ call' = [Overlapped EXCEPT ![n] =
                   [NoCall EXCEPT !.kind = "list", !.page = call[n].page, !.pc = "sent",
                                  !.alone = alone]]
  BY DEF Relists
<1> HIDE DEF alone
<1>a. [NoCall EXCEPT !.kind = "list", !.page = call[n].page, !.pc = "sent", !.alone = alone]
        \in CallRecord
  BY <1>0 DEF NoCall, CallRecord
<1>1. call' \in [Calls -> CallRecord]
  BY <1>0, <1>a, OverlappedTyped
<1>2. /\ \A m \in Calls \ {n} : /\ call'[m].kind = call[m].kind /\ call'[m].page = call[m].page
                              /\ call'[m].name = call[m].name /\ call'[m].pc = call[m].pc
      /\ call'[n].kind = "list" /\ call'[n].page = call[n].page
  <2>1. PICK c : /\ c = [NoCall EXCEPT !.kind = "list", !.page = call[n].page, !.pc = "sent",
                                        !.alone = alone]
                 /\ call' = [Overlapped EXCEPT ![n] = c]
    BY <1>0
  <2>2. c.kind = "list" /\ c.page = call[n].page
    BY <2>1 DEF NoCall
  <2>3. call'[n] = c
    BY <2>1 DEF Overlapped
  <2>4. ASSUME NEW m \in Calls \ {n}
        PROVE  /\ call'[m].kind = call[m].kind /\ call'[m].page = call[m].page
               /\ call'[m].name = call[m].name /\ call'[m].pc = call[m].pc
    <3>1. call'[m] = [call[m] EXCEPT !.alone = FALSE] /\ call[m] \in CallRecord
      BY <2>1 DEF Overlapped, TypeInv, TypeOK
    <3> QED
      BY <3>1 DEF CallRecord
  <2> QED
    BY <2>2, <2>3, <2>4
<1>3. Shape'
  BY <1>2 DEF TypeInv, Shape
<1> QED
  BY <1>1, <1>3 DEF Relists, Tables, TypeInv, TypeOK

LEMMA AnswerTyped ==
  ASSUME TypeInv, NEW n \in Calls, Created(n) \/ Removed(n) \/ Listed(n) \/ Ends(n)
  PROVE  TypeInv'
<1> USE DEF At
<1>n. n \in Tokens /\ 0 \in Tokens
  BY AccessTokensAssumption DEF Calls, Tokens
<1>1. CASE Created(n)
  <2>1. call[n].page \in Pages
    BY <1>1 DEF Created, TypeInv, Shape
  <2>2. dialog' \in [Pages -> DialogRecord]
    <3>1. PICK a \in Pages : a = call[n].page
      BY <2>1
    <3>2. PICK d : d = [dialog[a] EXCEPT !.latest = n, !.as = dialog[a].typed, !.typed = None]
      OBVIOUS
    <3>3. dialog' = [dialog EXCEPT ![a] = d] /\ dialog[a] \in DialogRecord
      BY <1>1, <3>1, <3>2 DEF Created, TypeInv, TypeOK
    <3>4. d \in DialogRecord
      BY <1>n, <3>2, <3>3 DEF DialogRecord
    <3> QED
      BY <3>3, <3>4 DEF TypeInv, TypeOK
  <2> QED
    BY <1>1, <2>1, <2>2, RelistsTyped DEF Created
<1>2. CASE Removed(n)
  <2>1. call[n].page \in Pages
    BY <1>2 DEF Removed, TypeInv, Shape
  <2>2. dialog' \in [Pages -> DialogRecord]
    <3>1. PICK a \in Pages : a = call[n].page
      BY <2>1
    <3>2. PICK d : d = [dialog[a] EXCEPT !.latest = 0, !.as = None]
      OBVIOUS
    <3>3. /\ dialog' = dialog \/ dialog' = [dialog EXCEPT ![a] = d]
          /\ dialog[a] \in DialogRecord
      BY <1>2, <3>1, <3>2 DEF Removed, TypeInv, TypeOK
    <3>4. d \in DialogRecord
      BY <1>n, <3>2, <3>3 DEF DialogRecord
    <3> QED
      BY <3>3, <3>4 DEF TypeInv, TypeOK
  <2> QED
    BY <1>2, <2>1, <2>2, RelistsTyped DEF Removed
<1>3. CASE Listed(n)
  <2>1. call' \in [Calls -> CallRecord] /\ Shape'
    BY <1>3 DEF Listed, NoCall, TypeInv, TypeOK, CallRecord, Shape
  <2>2. call[n].page \in Pages /\ call[n].seen \subseteq Names
    BY <1>3 DEF Listed, TypeInv, TypeOK, Shape, CallRecord
  <2>3. dialog' \in [Pages -> DialogRecord]
    BY <1>3, <2>2 DEF Listed, TypeInv, TypeOK, DialogRecord
  <2> QED
    BY <1>3, <2>1, <2>2, <2>3 DEF Listed, Tables, TypeInv, TypeOK
<1>4. CASE Ends(n)
  <2>1. call' \in [Calls -> CallRecord] /\ Shape'
    BY <1>4 DEF Ends, NoCall, TypeInv, TypeOK, CallRecord, Shape
  <2> QED
    BY <1>4, <2>1 DEF Ends, Tables, TypeInv, TypeOK
<1> QED
  BY <1>1, <1>2, <1>3, <1>4

LEMMA NoTokenTyped == 0 \in Tokens
BY AccessTokensAssumption DEF Tokens

LEMMA ClosedTyped ==
  ASSUME NEW d \in DialogRecord
  PROVE  [d EXCEPT !.latest = 0, !.as = None, !.typed = None] \in DialogRecord
<1>1. [d EXCEPT !.latest = 0] \in DialogRecord
  BY NoTokenTyped DEF DialogRecord
<1>2. [d EXCEPT !.latest = 0, !.as = None] \in DialogRecord
  BY NoTokenTyped DEF DialogRecord
<1> QED
  BY NoTokenTyped DEF DialogRecord

LEMMA TypeNext == TypeInv /\ [Next]_vars => TypeInv'
<1> SUFFICES ASSUME TypeInv, [Next]_vars PROVE TypeInv'
  OBVIOUS
<1>1. ASSUME NEW a \in Pages, Close(a) PROVE TypeInv'
  <2> DEFINE closed == [dialog[a] EXCEPT !.latest = 0, !.as = None, !.typed = None]
  <2>1. dialog' = [dialog EXCEPT ![a] = closed]
    BY <1>1 DEF Close, TypeInv, TypeOK
  <2>2. closed \in DialogRecord
    <3>1. dialog[a] \in DialogRecord
      BY DEF TypeInv, TypeOK
    <3> QED
      BY <3>1, NoTokenTyped, ClosedTyped
  <2>3. dialog' \in [Pages -> DialogRecord]
    BY <2>1, <2>2 DEF TypeInv, TypeOK
  <2> QED
    BY <1>1, <2>3 DEF Close, TypeInv, TypeOK, Shape
<1>2. CASE ShutDown
  <2>1. PICK S \in SUBSET Calls : call' = [n \in Calls |-> [call[n] EXCEPT !.late = @ \/ n \in S]]
    BY <1>2 DEF ShutDown
  <2> DEFINE late(n) == call[n].late \/ n \in S
  <2>2. call' = [n \in Calls |-> [call[n] EXCEPT !.late = late(n)]]
    BY <2>1
  <2>3. \A n \in Calls : late(n) \in BOOLEAN
    OBVIOUS
  <2> HIDE DEF late
  <2>4. call' \in [Calls -> CallRecord]
    <3>1. ASSUME NEW n \in Calls
          PROVE  [call[n] EXCEPT !.late = late(n)] \in CallRecord
      <4>1. call[n] \in CallRecord
        BY DEF TypeInv, TypeOK
      <4> QED
        BY <2>3, <4>1 DEF CallRecord
    <3> QED
      BY <2>2, <3>1
  <2>5. Shape'
    BY <2>2 DEF TypeInv, TypeOK, CallRecord, Shape
  <2> QED
    BY <1>2, <2>4, <2>5 DEF ShutDown, Rest, TypeInv, TypeOK
<1>3. CASE DayPasses
  BY <1>3, AccessTokensAssumption DEF DayPasses, TypeInv, TypeOK, Shape, NoRow, Tokens
<1>4. CASE UNCHANGED vars
  BY <1>4 DEF vars, TypeInv, TypeOK, Shape
<1> QED
  BY <1>1, <1>2, <1>3, <1>4, BeginTyped, ServerTyped, AnswerTyped DEF Next

\* The tables, the calls and the dialogs keep their types.
THEOREM TypeCorrect == Spec => []TypeOK
<1>1. TypeInv => TypeOK
  BY DEF TypeInv
<1> QED
  BY <1>1, TypeInit, TypeNext, PTL DEF Spec
-----------------------------------------------------------------------------
(* Displayed tokens *)

\* A token that was stored is in the table, or was taken out of it.
Kept(t) == t \in gone \cup lost \/ \E x \in Names : rows[x].token = t

\* So is one whose creation has been answered, before and after it is displayed.
ShownInv ==
  /\ \A n \in Calls : At(n, "create", "ok") => Kept(n)
  /\ \A a \in Pages : dialog[a].latest # 0 => Kept(dialog[a].latest)

\* No statement takes a token out of the table without a trace.
LEMMA KeptStays ==
  ASSUME TypeInv, [Next]_vars, NEW t \in Tokens \ {0}, Kept(t)
  PROVE  Kept(t)'
<1> USE DEF Rest
<1>1. ASSUME NEW n \in Calls, AddToken(n)
      PROVE  Kept(t)'
  BY <1>1 DEF AddToken, Insert, TypeInv, TypeOK, Kept, NoRow
<1>2. ASSUME NEW n \in Calls, RevokeToken(n)
      PROVE  Kept(t)'
  BY <1>2 DEF RevokeToken, TypeInv, TypeOK, Kept
<1>3. ASSUME NEW n \in Calls, PruneTokens(n)
      PROVE  Kept(t)'
  <2>1. CASE call[n].late
    BY <1>3, <2>1 DEF PruneTokens, Kept
  <2>2. CASE ~call[n].late
    <3>1. /\ rows' = [x \in Names |-> IF rows[x].stale THEN NoRow ELSE rows[x]]
          /\ gone' = gone \cup {rows[x].token : x \in {y \in Names : rows[y].stale}}
          /\ lost' = lost
      BY <1>3, <2>2 DEF PruneTokens
    <3>2. CASE t \in gone \cup lost
      BY <3>1, <3>2 DEF Kept
    <3>3. ASSUME NEW x \in Names, rows[x].token = t
          PROVE  Kept(t)'
      BY <3>1, <3>3 DEF Kept
    <3> QED
      BY <3>2, <3>3 DEF Kept
  <2> QED
    BY <2>1, <2>2
<1>4. CASE DayPasses
  BY <1>4 DEF DayPasses, TypeInv, TypeOK, Kept, NoRow
<1>5. CASE UNCHANGED <<rows, gone, lost>>
  BY <1>5 DEF Kept
<1>6. ASSUME NEW n \in Calls,
             \/ Begin(n) \/ GetTokens(n) \/ MatchId(n) \/ AddId(n) \/ Refuse(n)
             \/ Created(n) \/ Removed(n) \/ Listed(n) \/ Ends(n)
      PROVE  UNCHANGED <<rows, gone, lost>>
  BY <1>6
  DEF Begin, Open, Create, Remove, CacheId, Begins, GetTokens, MatchId, AddId, Refuse,
      Created, Removed, Listed, Ends, Relists, Tables
<1>7. ASSUME \/ \E a \in Pages : Close(a)
             \/ ShutDown \/ UNCHANGED vars
      PROVE  UNCHANGED <<rows, gone, lost>>
  BY <1>7 DEF Close, ShutDown, vars
<1> QED
  BY <1>1, <1>2, <1>3, <1>4, <1>5, <1>6, <1>7 DEF Next

\* What kinds of calls are under way, and how far they have got, after a step.
LEMMA RelistsCalls ==
  ASSUME TypeInv, NEW n \in Calls, Relists(n), NEW m \in Calls
  PROVE  /\ call'[m].kind = IF m = n THEN "list" ELSE call[m].kind
         /\ call'[m].pc = IF m = n THEN "sent" ELSE call[m].pc
<1> DEFINE alone == \A i \in Calls \ {n} : ~UnderWay(i)
<1>1. call' = [Overlapped EXCEPT ![n] =
        [NoCall EXCEPT !.kind = "list", !.page = call[n].page, !.pc = "sent", !.alone = alone]]
  BY DEF Relists
<1> HIDE DEF alone
<1> QED
  BY <1>1 DEF Overlapped, NoCall, TypeInv, TypeOK, CallRecord

LEMMA ShutDownCalls ==
  ASSUME TypeInv, ShutDown, NEW m \in Calls
  PROVE  /\ call'[m].kind = call[m].kind /\ call'[m].pc = call[m].pc
         /\ call'[m].alone = call[m].alone /\ call'[m].seen = call[m].seen
<1>1. PICK S \in SUBSET Calls : call' = [n \in Calls |-> [call[n] EXCEPT !.late = @ \/ n \in S]]
  BY DEF ShutDown
<1> DEFINE late(n) == call[n].late \/ n \in S
<1>2. call' = [n \in Calls |-> [call[n] EXCEPT !.late = late(n)]]
  BY <1>1
<1> HIDE DEF late
<1>3. call[m] \in CallRecord
  BY DEF TypeInv, TypeOK
<1> QED
  BY <1>2, <1>3 DEF CallRecord

\* A creation is answered when its token is stored or lost.
LEMMA AnsweredKept ==
  ASSUME TypeInv, [Next]_vars, NEW n \in Calls, At(n, "create", "ok")', ~At(n, "create", "ok")
  PROVE  Kept(n)'
<1> USE DEF Rest, At
<1>1. ASSUME NEW m \in Calls, AddToken(m)
      PROVE  Kept(n)'
  <2>1. m = n
    BY <1>1 DEF AddToken, Insert, Goes, TypeInv, TypeOK, CallRecord
  <2>2. n \in lost' \/ (call[n].name \in Names /\ rows' = [rows EXCEPT ![call[n].name].token = n])
    BY <1>1, <2>1 DEF AddToken, Insert, Goes, TypeInv, TypeOK, CallRecord, Shape
  <2> QED
    BY <2>2 DEF Kept, TypeInv, TypeOK
<1>2. ASSUME NEW m \in Calls, Begin(m)
      PROVE  FALSE
  <2>1. PICK kind, a, x : Begins(m, kind, a, x)
    BY <1>2 DEF Begin, Open, Create, Remove, CacheId
  <2> QED
    BY <2>1 DEF Begins, Overlapped, NoCall, TypeInv, TypeOK, CallRecord
<1>3. ASSUME NEW m \in Calls,
             \/ RevokeToken(m) \/ PruneTokens(m) \/ GetTokens(m)
             \/ MatchId(m) \/ AddId(m) \/ Refuse(m)
      PROVE  FALSE
  BY <1>3 DEF RevokeToken, PruneTokens, GetTokens, MatchId, AddId, Refuse, Goes,
              TypeInv, TypeOK, CallRecord
<1>4. ASSUME NEW m \in Calls, Created(m) \/ Removed(m)
      PROVE  FALSE
  <2>1. Relists(m)
    BY <1>4 DEF Created, Removed
  <2> QED
    BY <2>1, RelistsCalls
<1>5. ASSUME NEW m \in Calls, Listed(m) \/ Ends(m)
      PROVE  FALSE
  BY <1>5 DEF Listed, Ends, NoCall, TypeInv, TypeOK, CallRecord
<1>6. ~ShutDown
  BY ShutDownCalls
<1>7. ASSUME (\E a \in Pages : Close(a)) \/ DayPasses \/ UNCHANGED vars
      PROVE  FALSE
  BY <1>7 DEF Close, DayPasses, vars
<1> QED
  BY <1>1, <1>2, <1>3, <1>4, <1>5, <1>6, <1>7 DEF Next

\* What a dialog newly displays is the token of a creation that was answered.
LEMMA NewlyShown ==
  ASSUME TypeInv, [Next]_vars, NEW a \in Pages, dialog'[a].latest # 0,
         dialog'[a].latest # dialog[a].latest
  PROVE  \E n \in Calls : At(n, "create", "ok") /\ dialog'[a].latest = n
<1>1. ASSUME NEW n \in Calls, Created(n)
      PROVE  At(n, "create", "ok") /\ dialog'[a].latest = n
  BY <1>1 DEF Created, TypeInv, TypeOK, DialogRecord
<1>2. ASSUME NEW n \in Calls, Begin(n)
      PROVE  FALSE
  BY <1>2 DEF Begin, Open, Create, Remove, CacheId, TypeInv, TypeOK, DialogRecord
<1>3. ASSUME NEW n \in Calls,
             \/ AddToken(n) \/ RevokeToken(n) \/ PruneTokens(n) \/ GetTokens(n)
             \/ MatchId(n) \/ AddId(n) \/ Refuse(n) \/ Ends(n)
      PROVE  FALSE
  <2>1. UNCHANGED dialog
    BY <1>3 DEF AddToken, RevokeToken, PruneTokens, GetTokens, MatchId, AddId, Refuse, Ends, Rest
  <2> QED
    BY <2>1
<1>4. ASSUME NEW n \in Calls, Removed(n) \/ Listed(n)
      PROVE  FALSE
  <2>1. CASE Removed(n)
    BY <2>1 DEF Removed, TypeInv, TypeOK, DialogRecord
  <2>2. CASE Listed(n)
    BY <2>2 DEF Listed, TypeInv, TypeOK, DialogRecord
  <2> QED
    BY <1>4, <2>1, <2>2
<1>5. ASSUME NEW b \in Pages, Close(b)
      PROVE  FALSE
  BY <1>5 DEF Close, TypeInv, TypeOK, DialogRecord
<1>6. CASE ShutDown \/ DayPasses \/ UNCHANGED vars
  BY <1>6 DEF ShutDown, DayPasses, Rest, vars
<1> QED
  BY <1>1, <1>2, <1>3, <1>4, <1>5, <1>6 DEF Next

LEMMA ShownNext == TypeInv /\ ShownInv /\ [Next]_vars => ShownInv'
<1> SUFFICES ASSUME TypeInv, ShownInv, [Next]_vars PROVE ShownInv'
  OBVIOUS
<1>t. TypeInv'
  BY TypeNext
<1>1. ASSUME NEW n \in Calls, At(n, "create", "ok")'
      PROVE  Kept(n)'
  <2>1. n \in Tokens \ {0}
    BY AccessTokensAssumption DEF Calls, Tokens
  <2> QED
    BY <1>1, <2>1, KeptStays, AnsweredKept DEF ShownInv
<1>2. ASSUME NEW a \in Pages, dialog'[a].latest # 0
      PROVE  Kept(dialog[a].latest)'
  <2>1. dialog'[a].latest \in Tokens \ {0}
    BY <1>t, <1>2 DEF TypeInv, TypeOK, DialogRecord
  <2>2. Kept(dialog'[a].latest)
    <3>1. CASE dialog'[a].latest = dialog[a].latest
      BY <1>2, <3>1 DEF ShownInv
    <3>2. CASE dialog'[a].latest # dialog[a].latest
      BY <1>2, <3>2, NewlyShown DEF ShownInv
    <3> QED
      BY <3>1, <3>2
  <2>3. \A t \in Tokens \ {0} : Kept(t) => Kept(t)'
    BY KeptStays
  <2> QED
    BY <2>1, <2>2, <2>3 DEF Kept
<1> QED
  BY <1>1, <1>2 DEF ShownInv

\* Whoever creates, removes and lists tokens under the same identifiers, and
\* wherever a server closes down: a token that a dialog displays authenticates,
\* or was removed, pruned or lost.
THEOREM DisplayedWorks == Spec => []ShownWorks
<1>1. Init => ShownInv
  BY DEF Init, ShownInv, At, NoCall, Blank
<1>2. TypeInv /\ ShownInv => ShownWorks
  BY DEF TypeInv, TypeOK, DialogRecord, ShownInv, Kept, ShownWorks, Accepts, Found
<1> QED
  BY <1>1, <1>2, TypeInit, TypeNext, ShownNext, PTL DEF Spec

-----------------------------------------------------------------------------
(* Listings *)

\* A call that nothing has overlapped is the only one under way.
Lone == \A n, m \in Calls : call[n].alone /\ m # n => ~UnderWay(m)

\* What such a listing has done so far still describes the table.
Listing ==
  \A n \in Calls : call[n].alone /\ ~call[n].late =>
    /\ At(n, "list", "pruned") \/ At(n, "list", "ok") => \A x \in Names : ~rows[x].stale
    /\ At(n, "list", "ok") => call[n].seen = {x \in Names : rows[x] # NoRow}

\* A page that shows its listing shows it until the next call begins.
Quiet == synced # {} => \A m \in Calls : ~UnderWay(m)

ListInv == Lone /\ Listing /\ Quiet /\ ListedTrue

\* A call that begins or follows an answer overlaps all others, and is alone
\* only if there are none.
LEMMA FreshCall ==
  ASSUME TypeInv, NEW n \in Calls, synced' = {},
         NEW c, c.pc = "sent", c.alone => \A m \in Calls \ {n} : ~UnderWay(m),
         call' = [Overlapped EXCEPT ![n] = c]
  PROVE  ListInv'
<1>1. \A m \in Calls \ {n} : call'[m].kind = call[m].kind /\ call'[m].alone = FALSE
  BY DEF Overlapped, TypeInv, TypeOK, CallRecord
<1>2. call'[n] = c
  BY DEF Overlapped
<1>3. Lone'
  BY <1>1, <1>2 DEF Lone, UnderWay
<1>4. Listing'
  BY <1>1, <1>2 DEF Listing, At
<1> QED
  BY <1>3, <1>4 DEF ListInv, Quiet, ListedTrue

LEMMA BeginList ==
  ASSUME TypeInv, NEW n \in Calls, Begin(n)
  PROVE  ListInv'
<1>1. PICK kind, a, x : Begins(n, kind, a, x)
  BY DEF Begin, Open, Create, Remove, CacheId
<1> DEFINE alone == \A m \in Calls : ~UnderWay(m)
           c == [NoCall EXCEPT !.kind = kind, !.page = a, !.name = x, !.pc = "sent",
                               !.alone = alone]
<1>2. call' = [Overlapped EXCEPT ![n] = c] /\ synced' = {}
  BY <1>1 DEF Begins
<1>3. alone => \A m \in Calls \ {n} : ~UnderWay(m)
  OBVIOUS
<1>4. alone \in BOOLEAN
  OBVIOUS
<1> HIDE DEF alone
<1>5. c.pc = "sent" /\ c.alone = alone
  BY <1>4 DEF NoCall
<1> HIDE DEF c
<1> QED
  BY <1>2, <1>3, <1>5, FreshCall

LEMMA RelistsList ==
  ASSUME TypeInv, NEW n \in Calls, Relists(n)
  PROVE  ListInv'
<1> DEFINE alone == \A m \in Calls \ {n} : ~UnderWay(m)
           c == [NoCall EXCEPT !.kind = "list", !.page = call[n].page, !.pc = "sent",
                               !.alone = alone]
<1>1. call' = [Overlapped EXCEPT ![n] = c] /\ synced' = {}
  BY DEF Relists
<1>2. alone => \A m \in Calls \ {n} : ~UnderWay(m)
  OBVIOUS
<1>3. alone \in BOOLEAN
  OBVIOUS
<1> HIDE DEF alone
<1>4. c.pc = "sent" /\ c.alone = alone
  BY <1>3 DEF NoCall
<1> HIDE DEF c
<1> QED
  BY <1>1, <1>2, <1>4, FreshCall

\* A statement is a step of one call that is under way.
LEMMA StatementStep ==
  ASSUME TypeInv, NEW n \in Calls,
         \/ AddToken(n) \/ RevokeToken(n) \/ PruneTokens(n) \/ GetTokens(n)
         \/ MatchId(n) \/ AddId(n) \/ Refuse(n)
  PROVE  /\ UnderWay(n) /\ UNCHANGED <<dialog, synced>>
         /\ \A m \in Calls \ {n} : call'[m] = call[m]
         /\ call'[n].kind = call[n].kind /\ call'[n].alone = call[n].alone
         /\ call'[n].late = call[n].late
BY DEF AddToken, Insert, RevokeToken, PruneTokens, GetTokens, MatchId, AddId, Refuse,
       Rest, At, Goes, UnderWay, TypeInv, TypeOK, CallRecord, Shape

\* What a listing does to what it knows of the table.
LEMMA ListingStep ==
  ASSUME TypeInv, Listing, NEW n \in Calls, call[n].kind = "list",
         call[n].alone, ~call[n].late, PruneTokens(n) \/ GetTokens(n) \/ Refuse(n)
  PROVE  /\ At(n, "list", "pruned")' \/ At(n, "list", "ok")' => \A x \in Names : ~rows'[x].stale
         /\ At(n, "list", "ok")' => call'[n].seen = {x \in Names : rows'[x] # NoRow}
<1>1. CASE PruneTokens(n)
  <2>1. /\ rows' = [x \in Names |-> IF rows[x].stale THEN NoRow ELSE rows[x]]
        /\ call'[n].pc = "pruned"
    BY <1>1 DEF PruneTokens, Goes, TypeInv, TypeOK, CallRecord
  <2> QED
    BY <2>1 DEF At, NoRow
<1>2. CASE GetTokens(n)
  <2>1. call'[n].seen = {x \in Names : rows[x] # NoRow} /\ At(n, "list", "pruned")
    BY <1>2 DEF GetTokens, TypeInv, TypeOK, CallRecord
  <2> QED
    BY <1>2, <2>1 DEF GetTokens, Listing
<1>3. CASE Refuse(n)
  BY <1>3 DEF Refuse, Goes, At, TypeInv, TypeOK, CallRecord
<1> QED
  BY <1>1, <1>2, <1>3

LEMMA StatementList ==
  ASSUME TypeInv, ListInv, NEW n \in Calls,
         \/ AddToken(n) \/ RevokeToken(n) \/ PruneTokens(n) \/ GetTokens(n)
         \/ MatchId(n) \/ AddId(n) \/ Refuse(n)
  PROVE  ListInv'
<1>1. /\ UnderWay(n) /\ UNCHANGED <<dialog, synced>>
      /\ \A m \in Calls \ {n} : call'[m] = call[m]
      /\ call'[n].kind = call[n].kind /\ call'[n].alone = call[n].alone
      /\ call'[n].late = call[n].late
  BY StatementStep
<1>2. synced = {}
  BY <1>1 DEF ListInv, Quiet
<1>3. Lone'
  BY <1>1 DEF ListInv, Lone, UnderWay
<1>4. ASSUME NEW m \in Calls, call'[m].alone, ~call'[m].late, call'[m].kind = "list"
      PROVE  m = n /\ call[n].alone /\ ~call[n].late /\ call[n].kind = "list"
  BY <1>1, <1>4 DEF ListInv, Lone
<1>5. CASE call[n].kind = "list"
  <2>1. PruneTokens(n) \/ GetTokens(n) \/ Refuse(n)
    BY <1>5 DEF AddToken, RevokeToken, MatchId, AddId, At
  <2>2. Listing'
    BY <1>1, <1>4, <2>1, ListingStep DEF ListInv, Listing, At
  <2> QED
    BY <1>1, <1>2, <1>3, <2>2 DEF ListInv, Quiet, ListedTrue
<1>6. CASE call[n].kind # "list"
  <2>1. Listing'
    BY <1>4, <1>6 DEF Listing, At
  <2> QED
    BY <1>1, <1>2, <1>3, <2>1 DEF ListInv, Quiet, ListedTrue
<1> QED
  BY <1>5, <1>6

\* An answer to a listing, and the end of a call.
LEMMA LastList ==
  ASSUME TypeInv, ListInv, NEW n \in Calls, Listed(n) \/ Ends(n)
  PROVE  ListInv'
<1>1. /\ UnderWay(n) /\ call' = [call EXCEPT ![n] = NoCall] /\ UNCHANGED rows
  BY DEF Listed, Ends, Tables, At, UnderWay, TypeInv, TypeOK, CallRecord, Shape
<1>2. synced = {}
  BY <1>1 DEF ListInv, Quiet
<1>3. Lone' /\ Listing'
  BY <1>1 DEF ListInv, Lone, Listing, At, UnderWay, NoCall, TypeInv, TypeOK
<1>4. CASE Ends(n)
  BY <1>2, <1>3, <1>4 DEF Ends, ListInv, Quiet, ListedTrue
<1>5. CASE Listed(n) /\ ~(call[n].alone /\ ~call[n].late)
  BY <1>2, <1>3, <1>5 DEF Listed, ListInv, Quiet, ListedTrue
<1>6. CASE Listed(n) /\ call[n].alone /\ ~call[n].late
  <2>1. /\ synced' = {call[n].page} /\ call[n].page \in Pages
        /\ dialog'[call[n].page].tokens = call[n].seen
    BY <1>2, <1>6 DEF Listed, At, TypeInv, TypeOK, Shape, DialogRecord
  <2>2. call[n].seen = {x \in Names : rows[x] # NoRow /\ ~rows[x].stale}
    BY <1>6 DEF Listed, ListInv, Listing
  <2>3. ListedTrue'
    BY <1>1, <2>1, <2>2 DEF ListedTrue
  <2>4. Quiet'
    BY <1>1, <1>6 DEF ListInv, Lone, Quiet, UnderWay, NoCall, TypeInv, TypeOK
  <2> QED
    BY <1>3, <2>3, <2>4 DEF ListInv
<1> QED
  BY <1>4, <1>5, <1>6

\* A server that closes down makes calls late, never the reverse.
LEMMA ShutDownList ==
  ASSUME TypeInv, ListInv, ShutDown
  PROVE  ListInv'
<1>1. PICK S \in SUBSET Calls : call' = [n \in Calls |-> [call[n] EXCEPT !.late = @ \/ n \in S]]
  BY DEF ShutDown
<1> DEFINE late(n) == call[n].late \/ n \in S
<1>2. call' = [n \in Calls |-> [call[n] EXCEPT !.late = late(n)]]
  BY <1>1
<1>3. \A n \in Calls : call[n].late => late(n)
  OBVIOUS
<1> HIDE DEF late
<1>4. \A n \in Calls : call[n].late => call'[n].late
  <2>1. ASSUME NEW n \in Calls
        PROVE  call'[n].late = late(n)
    BY <1>2 DEF TypeInv, TypeOK, CallRecord
  <2> QED
    BY <1>3, <2>1
<1>5. Lone' /\ Quiet'
  BY ShutDownCalls DEF ShutDown, Rest, ListInv, Lone, Quiet, UnderWay
<1>6. Listing'
  <2>1. UNCHANGED rows
    BY DEF ShutDown
  <2> SUFFICES ASSUME NEW n \in Calls, call'[n].alone, ~call'[n].late
               PROVE  /\ At(n, "list", "pruned")' \/ At(n, "list", "ok")'
                           => \A x \in Names : ~rows'[x].stale
                      /\ At(n, "list", "ok")'
                           => call'[n].seen = {x \in Names : rows'[x] # NoRow}
    BY DEF Listing
  <2>2. call[n].alone /\ ~call[n].late
    BY <1>4, ShutDownCalls
  <2>3. /\ At(n, "list", "pruned")' <=> At(n, "list", "pruned")
        /\ At(n, "list", "ok")' <=> At(n, "list", "ok")
        /\ call'[n].seen = call[n].seen
    BY ShutDownCalls DEF At
  <2> QED
    BY <2>1, <2>2, <2>3 DEF ListInv, Listing
<1>7. ListedTrue'
  BY DEF ShutDown, Rest, ListInv, ListedTrue
<1> QED
  BY <1>5, <1>6, <1>7 DEF ListInv

LEMMA ListNext == TypeInv /\ ListInv /\ [Next]_vars => ListInv'
<1> SUFFICES ASSUME TypeInv, ListInv, [Next]_vars PROVE ListInv'
  OBVIOUS
<1>1. ASSUME NEW n \in Calls, Created(n) \/ Removed(n)
      PROVE  ListInv'
  BY <1>1, RelistsList DEF Created, Removed
<1>2. ASSUME NEW a \in Pages, Close(a)
      PROVE  ListInv'
  <2>1. \A b \in Pages : dialog'[b].tokens = dialog[b].tokens
    BY <1>2 DEF Close, TypeInv, TypeOK, DialogRecord
  <2>2. UNCHANGED <<rows, call, synced>> /\ synced \subseteq Pages
    BY <1>2 DEF Close, TypeInv, TypeOK
  <2> QED
    BY <2>1, <2>2 DEF ListInv, Lone, Listing, Quiet, ListedTrue, At, UnderWay
<1>3. CASE DayPasses
  <2>1. \A n \in Calls : call[n].pc = "none"
    BY <1>3 DEF DayPasses, UnderWay, TypeInv, Shape
  <2> QED
    BY <1>3, <2>1 DEF DayPasses, ListInv, Lone, Listing, Quiet, ListedTrue, At, UnderWay
<1>4. CASE UNCHANGED vars
  BY <1>4 DEF vars, ListInv, Lone, Listing, Quiet, ListedTrue, At, UnderWay
<1> QED
  BY <1>1, <1>2, <1>3, <1>4, BeginList, StatementList, LastList, ShutDownList DEF Next

\* Whatever went wrong before, and however the calls of the pages interleave:
\* a listing that nothing overlapped shows exactly the tokens that work.
THEOREM ListingExact == Spec => []ListedTrue
<1>1. Init => ListInv
  BY DEF Init, ListInv, Lone, Listing, Quiet, ListedTrue, At, NoCall
<1>2. ListInv => ListedTrue
  BY DEF ListInv
<1> QED
  BY <1>1, <1>2, TypeInit, TypeNext, ListNext, PTL DEF Spec

-----------------------------------------------------------------------------
(* Cached project ids *)

\* Of two requests that both found the project's name missing, the second does
\* not replace what the first has cached.
THEOREM IdStays == Spec => IdKept
<1>1. ASSUME [Next]_vars, id # 0
      PROVE  id' = id
  <2>1. ASSUME NEW n \in Calls, Begin(n)
        PROVE  id' = id
    BY <2>1 DEF Begin, Open, Create, Remove, CacheId, Begins
  <2>2. ASSUME NEW n \in Calls,
               \/ AddToken(n) \/ RevokeToken(n) \/ PruneTokens(n) \/ GetTokens(n)
               \/ MatchId(n) \/ Refuse(n)
        PROVE  id' = id
    BY <2>2 DEF AddToken, RevokeToken, PruneTokens, GetTokens, MatchId, Refuse
  <2>3. ASSUME NEW n \in Calls, AddId(n)
        PROVE  id' = id
    BY <1>1, <2>3 DEF AddId
  <2>4. ASSUME NEW n \in Calls, Created(n) \/ Removed(n) \/ Listed(n) \/ Ends(n)
        PROVE  id' = id
    BY <2>4 DEF Created, Removed, Listed, Ends, Relists, Tables
  <2>5. CASE (\E a \in Pages : Close(a)) \/ ShutDown \/ DayPasses \/ UNCHANGED vars
    BY <2>5 DEF Close, ShutDown, DayPasses, vars
  <2> QED
    BY <1>1, <2>1, <2>2, <2>3, <2>4, <2>5 DEF Next
<1>2. [Next]_vars => [id # 0 => id' = id]_vars
  BY <1>1
<1> QED
  BY <1>2, PTL DEF Spec, IdKept
=============================================================================
