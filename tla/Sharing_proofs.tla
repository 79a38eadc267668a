---------------------------- MODULE Sharing_proofs ----------------------------
(***************************************************************************)
(* Sharing, for any number of projects, pages, operations and faults.  The  *)
(* variables keep their types; as long as no operations overlap and no      *)
(* request fails, the owner stays in the ACLs and every project that the    *)
(* ACL of the container admits is in the table of shares; and a             *)
(* synchronisation that nothing disturbs ends with the table and the ACLs   *)
(* in agreement.                                                            *)
(*                                                                         *)
(* The invariant behind the last of them says of each phase of a            *)
(* synchronisation what is already right and which of its calls will make   *)
(* right the rest: SyncOf.  A phase plans the calls of the next one, one for *)
(* each part or project in some order, which is what the lemmas on PlanOf   *)
(* are about.  The invariant behind the other two says of the calls that a  *)
(* dialog has still to make what they will find: DialogOf, RequestsOf.      *)
(***************************************************************************)
EXTENDS Sharing, FiniteSetTheorems, SequenceTheorems, TLAPS

-----------------------------------------------------------------------------
(* The inductive invariant *)

\* What each kind of operation calls
Kinds == {{"insert", "add"}, {"modify", "update"}, {"clear", "delete"}, SyncCalls}
KindOf(a, names) == \A i \in DOMAIN todo[a] : todo[a][i].name \in names

TypeInv ==
  /\ TypeOK
  /\ todo \in [Actors -> Seq(Calls)]
  /\ \A a \in Actors : \E names \in Kinds : KindOf(a, names)

\* While nothing has overlapped, or a synchronisation is undisturbed, a single
\* actor is at work.
Alone == \A a, b \in Actors : Busy(a) /\ Busy(b) => a = b

Owned(s) == Owner \in s.read /\ Owner \in s.write

\* The requests of a call that changes an ACL, when no other does: what it has read
\* is still so when it writes, and the owner is in it.
RequestsOf(a) ==
  /\ stage[a] \in {"retain", "write"} => seen[a][This(a).part] = acl[This(a).part]
  /\ stage[a] \in {"read", "write"} => Owned(acl[This(a).part])

\* A call of a dialog that grants access to the container comes after the rows are
\* in the table, one that deletes rows after the access has been taken away.
DialogOf(a) ==
  \A i \in DOMAIN todo[a] :
    /\ todo[a][i].name \in {"add", "modify"} =>
         \/ \A r \in todo[a][i].to : Listed("container", r)
         \/ /\ This(a).name = "insert" /\ This(a).part = "container"
            /\ todo[a][i].to \subseteq This(a).to
    /\ todo[a][i].name = "delete" =>
         \/ Granted(acl["container"]) \subseteq {Owner}
         \/ This(a).name = "clear" /\ This(a).part = "container" /\ stage[a] = "begin"

NoneHidden == \A r \in Recipients : r \in Granted(acl["container"]) => Listed("container", r)

CalmOf ==
  /\ \A p \in Parts : acl[p] # NoAcl => Owned(acl[p])
  /\ \A a \in Actors : Busy(a) => RequestsOf(a)
  /\ \A a \in Actors : Busy(a) /\ ~Syncing(a) => DialogOf(a)
  /\ (\A a \in Actors : ~Syncing(a)) => NoneHidden

\* A synchronisation, phase by phase: what is still to be read, deleted and
\* inserted is among its calls.
Snapped(a) == \A p \in Parts : seen[a][p] = acl[p]

Reading(a) ==
  /\ Len(todo[a]) >= 2
  /\ \A i \in DOMAIN todo[a] :
       todo[a][i].name = IF i = Len(todo[a]) THEN "list_rows"
                         ELSE IF i = Len(todo[a]) - 1 THEN "list_stale" ELSE "snapshot"
  /\ \A p \in Parts : \/ seen[a][p] = acl[p]
                      \/ \E i \in DOMAIN todo[a] :
                           todo[a][i].name = "snapshot" /\ todo[a][i].part = p

DeletingParts(a) ==
  /\ Snapped(a)
  /\ \A i \in DOMAIN todo[a] :
       IF i = Len(todo[a]) THEN todo[a][i].name = "list_rows"
       ELSE todo[a][i].name = "sync_delete" /\ todo[a][i].to = Recipients
  /\ \A p \in ListedParts \ Shown(a) : \E i \in DOMAIN todo[a] :
       todo[a][i].name = "sync_delete" /\ todo[a][i].part = p

DeletingRows(a) ==
  /\ Snapped(a) /\ ListedParts \subseteq Shown(a)
  /\ \A i \in DOMAIN todo[a] :
       IF i = Len(todo[a]) THEN todo[a][i].name = "list_new"
       ELSE todo[a][i].name \in {"details", "sync_delete"} /\ todo[a][i].part \in Shown(a)
  /\ \A p \in Parts, r \in Recipients :
       Listed(p, r) /\ Stale(shares[p][r], r, acl[p]) =>
         \E i \in DOMAIN todo[a] :
           /\ todo[a][i].part = p
           /\ todo[a][i].name = "details" \/ (todo[a][i].name = "sync_delete" /\ todo[a][i].to = {r})

\* The rows that are there are right; a missing one is still to be inserted, once.
InsertOf(a, i) ==
  LET c == todo[a][i] IN
    \/ c.name = "new" /\ (c.to = Recipients \/ c.part \notin ListedParts)
    \/ /\ c.name = "sync_insert"
       /\ \E r \in Granted(acl[c.part]) \cap Recipients :
            c.to = {r} /\ c.rights = RightsIn(acl[c.part], r) /\ ~Listed(c.part, r)
Inserting(a) ==
  /\ Snapped(a)
  /\ \A p \in Parts, r \in Recipients : Listed(p, r) => ~Stale(shares[p][r], r, acl[p])
  /\ \A i \in DOMAIN todo[a] : InsertOf(a, i)
  /\ \A i, j \in DOMAIN todo[a] : i # j /\ todo[a][i].part = todo[a][j].part =>
       /\ todo[a][i].name = "sync_insert" /\ todo[a][j].name = "sync_insert"
       /\ todo[a][i].to # todo[a][j].to
  /\ \A p \in Parts : \A r \in Granted(acl[p]) \cap Recipients :
       \/ Listed(p, r)
       \/ \E i \in DOMAIN todo[a] :
            todo[a][i].part = p /\ (todo[a][i].name = "new" \/ todo[a][i].to = {r})

SyncOf(a) == Reading(a) \/ DeletingParts(a) \/ DeletingRows(a) \/ Inserting(a)

AllAgree == \A p \in Parts, r \in Recipients : Agrees(p, r)

SyncInv ==
  /\ calm \/ quiet => Alone /\ \A a \in Actors : Syncing(a) => SyncOf(a)
  /\ quiet => /\ \A a \in Actors : Busy(a) => Syncing(a)
              /\ Idle => AllAgree

CalmInv == calm => CalmOf

-----------------------------------------------------------------------------
(* Sequences of calls *)

\* An order of a set names each of its elements once.
LEMMA Order ==
  ASSUME NEW S, IsFiniteSet(S), NEW order \in SetToSeqs(S)
  PROVE  /\ order \in Seq(S) /\ DOMAIN order = 1 .. Len(order)
         /\ \A x \in S : \E i \in 1 .. Len(order) : order[i] = x
         /\ \A i, j \in 1 .. Len(order) : i # j => order[i] # order[j]
<1> DEFINE n == Cardinality(S)
<1>1. n \in Nat
  BY FS_CardinalityType
<1>2. order \in [1 .. n -> S] /\ \A i, j \in 1 .. n : i # j => order[i] # order[j]
  BY DEF SetToSeqs
<1>3. IsFiniteSet(1 .. n) /\ Cardinality(1 .. n) = n
  BY <1>1, FS_Interval
<1>4. order \in Injection(1 .. n, S)
  BY <1>2 DEF Injection, IsInjective
<1>5. order \in Surjection(1 .. n, S)
  BY <1>3, <1>4, FS_Injection
<1> QED
  BY <1>1, <1>2, <1>5 DEF Surjection

\* Continue with a call per element of S, in some order, and then with rest
Plans(a, S, F, rest) ==
  \E order \in SetToSeqs(S) : Continue(a, [i \in DOMAIN order |-> F[order[i]]] \o rest)

\* s is such a sequence; its first n calls are those of S
PlanOf(s, n, S, F, rest) ==
  /\ s \in Seq(Calls) /\ n \in Nat /\ Len(s) = n + Len(rest)
  /\ \A i \in 1 .. n : \E x \in S : s[i] = F[x]
  /\ \A x \in S : \E i \in 1 .. n : s[i] = F[x]
  /\ \A i, j \in 1 .. n : i # j => \E x, y \in S : x # y /\ s[i] = F[x] /\ s[j] = F[y]
  /\ \A i \in 1 .. Len(rest) : s[n + i] = rest[i]

LEMMA Planned ==
  ASSUME NEW a, NEW S, IsFiniteSet(S), NEW F \in [S -> Calls], NEW rest \in Seq(Calls),
         Plans(a, S, F, rest)
  PROVE  \E s \in Seq(Calls), n \in Nat : Continue(a, s) /\ PlanOf(s, n, S, F, rest)
<1>1. PICK order \in SetToSeqs(S) : Continue(a, [i \in DOMAIN order |-> F[order[i]]] \o rest)
  BY DEF Plans
<1>2. /\ order \in Seq(S) /\ DOMAIN order = 1 .. Len(order)
      /\ \A x \in S : \E i \in 1 .. Len(order) : order[i] = x
      /\ \A i, j \in 1 .. Len(order) : i # j => order[i] # order[j]
  BY Order
<1> DEFINE n == Len(order)
           t == [i \in DOMAIN order |-> F[order[i]]]
           s == t \o rest
<1>3. n \in Nat /\ \A i \in 1 .. n : order[i] \in S
  BY <1>2
<1>4. t \in Seq(Calls) /\ Len(t) = n
  <2>1. t \in [1 .. n -> Calls]
    BY <1>2, <1>3
  <2> QED
    BY <1>3, <2>1, IsASeq
<1>5. /\ s \in Seq(Calls) /\ Len(s) = n + Len(rest)
      /\ \A i \in 1 .. n : s[i] = F[order[i]]
      /\ \A i \in 1 .. Len(rest) : s[n + i] = rest[i]
  <2> HIDE DEF n
  <2>1. Len(rest) \in Nat
    OBVIOUS
  <2>2. \A i \in 1 .. n : t[i] = F[order[i]]
    BY <1>2 DEF n
  <2> HIDE DEF t
  <2>3. s \in Seq(Calls) /\ Len(s) = n + Len(rest)
    BY <1>4, ConcatProperties
  <2>4. \A i \in 1 .. n + Len(rest) : s[i] = IF i <= n THEN t[i] ELSE rest[i - n]
    BY <1>4, ConcatProperties
  <2>7. n \in Nat
    BY <1>3
  <2> HIDE DEF s
  <2>5. \A i \in 1 .. Len(rest) : s[n + i] = rest[i]
    BY <2>1, <2>4, <2>7
  <2>6. \A i \in 1 .. n : s[i] = t[i]
    BY <2>1, <2>4, <2>7
  <2> QED
    BY <2>2, <2>3, <2>5, <2>6
<1> HIDE DEF s, n
<1>6. PlanOf(s, n, S, F, rest)
  BY <1>2, <1>3, <1>5 DEF PlanOf, n
<1>7. Continue(a, s)
  BY <1>1 DEF s
<1> QED
  BY <1>3, <1>5, <1>6, <1>7 DEF n

\* The calls that are left when the first has been made
LEMMA Rests ==
  ASSUME TypeInv, NEW a \in Actors, Busy(a)
  PROVE  /\ todo[a] \in Seq(Calls) /\ Len(todo[a]) \in Nat \ {0} /\ DOMAIN todo[a] = 1 .. Len(todo[a])
         /\ This(a) = todo[a][1] /\ This(a) \in Calls
         /\ Rest(a) \in Seq(Calls) /\ Len(Rest(a)) = Len(todo[a]) - 1
         /\ DOMAIN Rest(a) = 1 .. Len(todo[a]) - 1
         /\ \A i \in DOMAIN Rest(a) : Rest(a)[i] = todo[a][i + 1]
<1>1. todo[a] \in Seq(Calls) /\ todo[a] # <<>>
  BY DEF TypeInv, Busy
<1> QED
  BY <1>1 DEF This, Rest

\* The plans of a synchronisation
LEMMA StalePlan ==
  ASSUME NEW a, ListStale(a)
  PROVE  Plans(a, ListedParts \ Shown(a),
               [p \in ListedParts \ Shown(a) |-> Call("sync_delete", p, Recipients, {})], Rest(a))
<1> DEFINE S == ListedParts \ Shown(a)
           F == [p \in S |-> Call("sync_delete", p, Recipients, {})]
<1>1. PICK order \in SetToSeqs(S) :
        Continue(a, [i \in DOMAIN order |-> Call("sync_delete", order[i], Recipients, {})] \o Rest(a))
  BY DEF ListStale, InSomeOrder
<1>2. \A i \in DOMAIN order : order[i] \in S
  BY <1>1 DEF SetToSeqs
<1>3. [i \in DOMAIN order |-> Call("sync_delete", order[i], Recipients, {})]
        = [i \in DOMAIN order |-> F[order[i]]]
  BY <1>2
<1> QED
  BY <1>1, <1>3 DEF Plans

LEMMA DetailsPlan ==
  ASSUME NEW a, ListRows(a)
  PROVE  Plans(a, ListedParts, [p \in ListedParts |-> Call("details", p, {}, {})],
               <<Sync("list_new")>>)
<1> DEFINE F == [p \in ListedParts |-> Call("details", p, {}, {})]
<1>1. PICK order \in SetToSeqs(ListedParts) :
        Continue(a, [i \in DOMAIN order |-> Call("details", order[i], {}, {})] \o <<Sync("list_new")>>)
  BY DEF ListRows, InSomeOrder
<1>2. \A i \in DOMAIN order : order[i] \in ListedParts
  BY <1>1 DEF SetToSeqs
<1>3. [i \in DOMAIN order |-> Call("details", order[i], {}, {})]
        = [i \in DOMAIN order |-> F[order[i]]]
  BY <1>2
<1> QED
  BY <1>1, <1>3 DEF Plans

StaleRows(a, p) == {r \in Recipients : Listed(p, r) /\ Stale(shares[p][r], r, seen[a][p])}

LEMMA RowsPlan ==
  ASSUME NEW a, Details(a), This(a).part \notin ListedParts \ Shown(a)
  PROVE  Plans(a, StaleRows(a, This(a).part),
               [r \in StaleRows(a, This(a).part) |-> Call("sync_delete", This(a).part, {r}, {})],
               Rest(a))
<1> DEFINE S == StaleRows(a, This(a).part)
           F == [r \in S |-> Call("sync_delete", This(a).part, {r}, {})]
<1>1. PICK order \in SetToSeqs(S) :
        Continue(a, [i \in DOMAIN order |-> Call("sync_delete", This(a).part, {order[i]}, {})] \o Rest(a))
  BY DEF Details, InSomeOrder, StaleRows
<1>2. \A i \in DOMAIN order : order[i] \in S
  BY <1>1 DEF SetToSeqs
<1>3. [i \in DOMAIN order |-> Call("sync_delete", This(a).part, {order[i]}, {})]
        = [i \in DOMAIN order |-> F[order[i]]]
  BY <1>2
<1> QED
  BY <1>1, <1>3 DEF Plans

NewCall(p) == Call("new", p, IF p \in ListedParts THEN Recipients ELSE {}, {})

LEMMA NewPlan ==
  ASSUME NEW a, ListNew(a)
  PROVE  Plans(a, Shown(a), [p \in Shown(a) |-> NewCall(p)], <<>>)
<1> DEFINE F == [p \in Shown(a) |-> NewCall(p)]
<1>1. PICK order \in SetToSeqs(Shown(a)) :
        Continue(a, [i \in DOMAIN order |-> NewCall(order[i])] \o <<>>)
  BY DEF ListNew, InSomeOrder, NewCall
<1>2. \A i \in DOMAIN order : order[i] \in Shown(a)
  BY <1>1 DEF SetToSeqs
<1>3. [i \in DOMAIN order |-> NewCall(order[i])] = [i \in DOMAIN order |-> F[order[i]]]
  BY <1>2
<1> QED
  BY <1>1, <1>3 DEF Plans

Missing(a, p) == Granted(seen[a][p]) \ ({Owner} \cup {r \in This(a).to : Listed(p, r)})

LEMMA InsertPlan ==
  ASSUME NEW a, New(a)
  PROVE  Plans(a, Missing(a, This(a).part),
               [r \in Missing(a, This(a).part) |->
                  Call("sync_insert", This(a).part, {r}, RightsIn(seen[a][This(a).part], r))],
               Rest(a))
<1> DEFINE p == This(a).part
           S == Missing(a, p)
           F == [r \in S |-> Call("sync_insert", p, {r}, RightsIn(seen[a][p], r))]
<1>1. PICK order \in SetToSeqs(S) :
        Continue(a, [i \in DOMAIN order |->
                       Call("sync_insert", p, {order[i]}, RightsIn(seen[a][p], order[i]))] \o Rest(a))
  BY DEF New, InSomeOrder, Missing
<1>2. \A i \in DOMAIN order : order[i] \in S
  BY <1>1 DEF SetToSeqs
<1>3. [i \in DOMAIN order |-> Call("sync_insert", p, {order[i]}, RightsIn(seen[a][p], order[i]))]
        = [i \in DOMAIN order |-> F[order[i]]]
  BY <1>2
<1> QED
  BY <1>1, <1>3 DEF Plans

-----------------------------------------------------------------------------
(* Type correctness *)

Names == SyncCalls \cup {"insert", "update", "delete", "add", "modify", "clear"}
Changing == {"add", "modify", "clear"}
Stages == {"begin", "cleared", "retain", "read", "write"}

HistoryTypes ==
  /\ ops \in 0 .. MaxOps /\ faults \in 0 .. MaxFaults /\ calm \in BOOLEAN /\ quiet \in BOOLEAN

LEMMA TypeStep ==
  ASSUME TypeInv, NEW a \in Actors, NEW calls \in Seq(Calls), NEW s \in Stages,
         s # "begin" => calls # <<>> /\ calls[1].name \in Changing,
         \E names \in Kinds : \A i \in DOMAIN calls : calls[i].name \in names,
         todo' = [todo EXCEPT ![a] = calls], stage' = [stage EXCEPT ![a] = s],
         acl' \in [Parts -> Acls],
         shares' \in [Parts -> [Recipients -> {NoRow} \cup SUBSET {"r", "w"}]],
         seen' \in [Actors -> [Parts -> Acls]], HistoryTypes'
  PROVE  TypeInv'
<1>1. todo' \in [Actors -> Seq(Calls)] /\ todo'[a] = calls /\ stage'[a] = s
  BY DEF TypeInv, TypeOK, Stages
<1>2. \A b \in Actors : b # a => todo'[b] = todo[b] /\ stage'[b] = stage[b]
  BY DEF TypeInv, TypeOK
<1>3. \A b \in Actors : \E names \in Kinds : KindOf(b, names)'
  BY <1>1, <1>2 DEF TypeInv, KindOf
<1>4. stage' \in [Actors -> Stages]
  BY DEF TypeInv, TypeOK, Stages
<1>5. \A b \in Actors : stage'[b] # "begin" => Does(b, Changing)'
  <2>1. ASSUME NEW b \in Actors, b # a, stage[b] # "begin" PROVE Does(b, Changing)'
    BY <1>2, <2>1 DEF TypeInv, TypeOK, Does, Busy, Changing
  <2>2. s # "begin" => Does(a, Changing)'
    BY <1>1 DEF Does, Busy
  <2> QED
    BY <1>1, <1>2, <2>1, <2>2
<1>6. \A b \in Actors : Range(todo'[b]) \subseteq Calls
  <2>1. ASSUME NEW q \in Seq(Calls) PROVE Range(q) \subseteq Calls
    BY <2>1 DEF Range
  <2> QED
    BY <1>1, <2>1
<1>7. TypeOK'
  BY <1>4, <1>5, <1>6 DEF TypeOK, HistoryTypes, Stages, Changing
<1> QED
  BY <1>1, <1>3, <1>7 DEF TypeInv

LEMMA Fields ==
  /\ \A c \in Calls : c.name \in Names /\ c.part \in Parts /\ c.to \in SUBSET Recipients
                      /\ c.rights \in SUBSET {"r", "w"}
  /\ \A name \in Names, p \in Parts, to \in SUBSET Recipients, rights \in SUBSET {"r", "w"} :
       Call(name, p, to, rights) \in Calls
  /\ \A name, p, to, rights : /\ Call(name, p, to, rights).name = name
                              /\ Call(name, p, to, rights).part = p
                              /\ Call(name, p, to, rights).to = to
                              /\ Call(name, p, to, rights).rights = rights
  /\ NoAcl \in Acls /\ \A s \in Acls : Retained(s) \in Acls
BY DEF Calls, Call, Names, Acls, NoAcl, Retained

\* A call is taken from the front, or all are given up.
LEMMA TypeRest ==
  ASSUME TypeInv, NEW a \in Actors, Busy(a), Continue(a, Rest(a)) \/ Continue(a, <<>>),
         acl' \in [Parts -> Acls],
         shares' \in [Parts -> [Recipients -> {NoRow} \cup SUBSET {"r", "w"}]],
         seen' \in [Actors -> [Parts -> Acls]], HistoryTypes'
  PROVE  TypeInv'
<1>1. PICK names \in Kinds : KindOf(a, names)
  BY DEF TypeInv
<1>2. CASE Continue(a, Rest(a))
  <2>1. \A i \in DOMAIN Rest(a) : Rest(a)[i].name \in names
    BY <1>1, Rests DEF KindOf
  <2> QED
    BY <1>2, <2>1, Rests, TypeStep DEF Continue, Stages
<1>3. CASE Continue(a, <<>>)
  <2>1. <<>> \in Seq(Calls) /\ DOMAIN <<>> = {}
    OBVIOUS
  <2> QED
    BY <1>3, <2>1, TypeStep DEF Continue, Stages, Kinds
<1> QED
  BY <1>2, <1>3

\* The current call goes on.
LEMMA TypeTo ==
  ASSUME TypeInv, NEW a \in Actors, Does(a, Changing), NEW s \in Stages, To(a, s),
         acl' \in [Parts -> Acls],
         shares' \in [Parts -> [Recipients -> {NoRow} \cup SUBSET {"r", "w"}]],
         seen' \in [Actors -> [Parts -> Acls]], HistoryTypes'
  PROVE  TypeInv'
<1>1. todo' = [todo EXCEPT ![a] = todo[a]]
  BY DEF To, TypeInv
<1>2. todo[a] # <<>> /\ todo[a][1].name \in Changing /\ todo[a] \in Seq(Calls)
  BY Rests DEF Does, This, Busy
<1>3. \E names \in Kinds : \A i \in DOMAIN todo[a] : todo[a][i].name \in names
  BY DEF TypeInv, KindOf
<1> QED
  BY <1>1, <1>2, <1>3, TypeStep DEF To

LEMMA TypeFault == ASSUME TypeInv, NEW name, Fault(name), calm' \in BOOLEAN PROVE HistoryTypes'
<1>1. faults \in Nat /\ MaxFaults \in Nat /\ faults < MaxFaults /\ faults' = faults + 1
  BY SharingAssumption DEF TypeInv, TypeOK, Fault
<1>2. faults' \in 0 .. MaxFaults
  BY <1>1
<1> QED
  BY <1>2 DEF TypeInv, TypeOK, Fault, HistoryTypes

LEMMA TypeReads ==
  ASSUME TypeInv, NEW a \in Actors, NEW p \in Parts, Reads(a, p)
  PROVE  seen' \in [Actors -> [Parts -> Acls]] /\ HistoryTypes'
<1>1. CASE seen' = [seen EXCEPT ![a][p] = acl[p]] /\ History
  BY <1>1 DEF TypeInv, TypeOK, History, HistoryTypes
<1>2. CASE Fails("head") /\ seen' = [seen EXCEPT ![a][p] = NoAcl]
  <2>1. seen' \in [Actors -> [Parts -> Acls]]
    BY <1>2, Fields DEF TypeInv, TypeOK
  <2> QED
    BY <1>2, <2>1, TypeFault DEF Fails
<1> QED
  BY <1>1, <1>2 DEF Reads

LEMMA TypeForget ==
  ASSUME TypeInv, NEW a \in Actors, Forget(a) PROVE seen' \in [Actors -> [Parts -> Acls]]
BY Fields DEF Forget, TypeInv, TypeOK

LEMMA TypeBegins ==
  ASSUME TypeInv, NEW a \in Actors, NEW calls \in Seq(Calls), Begins(a, calls), quiet' \in BOOLEAN,
         \E names \in Kinds : \A i \in DOMAIN calls : calls[i].name \in names
  PROVE  TypeInv'
<1>1. stage[a] = "begin" /\ stage' = [stage EXCEPT ![a] = "begin"]
  BY DEF Begins, TypeInv, TypeOK, Does
<1>2. ops' \in 0 .. MaxOps
  <2>1. ops \in Nat /\ MaxOps \in Nat /\ ops < MaxOps /\ ops' = ops + 1
    BY SharingAssumption DEF TypeInv, TypeOK, Begins
  <2> QED
    BY <2>1
<1>3. seen' \in [Actors -> [Parts -> Acls]]
  BY Fields DEF Begins, TypeInv, TypeOK
<1>4. calm' \in BOOLEAN /\ faults' = faults /\ acl' = acl /\ shares' = shares
  BY DEF Begins, TypeInv, TypeOK
<1>5. todo' = [todo EXCEPT ![a] = calls] /\ "begin" \in Stages
  BY DEF Begins, Stages
<1>6. HistoryTypes'
  BY <1>2, <1>4 DEF HistoryTypes, TypeInv, TypeOK
<1> QED
  BY <1>1, <1>3, <1>4, <1>5, <1>6, TypeStep DEF TypeInv, TypeOK

OnBothTwice(n1, n2, to, r1, r2) == OnBoth(n1, to, r1) \o OnBoth(n2, to, r2)

LEMMA Four ==
  ASSUME NEW n1 \in Names, NEW n2 \in Names, NEW to1 \in SUBSET Recipients,
         NEW r1 \in SUBSET {"r", "w"}, NEW r2 \in SUBSET {"r", "w"},
         NEW calls, calls = OnBothTwice(n1, n2, to1, r1, r2)
  PROVE  /\ calls \in Seq(Calls) /\ calls # <<>>
         /\ calls[1].name = n1 /\ calls[1].part = "container"
         /\ \A i \in DOMAIN calls : calls[i].name \in {n1, n2} /\ calls[i].to = to1
<1> DEFINE c1 == Call(n1, "container", to1, r1)
           c2 == Call(n1, "segments", to1, r1)
           c3 == Call(n2, "container", to1, r2)
           c4 == Call(n2, "segments", to1, r2)
<1>1. calls = <<c1, c2>> \o <<c3, c4>>
  BY DEF OnBoth, OnBothTwice
<1>2. {c1, c2, c3, c4} \subseteq Calls
  BY Fields DEF Parts
<1>3. /\ c1.name = n1 /\ c2.name = n1 /\ c3.name = n2 /\ c4.name = n2
      /\ c1.to = to1 /\ c2.to = to1 /\ c3.to = to1 /\ c4.to = to1 /\ c1.part = "container"
  BY Fields
<1> HIDE DEF c1, c2, c3, c4
<1>4. calls = <<c1, c2, c3, c4>>
  <2>1. <<c1, c2>> \o <<c3, c4>> = <<c1, c2, c3, c4>>
    <3>1. /\ <<c1, c2>> \in Seq(Calls) /\ <<c3, c4>> \in Seq(Calls)
          /\ Len(<<c1, c2>>) = 2 /\ Len(<<c3, c4>>) = 2
          /\ <<c1, c2, c3, c4>> \in Seq(Calls) /\ Len(<<c1, c2, c3, c4>>) = 4
      BY <1>2
    <3> DEFINE x == <<c1, c2>> \o <<c3, c4>>
               y == <<c1, c2, c3, c4>>
    <3>2. /\ x \in Seq(Calls) /\ Len(x) = 4
          /\ \A i \in 1 .. 4 : x[i] = IF i <= 2 THEN <<c1, c2>>[i] ELSE <<c3, c4>>[i - 2]
      BY <3>1, ConcatProperties
    <3>3. \A i \in 1 .. 4 : i = 1 \/ i = 2 \/ i = 3 \/ i = 4
      OBVIOUS
    <3>4. \A i \in 1 .. 4 : x[i] = y[i]
      <4> HIDE DEF x
      <4>1. x[1] = c1 /\ x[2] = c2 /\ x[3] = c3 /\ x[4] = c4
        BY <3>2
      <4> QED
        BY <3>3, <4>1
    <3> QED
      BY <3>1, <3>2, <3>4, SeqEqual
  <2> QED
    BY <1>1, <2>1
<1>5. /\ calls \in Seq(Calls) /\ Len(calls) = 4 /\ DOMAIN calls = 1 .. 4
      /\ calls[1] = c1 /\ calls[2] = c2 /\ calls[3] = c3 /\ calls[4] = c4
  BY <1>2, <1>4
<1>6. \A i \in DOMAIN calls : calls[i].name \in {n1, n2} /\ calls[i].to = to1
  <2>1. \A i \in 1 .. 4 : i \in {1, 2, 3, 4}
    OBVIOUS
  <2> QED
    BY <1>3, <1>5, <2>1
<1> QED
  <2>1. calls \in Seq(Calls) /\ calls # <<>>
    BY <1>4, <1>5
  <2>2. calls[1].name = n1 /\ calls[1].part = "container"
    BY <1>3, <1>5
  <2> QED
    BY <1>6, <2>1, <2>2

LEMMA NamesOf ==
  /\ {"insert", "update", "delete", "add", "modify", "clear"} \subseteq Names
  /\ SyncCalls \subseteq Names
  /\ {"insert", "add"} \in Kinds /\ {"modify", "update"} \in Kinds /\ {"clear", "delete"} \in Kinds
  /\ SyncCalls \in Kinds /\ Rights \subseteq SUBSET {"r", "w"}
BY DEF Names, Kinds, Rights

LEMMA TypeDialog ==
  ASSUME TypeInv, NEW a \in Actors, Share(a) \/ Edit(a) \/ Unshare(a) PROVE TypeInv'
<1>1. ASSUME NEW n1 \in Names, NEW n2 \in Names, {n1, n2} \in Kinds, NEW to \in SUBSET Recipients,
             NEW r1 \in SUBSET {"r", "w"}, NEW r2 \in SUBSET {"r", "w"}, quiet' \in BOOLEAN,
             Begins(a, OnBoth(n1, to, r1) \o OnBoth(n2, to, r2))
      PROVE  TypeInv'
  <2>1. PICK calls : calls = OnBothTwice(n1, n2, to, r1, r2)
    OBVIOUS
  <2>2. /\ calls \in Seq(Calls) /\ calls # <<>> /\ calls[1].name = n1 /\ calls[1].part = "container"
        /\ \A i \in DOMAIN calls : calls[i].name \in {n1, n2} /\ calls[i].to = to
    <3>1. /\ n1 \in Names /\ n2 \in Names /\ to \in SUBSET Recipients
          /\ r1 \in SUBSET {"r", "w"} /\ r2 \in SUBSET {"r", "w"}
      BY <1>1
    <3> QED
      BY <2>1, <3>1, Four
  <2>3. Begins(a, calls)
    BY <1>1, <2>1 DEF OnBothTwice
  <2> QED
    BY <1>1, <2>2, <2>3, TypeBegins
<1>2. CASE Share(a)
  <2>1. PICK to \in SUBSET Recipients \ {{}}, rights \in Rights :
          Begins(a, OnBoth("insert", to, rights) \o OnBoth("add", to, rights \cup {"r"}))
    BY <1>2 DEF Share
  <2>2. /\ "insert" \in Names /\ "add" \in Names /\ {"insert", "add"} \in Kinds
        /\ rights \in SUBSET {"r", "w"} /\ rights \cup {"r"} \in SUBSET {"r", "w"}
        /\ to \in SUBSET Recipients /\ quiet' \in BOOLEAN
    BY <1>2, NamesOf DEF Share
  <2> QED
    BY <1>1, <2>1, <2>2
<1>3. CASE Edit(a)
  <2>1. PICK r \in Recipients, rights \in Rights :
          Begins(a, OnBoth("modify", {r}, rights) \o OnBoth("update", {r}, rights))
    BY <1>3 DEF Edit
  <2>2. /\ "modify" \in Names /\ "update" \in Names /\ {"modify", "update"} \in Kinds
        /\ rights \in SUBSET {"r", "w"} /\ {r} \in SUBSET Recipients /\ quiet' \in BOOLEAN
    BY <1>3, NamesOf DEF Edit
  <2> QED
    BY <1>1, <2>1, <2>2
<1>4. CASE Unshare(a)
  <2>1. PICK r \in Recipients : Begins(a, OnBoth("clear", {r}, {}) \o OnBoth("delete", {r}, {}))
    BY <1>4 DEF Unshare
  <2>2. /\ "clear" \in Names /\ "delete" \in Names /\ {"clear", "delete"} \in Kinds
        /\ {} \in SUBSET {"r", "w"} /\ {r} \in SUBSET Recipients /\ quiet' \in BOOLEAN
    BY <1>4, NamesOf DEF Unshare
  <2> QED
    BY <1>1, <2>1, <2>2
<1> QED
  BY <1>2, <1>3, <1>4

\* What a synchronisation has to do when it begins
LEMMA SyncBegins ==
  LET calls == OnBoth("snapshot", {}, {}) \o <<Sync("list_stale"), Sync("list_rows")>> IN
    /\ calls \in Seq(Calls) /\ Len(calls) = 4 /\ DOMAIN calls = 1 .. 4
    /\ calls[1] = Call("snapshot", "container", {}, {}) /\ calls[2] = Call("snapshot", "segments", {}, {})
    /\ calls[3] = Sync("list_stale") /\ calls[4] = Sync("list_rows")
    /\ \A i \in DOMAIN calls : calls[i].name \in SyncCalls
<1> DEFINE c1 == Call("snapshot", "container", {}, {})
           c2 == Call("snapshot", "segments", {}, {})
           c3 == Sync("list_stale")
           c4 == Sync("list_rows")
           x == <<c1, c2>> \o <<c3, c4>>
<1>1. /\ c1 \in Calls /\ c2 \in Calls /\ c3 \in Calls /\ c4 \in Calls
      /\ {c1.name, c2.name, c3.name, c4.name} \subseteq SyncCalls
  BY Fields DEF Sync, Names, Parts, SyncCalls
<1>2. OnBoth("snapshot", {}, {}) \o <<Sync("list_stale"), Sync("list_rows")>> = x
  BY DEF OnBoth
<1> HIDE DEF c1, c2, c3, c4
<1>3. /\ <<c1, c2>> \in Seq(Calls) /\ <<c3, c4>> \in Seq(Calls)
      /\ Len(<<c1, c2>>) = 2 /\ Len(<<c3, c4>>) = 2
  BY <1>1
<1>4. /\ x \in Seq(Calls) /\ Len(x) = 4 /\ DOMAIN x = 1 .. 4
      /\ \A i \in 1 .. 4 : x[i] = IF i <= 2 THEN <<c1, c2>>[i] ELSE <<c3, c4>>[i - 2]
  BY <1>3, ConcatProperties
<1> HIDE DEF x
<1>5. x[1] = c1 /\ x[2] = c2 /\ x[3] = c3 /\ x[4] = c4
  BY <1>4
<1>6. \A i \in DOMAIN x : x[i].name \in SyncCalls
  <2>1. \A i \in 1 .. 4 : i = 1 \/ i = 2 \/ i = 3 \/ i = 4
    OBVIOUS
  <2> QED
    BY <1>1, <1>4, <1>5, <2>1
<1> QED
  BY <1>2, <1>4, <1>5, <1>6 DEF c1, c2, c3, c4

LEMMA TypeStartSync == ASSUME TypeInv, NEW a \in Actors, StartSync(a) PROVE TypeInv'
BY SyncBegins, NamesOf, TypeBegins DEF StartSync

LEMMA TypeTables ==
  ASSUME TypeInv, NEW a \in Actors, Insert(a) \/ Update(a) \/ Delete(a)
  PROVE  TypeInv'
<1>1. Busy(a) /\ This(a) \in Calls
  BY Rests DEF Insert, Update, Delete, Does
<1>2. /\ This(a).rights \in SUBSET {"r", "w"} /\ This(a).part \in Parts
  BY <1>1, Fields
<1>3. shares' \in [Parts -> [Recipients -> {NoRow} \cup SUBSET {"r", "w"}]]
  <2>1. \A row \in {NoRow} \cup SUBSET {"r", "w"} :
          Rows(a, row) \in [Parts -> [Recipients -> {NoRow} \cup SUBSET {"r", "w"}]]
    BY <1>2 DEF Rows, TypeInv, TypeOK
  <2>2. CASE Insert(a)
    BY <1>2, <2>1, <2>2 DEF Insert, TypeInv, TypeOK
  <2>3. CASE Update(a)
    BY <1>2, <2>3 DEF Update, TypeInv, TypeOK
  <2>4. CASE Delete(a)
    BY <2>1, <2>4 DEF Delete
  <2> QED
    BY <2>2, <2>3, <2>4
<1>4. /\ Continue(a, Rest(a)) \/ Continue(a, <<>>)
      /\ UNCHANGED <<acl, seen>> /\ HistoryTypes'
  BY DEF Insert, Update, Delete, History, HistoryTypes, TypeInv, TypeOK
<1> QED
  BY <1>1, <1>3, <1>4, TypeRest DEF TypeInv, TypeOK

\* Done, with the rest still to do or the call not over
LEMMA TypeDone ==
  ASSUME TypeInv, NEW a \in Actors, Does(a, Changing), Done(a),
         acl' \in [Parts -> Acls],
         shares' \in [Parts -> [Recipients -> {NoRow} \cup SUBSET {"r", "w"}]],
         seen' \in [Actors -> [Parts -> Acls]], HistoryTypes'
  PROVE  TypeInv'
<1>1. Continue(a, Rest(a)) \/ To(a, "read")
  BY DEF Done
<1> QED
  BY <1>1, TypeRest, TypeTo DEF Does, Stages

LEMMA Pending ==
  ASSUME TypeInv, NEW a \in Actors, stage[a] # "begin"
  PROVE  Does(a, Changing) /\ Busy(a)
BY DEF TypeInv, TypeOK, Changing, Does

LEMMA TypeEnsureHead == ASSUME TypeInv, NEW a \in Actors, EnsureHead(a) PROVE TypeInv'
<1>1. Does(a, Changing) /\ This(a).part \in Parts
  BY Rests, Fields DEF EnsureHead, Does, Changing
<1>2. seen' \in [Actors -> [Parts -> Acls]] /\ HistoryTypes'
  BY <1>1, TypeReads DEF EnsureHead
<1>3. Done(a) \/ To(a, "retain")
  BY DEF EnsureHead
<1>4. UNCHANGED <<acl, shares>>
  BY DEF EnsureHead
<1> QED
  BY <1>1, <1>2, <1>3, <1>4, TypeDone, TypeTo DEF TypeInv, TypeOK, Stages

LEMMA TypeEnsurePost == ASSUME TypeInv, NEW a \in Actors, EnsurePost(a) PROVE TypeInv'
<1>1. Does(a, Changing) /\ This(a).part \in Parts
  BY Pending, Rests, Fields DEF EnsurePost
<1>2. acl' \in [Parts -> Acls]
  <2>1. Retained(seen[a][This(a).part]) \in Acls
    BY <1>1, Fields DEF TypeInv, TypeOK
  <2> QED
    BY <2>1 DEF EnsurePost, TypeInv, TypeOK
<1>3. seen' \in [Actors -> [Parts -> Acls]] /\ HistoryTypes'
  BY TypeForget DEF EnsurePost, History, HistoryTypes, TypeInv, TypeOK
<1>4. Done(a) /\ UNCHANGED shares
  BY DEF EnsurePost
<1> QED
  BY <1>1, <1>2, <1>3, <1>4, TypeDone DEF TypeInv, TypeOK

LEMMA TypeRefused ==
  ASSUME TypeInv, NEW a \in Actors, EnsureRefused(a) \/ PostRefused(a) PROVE TypeInv'
<1>1. /\ Busy(a) /\ (Continue(a, Rest(a)) \/ Continue(a, <<>>)) /\ Forget(a)
      /\ UNCHANGED <<acl, shares>> /\ Fails("post")
  BY DEF EnsureRefused, PostRefused, Does
<1>2. HistoryTypes'
  BY <1>1, TypeFault DEF Fails
<1> QED
  BY <1>1, <1>2, TypeForget, TypeRest DEF TypeInv, TypeOK

LEMMA TypeReadAcl == ASSUME TypeInv, NEW a \in Actors, ReadAcl(a) PROVE TypeInv'
<1>1. Does(a, Changing) /\ This(a).part \in Parts
  BY Rests, Fields DEF ReadAcl, Does, Changing
<1>2. seen' \in [Actors -> [Parts -> Acls]] /\ HistoryTypes'
  BY <1>1, TypeReads DEF ReadAcl
<1> QED
  BY <1>1, <1>2, TypeTo DEF ReadAcl, TypeInv, TypeOK, Stages

LEMMA ChangedTypes == \A c \in Calls, s \in Acls : Changed(c, s) \in Acls
BY Fields DEF Changed, Acls

LEMMA TypeWriteAcl == ASSUME TypeInv, NEW a \in Actors, WriteAcl(a) PROVE TypeInv'
<1>1. Busy(a) /\ This(a) \in Calls /\ This(a).part \in Parts
  BY Rests, Fields DEF WriteAcl, Does
<1>2. acl' \in [Parts -> Acls]
  <2>1. Changed(This(a), seen[a][This(a).part]) \in Acls
    BY <1>1, ChangedTypes DEF TypeInv, TypeOK
  <2> QED
    BY <2>1 DEF WriteAcl, TypeInv, TypeOK
<1>3. seen' \in [Actors -> [Parts -> Acls]] /\ HistoryTypes'
  BY TypeForget DEF WriteAcl, History, HistoryTypes, TypeInv, TypeOK
<1> QED
  BY <1>1, <1>2, <1>3, TypeRest DEF WriteAcl, TypeInv, TypeOK

LEMMA TypeClearAcl == ASSUME TypeInv, NEW a \in Actors, ClearAcl(a) PROVE TypeInv'
<1>1. Does(a, Changing) /\ This(a).part \in Parts
  BY Rests, Fields DEF ClearAcl, Does, Changing
<1>2. acl' \in [Parts -> Acls] /\ HistoryTypes'
  BY Fields DEF ClearAcl, History, HistoryTypes, TypeInv, TypeOK
<1> QED
  BY <1>1, <1>2, TypeTo DEF ClearAcl, TypeInv, TypeOK, Stages

\* What a snapshot leaves to do
LEMMA SnapshotLeaves ==
  ASSUME TypeInv, NEW a \in Actors, NEW i \in DOMAIN todo[a]
  PROVE  LET left == RemoveAt(todo[a], i) IN
         /\ left \in Seq(Calls) /\ Len(left) = Len(todo[a]) - 1 /\ DOMAIN left = 1 .. Len(todo[a]) - 1
         /\ \A j \in 1 .. Len(todo[a]) - 1 : left[j] = IF j < i THEN todo[a][j] ELSE todo[a][j + 1]
<1> DEFINE t == todo[a]
           n == Len(t)
           u == SubSeq(t, 1, i - 1)
           v == SubSeq(t, i + 1, n)
           left == u \o v
<1>1. t \in Seq(Calls) /\ n \in Nat /\ i \in 1 .. n
  BY DEF TypeInv
<1> HIDE DEF t
<1>2. /\ u \in Seq(Calls) /\ Len(u) = i - 1 /\ \A j \in 1 .. i - 1 : u[j] = t[j]
      /\ v \in Seq(Calls) /\ Len(v) = n - i /\ \A j \in 1 .. n - i : v[j] = t[i + j]
  BY <1>1
<1> HIDE DEF u, v
<1>3. /\ left \in Seq(Calls) /\ Len(left) = (i - 1) + (n - i)
      /\ \A j \in 1 .. (i - 1) + (n - i) : left[j] = IF j <= i - 1 THEN u[j] ELSE v[j - (i - 1)]
  <2>1. /\ left \in Seq(Calls) /\ Len(left) = Len(u) + Len(v)
        /\ \A j \in 1 .. Len(u) + Len(v) : left[j] = IF j <= Len(u) THEN u[j] ELSE v[j - Len(u)]
    BY <1>2, ConcatProperties
  <2> HIDE DEF left, n
  <2> QED
    BY <1>2, <2>1
<1> HIDE DEF left, n
<1>4. Len(left) = n - 1 /\ DOMAIN left = 1 .. n - 1
  BY <1>1, <1>3
<1>5. ASSUME NEW j \in 1 .. n - 1 PROVE left[j] = IF j < i THEN t[j] ELSE t[j + 1]
  <2>1. CASE j < i
    BY <1>1, <1>2, <1>3, <2>1
  <2>2. CASE ~(j < i)
    <3>1. j \in 1 .. (i - 1) + (n - i) /\ ~(j <= i - 1) /\ j - (i - 1) \in 1 .. n - i
      BY <1>1, <2>2
    <3>2. left[j] = v[j - (i - 1)] /\ v[j - (i - 1)] = t[i + (j - (i - 1))]
      BY <1>2, <1>3, <3>1
    <3>3. i + (j - (i - 1)) = j + 1
      BY <1>1
    <3> QED
      BY <2>2, <3>2, <3>3
  <2> QED
    BY <2>1, <2>2
<1> QED
  BY <1>3, <1>4, <1>5 DEF left, u, v, n, t, RemoveAt

LEMMA TypeSnapshot == ASSUME TypeInv, NEW a \in Actors, Snapshot(a) PROVE TypeInv'
<1>1. PICK i \in DOMAIN todo[a] :
        /\ todo[a][i].name = "snapshot"
        /\ Reads(a, todo[a][i].part) /\ Continue(a, RemoveAt(todo[a], i))
  BY DEF Snapshot
<1>2. todo[a][i].part \in Parts
  BY Fields DEF TypeInv
<1>3. seen' \in [Actors -> [Parts -> Acls]] /\ HistoryTypes'
  BY <1>1, <1>2, TypeReads
<1>4. PICK names \in Kinds : KindOf(a, names)
  BY DEF TypeInv
<1> DEFINE left == RemoveAt(todo[a], i)
<1>5. left \in Seq(Calls) /\ \A j \in DOMAIN left : left[j].name \in names
  <2>1. /\ left \in Seq(Calls) /\ DOMAIN left = 1 .. Len(todo[a]) - 1
        /\ \A j \in 1 .. Len(todo[a]) - 1 : left[j] = IF j < i THEN todo[a][j] ELSE todo[a][j + 1]
    BY SnapshotLeaves
  <2>2. DOMAIN todo[a] = 1 .. Len(todo[a]) /\ Len(todo[a]) \in Nat
    BY DEF TypeInv
  <2> HIDE DEF left
  <2>3. \A j \in 1 .. Len(todo[a]) - 1 : j \in DOMAIN todo[a] /\ j + 1 \in DOMAIN todo[a]
    BY <2>2
  <2> QED
    BY <1>4, <2>1, <2>3 DEF KindOf
<1> HIDE DEF left
<1>6. todo' = [todo EXCEPT ![a] = left] /\ stage' = [stage EXCEPT ![a] = "begin"]
      /\ UNCHANGED <<acl, shares>>
  BY <1>1 DEF left, Continue, Snapshot
<1> QED
  BY <1>3, <1>5, <1>6, TypeStep DEF TypeInv, TypeOK, Stages

\* A plan that a synchronisation makes
LEMMA TypePlan ==
  ASSUME TypeInv, NEW a \in Actors, NEW S, IsFiniteSet(S), NEW F \in [S -> Calls],
         \A x \in S : F[x].name \in SyncCalls,
         NEW rest \in Seq(Calls), \A i \in DOMAIN rest : rest[i].name \in SyncCalls,
         Plans(a, S, F, rest), UNCHANGED <<acl, shares, seen>>, History
  PROVE  TypeInv'
<1>1. PICK s \in Seq(Calls), n \in Nat : Continue(a, s) /\ PlanOf(s, n, S, F, rest)
  BY Planned
<1>2. \A i \in DOMAIN s : s[i].name \in SyncCalls
  <2>1. DOMAIN s = 1 .. n + Len(rest) /\ Len(rest) \in Nat
    BY <1>1 DEF PlanOf
  <2>2. \A i \in 1 .. n : s[i].name \in SyncCalls
    BY <1>1 DEF PlanOf
  <2>3. ASSUME NEW i \in 1 .. n + Len(rest), i \notin 1 .. n PROVE s[i].name \in SyncCalls
    <3>1. i - n \in 1 .. Len(rest) /\ n + (i - n) = i
      BY <2>1, <2>3
    <3>2. s[n + (i - n)] = rest[i - n]
      BY <1>1, <3>1 DEF PlanOf
    <3> QED
      BY <3>1, <3>2
  <2> QED
    BY <2>1, <2>2, <2>3
<1>3. HistoryTypes'
  BY DEF History, HistoryTypes, TypeInv, TypeOK
<1> QED
  BY <1>1, <1>2, <1>3, NamesOf, TypeStep DEF Continue, TypeInv, TypeOK, Stages

\* A synchronisation calls nothing but what belongs to it.
LEMMA SyncRests ==
  ASSUME TypeInv, NEW a \in Actors, Does(a, SyncCalls)
  PROVE  KindOf(a, SyncCalls) /\ \A i \in DOMAIN Rest(a) : Rest(a)[i].name \in SyncCalls
<1>1. PICK names \in Kinds : KindOf(a, names)
  BY DEF TypeInv
<1>2. todo[a][1].name \in SyncCalls \cap names
  BY <1>1, Rests DEF Does, KindOf, This
<1>3. names = SyncCalls
  BY <1>2 DEF Kinds, SyncCalls
<1> QED
  BY <1>1, <1>3, Rests DEF KindOf, Does

LEMMA FiniteParts == IsFiniteSet(Parts) /\ \A S : S \subseteq Parts \/ S \subseteq Recipients => IsFiniteSet(S)
<1>1. IsFiniteSet({"container"} \cup {"segments"})
  BY FS_Singleton, FS_Union
<1>2. Parts = {"container"} \cup {"segments"}
  BY DEF Parts
<1> QED
  BY <1>1, <1>2, FS_Subset, SharingAssumption

LEMMA TypePlans ==
  ASSUME TypeInv, NEW a \in Actors,
         ListStale(a) \/ ListRows(a) \/ Details(a) \/ ListNew(a) \/ New(a)
  PROVE  TypeInv'
<1>1. Does(a, SyncCalls) /\ UNCHANGED <<acl, shares, seen>> /\ History
  BY DEF ListStale, ListRows, Details, ListNew, New, Does, SyncCalls
<1>2. /\ Rest(a) \in Seq(Calls) /\ This(a).part \in Parts
      /\ \A i \in DOMAIN Rest(a) : Rest(a)[i].name \in SyncCalls
  BY <1>1, Rests, SyncRests, Fields DEF Does
<1>3. /\ {"sync_delete", "details", "new", "sync_insert", "list_new"} \subseteq SyncCalls
      /\ ListedParts \subseteq Parts /\ Shown(a) \subseteq Parts
      /\ {} \in SUBSET Recipients /\ Recipients \in SUBSET Recipients /\ {} \in SUBSET {"r", "w"}
      /\ "container" \in Parts
  BY DEF SyncCalls, ListedParts, Shown, Parts
<1>4. CASE ListStale(a)
  <2> DEFINE S == ListedParts \ Shown(a)
             F == [p \in S |-> Call("sync_delete", p, Recipients, {})]
  <2>1. IsFiniteSet(S) /\ F \in [S -> Calls] /\ \A x \in S : F[x].name \in SyncCalls
    BY <1>3, FiniteParts, Fields, NamesOf
  <2>2. Plans(a, S, F, Rest(a))
    BY <1>4, StalePlan
  <2> HIDE DEF S, F
  <2> QED
    BY <1>1, <1>2, <2>1, <2>2, TypePlan
<1>5. CASE ListRows(a)
  <2> DEFINE S == ListedParts
             F == [p \in S |-> Call("details", p, {}, {})]
             rest == <<Sync("list_new")>>
  <2>1. IsFiniteSet(S) /\ F \in [S -> Calls] /\ \A x \in S : F[x].name \in SyncCalls
    BY <1>3, FiniteParts, Fields, NamesOf
  <2>2. Plans(a, S, F, rest)
    BY <1>5, DetailsPlan
  <2>3. Sync("list_new") \in Calls /\ Sync("list_new").name = "list_new"
    BY <1>3, Fields, NamesOf DEF Sync
  <2>4. rest \in Seq(Calls) /\ \A i \in DOMAIN rest : rest[i].name \in SyncCalls
    BY <1>3, <2>3
  <2> HIDE DEF S, F, rest
  <2> QED
    BY <1>1, <2>1, <2>2, <2>4, TypePlan
<1>6. CASE Details(a) /\ This(a).part \notin ListedParts \ Shown(a)
  <2> DEFINE p == This(a).part
             S == StaleRows(a, p)
             F == [r \in S |-> Call("sync_delete", p, {r}, {})]
  <2>1. S \subseteq Recipients /\ IsFiniteSet(S)
    BY FiniteParts DEF StaleRows
  <2>2. F \in [S -> Calls] /\ \A x \in S : F[x].name \in SyncCalls
    <3>1. \A r \in S : {r} \in SUBSET Recipients
      BY <2>1
    <3> QED
      BY <1>2, <1>3, <3>1, Fields, NamesOf
  <2>3. Plans(a, S, F, Rest(a))
    BY <1>6, RowsPlan
  <2> HIDE DEF S, F
  <2> QED
    BY <1>1, <1>2, <2>1, <2>2, <2>3, TypePlan
<1>7. CASE Details(a) /\ This(a).part \in ListedParts \ Shown(a)
  <2>1. Continue(a, <<>>) /\ HistoryTypes'
    BY <1>7 DEF Details, History, HistoryTypes, TypeInv, TypeOK
  <2> QED
    BY <1>1, <2>1, TypeRest DEF Does, TypeInv, TypeOK
<1>8. CASE ListNew(a)
  <2> DEFINE S == Shown(a)
             F == [p \in S |-> NewCall(p)]
             rest == <<>>
  <2>1. IsFiniteSet(S) /\ F \in [S -> Calls] /\ \A x \in S : F[x].name \in SyncCalls
    BY <1>3, FiniteParts, Fields, NamesOf DEF NewCall
  <2>2. Plans(a, S, F, rest)
    BY <1>8, NewPlan
  <2>3. rest \in Seq(Calls) /\ DOMAIN rest = {}
    OBVIOUS
  <2> HIDE DEF S, F, rest
  <2> QED
    BY <1>1, <2>1, <2>2, <2>3, TypePlan
<1>9. CASE New(a)
  <2> DEFINE p == This(a).part
             S == Missing(a, p)
             F == [r \in S |-> Call("sync_insert", p, {r}, RightsIn(seen[a][p], r))]
  <2>1. S \subseteq Recipients /\ IsFiniteSet(S)
    <3>1. seen[a][p] \in Acls
      BY <1>2 DEF TypeInv, TypeOK
    <3> QED
      BY <3>1, FiniteParts DEF Missing, Granted, Acls
  <2>2. F \in [S -> Calls] /\ \A x \in S : F[x].name \in SyncCalls
    <3>1. \A r \in S : {r} \in SUBSET Recipients /\ RightsIn(seen[a][p], r) \in SUBSET {"r", "w"}
      BY <2>1 DEF RightsIn
    <3> QED
      BY <1>2, <1>3, <3>1, Fields, NamesOf
  <2>3. Plans(a, S, F, Rest(a))
    BY <1>9, InsertPlan
  <2> HIDE DEF S, F
  <2> QED
    BY <1>1, <1>2, <2>1, <2>2, <2>3, TypePlan
<1> QED
  BY <1>4, <1>5, <1>6, <1>7, <1>8, <1>9

LEMMA TypeClose == ASSUME TypeInv, NEW a \in Actors, Close(a) PROVE TypeInv'
<1>1. Busy(a) /\ UNCHANGED <<acl, shares, stage, seen>>
  BY DEF Close
<1>2. HistoryTypes'
  <2>1. Fault("close") /\ calm' \in BOOLEAN
    BY DEF Close, TypeInv, TypeOK
  <2> QED
    BY <2>1, TypeFault
<1>3. PICK names \in Kinds : KindOf(a, names)
  BY DEF TypeInv
<1>4. stage' = [stage EXCEPT ![a] = stage[a]] /\ stage[a] \in Stages
  BY <1>1 DEF TypeInv, TypeOK, Stages
<1>5. CASE stage[a] = "begin"
  <2>1. todo' = [todo EXCEPT ![a] = <<>>]
    BY <1>5 DEF Close
  <2>2. <<>> \in Seq(Calls) /\ DOMAIN <<>> = {}
    OBVIOUS
  <2> QED
    BY <1>1, <1>2, <1>4, <1>5, <2>1, <2>2, TypeStep DEF TypeInv, TypeOK, Kinds
<1>6. CASE stage[a] # "begin"
  <2>1. todo' = [todo EXCEPT ![a] = <<This(a)>>]
    BY <1>6 DEF Close, This
  <2>2. This(a) \in Calls /\ This(a).name \in names /\ This(a).name \in Changing
    BY <1>3, <1>6, Pending, Rests DEF KindOf, Does, This
  <2>3. /\ <<This(a)>> \in Seq(Calls) /\ DOMAIN <<This(a)>> = {1} /\ <<This(a)>>[1] = This(a)
        /\ <<This(a)>> # <<>>
    BY <2>2
  <2>4. \E ns \in Kinds : \A i \in DOMAIN <<This(a)>> : <<This(a)>>[i].name \in ns
    BY <1>3, <2>2, <2>3
  <2>5. acl' \in [Parts -> Acls] /\ seen' \in [Actors -> [Parts -> Acls]]
        /\ shares' \in [Parts -> [Recipients -> {NoRow} \cup SUBSET {"r", "w"}]]
    BY <1>1 DEF TypeInv, TypeOK
  <2> HIDE DEF This
  <2> QED
    BY <1>2, <1>4, <2>1, <2>2, <2>3, <2>4, <2>5, TypeStep
<1> QED
  BY <1>5, <1>6

LEMMA TypeInit == Init => TypeInv
<1> SUFFICES ASSUME Init PROVE TypeInv
  OBVIOUS
<1>1. todo \in [Actors -> Seq(Calls)] /\ \A a \in Actors : KindOf(a, SyncCalls) /\ Range(todo[a]) = {}
  BY DEF Init, KindOf, Range
<1>2. TypeOK
  <2>1. 0 \in 0 .. MaxOps /\ 0 \in 0 .. MaxFaults
    BY SharingAssumption
  <2>2. /\ acl \in [Parts -> Acls] /\ seen \in [Actors -> [Parts -> Acls]]
        /\ shares \in [Parts -> [Recipients -> {NoRow} \cup SUBSET {"r", "w"}]]
    BY Fields DEF Init
  <2> QED
    BY <1>1, <2>1, <2>2 DEF Init, TypeOK
<1> QED
  BY <1>1, <1>2, NamesOf DEF TypeInv

LEMMA TypeNext == TypeInv /\ [Next]_vars => TypeInv'
<1> SUFFICES ASSUME TypeInv, [Next]_vars PROVE TypeInv'
  OBVIOUS
<1>1. CASE UNCHANGED vars
  BY <1>1 DEF vars, TypeInv, TypeOK, KindOf, Does, Busy
<1> QED
  BY <1>1, TypeDialog, TypeStartSync, TypeTables, TypeEnsureHead, TypeEnsurePost, TypeRefused,
     TypeReadAcl, TypeWriteAcl, TypeClearAcl, TypeSnapshot, TypePlans, TypeClose
     DEF Next, Terminating

\* For any number of projects, pages, operations and faults, the variables keep
\* their types: a request is only ever pending for a call that changes an ACL.
THEOREM TypeCorrect == Spec => []TypeOK
<1>1. TypeInv => TypeOK
  BY DEF TypeInv
<1> QED
  BY <1>1, TypeInit, TypeNext, PTL DEF Spec

-----------------------------------------------------------------------------
(* A synchronisation that nothing disturbs *)

\* What is so of a synchronisation under way, or that has just ended
Goes(a) == (Busy(a) => SyncOf(a)) /\ (~Busy(a) => AllAgree)

LEMMA Ended == ASSUME NEW a \in Actors, Inserting(a)' PROVE Goes(a)'
<1>1. ASSUME ~Busy(a)', NEW p \in Parts, NEW r \in Recipients PROVE Agrees(p, r)'
  <2>1. DOMAIN todo'[a] = {}
    BY <1>1 DEF Busy
  <2>2. r \in Granted(acl'[p]) => Listed(p, r)'
    BY <2>1 DEF Inserting
  <2>3. Listed(p, r)' => ~Stale(shares'[p][r], r, acl'[p])
    BY DEF Inserting
  <2> QED
    BY <2>2, <2>3 DEF Agrees, Stale, Granted
<1> QED
  BY <1>1 DEF Goes, SyncOf, AllAgree

LEMMA AfterSnapshot ==
  ASSUME TypeInv, TypeInv', NEW a \in Actors, SyncOf(a), Snapshot(a), calm' \/ quiet'
  PROVE  Goes(a)'
<1>1. PICK i \in DOMAIN todo[a] :
        /\ todo[a][i].name = "snapshot"
        /\ Reads(a, todo[a][i].part) /\ Continue(a, RemoveAt(todo[a], i))
  BY DEF Snapshot
<1>2. Busy(a) /\ UNCHANGED acl /\ todo[a][1].name = "snapshot"
  BY Rests DEF Snapshot, Does, This
<1> DEFINE p == todo[a][i].part
           n == Len(todo[a])
           left == todo'[a]
<1>3. p \in Parts
  BY Fields DEF TypeInv
<1>4. seen'[a][p] = acl[p] /\ \A q \in Parts : q # p => seen'[a][q] = seen[a][q]
  <2>1. seen' = [seen EXCEPT ![a][p] = acl[p]]
    BY <1>1 DEF Reads, Fails, Fault
  <2> QED
    BY <1>3, <2>1 DEF TypeInv, TypeOK
<1>5. n \in Nat \ {0} /\ i \in 1 .. n /\ DOMAIN todo[a] = 1 .. n
  BY <1>2, Rests
<1>6. /\ Len(left) = n - 1 /\ DOMAIN left = 1 .. n - 1
      /\ \A j \in 1 .. n - 1 : left[j] = IF j < i THEN todo[a][j] ELSE todo[a][j + 1]
  BY <1>1, SnapshotLeaves DEF Continue, TypeInv
<1>7. Reading(a)
  <2>1. \A j \in 1 .. n : todo[a][j].name = "snapshot" => ~(DeletingParts(a) \/ DeletingRows(a) \/ Inserting(a))
    BY <1>5 DEF DeletingParts, DeletingRows, Inserting, InsertOf
  <2> QED
    BY <1>1, <1>5, <2>1 DEF SyncOf
<1>8. n >= 3 /\ i <= n - 2
  <2>1. n >= 2 /\ i # n /\ i # n - 1
    BY <1>1, <1>7 DEF Reading
  <2> QED
    BY <1>5, <2>1
<1> HIDE DEF n, left
<1>9. \A j \in 1 .. n - 1 : left[j].name =
        IF j = n - 1 THEN "list_rows" ELSE IF j = n - 2 THEN "list_stale" ELSE "snapshot"
  <2>1. \A j \in 1 .. n : todo[a][j].name =
          IF j = n THEN "list_rows" ELSE IF j = n - 1 THEN "list_stale" ELSE "snapshot"
    BY <1>5, <1>7 DEF Reading, n
  <2>2. ASSUME NEW j \in 1 .. n - 1, j < i
        PROVE  left[j] = todo[a][j] /\ j \in 1 .. n /\ j # n /\ j # n - 1 /\ j # n - 2
    BY <1>5, <1>6, <1>8, <2>2
  <2>3. ASSUME NEW j \in 1 .. n - 1, ~(j < i)
        PROVE  /\ left[j] = todo[a][j + 1] /\ j + 1 \in 1 .. n
               /\ (j + 1 = n <=> j = n - 1) /\ (j + 1 = n - 1 <=> j = n - 2)
    BY <1>5, <1>6, <1>8, <2>3
  <2> QED
    BY <2>1, <2>2, <2>3
<1>10. ASSUME NEW q \in Parts, q # p, seen'[a][q] # acl[q]
       PROVE  \E j \in 1 .. n - 1 : left[j].name = "snapshot" /\ left[j].part = q
  <2>1. PICK j \in 1 .. n : todo[a][j].name = "snapshot" /\ todo[a][j].part = q
    BY <1>4, <1>5, <1>7, <1>10 DEF Reading
  <2>2. CASE j < i
    BY <1>5, <1>6, <2>1, <2>2
  <2>3. CASE j > i
    <3>1. j - 1 \in 1 .. n - 1 /\ ~(j - 1 < i) /\ (j - 1) + 1 = j
      BY <1>5, <2>3
    <3>2. left[j - 1] = todo[a][j]
      BY <1>6, <3>1
    <3> QED
      BY <2>1, <3>1, <3>2
  <2>4. j # i
    BY <1>10, <2>1
  <2> QED
    BY <1>5, <2>2, <2>3, <2>4
<1>11. Reading(a)'
  <2>1. Len(left) >= 2
    BY <1>5, <1>6, <1>8
  <2>2. \A j \in DOMAIN left : left[j].name =
          IF j = Len(left) THEN "list_rows" ELSE IF j = Len(left) - 1 THEN "list_stale" ELSE "snapshot"
    BY <1>5, <1>6, <1>9
  <2>3. \A q \in Parts : \/ seen'[a][q] = acl'[q]
                         \/ \E j \in DOMAIN left : left[j].name = "snapshot" /\ left[j].part = q
    BY <1>2, <1>4, <1>6, <1>10
  <2> QED
    BY <2>1, <2>2, <2>3 DEF Reading, left
<1>12. Busy(a)'
  BY <1>5, <1>6, <1>8 DEF Busy, left
<1> QED
  BY <1>11, <1>12 DEF Goes, SyncOf

\* What a listing or the details of a container leave to do
LEMMA AfterPlan ==
  ASSUME TypeInv, NEW a \in Actors, NEW S, IsFiniteSet(S), NEW F \in [S -> Calls],
         NEW rest \in Seq(Calls), Plans(a, S, F, rest)
  PROVE  \E n \in Nat : PlanOf(todo'[a], n, S, F, rest) /\ DOMAIN todo'[a] = 1 .. n + Len(rest)
<1>1. PICK s \in Seq(Calls), n \in Nat : Continue(a, s) /\ PlanOf(s, n, S, F, rest)
  BY Planned
<1>2. todo'[a] = s /\ DOMAIN s = 1 .. n + Len(rest)
  BY <1>1 DEF Continue, TypeInv, PlanOf
<1> QED
  BY <1>1, <1>2

LEMMA AfterListStale ==
  ASSUME TypeInv, TypeInv', NEW a \in Actors, SyncOf(a), ListStale(a)
  PROVE  Goes(a)'
<1>1. Busy(a) /\ UNCHANGED <<acl, shares, seen>> /\ todo[a][1].name = "list_stale"
  BY Rests DEF ListStale, Does, This
<1> DEFINE S == ListedParts \ Shown(a)
           F == [p \in S |-> Call("sync_delete", p, Recipients, {})]
<1>2. S \subseteq Parts /\ F \in [S -> Calls] /\ IsFiniteSet(S)
      /\ \A p \in S : F[p].name = "sync_delete" /\ F[p].part = p /\ F[p].to = Recipients
  <2>1. S \subseteq Parts /\ "sync_delete" \in Names /\ Recipients \in SUBSET Recipients
        /\ {} \in SUBSET {"r", "w"}
    BY NamesOf DEF ListedParts, SyncCalls
  <2> QED
    BY <2>1, FiniteParts, Fields
<1>3. Plans(a, S, F, Rest(a))
  BY StalePlan
<1>4. /\ todo[a] \in Seq(Calls) /\ Len(todo[a]) \in Nat \ {0} /\ DOMAIN todo[a] = 1 .. Len(todo[a])
      /\ Rest(a) \in Seq(Calls) /\ Len(Rest(a)) = Len(todo[a]) - 1
      /\ DOMAIN Rest(a) = 1 .. Len(todo[a]) - 1
      /\ \A i \in DOMAIN Rest(a) : Rest(a)[i] = todo[a][i + 1]
  BY <1>1, Rests
<1>5. Reading(a) /\ Len(todo[a]) = 2 /\ todo[a][2].name = "list_rows"
  <2> DEFINE m == Len(todo[a])
  <2>0. 1 \in DOMAIN todo[a]
    BY <1>4
  <2>1. Reading(a)
    <3>1. ~DeletingParts(a)
      BY <1>1, <2>0 DEF DeletingParts
    <3>2. ~DeletingRows(a)
      BY <1>1, <2>0 DEF DeletingRows
    <3>3. ~Inserting(a)
      BY <1>1, <2>0 DEF Inserting, InsertOf
    <3> QED
      BY <3>1, <3>2, <3>3 DEF SyncOf
  <2>2. m = 2
    <3>1. m >= 2 /\ "list_stale" = IF 1 = m THEN "list_rows" ELSE IF 1 = m - 1 THEN "list_stale" ELSE "snapshot"
      BY <1>1, <2>0, <2>1 DEF Reading
    <3>2. m \in Nat
      BY <1>4
    <3> HIDE DEF m
    <3> QED
      BY <3>1, <3>2
  <2> QED
    BY <1>4, <2>1, <2>2 DEF Reading
<1>6. Snapped(a)
  <2>1. \A i \in DOMAIN todo[a] : todo[a][i].name # "snapshot"
    BY <1>1, <1>4, <1>5 DEF Reading
  <2> QED
    BY <1>5, <2>1 DEF Reading, Snapped
<1> HIDE DEF S, F
<1>7. PICK n \in Nat : PlanOf(todo'[a], n, S, F, Rest(a)) /\ DOMAIN todo'[a] = 1 .. n + Len(Rest(a))
  BY <1>2, <1>3, <1>4, AfterPlan
<1>8. Len(Rest(a)) = 1 /\ Len(todo'[a]) = n + 1 /\ DOMAIN todo'[a] = 1 .. n + 1
      /\ todo'[a][n + 1].name = "list_rows"
  <2>1. Len(Rest(a)) = 1 /\ Rest(a)[1] = todo[a][2]
    BY <1>4, <1>5
  <2>2. /\ n \in Nat /\ Len(todo'[a]) = n + Len(Rest(a)) /\ DOMAIN todo'[a] = 1 .. n + Len(Rest(a))
        /\ \A i \in 1 .. Len(Rest(a)) : todo'[a][n + i] = Rest(a)[i]
    BY <1>7 DEF PlanOf
  <2> QED
    BY <1>5, <2>1, <2>2
<1>9. /\ \A i \in 1 .. n : todo'[a][i].name = "sync_delete" /\ todo'[a][i].to = Recipients
      /\ \A p \in S : \E i \in 1 .. n : todo'[a][i].name = "sync_delete" /\ todo'[a][i].part = p
  <2>1. /\ \A i \in 1 .. n : \E p \in S : todo'[a][i] = F[p]
        /\ \A p \in S : \E i \in 1 .. n : todo'[a][i] = F[p]
    BY <1>7 DEF PlanOf
  <2> QED
    BY <1>2, <2>1
<1>10. DeletingParts(a)'
  <2>1. Snapped(a)' /\ (ListedParts \ Shown(a))' = S
    BY <1>1, <1>6 DEF Snapped, ListedParts, Shown, Listed, S
  <2> QED
    BY <1>8, <1>9, <2>1 DEF DeletingParts
<1>11. Busy(a)'
  BY <1>8 DEF Busy
<1> QED
  BY <1>10, <1>11 DEF Goes, SyncOf

LEMMA AfterListRows ==
  ASSUME TypeInv, TypeInv', NEW a \in Actors, SyncOf(a), ListRows(a)
  PROVE  Goes(a)'
<1>1. Busy(a) /\ UNCHANGED <<acl, shares, seen>> /\ todo[a][1].name = "list_rows"
  BY Rests DEF ListRows, Does, This
<1> DEFINE F == [p \in ListedParts |-> Call("details", p, {}, {})]
           rest == <<Sync("list_new")>>
<1>2. ListedParts \subseteq Parts /\ F \in [ListedParts -> Calls] /\ IsFiniteSet(ListedParts)
      /\ \A p \in ListedParts : F[p].name = "details" /\ F[p].part = p
  <2>1. ListedParts \subseteq Parts /\ "details" \in Names /\ {} \in SUBSET Recipients
        /\ {} \in SUBSET {"r", "w"}
    BY NamesOf DEF ListedParts, SyncCalls
  <2> QED
    BY <2>1, FiniteParts, Fields
<1>3. Plans(a, ListedParts, F, rest)
  BY DetailsPlan
<1>4. Len(todo[a]) \in Nat \ {0} /\ DOMAIN todo[a] = 1 .. Len(todo[a])
  BY <1>1, Rests
<1>5. DeletingParts(a) /\ Len(todo[a]) = 1
  <2>0. 1 \in DOMAIN todo[a]
    BY <1>4
  <2>1. DeletingParts(a)
    <3>1. ~Reading(a)
      BY <1>1, <1>4, <2>0 DEF Reading
    <3>2. ~DeletingRows(a)
      BY <1>1, <2>0 DEF DeletingRows
    <3>3. ~Inserting(a)
      BY <1>1, <2>0 DEF Inserting, InsertOf
    <3> QED
      BY <3>1, <3>2, <3>3 DEF SyncOf
  <2>2. 1 = Len(todo[a])
    BY <1>1, <2>0, <2>1 DEF DeletingParts
  <2> QED
    BY <2>1, <2>2
<1>6. Snapped(a) /\ ListedParts \subseteq Shown(a)
  <2>1. todo[a][1].name # "sync_delete" /\ DOMAIN todo[a] = {1}
    BY <1>1, <1>4, <1>5
  <2> QED
    BY <1>5, <2>1 DEF DeletingParts
<1>7. rest \in Seq(Calls) /\ Len(rest) = 1 /\ rest[1].name = "list_new"
  <2>1. Sync("list_new") \in Calls /\ Sync("list_new").name = "list_new"
    BY Fields, NamesOf DEF Sync, Parts, SyncCalls
  <2> QED
    BY <2>1
<1> HIDE DEF F, rest
<1>8. PICK n \in Nat : PlanOf(todo'[a], n, ListedParts, F, rest) /\ DOMAIN todo'[a] = 1 .. n + Len(rest)
  <2> DEFINE S == ListedParts
  <2>1. IsFiniteSet(S) /\ F \in [S -> Calls] /\ rest \in Seq(Calls) /\ Plans(a, S, F, rest)
    BY <1>2, <1>3, <1>7
  <2> HIDE DEF S
  <2>2. \E n \in Nat : PlanOf(todo'[a], n, S, F, rest) /\ DOMAIN todo'[a] = 1 .. n + Len(rest)
    BY <2>1, AfterPlan
  <2> QED
    BY <2>2 DEF S
<1>9. Len(todo'[a]) = n + 1 /\ DOMAIN todo'[a] = 1 .. n + 1 /\ todo'[a][n + 1].name = "list_new"
  BY <1>7, <1>8 DEF PlanOf
<1>10. /\ \A i \in 1 .. n : todo'[a][i].name = "details" /\ todo'[a][i].part \in ListedParts
       /\ \A p \in ListedParts : \E i \in 1 .. n : todo'[a][i].name = "details" /\ todo'[a][i].part = p
  <2>1. /\ \A i \in 1 .. n : \E p \in ListedParts : todo'[a][i] = F[p]
        /\ \A p \in ListedParts : \E i \in 1 .. n : todo'[a][i] = F[p]
    BY <1>8 DEF PlanOf
  <2> QED
    BY <1>2, <2>1
<1>11. DeletingRows(a)'
  <2>1. Snapped(a)' /\ ListedParts' = ListedParts /\ Shown(a)' = Shown(a)
    BY <1>1, <1>6 DEF Snapped, ListedParts, Shown, Listed
  <2>2. \A p \in Parts, r \in Recipients : Listed(p, r)' => p \in ListedParts
    BY <1>1 DEF ListedParts, Listed
  <2>3. \A i \in DOMAIN todo'[a] :
          IF i = Len(todo'[a]) THEN todo'[a][i].name = "list_new"
          ELSE todo'[a][i].name \in {"details", "sync_delete"} /\ todo'[a][i].part \in Shown(a)
    BY <1>6, <1>9, <1>10
  <2>4. \A p \in ListedParts : \E i \in DOMAIN todo'[a] :
          todo'[a][i].part = p /\ todo'[a][i].name = "details"
    BY <1>9, <1>10
  <2> QED
    BY <1>6, <2>1, <2>2, <2>3, <2>4 DEF DeletingRows
<1>12. Busy(a)'
  BY <1>9 DEF Busy
<1> QED
  BY <1>11, <1>12 DEF Goes, SyncOf

\* The phase that the current call tells
LEMMA Phase ==
  ASSUME TypeInv, NEW a \in Actors, Busy(a), SyncOf(a)
  PROVE  /\ This(a).name \in {"details", "list_new"} => DeletingRows(a)
         /\ This(a).name \in {"new", "sync_insert"} => Inserting(a)
         /\ This(a).name = "sync_delete" => DeletingParts(a) \/ DeletingRows(a)
         /\ This(a).name \in {"list_new", "list_rows"} /\ ~Reading(a) /\ ~Inserting(a) => Len(todo[a]) = 1
         /\ This(a).name = "sync_delete" => Len(todo[a]) # 1
<1>1. 1 \in DOMAIN todo[a] /\ This(a) = todo[a][1] /\ Len(todo[a]) \in Nat \ {0}
  BY Rests
<1>2. Reading(a) => This(a).name \in {"list_rows", "list_stale", "snapshot"} /\ Len(todo[a]) # 1
                    /\ (This(a).name = "list_rows" => Len(todo[a]) = 1)
  <2>1. Reading(a) => /\ Len(todo[a]) # 1
                      /\ todo[a][1].name = IF 1 = Len(todo[a]) THEN "list_rows"
                           ELSE IF 1 = Len(todo[a]) - 1 THEN "list_stale" ELSE "snapshot"
    <3> DEFINE m == Len(todo[a])
    <3>1. SUFFICES ASSUME Reading(a)
                   PROVE  m # 1 /\ todo[a][1].name = IF 1 = m THEN "list_rows"
                                       ELSE IF 1 = m - 1 THEN "list_stale" ELSE "snapshot"
      OBVIOUS
    <3>2. m >= 2 /\ \A i \in DOMAIN todo[a] : todo[a][i].name = IF i = m THEN "list_rows"
                                       ELSE IF i = m - 1 THEN "list_stale" ELSE "snapshot"
      BY <3>1 DEF Reading
    <3>3. 1 \in DOMAIN todo[a] /\ m \in Nat
      BY <1>1
    <3> HIDE DEF m
    <3> QED
      BY <3>2, <3>3
  <2> QED
    BY <1>1, <2>1
<1>3. DeletingParts(a) => /\ This(a).name \in {"list_rows", "sync_delete"}
                          /\ This(a).name = "list_rows" <=> Len(todo[a]) = 1
  <2>1. DeletingParts(a) => IF 1 = Len(todo[a]) THEN todo[a][1].name = "list_rows"
                            ELSE todo[a][1].name = "sync_delete"
    BY <1>1 DEF DeletingParts
  <2> QED
    BY <1>1, <2>1
<1>4. DeletingRows(a) => /\ This(a).name \in {"list_new", "details", "sync_delete"}
                         /\ This(a).name = "list_new" <=> Len(todo[a]) = 1
  <2>1. DeletingRows(a) => IF 1 = Len(todo[a]) THEN todo[a][1].name = "list_new"
                           ELSE todo[a][1].name \in {"details", "sync_delete"}
    BY <1>1 DEF DeletingRows
  <2> QED
    BY <1>1, <2>1
<1>5. Inserting(a) => This(a).name \in {"new", "sync_insert"}
  BY <1>1 DEF Inserting, InsertOf
<1> QED
  BY <1>2, <1>3, <1>4, <1>5 DEF SyncOf

LEMMA AfterDetails ==
  ASSUME TypeInv, TypeInv', NEW a \in Actors, SyncOf(a), Details(a)
  PROVE  Goes(a)'
<1> DEFINE p == This(a).part
           S == StaleRows(a, p)
           F == [r \in S |-> Call("sync_delete", p, {r}, {})]
           m == Len(todo[a])
<1>1. Busy(a) /\ UNCHANGED <<acl, shares, seen>> /\ This(a).name = "details"
  BY DEF Details, Does, This
<1>2. /\ todo[a] \in Seq(Calls) /\ m \in Nat \ {0} /\ DOMAIN todo[a] = 1 .. m
      /\ This(a) = todo[a][1] /\ This(a) \in Calls
      /\ Rest(a) \in Seq(Calls) /\ Len(Rest(a)) = m - 1
      /\ DOMAIN Rest(a) = 1 .. m - 1
      /\ \A i \in DOMAIN Rest(a) : Rest(a)[i] = todo[a][i + 1]
  BY <1>1, Rests
<1>3. DeletingRows(a)
  BY <1>1, Phase
<1>4. m >= 2 /\ p \in Shown(a) /\ p \in Parts
  <2>1. 1 \in DOMAIN todo[a]
    BY <1>2
  <2>2. 1 # m /\ p \in Shown(a)
    BY <1>1, <1>2, <1>3, <2>1 DEF DeletingRows
  <2>3. m \in Nat \ {0} /\ p \in Parts
    BY <1>2, Fields
  <2> HIDE DEF m, p
  <2> QED
    BY <2>2, <2>3
<1>5. Plans(a, S, F, Rest(a))
  BY <1>4, RowsPlan
<1>6. S \subseteq Recipients /\ IsFiniteSet(S)
  BY FiniteParts DEF StaleRows
<1>7. F \in [S -> Calls] /\ \A r \in S : F[r].name = "sync_delete" /\ F[r].part = p /\ F[r].to = {r}
  <2>1. "sync_delete" \in Names /\ {} \in SUBSET {"r", "w"} /\ \A r \in S : {r} \in SUBSET Recipients
    BY <1>6, NamesOf DEF SyncCalls
  <2> QED
    BY <1>4, <2>1, Fields
<1> HIDE DEF S, F
<1>8. PICK n \in Nat : PlanOf(todo'[a], n, S, F, Rest(a)) /\ DOMAIN todo'[a] = 1 .. n + Len(Rest(a))
  BY <1>2, <1>5, <1>6, <1>7, AfterPlan
<1> HIDE DEF m
<1>9. /\ Len(todo'[a]) = n + (m - 1) /\ DOMAIN todo'[a] = 1 .. n + (m - 1)
      /\ \A i \in 1 .. m - 1 : todo'[a][n + i] = todo[a][i + 1]
  BY <1>2, <1>8 DEF PlanOf
<1>10. /\ \A i \in 1 .. n : todo'[a][i].name = "sync_delete" /\ todo'[a][i].part = p
       /\ \A r \in S : \E i \in 1 .. n :
            todo'[a][i].name = "sync_delete" /\ todo'[a][i].part = p /\ todo'[a][i].to = {r}
  <2>1. /\ \A i \in 1 .. n : \E r \in S : todo'[a][i] = F[r]
        /\ \A r \in S : \E i \in 1 .. n : todo'[a][i] = F[r]
    BY <1>8 DEF PlanOf
  <2> QED
    BY <1>7, <2>1
<1>11. ASSUME NEW i \in 1 .. n + (m - 1)
       PROVE  IF i = n + (m - 1) THEN todo'[a][i].name = "list_new"
              ELSE todo'[a][i].name \in {"details", "sync_delete"} /\ todo'[a][i].part \in Shown(a)
  <2>1. CASE i \in 1 .. n
    <3>1. i # n + (m - 1)
      BY <1>2, <1>4, <2>1
    <3> QED
      BY <1>4, <1>10, <2>1, <3>1
  <2>2. CASE i \notin 1 .. n
    <3>1. i - n \in 1 .. m - 1 /\ n + (i - n) = i /\ (i - n) + 1 \in 1 .. m
          /\ ((i - n) + 1 = m <=> i = n + (m - 1))
      BY <1>2, <1>4, <2>2
    <3>2. todo'[a][i] = todo[a][(i - n) + 1]
      BY <1>9, <3>1
    <3>3. (i - n) + 1 \in DOMAIN todo[a]
      BY <1>2, <3>1
    <3> QED
      BY <1>3, <3>1, <3>2, <3>3 DEF DeletingRows, m
  <2> QED
    BY <2>1, <2>2
<1>12. ASSUME NEW q \in Parts, NEW r \in Recipients, Listed(q, r), Stale(shares[q][r], r, acl[q])
       PROVE  \E i \in DOMAIN todo'[a] :
                /\ todo'[a][i].part = q
                /\ \/ todo'[a][i].name = "details"
                   \/ todo'[a][i].name = "sync_delete" /\ todo'[a][i].to = {r}
  <2>1. PICK j \in DOMAIN todo[a] :
          /\ todo[a][j].part = q
          /\ \/ todo[a][j].name = "details"
             \/ todo[a][j].name = "sync_delete" /\ todo[a][j].to = {r}
    BY <1>3, <1>12 DEF DeletingRows
  <2>2. CASE j = 1
    <3>1. q = p /\ seen[a][p] = acl[p]
      BY <1>2, <1>3, <2>1, <2>2 DEF DeletingRows, Snapped
    <3>2. r \in S
      BY <1>12, <3>1 DEF S, StaleRows
    <3>3. PICK i \in 1 .. n :
            todo'[a][i].name = "sync_delete" /\ todo'[a][i].part = p /\ todo'[a][i].to = {r}
      BY <1>10, <3>2
    <3>4. i \in DOMAIN todo'[a]
      BY <1>2, <1>9
    <3> QED
      BY <3>1, <3>3, <3>4
  <2>3. CASE j # 1
    <3>1. j - 1 \in 1 .. m - 1 /\ (j - 1) + 1 = j /\ n + (j - 1) \in 1 .. n + (m - 1)
      <4>1. n \in Nat /\ j \in 1 .. m /\ m \in Nat /\ j # 1
        BY <1>2, <1>8, <2>1, <2>3
      <4> QED
        BY <4>1
    <3>2. todo'[a][n + (j - 1)] = todo[a][j] /\ n + (j - 1) \in DOMAIN todo'[a]
      BY <1>9, <3>1
    <3> QED
      BY <2>1, <3>2
  <2> QED
    BY <2>2, <2>3
<1>13. DeletingRows(a)'
  <2>1. /\ Snapped(a)' = Snapped(a) /\ ListedParts' = ListedParts /\ Shown(a)' = Shown(a)
        /\ \A q, r : Listed(q, r)' = Listed(q, r)
    BY <1>1 DEF Snapped, ListedParts, Shown, Listed
  <2>2. \A i \in DOMAIN todo'[a] :
          IF i = Len(todo'[a]) THEN todo'[a][i].name = "list_new"
          ELSE todo'[a][i].name \in {"details", "sync_delete"} /\ todo'[a][i].part \in Shown(a)
    BY <1>9, <1>11
  <2>3. Snapped(a) /\ ListedParts \subseteq Shown(a)
    BY <1>3 DEF DeletingRows
  <2> QED
    BY <1>1, <1>12, <2>1, <2>2, <2>3 DEF DeletingRows
<1>14. Busy(a)'
  <2>1. Len(todo'[a]) # 0
    BY <1>2, <1>4, <1>9
  <2> QED
    BY <2>1 DEF Busy
<1> QED
  BY <1>13, <1>14 DEF Goes, SyncOf

LEMMA AfterListNew ==
  ASSUME TypeInv, TypeInv', NEW a \in Actors, SyncOf(a), ListNew(a)
  PROVE  Goes(a)'
<1> DEFINE S == Shown(a)
           F == [p \in S |-> NewCall(p)]
           rest == <<>>
<1>1. Busy(a) /\ UNCHANGED <<acl, shares, seen>> /\ This(a).name = "list_new"
  BY DEF ListNew, Does, This
<1>2. 1 \in DOMAIN todo[a] /\ DOMAIN todo[a] = 1 .. Len(todo[a]) /\ This(a) = todo[a][1]
  BY <1>1, Rests
<1>3. DeletingRows(a)
  BY <1>1, Phase
<1>4. \A i \in DOMAIN todo[a] : i = 1
  <2>1. 1 = Len(todo[a])
    BY <1>1, <1>2, <1>3 DEF DeletingRows
  <2>2. DOMAIN todo[a] = 1 .. 1
    BY <1>2, <2>1
  <2> QED
    BY <2>2
<1>5. Snapped(a) /\ \A p \in Parts, r \in Recipients : Listed(p, r) => ~Stale(shares[p][r], r, acl[p])
  BY <1>1, <1>2, <1>3, <1>4 DEF DeletingRows
<1>6. Plans(a, S, F, rest)
  BY NewPlan
<1>7. S \subseteq Parts /\ IsFiniteSet(S) /\ F \in [S -> Calls] /\ rest \in Seq(Calls) /\ Len(rest) = 0
      /\ \A p \in S : /\ F[p].name = "new" /\ F[p].part = p
                      /\ F[p].to = Recipients \/ p \notin ListedParts
  <2>1. "new" \in Names /\ {} \in SUBSET Recipients /\ Recipients \in SUBSET Recipients
        /\ {} \in SUBSET {"r", "w"} /\ S \subseteq Parts
    BY NamesOf DEF SyncCalls, Shown
  <2> QED
    BY <2>1, FiniteParts, Fields DEF NewCall
<1> HIDE DEF S, F, rest
<1>8. PICK n \in Nat : PlanOf(todo'[a], n, S, F, rest) /\ DOMAIN todo'[a] = 1 .. n + Len(rest)
  BY <1>6, <1>7, AfterPlan
<1>9. DOMAIN todo'[a] = 1 .. n
  BY <1>7, <1>8
<1>10. /\ \A i \in 1 .. n : \E p \in S : todo'[a][i] = F[p]
       /\ \A p \in S : \E i \in 1 .. n : todo'[a][i] = F[p]
       /\ \A i, j \in 1 .. n : i # j => \E p, q \in S : p # q /\ todo'[a][i] = F[p] /\ todo'[a][j] = F[q]
  BY <1>8 DEF PlanOf
<1>11. /\ Snapped(a)' = Snapped(a) /\ ListedParts' = ListedParts
       /\ \A q, r : Listed(q, r)' = Listed(q, r)
  BY <1>1 DEF Snapped, ListedParts, Listed
<1>12. Inserting(a)'
  <2>1. \A i \in DOMAIN todo'[a] : InsertOf(a, i)'
    BY <1>7, <1>9, <1>10, <1>11 DEF InsertOf
  <2>2. ASSUME NEW i \in DOMAIN todo'[a], NEW j \in DOMAIN todo'[a], i # j
        PROVE  todo'[a][i].part # todo'[a][j].part
    <3>1. PICK p \in S, q \in S : p # q /\ todo'[a][i] = F[p] /\ todo'[a][j] = F[q]
      <4>1. \A k, l \in 1 .. n : k # l => \E p, q \in S : p # q /\ todo'[a][k] = F[p] /\ todo'[a][l] = F[q]
        BY <1>10
      <4>2. i \in 1 .. n /\ j \in 1 .. n /\ i # j
        BY <1>9, <2>2
      <4> QED
        BY <4>1, <4>2
    <3> QED
      BY <1>7, <3>1
  <2>3. ASSUME NEW p \in Parts, NEW r \in Granted(acl[p]) \cap Recipients
        PROVE  \E i \in DOMAIN todo'[a] : todo'[a][i].part = p /\ todo'[a][i].name = "new"
    <3>1. p \in S
      BY <1>5 DEF S, Shown, Snapped
    <3>2. PICK i \in 1 .. n : todo'[a][i] = F[p]
      BY <1>10, <3>1
    <3> QED
      BY <1>7, <1>9, <3>1, <3>2
  <2> QED
    BY <1>1, <1>5, <1>11, <2>1, <2>2, <2>3 DEF Inserting
<1> QED
  BY <1>12, Ended

LEMMA AfterNew ==
  ASSUME TypeInv, TypeInv', NEW a \in Actors, SyncOf(a), New(a)
  PROVE  Goes(a)'
<1> DEFINE p == This(a).part
           S == Missing(a, p)
           F == [r \in S |-> Call("sync_insert", p, {r}, RightsIn(seen[a][p], r))]
           m == Len(todo[a])
<1>1. Busy(a) /\ UNCHANGED <<acl, shares, seen>> /\ This(a).name = "new"
  BY DEF New, Does, This
<1>2. /\ todo[a] \in Seq(Calls) /\ m \in Nat \ {0} /\ DOMAIN todo[a] = 1 .. m
      /\ This(a) = todo[a][1] /\ This(a) \in Calls
      /\ Rest(a) \in Seq(Calls) /\ Len(Rest(a)) = m - 1
      /\ DOMAIN Rest(a) = 1 .. m - 1
      /\ \A i \in DOMAIN Rest(a) : Rest(a)[i] = todo[a][i + 1]
  BY <1>1, Rests
<1>3. Inserting(a) /\ p \in Parts
  BY <1>1, <1>2, Phase, Fields
<1>4. /\ seen[a][p] = acl[p] /\ acl[p] \in Acls
      /\ S = {r \in Granted(acl[p]) \cap Recipients : ~Listed(p, r)}
  <2>1. seen[a][p] = acl[p] /\ acl[p] \in Acls
    BY <1>3 DEF Inserting, Snapped, TypeInv, TypeOK
  <2>2. Granted(acl[p]) \ {Owner} = Granted(acl[p]) \cap Recipients
    BY <2>1, SharingAssumption DEF Granted, Acls
  <2>3. This(a).to = Recipients \/ \A r \in Recipients : ~Listed(p, r)
    <3>1. 1 \in DOMAIN todo[a]
      BY <1>2
    <3>2. InsertOf(a, 1)
      BY <1>3, <3>1 DEF Inserting
    <3> QED
      BY <1>1, <1>2, <1>3, <3>2 DEF InsertOf, ListedParts
  <2>4. This(a).to \subseteq Recipients
    BY <1>2, Fields
  <2> QED
    BY <2>1, <2>2, <2>3, <2>4 DEF Missing
<1>5. Plans(a, S, F, Rest(a))
  BY InsertPlan
<1>6. S \subseteq Recipients /\ IsFiniteSet(S)
  BY <1>4, FiniteParts
<1>7. F \in [S -> Calls]
      /\ \A r \in S : /\ F[r].name = "sync_insert" /\ F[r].part = p /\ F[r].to = {r}
                      /\ F[r].rights = RightsIn(acl[p], r)
  <2>1. "sync_insert" \in Names /\ \A r \in S : {r} \in SUBSET Recipients
                                                /\ RightsIn(seen[a][p], r) \in SUBSET {"r", "w"}
    BY <1>6, NamesOf DEF SyncCalls, RightsIn
  <2> QED
    BY <1>3, <1>4, <2>1, Fields
<1> HIDE DEF S, F
<1>8. PICK n \in Nat : PlanOf(todo'[a], n, S, F, Rest(a)) /\ DOMAIN todo'[a] = 1 .. n + Len(Rest(a))
  BY <1>2, <1>5, <1>6, <1>7, AfterPlan
<1> HIDE DEF m
<1>9. /\ DOMAIN todo'[a] = 1 .. n + (m - 1)
      /\ \A i \in 1 .. m - 1 : todo'[a][n + i] = todo[a][i + 1]
  BY <1>2, <1>8 DEF PlanOf
<1>10. /\ \A i \in 1 .. n : \E r \in S : todo'[a][i] = F[r]
       /\ \A r \in S : \E i \in 1 .. n : todo'[a][i] = F[r]
       /\ \A i, j \in 1 .. n : i # j => \E r, x \in S : r # x /\ todo'[a][i] = F[r] /\ todo'[a][j] = F[x]
  BY <1>8 DEF PlanOf
<1>11. /\ Snapped(a)' = Snapped(a) /\ ListedParts' = ListedParts
       /\ \A q, r : Listed(q, r)' = Listed(q, r)
  BY <1>1 DEF Snapped, ListedParts, Listed
\* an index after the first n is one of the calls that were left
<1>12. ASSUME NEW i \in DOMAIN todo'[a], i \notin 1 .. n
       PROVE  /\ (i - n) + 1 \in DOMAIN todo[a] /\ (i - n) + 1 # 1
              /\ todo'[a][i] = todo[a][(i - n) + 1]
  <2>1. i - n \in 1 .. m - 1 /\ n + (i - n) = i /\ (i - n) + 1 \in 1 .. m /\ (i - n) + 1 # 1
    <3>1. n \in Nat /\ m \in Nat /\ i \in 1 .. n + (m - 1) /\ i \notin 1 .. n
      BY <1>2, <1>8, <1>9, <1>12
    <3> QED
      BY <3>1
  <2> QED
    BY <1>2, <1>9, <2>1
<1>13. 1 \in DOMAIN todo[a] /\ todo[a][1].name = "new" /\ todo[a][1].part = p
  BY <1>1, <1>2
<1>14. \A j \in DOMAIN todo[a] : j # 1 => todo[a][j].part # p
  BY <1>3, <1>13 DEF Inserting
<1>15. ASSUME NEW i \in DOMAIN todo'[a] PROVE InsertOf(a, i)'
  <2>1. CASE i \in 1 .. n
    BY <1>1, <1>4, <1>7, <1>10, <1>11, <2>1 DEF InsertOf
  <2>2. CASE i \notin 1 .. n
    <3>1. InsertOf(a, (i - n) + 1)
      BY <1>3, <1>12, <2>2 DEF Inserting
    <3> QED
      BY <1>1, <1>11, <1>12, <2>2, <3>1 DEF InsertOf
  <2> QED
    BY <2>1, <2>2
<1>16. ASSUME NEW i \in DOMAIN todo'[a], NEW j \in DOMAIN todo'[a], i # j,
              todo'[a][i].part = todo'[a][j].part
       PROVE  /\ todo'[a][i].name = "sync_insert" /\ todo'[a][j].name = "sync_insert"
              /\ todo'[a][i].to # todo'[a][j].to
  <2>1. CASE i \in 1 .. n /\ j \in 1 .. n
    <3>1. PICK r \in S, x \in S : r # x /\ todo'[a][i] = F[r] /\ todo'[a][j] = F[x]
      BY <1>10, <1>16, <2>1
    <3> QED
      BY <1>7, <3>1
  <2>2. CASE i \in 1 .. n /\ j \notin 1 .. n
    BY <1>7, <1>10, <1>12, <1>14, <1>16, <2>2
  <2>3. CASE i \notin 1 .. n /\ j \in 1 .. n
    BY <1>7, <1>10, <1>12, <1>14, <1>16, <2>3
  <2>4. CASE i \notin 1 .. n /\ j \notin 1 .. n
    <3>1. (i - n) + 1 # (j - n) + 1
      BY <1>2, <1>9, <1>16
    <3> QED
      BY <1>3, <1>12, <1>16, <2>4, <3>1 DEF Inserting
  <2> QED
    BY <2>1, <2>2, <2>3, <2>4
<1>17. ASSUME NEW q \in Parts, NEW r \in Granted(acl[q]) \cap Recipients, ~Listed(q, r)
       PROVE  \E i \in DOMAIN todo'[a] :
                todo'[a][i].part = q /\ (todo'[a][i].name = "new" \/ todo'[a][i].to = {r})
  <2>1. CASE q = p
    <3>1. PICK i \in 1 .. n : todo'[a][i] = F[r]
      BY <1>4, <1>10, <1>17, <2>1
    <3>2. i \in DOMAIN todo'[a] /\ r \in S
      BY <1>2, <1>4, <1>9, <1>17, <2>1
    <3> QED
      BY <1>7, <2>1, <3>1, <3>2
  <2>2. CASE q # p
    <3>1. PICK j \in DOMAIN todo[a] :
            todo[a][j].part = q /\ (todo[a][j].name = "new" \/ todo[a][j].to = {r})
      BY <1>3, <1>17 DEF Inserting
    <3>2. j - 1 \in 1 .. m - 1 /\ n + (j - 1) \in 1 .. n + (m - 1) /\ (j - 1) + 1 = j
      <4>1. n \in Nat /\ j \in 1 .. m /\ m \in Nat /\ j # 1
        BY <1>2, <1>8, <1>13, <2>2, <3>1
      <4> QED
        BY <4>1
    <3>3. todo'[a][n + (j - 1)] = todo[a][j] /\ n + (j - 1) \in DOMAIN todo'[a]
      BY <1>9, <3>2
    <3> QED
      BY <3>1, <3>3
  <2> QED
    BY <2>1, <2>2
<1>18. Snapped(a)' /\ \A q \in Parts, r \in Recipients : Listed(q, r)' => ~Stale(shares'[q][r], r, acl'[q])
  BY <1>1, <1>3, <1>11 DEF Inserting
<1>19. \A q \in Parts : \A r \in Granted(acl'[q]) \cap Recipients :
         \/ Listed(q, r)'
         \/ \E i \in DOMAIN todo'[a] :
              todo'[a][i].part = q /\ (todo'[a][i].name = "new" \/ todo'[a][i].to = {r})
  BY <1>1, <1>11, <1>17
<1>20. Inserting(a)'
  BY <1>15, <1>16, <1>18, <1>19 DEF Inserting
<1> QED
  BY <1>20, Ended


\* The calls that are left when the current one is over
LEMMA Left ==
  ASSUME TypeInv, NEW a \in Actors, Busy(a), Continue(a, Rest(a))
  PROVE  /\ Len(todo'[a]) = Len(todo[a]) - 1 /\ DOMAIN todo'[a] = 1 .. Len(todo[a]) - 1
         /\ \A i \in DOMAIN todo'[a] :
              /\ i + 1 \in DOMAIN todo[a] /\ i + 1 # 1 /\ todo'[a][i] = todo[a][i + 1]
              /\ i = Len(todo'[a]) <=> i + 1 = Len(todo[a])
         /\ \A j \in DOMAIN todo[a] : j # 1 =>
              \E i \in DOMAIN todo'[a] : i + 1 = j /\ todo'[a][i] = todo[a][j]
<1> DEFINE m == Len(todo[a])
           left == todo'[a]
<1>1. /\ m \in Nat \ {0} /\ DOMAIN todo[a] = 1 .. m
      /\ left = Rest(a) /\ Len(left) = m - 1 /\ DOMAIN left = 1 .. m - 1
      /\ \A i \in DOMAIN left : left[i] = todo[a][i + 1]
  BY Rests DEF Continue, TypeInv
<1> HIDE DEF m, left
<1>2. ASSUME NEW i \in DOMAIN left
      PROVE  /\ i + 1 \in DOMAIN todo[a] /\ i + 1 # 1 /\ left[i] = todo[a][i + 1]
             /\ i = Len(left) <=> i + 1 = m
  BY <1>1, <1>2
<1>3. ASSUME NEW j \in DOMAIN todo[a], j # 1
      PROVE  \E i \in DOMAIN left : i + 1 = j /\ left[i] = todo[a][j]
  <2>1. j - 1 \in DOMAIN left /\ (j - 1) + 1 = j
    BY <1>1, <1>3
  <2>2. left[j - 1] = todo[a][j]
    BY <1>1, <2>1
  <2> QED
    BY <2>1, <2>2
<1> QED
  BY <1>1, <1>2, <1>3 DEF m, left

LEMMA RowsOf ==
  ASSUME TypeInv, NEW a \in Actors, Busy(a), NEW row
  PROVE  \A q \in Parts, r \in Recipients :
           Rows(a, row)[q][r] = IF q = This(a).part /\ r \in This(a).to THEN row ELSE shares[q][r]
BY Rests, Fields DEF Rows, TypeInv, TypeOK

LEMMA AfterDelete ==
  ASSUME TypeInv, TypeInv', NEW a \in Actors, SyncOf(a), Delete(a), This(a).name = "sync_delete"
  PROVE  Goes(a)'
<1> DEFINE c == This(a)
<1>1. Busy(a) /\ UNCHANGED <<acl, seen>> /\ Continue(a, Rest(a)) /\ shares' = Rows(a, NoRow)
  BY DEF Delete, Does
<1>2. c \in Calls /\ c.part \in Parts /\ c = todo[a][1] /\ 1 \in DOMAIN todo[a]
      /\ Len(todo[a]) \in Nat \ {0}
  BY <1>1, Rests, Fields
<1>3. Len(todo[a]) # 1 /\ (DeletingParts(a) \/ DeletingRows(a))
  BY <1>1, Phase
<1>4. \A q \in Parts, r \in Recipients :
        shares'[q][r] = IF q = c.part /\ r \in c.to THEN NoRow ELSE shares[q][r]
  BY <1>1, RowsOf
<1>5. \A q \in Parts, r \in Recipients :
        Listed(q, r)' => Listed(q, r) /\ shares'[q][r] = shares[q][r] /\ ~(q = c.part /\ r \in c.to)
  BY <1>4 DEF Listed
<1>6. Snapped(a)' = Snapped(a) /\ Shown(a)' = Shown(a) /\ ListedParts' \subseteq ListedParts
  BY <1>1, <1>5 DEF Snapped, Shown, ListedParts
<1>7. /\ \A i \in DOMAIN todo'[a] :
           /\ i + 1 \in DOMAIN todo[a] /\ todo'[a][i] = todo[a][i + 1]
           /\ i = Len(todo'[a]) <=> i + 1 = Len(todo[a])
      /\ \A j \in DOMAIN todo[a] : j # 1 =>
           \E i \in DOMAIN todo'[a] : todo'[a][i] = todo[a][j]
      /\ Len(todo'[a]) = Len(todo[a]) - 1
  BY <1>1, Left
<1> HIDE DEF c
<1>8. Busy(a)'
  <2>1. Len(todo'[a]) # 0
    BY <1>2, <1>3, <1>7
  <2> QED
    BY <2>1 DEF Busy
<1>9. ASSUME DeletingParts(a) PROVE DeletingParts(a)'
  <2>1. c.to = Recipients
    BY <1>2, <1>3, <1>9 DEF DeletingParts
  <2>2. c.part \notin ListedParts'
    BY <1>5, <2>1 DEF ListedParts
  <2>3. \A i \in DOMAIN todo'[a] :
          IF i = Len(todo'[a]) THEN todo'[a][i].name = "list_rows"
          ELSE todo'[a][i].name = "sync_delete" /\ todo'[a][i].to = Recipients
    BY <1>7, <1>9 DEF DeletingParts
  <2>4. ASSUME NEW p \in ListedParts' \ Shown(a)'
        PROVE  \E i \in DOMAIN todo'[a] : todo'[a][i].name = "sync_delete" /\ todo'[a][i].part = p
    <3>1. PICK j \in DOMAIN todo[a] : todo[a][j].name = "sync_delete" /\ todo[a][j].part = p
      BY <1>6, <1>9, <2>4 DEF DeletingParts
    <3>2. j # 1
      BY <1>2, <2>2, <2>4, <3>1
    <3> QED
      BY <1>7, <3>1, <3>2
  <2> QED
    BY <1>6, <1>9, <2>3, <2>4 DEF DeletingParts
<1>10. ASSUME DeletingRows(a) PROVE DeletingRows(a)'
  <2>1. \A i \in DOMAIN todo'[a] :
          IF i = Len(todo'[a]) THEN todo'[a][i].name = "list_new"
          ELSE todo'[a][i].name \in {"details", "sync_delete"} /\ todo'[a][i].part \in Shown(a)'
    BY <1>6, <1>7, <1>10 DEF DeletingRows
  <2>2. ASSUME NEW q \in Parts, NEW r \in Recipients, Listed(q, r)', Stale(shares'[q][r], r, acl[q])
        PROVE  \E i \in DOMAIN todo'[a] :
                 /\ todo'[a][i].part = q
                 /\ \/ todo'[a][i].name = "details"
                    \/ todo'[a][i].name = "sync_delete" /\ todo'[a][i].to = {r}
    <3>1. PICK j \in DOMAIN todo[a] :
            /\ todo[a][j].part = q
            /\ \/ todo[a][j].name = "details"
               \/ todo[a][j].name = "sync_delete" /\ todo[a][j].to = {r}
      BY <1>5, <1>10, <2>2 DEF DeletingRows
    <3>2. j # 1
      BY <1>2, <1>5, <2>2, <3>1 DEF c
    <3> QED
      BY <1>7, <3>1, <3>2
  <2>3. ListedParts' \subseteq Shown(a)' /\ Snapped(a)'
    BY <1>6, <1>10 DEF DeletingRows
  <2> QED
    BY <1>1, <2>1, <2>2, <2>3 DEF DeletingRows
<1> QED
  BY <1>3, <1>8, <1>9, <1>10 DEF Goes, SyncOf

LEMMA AfterInsert ==
  ASSUME TypeInv, TypeInv', NEW a \in Actors, SyncOf(a), Insert(a), This(a).name = "sync_insert"
  PROVE  Goes(a)'
<1> DEFINE c == This(a)
<1>1. Busy(a) /\ UNCHANGED <<acl, seen>>
  BY DEF Insert, Does
<1>2. PICK p \in Parts : c \in Calls /\ p = c.part /\ c = todo[a][1] /\ 1 \in DOMAIN todo[a]
  BY <1>1, Rests, Fields
<1>3. Inserting(a)
  BY <1>1, Phase
<1>4. PICK r \in Granted(acl[p]) \cap Recipients :
        c.to = {r} /\ c.rights = RightsIn(acl[p], r) /\ ~Listed(p, r)
  <2>1. InsertOf(a, 1)
    BY <1>2, <1>3 DEF Inserting
  <2> QED
    BY <1>2, <2>1 DEF InsertOf
<1>5. Continue(a, Rest(a)) /\ shares' = Rows(a, c.rights)
  BY <1>2, <1>4 DEF Insert
<1>6. \A q \in Parts, x \in Recipients :
        shares'[q][x] = IF q = p /\ x = r THEN RightsIn(acl[p], r) ELSE shares[q][x]
  BY <1>1, <1>2, <1>4, <1>5, RowsOf
<1>7. /\ Listed(p, r)'
      /\ \A q \in Parts, x \in Recipients : q # p \/ x # r => (Listed(q, x)' <=> Listed(q, x))
      /\ ~Stale(shares'[p][r], r, acl[p])
  <2>1. RightsIn(acl[p], r) # NoRow
    BY DEF RightsIn, NoRow
  <2>2. shares'[p][r] = RightsIn(acl[p], r)
    BY <1>2, <1>6
  <2>3. ~Stale(RightsIn(acl[p], r), r, acl[p])
    BY DEF Stale, RightsIn, Granted
  <2>4. r \in Recipients
    BY <1>4
  <2>5. shares'[p][r] # NoRow
    BY <2>1, <2>2
  <2>6. \A q \in Parts, x \in Recipients : q # p \/ x # r => shares'[q][x] = shares[q][x]
    BY <1>6
  <2> QED
    BY <2>2, <2>3, <2>4, <2>5, <2>6 DEF Listed
<1>8. ListedParts' \subseteq ListedParts \cup {p}
  BY <1>7 DEF ListedParts
<1>9. /\ \A i \in DOMAIN todo'[a] :
           i + 1 \in DOMAIN todo[a] /\ i + 1 # 1 /\ todo'[a][i] = todo[a][i + 1]
      /\ \A j \in DOMAIN todo[a] : j # 1 => \E i \in DOMAIN todo'[a] : todo'[a][i] = todo[a][j]
  BY <1>1, <1>5, Left
<1>10. \A j \in DOMAIN todo[a] : j # 1 /\ todo[a][j].part = p =>
         todo[a][j].name = "sync_insert" /\ todo[a][j].to # {r}
  <2>1. todo[a][1].part = p /\ todo[a][1].to = {r} /\ 1 \in DOMAIN todo[a]
    BY <1>2, <1>4
  <2>2. \A i, j \in DOMAIN todo[a] : i # j /\ todo[a][i].part = todo[a][j].part =>
          /\ todo[a][i].name = "sync_insert" /\ todo[a][j].name = "sync_insert"
          /\ todo[a][i].to # todo[a][j].to
    BY <1>3 DEF Inserting
  <2> QED
    BY <2>1, <2>2
<1> HIDE DEF c
<1>11. ASSUME NEW i \in DOMAIN todo'[a] PROVE InsertOf(a, i)'
  <2>0. PICK d \in Calls : d = todo[a][i + 1]
    BY <1>9 DEF TypeInv
  <2>1. d = todo'[a][i] /\ (d.part = p => d.name = "sync_insert" /\ d.to # {r}) /\ d.part \in Parts
    <3>1. i + 1 \in DOMAIN todo[a] /\ i + 1 # 1 /\ d = todo'[a][i] /\ d = todo[a][i + 1]
      BY <1>9, <2>0
    <3>2. d.part \in Parts
      BY Fields
    <3> QED
      BY <1>10, <3>1, <3>2
  <2>2. InsertOf(a, i + 1)
    BY <1>3, <1>9 DEF Inserting
  <2>3. CASE d.name = "new" /\ (d.to = Recipients \/ d.part \notin ListedParts)
    BY <1>8, <2>1, <2>3 DEF InsertOf
  <2>4. CASE /\ d.name = "sync_insert"
             /\ \E x \in Granted(acl[d.part]) \cap Recipients :
                  d.to = {x} /\ d.rights = RightsIn(acl[d.part], x) /\ ~Listed(d.part, x)
    <3>1. PICK x \in Granted(acl[d.part]) \cap Recipients :
            d.to = {x} /\ d.rights = RightsIn(acl[d.part], x) /\ ~Listed(d.part, x)
      BY <2>4
    <3>2. ~Listed(d.part, x)'
      <4>1. x \in Recipients /\ (d.part # p \/ x # r)
        BY <2>1, <3>1
      <4>2. d.part \in Parts /\ ~Listed(d.part, x)
        BY <2>1, <3>1
      <4> QED
        BY <1>7, <4>1, <4>2
    <3>3. x \in Granted(acl'[d.part]) \cap Recipients /\ d.rights = RightsIn(acl'[d.part], x)
      BY <1>1, <3>1
    <3> QED
      BY <2>1, <2>4, <3>1, <3>2, <3>3 DEF InsertOf, Listed
  <2> QED
    BY <2>0, <2>2, <2>3, <2>4 DEF InsertOf
<1>12. ASSUME NEW i \in DOMAIN todo'[a], NEW j \in DOMAIN todo'[a], i # j,
              todo'[a][i].part = todo'[a][j].part
       PROVE  /\ todo'[a][i].name = "sync_insert" /\ todo'[a][j].name = "sync_insert"
              /\ todo'[a][i].to # todo'[a][j].to
  <2>1. i + 1 # j + 1
    <3>1. DOMAIN todo'[a] = 1 .. Len(todo[a]) - 1
      BY <1>1, <1>5, Left
    <3> QED
      BY <1>12, <3>1
  <2> QED
    BY <1>3, <1>9, <1>12, <2>1 DEF Inserting
<1>13. ASSUME NEW q \in Parts, NEW x \in Granted(acl[q]) \cap Recipients, ~Listed(q, x)'
       PROVE  \E i \in DOMAIN todo'[a] :
                todo'[a][i].part = q /\ (todo'[a][i].name = "new" \/ todo'[a][i].to = {x})
  <2>1. ~Listed(q, x) /\ ~(q = p /\ x = r)
    <3>1. ~(q = p /\ x = r)
      BY <1>7, <1>13 DEF Listed
    <3>2. x \in Recipients
      BY <1>13
    <3> QED
      BY <1>7, <1>13, <3>1, <3>2 DEF Listed
  <2>2. todo[a][1].name = "sync_insert" /\ todo[a][1].part = p /\ todo[a][1].to = {r}
    BY <1>2, <1>4 DEF c
  <2>3. PICK j \in DOMAIN todo[a] :
          todo[a][j].part = q /\ (todo[a][j].name = "new" \/ todo[a][j].to = {x})
    BY <1>3, <2>1 DEF Inserting
  <2>4. j # 1
    BY <1>13, <2>1, <2>2, <2>3
  <2> QED
    BY <1>9, <2>3, <2>4
<1>14. \A q \in Parts, x \in Recipients : Listed(q, x)' => ~Stale(shares'[q][x], x, acl[q])
  BY <1>3, <1>6, <1>7 DEF Inserting
<1>15. Inserting(a)'
  <2>1. Snapped(a)'
    BY <1>1, <1>3 DEF Inserting, Snapped
  <2> QED
    BY <1>1, <1>11, <1>12, <1>13, <1>14, <2>1 DEF Inserting
<1> QED
  BY <1>15, Ended

-----------------------------------------------------------------------------
(* Which operation an actor is at *)

LEMMA OneKind ==
  ASSUME NEW s \in Seq(Calls), s # <<>>, NEW names \in Kinds, \A i \in DOMAIN s : s[i].name \in names
  PROVE  /\ 1 \in DOMAIN s
         /\ (\E i \in DOMAIN s : s[i].name \in SyncCalls) => names = SyncCalls
         /\ Last(s).name \in SyncCalls <=> names = SyncCalls
<1>1. Len(s) \in DOMAIN s /\ 1 \in DOMAIN s /\ Last(s) = s[Len(s)]
  BY DEF Last
<1>2. \A i \in DOMAIN s : s[i].name \in SyncCalls => names = SyncCalls
  BY DEF Kinds, SyncCalls
<1> QED
  BY <1>1, <1>2

LEMMA SyncingOf ==
  ASSUME TypeInv, NEW a \in Actors, Busy(a)
  PROVE  /\ Syncing(a) <=> This(a).name \in SyncCalls
         /\ ~Syncing(a) => \A i \in DOMAIN todo[a] : todo[a][i].name \notin SyncCalls
<1>1. PICK names \in Kinds : KindOf(a, names)
  BY DEF TypeInv
<1>2. todo[a] \in Seq(Calls) /\ todo[a] # <<>> /\ \A i \in DOMAIN todo[a] : todo[a][i].name \in names
  BY <1>1 DEF Busy, TypeInv, KindOf
<1>3. /\ 1 \in DOMAIN todo[a] /\ This(a) = todo[a][1]
      /\ (\E i \in DOMAIN todo[a] : todo[a][i].name \in SyncCalls) => names = SyncCalls
      /\ Last(todo[a]).name \in SyncCalls <=> names = SyncCalls
  BY <1>2, OneKind, Rests
<1> QED
  BY <1>2, <1>3 DEF Syncing

LEMMA SyncingThen ==
  ASSUME TypeInv', NEW a \in Actors, Busy(a)'
  PROVE  /\ 1 \in DOMAIN todo'[a] /\ This(a)' = todo'[a][1]
         /\ Syncing(a)' <=> \E i \in DOMAIN todo'[a] : todo'[a][i].name \in SyncCalls
         /\ SyncOf(a)' => Syncing(a)'
<1>1. PICK names \in Kinds : KindOf(a, names)'
  BY DEF TypeInv
<1>2. todo'[a] \in Seq(Calls) /\ todo'[a] # <<>> /\ \A i \in DOMAIN todo'[a] : todo'[a][i].name \in names
  BY <1>1 DEF Busy, TypeInv, KindOf
<1>3. /\ 1 \in DOMAIN todo'[a] /\ Last(todo'[a]) = todo'[a][Len(todo'[a])] /\ Len(todo'[a]) \in DOMAIN todo'[a]
      /\ (\E i \in DOMAIN todo'[a] : todo'[a][i].name \in SyncCalls) => names = SyncCalls
      /\ Last(todo'[a]).name \in SyncCalls <=> names = SyncCalls
  <2>1. Last(todo'[a]) = todo'[a][Len(todo'[a])] /\ Len(todo'[a]) \in DOMAIN todo'[a]
    BY <1>2 DEF Last
  <2> QED
    BY <1>2, <2>1, OneKind
<1>4. Syncing(a)' <=> names = SyncCalls
  BY <1>3 DEF Syncing
<1>5. This(a)' = todo'[a][1]
  BY <1>2 DEF This
<1>6. SyncOf(a)' => todo'[a][1].name \in SyncCalls
  <2>1. Reading(a)' => todo'[a][1].name \in {"list_rows", "list_stale", "snapshot"}
    BY <1>3 DEF Reading
  <2>2. DeletingParts(a)' => todo'[a][1].name \in {"list_rows", "sync_delete"}
    BY <1>3 DEF DeletingParts
  <2>3. DeletingRows(a)' => todo'[a][1].name \in {"list_new", "details", "sync_delete"}
    BY <1>3 DEF DeletingRows
  <2>4. Inserting(a)' => todo'[a][1].name \in {"new", "sync_insert"}
    BY <1>3 DEF Inserting, InsertOf
  <2> QED
    BY <2>1, <2>2, <2>3, <2>4 DEF SyncOf, SyncCalls
<1> QED
  BY <1>2, <1>3, <1>4, <1>5, <1>6

-----------------------------------------------------------------------------
(* The steps *)

Inv == TypeInv /\ SyncInv /\ CalmInv

\* What a step leaves alone of the other actors
Others(a) == \A b \in Actors : b # a => todo'[b] = todo[b]

\* A step of a synchronisation
LEMMA SyncGoes ==
  ASSUME Inv, TypeInv', NEW a \in Actors, Busy(a), Others(a), stage'[a] = "begin", UNCHANGED acl,
         calm' => calm, quiet' => quiet, calm' \/ quiet' => Goes(a)'
  PROVE  SyncInv' /\ CalmInv'
<1>1. ASSUME calm' \/ quiet'
      PROVE  /\ \A b \in Actors : Busy(b)' => b = a
             /\ Busy(a)' => SyncOf(a)' /\ Syncing(a)'
             /\ ~Busy(a)' => AllAgree'
  <2>1. Alone
    BY <1>1 DEF Inv, SyncInv
  <2>2. \A b \in Actors : Busy(b)' => b = a
    BY <2>1 DEF Alone, Others, Busy
  <2>3. Busy(a)' => SyncOf(a)' /\ Syncing(a)'
    BY <1>1, SyncingThen DEF Goes
  <2> QED
    BY <1>1, <2>2, <2>3 DEF Goes
<1>2. SyncInv'
  BY <1>1 DEF SyncInv, Alone, Syncing, Idle
<1>3. ASSUME calm' PROVE CalmOf'
  <2>1. \A p \in Parts : acl'[p] # NoAcl => Owned(acl'[p])
    BY <1>3 DEF Inv, CalmInv, CalmOf
  <2>2. \A b \in Actors : Busy(b)' => RequestsOf(b)' /\ Syncing(b)'
    BY <1>1, <1>3 DEF RequestsOf
  <2>3. (\A b \in Actors : ~Syncing(b)') => NoneHidden'
    <3>1. SUFFICES ASSUME AllAgree' PROVE NoneHidden'
      BY <1>1, <1>3
    <3> QED
      BY <3>1 DEF NoneHidden, AllAgree, Agrees, Parts
  <2> QED
    BY <2>1, <2>2, <2>3 DEF CalmOf
<1> QED
  BY <1>2, <1>3 DEF CalmInv

\* The calls of a dialog, when the one it waits for is not an insertion and its ACL
\* is not still to be emptied.
Settled(a) ==
  \A i \in DOMAIN todo[a] :
    /\ todo[a][i].name \in {"add", "modify"} => \A r \in todo[a][i].to : Listed("container", r)
    /\ todo[a][i].name = "delete" => Granted(acl["container"]) \subseteq {Owner}

\* What a dialog may rely on
Relied(a) ==
  /\ RequestsOf(a) /\ DialogOf(a) /\ NoneHidden
  /\ \A p \in Parts : acl[p] # NoAcl => Owned(acl[p])
  /\ This(a).name # "insert" /\ (This(a).name # "clear" \/ stage[a] # "begin") => Settled(a)

LEMMA Relies ==
  ASSUME Inv, calm, NEW a \in Actors, Busy(a), ~Syncing(a)
  PROVE  Relied(a)
<1>1. \A b \in Actors : ~Syncing(b)
  BY DEF Inv, SyncInv, Alone, Syncing
<1>2. CalmOf
  BY DEF Inv, CalmInv
<1>3. /\ RequestsOf(a) /\ DialogOf(a) /\ NoneHidden
      /\ \A p \in Parts : acl[p] # NoAcl => Owned(acl[p])
  BY <1>1, <1>2 DEF CalmOf
<1>4. This(a).name # "insert" /\ (This(a).name # "clear" \/ stage[a] # "begin") => Settled(a)
  BY <1>3 DEF DialogOf, Settled
<1> QED
  BY <1>3, <1>4 DEF Relied

\* A step of a dialog
LEMMA DialogGoes ==
  ASSUME Inv, TypeInv', NEW a \in Actors, Busy(a), ~Syncing(a), Others(a),
         \A i \in DOMAIN todo'[a] : \E j \in DOMAIN todo[a] : todo'[a][i] = todo[a][j],
         calm' => calm, quiet' => quiet,
         calm' => /\ \A p \in Parts : acl'[p] # NoAcl => Owned(acl'[p])
                  /\ Busy(a)' => RequestsOf(a)' /\ Settled(a)'
                  /\ NoneHidden'
  PROVE  SyncInv' /\ CalmInv'
<1>1. ~quiet'
  BY DEF Inv, SyncInv
<1>2. ASSUME calm' PROVE Alone' /\ \A b \in Actors : (Busy(b)' => b = a) /\ ~Syncing(b)'
  <2>1. \A b \in Actors : Busy(b)' => b = a
    BY <1>2 DEF Inv, SyncInv, Alone, Others, Busy
  <2>2. \A i \in DOMAIN todo[a] : todo[a][i].name \notin SyncCalls
    BY SyncingOf DEF Inv
  <2>3. Busy(a)' => ~Syncing(a)'
    BY <2>2, SyncingThen
  <2> QED
    BY <2>1, <2>3 DEF Alone, Syncing
<1>3. ASSUME calm', Busy(a)' PROVE DialogOf(a)'
  BY <1>3 DEF Settled, DialogOf
<1>4. calm' => CalmOf'
  BY <1>2, <1>3 DEF CalmOf
<1> QED
  BY <1>1, <1>2, <1>4 DEF SyncInv, CalmInv

\* A request fails, after which the histories promise nothing
LEMMA FailsGoes == ASSUME ~calm', ~quiet' PROVE SyncInv' /\ CalmInv'
BY DEF SyncInv, CalmInv

\* How a call ends or goes on
LEMMA Moves ==
  ASSUME TypeInv, NEW a \in Actors, Busy(a),
         Continue(a, Rest(a)) \/ Continue(a, <<>>) \/ \E s \in Stages : To(a, s)
  PROVE  /\ Others(a)
         /\ \A i \in DOMAIN todo'[a] : \E j \in DOMAIN todo[a] : todo'[a][i] = todo[a][j]
         /\ Continue(a, Rest(a)) \/ Continue(a, <<>>) => stage'[a] = "begin"
         /\ \A s \in Stages : To(a, s) => stage'[a] = s /\ This(a)' = This(a) /\ todo'[a] = todo[a]
<1>1. CASE Continue(a, Rest(a))
  <2>1. \A i \in DOMAIN todo'[a] : i + 1 \in DOMAIN todo[a] /\ todo'[a][i] = todo[a][i + 1]
    BY <1>1, Left
  <2> QED
    BY <1>1, <2>1 DEF Continue, To, Others, TypeInv, TypeOK, This
<1>2. CASE Continue(a, <<>>)
  <2>1. todo'[a] = <<>> /\ DOMAIN todo'[a] = {}
    BY <1>2 DEF Continue, TypeInv
  <2> QED
    BY <1>2, <2>1 DEF Continue, To, Others, TypeInv, TypeOK, This
<1>3. CASE ~Continue(a, Rest(a)) /\ ~Continue(a, <<>>)
  <2>1. PICK s \in Stages : To(a, s)
    BY <1>3
  <2> QED
    BY <1>3, <2>1 DEF Continue, To, Others, TypeInv, TypeOK, This
<1> QED
  BY <1>1, <1>2, <1>3

\* The calls of a dialog stay settled as long as no row is deleted and the access
\* not granted again.
LEMMA StaySettled ==
  ASSUME TypeInv, NEW a \in Actors, Settled(a),
         \A i \in DOMAIN todo'[a] : \E j \in DOMAIN todo[a] : todo'[a][i] = todo[a][j],
         \A r \in Recipients : Listed("container", r) => Listed("container", r)',
         \/ Granted(acl'["container"]) \subseteq Granted(acl["container"]) \cup {Owner}
         \/ \A i \in DOMAIN todo[a] : todo[a][i].name # "delete"
  PROVE  Settled(a)'
<1>1. ASSUME NEW i \in DOMAIN todo'[a], todo'[a][i].name \in {"add", "modify"}, NEW r \in todo'[a][i].to
      PROVE  Listed("container", r)'
  <2>1. PICK j \in DOMAIN todo[a] : todo'[a][i] = todo[a][j]
    OBVIOUS
  <2>2. Listed("container", r)
    BY <1>1, <2>1 DEF Settled
  <2>3. r \in Recipients
    BY <2>1, Fields DEF TypeInv
  <2> QED
    BY <2>2, <2>3
<1>2. ASSUME NEW i \in DOMAIN todo'[a], todo'[a][i].name = "delete"
      PROVE  Granted(acl'["container"]) \subseteq {Owner}
  <2>1. PICK j \in DOMAIN todo[a] : todo'[a][i] = todo[a][j]
    OBVIOUS
  <2>2. Granted(acl["container"]) \subseteq {Owner}
    BY <1>2, <2>1 DEF Settled
  <2> QED
    BY <1>2, <2>1, <2>2
<1> QED
  BY <1>1, <1>2 DEF Settled

\* What the kind of an operation excludes
LEMMA KindsOf ==
  ASSUME TypeInv, NEW a \in Actors, Busy(a)
  PROVE  \A i \in DOMAIN todo[a] :
           /\ This(a).name = "insert" => todo[a][i].name \in {"insert", "add"}
           /\ This(a).name \in {"add", "modify", "update"} => todo[a][i].name # "delete"
           /\ This(a).name \in {"clear", "delete"} => todo[a][i].name \in {"clear", "delete"}
<1>1. PICK names \in Kinds : \A i \in DOMAIN todo[a] : todo[a][i].name \in names
  BY DEF TypeInv, KindOf
<1>2. This(a).name \in names
  BY <1>1, Rests
<1> QED
  BY <1>1, <1>2 DEF Kinds, SyncCalls

LEMMA CalledRights ==
  ASSUME TypeInv, NEW a \in Actors, Busy(a)
  PROVE  /\ This(a).rights # NoRow /\ This(a).part \in Parts
         /\ \A i \in DOMAIN todo[a] : todo[a][i].to \subseteq Recipients
<1>1. This(a) \in Calls /\ \A i \in DOMAIN todo[a] : todo[a][i] \in Calls
  BY Rests
<1>2. This(a).rights \in SUBSET {"r", "w"} /\ This(a).part \in Parts
      /\ \A i \in DOMAIN todo[a] : todo[a][i].to \in SUBSET Recipients
  BY <1>1, Fields
<1>3. NoRow \notin SUBSET {"r", "w"}
  BY DEF NoRow
<1> QED
  BY <1>2, <1>3

LEMMA GoesInsert ==
  ASSUME Inv, TypeInv', NEW a \in Actors, Insert(a), This(a).name = "insert"
  PROVE  SyncInv' /\ CalmInv'
<1>1. /\ Busy(a) /\ (Continue(a, Rest(a)) \/ Continue(a, <<>>))
      /\ UNCHANGED <<acl, seen, calm, quiet>>
  BY DEF Insert, Does, History
<1>2. ~Syncing(a) /\ TypeInv
  BY <1>1, SyncingOf DEF Inv, SyncCalls
<1>3. /\ Others(a) /\ stage'[a] = "begin"
      /\ \A i \in DOMAIN todo'[a] : \E j \in DOMAIN todo[a] : todo'[a][i] = todo[a][j]
  BY <1>1, <1>2, Moves DEF Stages
<1>4. \A i \in DOMAIN todo[a] : todo[a][i].name \in {"insert", "add"}
  BY <1>1, <1>2, KindsOf
<1>5. \/ todo'[a] = <<>> /\ UNCHANGED shares
      \/ shares' = Rows(a, This(a).rights)
  BY <1>2 DEF Insert, Continue, TypeInv
<1>6. /\ This(a).rights # NoRow /\ This(a).part \in Parts
      /\ \A i \in DOMAIN todo[a] : todo[a][i].to \subseteq Recipients
  BY <1>1, <1>2, CalledRights
<1>7. /\ \A r \in Recipients : Listed("container", r) => Listed("container", r)'
      /\ todo'[a] = <<>> \/ This(a).part # "container"
           \/ \A r \in This(a).to : Listed("container", r)'
  BY <1>1, <1>2, <1>5, <1>6, RowsOf, Rests, Fields DEF Listed, Parts
<1>8. ASSUME calm, Busy(a)' PROVE Settled(a)'
  <2>1. DialogOf(a) /\ todo'[a] # <<>>
    BY <1>1, <1>2, <1>8, Relies DEF Relied, Busy
  <2>2. ASSUME NEW i \in DOMAIN todo'[a], todo'[a][i].name \in {"add", "modify"},
               NEW r \in todo'[a][i].to
        PROVE  Listed("container", r)'
    <3>1. PICK j \in DOMAIN todo[a] : todo'[a][i] = todo[a][j]
      BY <1>3
    <3>2. r \in Recipients
      BY <1>6, <2>2, <3>1
    <3>3. Listed("container", r) \/ (This(a).part = "container" /\ r \in This(a).to)
      BY <2>1, <2>2, <3>1 DEF DialogOf
    <3> QED
      BY <1>7, <2>1, <3>2, <3>3
  <2>3. \A i \in DOMAIN todo'[a] : todo'[a][i].name # "delete"
    BY <1>3, <1>4
  <2> QED
    BY <2>2, <2>3 DEF Settled
<1>9. ASSUME calm
      PROVE  NoneHidden' /\ \A p \in Parts : acl'[p] # NoAcl => Owned(acl'[p])
  BY <1>1, <1>2, <1>7, <1>9, Relies DEF Relied, NoneHidden
<1>10. RequestsOf(a)'
  BY <1>3 DEF RequestsOf
<1> QED
  BY <1>1, <1>2, <1>3, <1>8, <1>9, <1>10, DialogGoes

LEMMA GoesUpdate ==
  ASSUME Inv, TypeInv', NEW a \in Actors, Update(a)
  PROVE  SyncInv' /\ CalmInv'
<1>1. /\ Busy(a) /\ Continue(a, Rest(a)) /\ UNCHANGED <<acl, seen, calm, quiet>>
      /\ This(a).name = "update"
  BY DEF Update, Does, History, This
<1>2. ~Syncing(a) /\ TypeInv
  BY <1>1, SyncingOf DEF Inv, SyncCalls
<1>3. /\ Others(a) /\ stage'[a] = "begin"
      /\ \A i \in DOMAIN todo'[a] : \E j \in DOMAIN todo[a] : todo'[a][i] = todo[a][j]
  BY <1>1, <1>2, Moves DEF Stages
<1>4. \A r \in Recipients : Listed("container", r) => Listed("container", r)'
  <2>1. This(a).rights # NoRow /\ This(a).part \in Parts
    BY <1>1, <1>2, CalledRights
  <2> QED
    BY <1>2, <2>1 DEF Update, Listed, TypeInv, TypeOK, Parts
<1>5. ASSUME calm
      PROVE  /\ \A p \in Parts : acl'[p] # NoAcl => Owned(acl'[p])
             /\ RequestsOf(a)' /\ Settled(a)' /\ NoneHidden'
  <2>1. Relied(a) /\ Settled(a)
    BY <1>1, <1>2, <1>5, Relies DEF Relied
  <2>2. Settled(a)'
    BY <1>1, <1>2, <1>3, <1>4, <2>1, StaySettled
  <2>3. NoneHidden' /\ RequestsOf(a)'
    BY <1>1, <1>3, <1>4, <2>1 DEF Relied, NoneHidden, RequestsOf
  <2> QED
    BY <1>1, <2>1, <2>2, <2>3 DEF Relied
<1> QED
  BY <1>1, <1>2, <1>3, <1>5, DialogGoes

LEMMA GoesDelete ==
  ASSUME Inv, TypeInv', NEW a \in Actors, Delete(a), This(a).name = "delete"
  PROVE  SyncInv' /\ CalmInv'
<1>1. Busy(a) /\ Continue(a, Rest(a)) /\ UNCHANGED <<acl, seen, calm, quiet>>
  BY DEF Delete, Does, History
<1>2. ~Syncing(a) /\ TypeInv
  BY <1>1, SyncingOf DEF Inv, SyncCalls
<1>3. /\ Others(a) /\ stage'[a] = "begin"
      /\ \A i \in DOMAIN todo'[a] : \E j \in DOMAIN todo[a] : todo'[a][i] = todo[a][j]
  BY <1>1, <1>2, Moves DEF Stages
<1>4. \A i \in DOMAIN todo[a] : todo[a][i].name \in {"clear", "delete"}
  BY <1>1, <1>2, KindsOf
<1>5. ASSUME calm
      PROVE  /\ \A p \in Parts : acl'[p] # NoAcl => Owned(acl'[p])
             /\ RequestsOf(a)' /\ Settled(a)' /\ NoneHidden'
  <2>1. Relied(a) /\ Settled(a)
    BY <1>1, <1>2, <1>5, Relies DEF Relied
  <2>2. Granted(acl["container"]) \subseteq {Owner}
    <3>1. 1 \in DOMAIN todo[a] /\ todo[a][1].name = "delete"
      BY <1>1, <1>2, Rests
    <3> QED
      BY <2>1, <3>1 DEF Settled
  <2>3. Settled(a)'
    BY <1>1, <1>3, <1>4, <2>2 DEF Settled
  <2>4. NoneHidden' /\ RequestsOf(a)'
    BY <1>1, <1>3, <2>2, SharingAssumption DEF NoneHidden, RequestsOf
  <2> QED
    BY <1>1, <2>1, <2>3, <2>4 DEF Relied
<1> QED
  BY <1>1, <1>2, <1>3, <1>5, DialogGoes

\* A call that changes an ACL
LEMMA Changes ==
  ASSUME TypeInv, NEW a \in Actors, Does(a, Changing)
  PROVE  /\ Busy(a) /\ ~Syncing(a) /\ This(a) \in Calls /\ This(a).part \in Parts
         /\ This(a).name \in Changing
         /\ seen[a][This(a).part] \in Acls /\ acl[This(a).part] \in Acls
<1>1. Busy(a) /\ This(a).name \in Changing
  BY DEF Does, This
<1>2. ~Syncing(a)
  BY <1>1, SyncingOf DEF Changing, SyncCalls
<1>3. This(a) \in Calls /\ This(a).part \in Parts
  BY <1>1, Rests, Fields
<1> QED
  BY <1>1, <1>2, <1>3 DEF TypeInv, TypeOK

\* What an answer of the store leaves, when it comes
LEMMA Answers ==
  ASSUME TypeInv, NEW a \in Actors, NEW p \in Parts, Reads(a, p)
  PROVE  \/ ~calm' /\ ~quiet'
         \/ seen'[a][p] = acl[p] /\ UNCHANGED <<calm, quiet>>
BY DEF Reads, Fails, Fault, History, TypeInv, TypeOK

LEMMA GoesEnsureHead ==
  ASSUME Inv, TypeInv', NEW a \in Actors, EnsureHead(a)
  PROVE  SyncInv' /\ CalmInv'
<1>1. Does(a, Changing) /\ (This(a).name # "clear" \/ stage[a] # "begin") /\ TypeInv
  BY DEF EnsureHead, Does, Changing, Inv, This
<1>2. PICK p \in Parts : p = This(a).part
  BY <1>1, Changes
<1>3. /\ Busy(a) /\ ~Syncing(a) /\ This(a).name \in Changing /\ acl[p] \in Acls
  BY <1>1, <1>2, Changes
<1>4. CASE ~calm' /\ ~quiet'
  BY <1>4, FailsGoes
<1>5. CASE seen'[a][p] = acl[p] /\ UNCHANGED <<calm, quiet>>
  <2>1. /\ UNCHANGED <<acl, shares>>
        /\ IF acl[p] = Retained(acl[p]) THEN Done(a) ELSE To(a, "retain")
    BY <1>2, <1>5 DEF EnsureHead
  <2>2. Continue(a, Rest(a)) \/ Continue(a, <<>>) \/ \E s \in Stages : To(a, s)
    BY <2>1 DEF Done, Stages
  <2>3. /\ Others(a)
        /\ \A i \in DOMAIN todo'[a] : \E j \in DOMAIN todo[a] : todo'[a][i] = todo[a][j]
        /\ Continue(a, Rest(a)) => stage'[a] = "begin"
        /\ \A s \in Stages : To(a, s) => stage'[a] = s /\ This(a)' = This(a)
    BY <1>1, <1>3, <2>2, Moves
  <2>4. acl[p] = Retained(acl[p]) => Owned(acl[p])
    <3>1. Owner \in Retained(acl[p]).read /\ Owner \in Retained(acl[p]).write
      BY DEF Retained
    <3> QED
      BY <3>1 DEF Owned
  <2>5. RequestsOf(a)'
    <3>1. CASE Continue(a, Rest(a))
      BY <2>3, <3>1 DEF RequestsOf
    <3>2. CASE To(a, "read") /\ Owned(acl[p])
      <4>1. stage'[a] = "read" /\ This(a)'.part = p
        BY <1>2, <2>3, <3>2 DEF Stages
      <4> QED
        BY <2>1, <3>2, <4>1 DEF RequestsOf
    <3>3. CASE To(a, "retain")
      <4>1. stage'[a] = "retain" /\ This(a)'.part = p
        BY <1>2, <2>3, <3>3 DEF Stages
      <4> QED
        BY <1>5, <2>1, <4>1 DEF RequestsOf
    <3> QED
      BY <2>1, <2>4, <3>1, <3>2, <3>3 DEF Done
  <2>6. ASSUME calm
        PROVE  /\ \A q \in Parts : acl'[q] # NoAcl => Owned(acl'[q])
               /\ Settled(a)' /\ NoneHidden'
    <3>1. Relied(a)
      BY <1>3, <2>6, Relies
    <3>2. Settled(a)
      BY <1>1, <1>3, <3>1 DEF Relied, Changing
    <3>3. Settled(a)'
      BY <1>1, <2>1, <2>3, <3>2, StaySettled DEF Listed
    <3> QED
      BY <2>1, <3>1, <3>3 DEF Relied, NoneHidden, Listed
  <2> QED
    BY <1>3, <1>5, <2>3, <2>5, <2>6, DialogGoes
<1>6. Reads(a, p)
  BY <1>2 DEF EnsureHead
<1> QED
  BY <1>1, <1>4, <1>5, <1>6, Answers

LEMMA GoesReadAcl ==
  ASSUME Inv, TypeInv', NEW a \in Actors, ReadAcl(a)
  PROVE  SyncInv' /\ CalmInv'
<1>1. Does(a, Changing) /\ stage[a] = "read" /\ TypeInv /\ To(a, "write") /\ UNCHANGED <<acl, shares>>
  BY DEF ReadAcl, Does, Changing, Inv
<1>2. PICK p \in Parts : p = This(a).part
  BY <1>1, Changes
<1>3. /\ Busy(a) /\ ~Syncing(a) /\ This(a).name \in Changing
  BY <1>1, Changes
<1>4. CASE ~calm' /\ ~quiet'
  BY <1>4, FailsGoes
<1>5. CASE seen'[a][p] = acl[p] /\ UNCHANGED <<calm, quiet>>
  <2>1. /\ Others(a)
        /\ \A i \in DOMAIN todo'[a] : \E j \in DOMAIN todo[a] : todo'[a][i] = todo[a][j]
        /\ stage'[a] = "write" /\ This(a)'.part = p
    BY <1>1, <1>2, <1>3, Moves DEF Stages
  <2>2. ASSUME calm
        PROVE  /\ \A q \in Parts : acl'[q] # NoAcl => Owned(acl'[q])
               /\ RequestsOf(a)' /\ Settled(a)' /\ NoneHidden'
    <3>1. Relied(a)
      BY <1>3, <2>2, Relies
    <3>2. Settled(a) /\ Owned(acl[p])
      BY <1>1, <1>2, <1>3, <3>1 DEF Relied, Changing, RequestsOf
    <3>3. Settled(a)'
      BY <1>1, <2>1, <3>2, StaySettled DEF Listed
    <3>4. RequestsOf(a)'
      BY <1>1, <1>5, <2>1, <3>2 DEF RequestsOf
    <3> QED
      BY <1>1, <3>1, <3>3, <3>4 DEF Relied, NoneHidden, Listed
  <2> QED
    BY <1>3, <1>5, <2>1, <2>2, DialogGoes
<1>6. Reads(a, p)
  BY <1>2 DEF ReadAcl
<1> QED
  BY <1>1, <1>4, <1>5, <1>6, Answers

\* The ACL that a step has rewritten
LEMMA Rewritten ==
  ASSUME TypeInv, NEW p \in Parts, NEW s, acl' = [acl EXCEPT ![p] = s]
  PROVE  acl'[p] = s /\ \A q \in Parts : q # p => acl'[q] = acl[q]
BY DEF TypeInv, TypeOK

LEMMA GoesEnsurePost ==
  ASSUME Inv, TypeInv', NEW a \in Actors, EnsurePost(a)
  PROVE  SyncInv' /\ CalmInv'
<1>1. /\ Does(a, Changing) /\ stage[a] = "retain" /\ TypeInv /\ Done(a)
      /\ UNCHANGED <<shares, calm, quiet>>
  BY Pending DEF EnsurePost, Inv, History
<1>2. PICK p \in Parts : p = This(a).part
  BY <1>1, Changes
<1>3. /\ Busy(a) /\ ~Syncing(a) /\ This(a).name \in Changing
  BY <1>1, Changes
<1>4. acl'[p] = Retained(seen[a][p]) /\ \A q \in Parts : q # p => acl'[q] = acl[q]
  BY <1>1, <1>2, Rewritten DEF EnsurePost
<1>5. /\ Others(a)
      /\ \A i \in DOMAIN todo'[a] : \E j \in DOMAIN todo[a] : todo'[a][i] = todo[a][j]
      /\ stage'[a] = "begin" \/ (stage'[a] = "read" /\ This(a)'.part = p)
  <2>1. Continue(a, Rest(a)) \/ To(a, "read")
    BY <1>1 DEF Done
  <2> QED
    BY <1>1, <1>2, <1>3, <2>1, Moves DEF Stages
<1>6. Owned(acl'[p])
  BY <1>4 DEF Owned, Retained
<1>7. RequestsOf(a)'
  BY <1>5, <1>6 DEF RequestsOf
<1>8. ASSUME calm
      PROVE  /\ \A q \in Parts : acl'[q] # NoAcl => Owned(acl'[q])
             /\ Settled(a)' /\ NoneHidden'
  <2>1. Relied(a)
    BY <1>3, <1>8, Relies
  <2>2. Settled(a) /\ seen[a][p] = acl[p]
    BY <1>1, <1>2, <1>3, <2>1 DEF Relied, RequestsOf, Changing
  <2>3. \A q \in Parts : Granted(acl'[q]) \subseteq Granted(acl[q]) \cup {Owner}
    <3>1. Granted(acl'[p]) \subseteq Granted(acl[p]) \cup {Owner}
      BY <1>4, <2>2 DEF Granted, Retained
    <3> QED
      BY <1>4, <3>1
  <2>4. Settled(a)'
    BY <1>1, <1>5, <2>2, <2>3, StaySettled DEF Listed, Parts
  <2>5. NoneHidden'
    BY <1>1, <2>1, <2>3, SharingAssumption DEF Relied, NoneHidden, Listed, Parts
  <2> QED
    BY <1>4, <1>6, <2>1, <2>4, <2>5 DEF Relied
<1> QED
  BY <1>1, <1>3, <1>5, <1>7, <1>8, DialogGoes

LEMMA GoesWriteAcl ==
  ASSUME Inv, TypeInv', NEW a \in Actors, WriteAcl(a)
  PROVE  SyncInv' /\ CalmInv'
<1>1. /\ Does(a, Changing) /\ stage[a] = "write" /\ TypeInv /\ Continue(a, Rest(a))
      /\ UNCHANGED <<shares, calm, quiet>> /\ This(a).name \in {"add", "modify"}
  BY DEF WriteAcl, Does, Changing, Inv, History, This
<1>2. PICK p \in Parts, c \in Calls : c = This(a) /\ p = c.part
  BY <1>1, Changes
<1>3. /\ Busy(a) /\ ~Syncing(a) /\ acl[p] \in Acls /\ c.to \in SUBSET Recipients
  BY <1>1, <1>2, Changes, Fields
<1>4. acl'[p] = Changed(c, seen[a][p]) /\ \A q \in Parts : q # p => acl'[q] = acl[q]
  <2>1. acl' = [acl EXCEPT ![p] = Changed(c, seen[a][p])]
    BY <1>2 DEF WriteAcl
  <2> QED
    BY <1>1, <2>1, Rewritten
<1>5. /\ Others(a) /\ stage'[a] = "begin"
      /\ \A i \in DOMAIN todo'[a] : \E j \in DOMAIN todo[a] : todo'[a][i] = todo[a][j]
  BY <1>1, <1>3, Moves
<1>6. ASSUME calm
      PROVE  /\ \A q \in Parts : acl'[q] # NoAcl => Owned(acl'[q])
             /\ RequestsOf(a)' /\ Settled(a)' /\ NoneHidden'
  <2>1. Relied(a)
    BY <1>3, <1>6, Relies
  <2>2. Settled(a) /\ seen[a][p] = acl[p] /\ Owned(acl[p])
    BY <1>1, <1>2, <2>1 DEF Relied, RequestsOf
  <2>3. Owned(acl'[p])
    BY <1>3, <1>4, <2>2, SharingAssumption DEF Owned, Changed
  <2>4. Granted(acl'[p]) \subseteq Granted(acl[p]) \cup c.to
    BY <1>4, <2>2 DEF Granted, Changed
  <2>5. \A r \in c.to : Listed("container", r)
    <3>1. 1 \in DOMAIN todo[a] /\ todo[a][1] = c
      BY <1>1, <1>2, <1>3, Rests
    <3> QED
      BY <1>1, <1>2, <2>2, <3>1 DEF Settled
  <2>6. \A i \in DOMAIN todo[a] : todo[a][i].name # "delete"
    BY <1>1, <1>3, KindsOf
  <2>7. Settled(a)'
    BY <1>1, <1>5, <2>2, <2>6, StaySettled DEF Listed
  <2>8. NoneHidden'
    <3>1. \A r \in Recipients : r \in Granted(acl'["container"]) =>
            r \in Granted(acl["container"]) \/ r \in c.to
      BY <1>4, <2>4 DEF Parts
    <3> QED
      BY <1>1, <2>1, <2>5, <3>1 DEF Relied, NoneHidden, Listed
  <2> QED
    BY <1>4, <1>5, <2>1, <2>3, <2>7, <2>8 DEF Relied, RequestsOf
<1> QED
  BY <1>1, <1>3, <1>5, <1>6, DialogGoes

LEMMA GoesClearAcl ==
  ASSUME Inv, TypeInv', NEW a \in Actors, ClearAcl(a)
  PROVE  SyncInv' /\ CalmInv'
<1>1. /\ Does(a, Changing) /\ stage[a] = "begin" /\ TypeInv /\ To(a, "cleared")
      /\ UNCHANGED <<shares, calm, quiet>> /\ This(a).name = "clear"
  BY DEF ClearAcl, Does, Changing, Inv, History, This
<1>2. PICK p \in Parts : p = This(a).part
  BY <1>1, Changes
<1>3. Busy(a) /\ ~Syncing(a)
  BY <1>1, Changes
<1>4. acl'[p] = NoAcl /\ \A q \in Parts : q # p => acl'[q] = acl[q]
  BY <1>1, <1>2, Rewritten DEF ClearAcl
<1>5. /\ Others(a) /\ stage'[a] = "cleared"
      /\ \A i \in DOMAIN todo'[a] : \E j \in DOMAIN todo[a] : todo'[a][i] = todo[a][j]
  BY <1>1, <1>3, Moves DEF Stages
<1>6. Granted(NoAcl) = {}
  BY DEF Granted, NoAcl
<1>7. ASSUME calm
      PROVE  /\ \A q \in Parts : acl'[q] # NoAcl => Owned(acl'[q])
             /\ RequestsOf(a)' /\ Settled(a)' /\ NoneHidden'
  <2>1. Relied(a)
    BY <1>3, <1>7, Relies
  <2>2. \A i \in DOMAIN todo[a] : todo[a][i].name \in {"clear", "delete"}
    BY <1>1, <1>3, KindsOf
  <2>3. Settled(a)'
    <3>1. ASSUME NEW i \in DOMAIN todo[a], todo[a][i].name = "delete"
          PROVE  Granted(acl'["container"]) \subseteq {Owner}
      <4>1. Granted(acl["container"]) \subseteq {Owner} \/ p = "container"
        BY <1>2, <2>1, <3>1 DEF Relied, DialogOf
      <4> QED
        BY <1>4, <1>6, <4>1 DEF Parts
    <3> QED
      BY <1>5, <2>2, <3>1 DEF Settled
  <2>4. NoneHidden'
    <3>1. Granted(acl'["container"]) \subseteq Granted(acl["container"])
      BY <1>4, <1>6 DEF Parts
    <3> QED
      BY <1>1, <2>1, <3>1 DEF Relied, NoneHidden, Listed
  <2> QED
    BY <1>4, <1>5, <2>1, <2>3, <2>4 DEF Relied, RequestsOf
<1> QED
  BY <1>1, <1>3, <1>5, <1>7, DialogGoes

\* The calls of a synchronisation
LEMMA GoesSyncCall ==
  ASSUME Inv, TypeInv', NEW a \in Actors, Does(a, SyncCalls), UNCHANGED acl,
         \E s : Continue(a, s), calm' => calm, quiet' => quiet,
         SyncOf(a) /\ (calm' \/ quiet') => Goes(a)'
  PROVE  SyncInv' /\ CalmInv'
<1>1. Busy(a) /\ TypeInv /\ This(a).name \in SyncCalls
  BY DEF Does, Inv, This
<1>2. Others(a) /\ stage'[a] = "begin"
  BY <1>1 DEF Continue, Others, TypeInv, TypeOK
<1>3. calm' \/ quiet' => SyncOf(a)
  BY <1>1, SyncingOf DEF Inv, SyncInv
<1> QED
  BY <1>1, <1>2, <1>3, SyncGoes

LEMMA GoesSync ==
  ASSUME Inv, TypeInv', NEW a \in Actors,
         \/ Snapshot(a) \/ ListStale(a) \/ ListRows(a) \/ Details(a) \/ ListNew(a) \/ New(a)
         \/ Delete(a) /\ This(a).name = "sync_delete"
         \/ Insert(a) /\ This(a).name = "sync_insert"
  PROVE  SyncInv' /\ CalmInv'
<1> USE DEF Inv
<1>1. CASE Snapshot(a)
  <2>1. Does(a, SyncCalls) /\ UNCHANGED acl /\ (\E s : Continue(a, s))
        /\ (calm' => calm) /\ (quiet' => quiet)
    BY <1>1 DEF Snapshot, Does, SyncCalls, Reads, Fails, Fault, History
  <2> QED
    BY <1>1, <2>1, AfterSnapshot, GoesSyncCall
<1>2. CASE ListStale(a)
  <2>1. Does(a, SyncCalls) /\ UNCHANGED <<acl, calm, quiet>>
    BY <1>2 DEF ListStale, Does, SyncCalls, History
  <2>2. \E s : Continue(a, s)
    BY <1>2 DEF ListStale, InSomeOrder
  <2> QED
    BY <1>2, <2>1, <2>2, AfterListStale, GoesSyncCall
<1>3. CASE ListRows(a)
  <2>1. Does(a, SyncCalls) /\ UNCHANGED <<acl, calm, quiet>>
    BY <1>3 DEF ListRows, Does, SyncCalls, History
  <2>2. \E s : Continue(a, s)
    BY <1>3 DEF ListRows, InSomeOrder
  <2> QED
    BY <1>3, <2>1, <2>2, AfterListRows, GoesSyncCall
<1>4. CASE Details(a)
  <2>1. Does(a, SyncCalls) /\ UNCHANGED <<acl, calm, quiet>>
    BY <1>4 DEF Details, Does, SyncCalls, History
  <2>2. \E s : Continue(a, s)
    BY <1>4 DEF Details, InSomeOrder
  <2> QED
    BY <1>4, <2>1, <2>2, AfterDetails, GoesSyncCall
<1>5. CASE ListNew(a)
  <2>1. Does(a, SyncCalls) /\ UNCHANGED <<acl, calm, quiet>>
    BY <1>5 DEF ListNew, Does, SyncCalls, History
  <2>2. \E s : Continue(a, s)
    BY <1>5 DEF ListNew, InSomeOrder
  <2> QED
    BY <1>5, <2>1, <2>2, AfterListNew, GoesSyncCall
<1>6. CASE New(a)
  <2>1. Does(a, SyncCalls) /\ UNCHANGED <<acl, calm, quiet>>
    BY <1>6 DEF New, Does, SyncCalls, History
  <2>2. \E s : Continue(a, s)
    BY <1>6 DEF New, InSomeOrder
  <2> QED
    BY <1>6, <2>1, <2>2, AfterNew, GoesSyncCall
<1>7. CASE Delete(a) /\ This(a).name = "sync_delete"
  <2>1. Does(a, SyncCalls) /\ UNCHANGED <<acl, calm, quiet>> /\ (\E s : Continue(a, s))
    BY <1>7 DEF Delete, Does, SyncCalls, History, This
  <2> QED
    BY <1>7, <2>1, AfterDelete, GoesSyncCall
<1>8. CASE Insert(a) /\ This(a).name = "sync_insert"
  <2>1. Does(a, SyncCalls) /\ UNCHANGED <<acl, calm, quiet>>
    BY <1>8 DEF Insert, Does, SyncCalls, History, This
  <2>2. \E s : Continue(a, s)
    BY <1>8 DEF Insert
  <2> QED
    BY <1>8, <2>1, <2>2, AfterInsert, GoesSyncCall
<1> QED
  BY <1>1, <1>2, <1>3, <1>4, <1>5, <1>6, <1>7, <1>8

\* What an operation finds when it begins without another under way
LEMMA Begun ==
  ASSUME Inv, TypeInv', NEW a \in Actors, NEW calls \in Seq(Calls), calls # <<>>, Begins(a, calls)
  PROVE  /\ todo'[a] = calls /\ stage'[a] = "begin" /\ UNCHANGED <<acl, shares>>
         /\ seen'[a] = [p \in Parts |-> NoAcl]
         /\ Busy(a)' /\ 1 \in DOMAIN calls /\ This(a)' = calls[1]
         /\ (\A b \in Actors : ~Busy(b)) => \A b \in Actors : Busy(b)' => b = a
         /\ calm' => calm /\ (\A b \in Actors : ~Busy(b)) /\ NoneHidden
                     /\ \A p \in Parts : acl[p] # NoAcl => Owned(acl[p])
<1>1. /\ todo'[a] = calls /\ \A b \in Actors : b # a => todo'[b] = todo[b]
      /\ UNCHANGED <<acl, shares, stage>> /\ ~Busy(a)
      /\ seen'[a] = [p \in Parts |-> NoAcl]
      /\ calm' = (calm /\ \A b \in Actors : ~Busy(b))
  BY DEF Begins, Inv, TypeInv, TypeOK
<1>2. stage'[a] = "begin"
  BY <1>1, Pending DEF Inv
<1>3. Busy(a)'
  BY <1>1 DEF Busy
<1>4. 1 \in DOMAIN calls /\ This(a)' = calls[1]
  BY <1>1, <1>3, SyncingThen
<1>5. calm' => /\ calm /\ (\A b \in Actors : ~Busy(b)) /\ NoneHidden
               /\ \A p \in Parts : acl[p] # NoAcl => Owned(acl[p])
  BY <1>1 DEF Inv, CalmInv, CalmOf, Syncing
<1>6. (\A b \in Actors : ~Busy(b)) => \A b \in Actors : Busy(b)' => b = a
  BY <1>1 DEF Busy
<1> QED
  BY <1>1, <1>2, <1>3, <1>4, <1>5, <1>6

\* A dialog begins
LEMMA GoesBegins ==
  ASSUME Inv, TypeInv', NEW a \in Actors, NEW calls \in Seq(Calls), calls # <<>>, Begins(a, calls),
         ~quiet', \A i \in DOMAIN calls : calls[i].name \notin SyncCalls,
         calm' => DialogOf(a)'
  PROVE  SyncInv' /\ CalmInv'
<1>1. ASSUME calm'
      PROVE  \A b \in Actors : (Busy(b)' => b = a) /\ ~Syncing(b)'
  <2>1. \A b \in Actors : Busy(b)' => b = a
    BY <1>1, Begun
  <2>2. ~Syncing(a)'
    BY Begun, SyncingThen
  <2> QED
    BY <2>1, <2>2 DEF Syncing
<1>2. SyncInv'
  BY <1>1 DEF SyncInv, Alone
<1>3. ASSUME calm' PROVE CalmOf'
  <2>1. /\ \A p \in Parts : acl'[p] # NoAcl => Owned(acl'[p])
        /\ NoneHidden'
    BY <1>3, Begun DEF NoneHidden, Listed
  <2>2. RequestsOf(a)'
    BY Begun DEF RequestsOf
  <2> QED
    BY <1>1, <1>3, <2>1, <2>2 DEF CalmOf
<1> QED
  BY <1>2, <1>3 DEF CalmInv

LEMMA GoesShare ==
  ASSUME Inv, TypeInv', NEW a \in Actors, Share(a) PROVE SyncInv' /\ CalmInv'
<1>1. PICK to \in SUBSET Recipients \ {{}}, rights \in Rights :
        Begins(a, OnBoth("insert", to, rights) \o OnBoth("add", to, rights \cup {"r"}))
  BY DEF Share
<1>2. PICK set \in SUBSET {"r", "w"}, more \in SUBSET {"r", "w"} : set = rights /\ more = rights \cup {"r"}
  BY NamesOf
<1>3. PICK calls : calls = OnBothTwice("insert", "add", to, set, more)
  OBVIOUS
<1>4. Begins(a, calls) /\ ~quiet'
  BY <1>1, <1>2, <1>3 DEF Share, OnBothTwice
<1>5. /\ calls \in Seq(Calls) /\ calls # <<>>
      /\ calls[1].name = "insert" /\ calls[1].part = "container"
      /\ \A i \in DOMAIN calls : calls[i].name \in {"insert", "add"} /\ calls[i].to = to
  <2>1. /\ "insert" \in Names /\ "add" \in Names
        /\ to \in SUBSET Recipients /\ set \in SUBSET {"r", "w"} /\ more \in SUBSET {"r", "w"}
    BY <1>1, <1>2, NamesOf
  <2> QED
    BY <1>3, <2>1, Four
<1>6. DialogOf(a)'
  <2>1. todo'[a] = calls /\ This(a)' = calls[1]
    BY <1>4, <1>5, Begun
  <2> QED
    BY <1>5, <2>1 DEF DialogOf
<1> QED
  BY <1>4, <1>5, <1>6, GoesBegins DEF SyncCalls

LEMMA GoesEdit ==
  ASSUME Inv, TypeInv', NEW a \in Actors, Edit(a) PROVE SyncInv' /\ CalmInv'
<1>1. PICK r \in Recipients, rights \in Rights :
        /\ Listed("container", r)
        /\ Begins(a, OnBoth("modify", {r}, rights) \o OnBoth("update", {r}, rights))
  BY DEF Edit
<1>2. PICK to \in SUBSET Recipients, set \in SUBSET {"r", "w"} : to = {r} /\ set = rights
  BY NamesOf
<1>3. PICK calls : calls = OnBothTwice("modify", "update", to, set, set)
  OBVIOUS
<1>4. Begins(a, calls) /\ ~quiet'
  BY <1>1, <1>2, <1>3 DEF Edit, OnBothTwice
<1>5. /\ calls \in Seq(Calls) /\ calls # <<>>
      /\ calls[1].name = "modify" /\ calls[1].part = "container"
      /\ \A i \in DOMAIN calls : calls[i].name \in {"modify", "update"} /\ calls[i].to = to
  <2>1. "modify" \in Names /\ "update" \in Names
        /\ to \in SUBSET Recipients /\ set \in SUBSET {"r", "w"}
    BY <1>2, NamesOf
  <2> QED
    BY <1>3, <2>1, Four
<1>6. DialogOf(a)'
  <2>1. todo'[a] = calls /\ This(a)' = calls[1] /\ stage'[a] = "begin" /\ UNCHANGED shares
    BY <1>4, <1>5, Begun
  <2>2. Listed("container", r)'
    BY <1>1, <2>1 DEF Listed
  <2> QED
    BY <1>2, <1>5, <2>1, <2>2 DEF DialogOf
<1> QED
  BY <1>4, <1>5, <1>6, GoesBegins DEF SyncCalls

LEMMA GoesUnshare ==
  ASSUME Inv, TypeInv', NEW a \in Actors, Unshare(a) PROVE SyncInv' /\ CalmInv'
<1>1. PICK r \in Recipients : Begins(a, OnBoth("clear", {r}, {}) \o OnBoth("delete", {r}, {}))
  BY DEF Unshare
<1>2. PICK to \in SUBSET Recipients, set \in SUBSET {"r", "w"} : to = {r} /\ set = {}
  BY NamesOf
<1>3. PICK calls : calls = OnBothTwice("clear", "delete", to, set, set)
  OBVIOUS
<1>4. Begins(a, calls) /\ ~quiet'
  BY <1>1, <1>2, <1>3 DEF Unshare, OnBothTwice
<1>5. /\ calls \in Seq(Calls) /\ calls # <<>>
      /\ calls[1].name = "clear" /\ calls[1].part = "container"
      /\ \A i \in DOMAIN calls : calls[i].name \in {"clear", "delete"} /\ calls[i].to = to
  <2>1. "clear" \in Names /\ "delete" \in Names
        /\ to \in SUBSET Recipients /\ set \in SUBSET {"r", "w"}
    BY <1>2, NamesOf
  <2> QED
    BY <1>3, <2>1, Four
<1>6. DialogOf(a)'
  <2>1. todo'[a] = calls /\ This(a)' = calls[1] /\ stage'[a] = "begin" /\ UNCHANGED shares
    BY <1>4, <1>5, Begun
  <2> QED
    BY <1>5, <2>1 DEF DialogOf
<1> QED
  BY <1>4, <1>5, <1>6, GoesBegins DEF SyncCalls

LEMMA GoesStartSync ==
  ASSUME Inv, TypeInv', NEW a \in Actors, StartSync(a) PROVE SyncInv' /\ CalmInv'
<1> DEFINE calls == OnBoth("snapshot", {}, {}) \o <<Sync("list_stale"), Sync("list_rows")>>
<1>1. /\ calls \in Seq(Calls) /\ Len(calls) = 4 /\ DOMAIN calls = 1 .. 4
      /\ calls[1].name = "snapshot" /\ calls[1].part = "container"
      /\ calls[2].name = "snapshot" /\ calls[2].part = "segments"
      /\ calls[3].name = "list_stale" /\ calls[4].name = "list_rows"
      /\ \A i \in DOMAIN calls : calls[i].name \in SyncCalls
  <2>1. /\ calls \in Seq(Calls) /\ Len(calls) = 4 /\ DOMAIN calls = 1 .. 4
        /\ calls[1] = Call("snapshot", "container", {}, {}) /\ calls[2] = Call("snapshot", "segments", {}, {})
        /\ calls[3] = Sync("list_stale") /\ calls[4] = Sync("list_rows")
        /\ \A i \in DOMAIN calls : calls[i].name \in SyncCalls
    BY SyncBegins
  <2> HIDE DEF calls
  <2> QED
    BY <2>1, Fields DEF Sync
<1>2. Begins(a, calls) /\ quiet' = \A b \in Actors : ~Busy(b)
  BY DEF StartSync
<1> HIDE DEF calls
<1>3. /\ todo'[a] = calls /\ stage'[a] = "begin" /\ Busy(a)'
      /\ (\A b \in Actors : ~Busy(b)) => \A b \in Actors : Busy(b)' => b = a
      /\ calm' => (\A b \in Actors : ~Busy(b))
                  /\ \A p \in Parts : acl'[p] # NoAcl => Owned(acl'[p])
  <2>1. calls \in Seq(Calls) /\ calls # <<>> /\ Begins(a, calls)
    <3>1. Len(calls) # 0
      BY <1>1
    <3>2. calls # <<>>
      BY <3>1
    <3> QED
      BY <1>1, <1>2, <3>2
  <2>2. /\ todo'[a] = calls /\ stage'[a] = "begin" /\ UNCHANGED acl /\ Busy(a)'
        /\ (\A b \in Actors : ~Busy(b)) => \A b \in Actors : Busy(b)' => b = a
        /\ calm' => /\ \A b \in Actors : ~Busy(b)
                    /\ \A p \in Parts : acl[p] # NoAcl => Owned(acl[p])
    BY <2>1, Begun
  <2> QED
    BY <2>2
<1>4. Reading(a)'
  <2>1. \A i \in 1 .. 4 : i = 1 \/ i = 2 \/ i = 3 \/ i = 4
    OBVIOUS
  <2>2. \A i \in DOMAIN calls : calls[i].name =
          IF i = 4 THEN "list_rows" ELSE IF i = 3 THEN "list_stale" ELSE "snapshot"
    BY <1>1, <2>1
  <2>3. \A p \in Parts : \E i \in DOMAIN calls : calls[i].name = "snapshot" /\ calls[i].part = p
    BY <1>1 DEF Parts
  <2>4. Len(calls) = 4 /\ 4 - 1 = 3 /\ 4 >= 2
    BY <1>1
  <2> QED
    BY <1>3, <2>2, <2>3, <2>4 DEF Reading
<1>5. SyncOf(a)' /\ Syncing(a)'
  BY <1>3, <1>4, SyncingThen DEF SyncOf
<1>6. calm' \/ quiet' => \A b \in Actors : Busy(b)' => b = a
  BY <1>2, <1>3
<1>7. SyncInv'
  BY <1>3, <1>5, <1>6 DEF SyncInv, Alone, Syncing, Idle
<1>8. calm' => CalmOf'
  BY <1>3, <1>5, <1>6 DEF CalmOf, RequestsOf
<1> QED
  BY <1>7, <1>8 DEF CalmInv

\* A page is closed
LEMMA GoesClose ==
  ASSUME Inv, TypeInv', NEW a \in Actors, Close(a) PROVE SyncInv' /\ CalmInv'
<1>1. /\ Busy(a) /\ TypeInv /\ ~quiet' /\ UNCHANGED <<acl, shares, stage, seen>>
      /\ IF Syncing(a) THEN ~calm' ELSE UNCHANGED calm
  BY DEF Close, Inv, Fault
<1>2. CASE Syncing(a)
  BY <1>1, <1>2, FailsGoes
<1>3. CASE ~Syncing(a)
  <2>1. /\ Others(a)
        /\ IF stage[a] = "begin" THEN todo'[a] = <<>> ELSE todo'[a] = <<This(a)>>
    BY <1>1 DEF Close, Others, This, TypeInv
  <2>2. \A i \in DOMAIN todo'[a] : \E j \in DOMAIN todo[a] : todo'[a][i] = todo[a][j]
    BY <1>1, <2>1, Rests
  <2>3. Busy(a)' => stage[a] # "begin" /\ This(a)' = This(a)
    BY <2>1 DEF Busy, This
  <2>4. ASSUME calm
        PROVE  /\ \A p \in Parts : acl'[p] # NoAcl => Owned(acl'[p])
               /\ Busy(a)' => RequestsOf(a)' /\ Settled(a)'
               /\ NoneHidden'
    <3>1. Relied(a)
      BY <1>1, <1>3, <2>4, Relies
    <3>2. ASSUME Busy(a)' PROVE Settled(a)'
      <4>1. Does(a, Changing) /\ stage[a] # "begin"
        BY <1>1, <2>3, <3>2, Pending
      <4>2. Settled(a)
        BY <1>1, <3>1, <4>1, Changes DEF Relied, Changing
      <4> QED
        BY <1>1, <2>2, <4>2, StaySettled DEF Listed
    <3>3. Busy(a)' => RequestsOf(a)'
      BY <1>1, <2>3, <3>1 DEF Relied, RequestsOf
    <3> QED
      BY <1>1, <3>1, <3>2, <3>3 DEF Relied, NoneHidden, Listed
  <2> QED
    BY <1>1, <1>3, <2>1, <2>2, <2>4, DialogGoes
<1> QED
  BY <1>2, <1>3

\* A request to the store that is refused
LEMMA GoesRefused ==
  ASSUME NEW a \in Actors, EnsureRefused(a) \/ PostRefused(a), Inv PROVE SyncInv' /\ CalmInv'
BY FailsGoes DEF EnsureRefused, PostRefused, Fails, Fault

LEMMA GoesNothing == Inv /\ UNCHANGED vars => SyncInv' /\ CalmInv'
<1>1. SUFFICES ASSUME Inv, UNCHANGED vars PROVE SyncInv' /\ CalmInv'
  OBVIOUS
<1>2. /\ \A a \in Actors : /\ Busy(a)' = Busy(a) /\ Syncing(a)' = Syncing(a) /\ This(a)' = This(a)
                           /\ SyncOf(a)' = SyncOf(a) /\ RequestsOf(a)' = RequestsOf(a)
                           /\ DialogOf(a)' = DialogOf(a)
      /\ AllAgree' = AllAgree /\ NoneHidden' = NoneHidden /\ UNCHANGED <<acl, calm, quiet>>
  BY <1>1 DEF vars, Busy, Syncing, This, SyncOf, Reading, DeletingParts, DeletingRows, Inserting, InsertOf,
              Snapped, ListedParts, Listed, Shown, RequestsOf, DialogOf, AllAgree, Agrees, NoneHidden
<1> QED
  BY <1>1, <1>2 DEF Inv, SyncInv, CalmInv, CalmOf, Alone, Idle

LEMMA Initially == Init => SyncInv /\ CalmInv
<1>1. SUFFICES ASSUME Init PROVE SyncInv /\ CalmInv
  OBVIOUS
<1>2. \A a \in Actors : ~Busy(a) /\ ~Syncing(a)
  BY <1>1 DEF Init, Busy, Syncing
<1>3. \A p \in Parts : acl[p] = NoAcl
  BY <1>1 DEF Init
<1>4. NoneHidden
  BY <1>3 DEF NoneHidden, Granted, NoAcl, Parts
<1> QED
  BY <1>1, <1>2, <1>3, <1>4 DEF SyncInv, CalmInv, CalmOf, Alone, Init

LEMMA Inductive == Inv /\ [Next]_vars => Inv'
<1>1. SUFFICES ASSUME Inv, [Next]_vars PROVE Inv'
  OBVIOUS
<1>2. TypeInv'
  BY <1>1, TypeNext DEF Inv
<1>3. ASSUME NEW a \in Actors,
             \/ Share(a) \/ Edit(a) \/ Unshare(a) \/ StartSync(a)
             \/ EnsureHead(a) \/ EnsurePost(a) \/ EnsureRefused(a)
             \/ ReadAcl(a) \/ WriteAcl(a) \/ ClearAcl(a) \/ PostRefused(a)
             \/ Snapshot(a) \/ ListStale(a) \/ ListRows(a) \/ Details(a) \/ ListNew(a) \/ New(a)
             \/ Close(a) \/ Update(a)
      PROVE  SyncInv' /\ CalmInv'
  BY <1>1, <1>2, <1>3, GoesShare, GoesEdit, GoesUnshare, GoesStartSync, GoesEnsureHead, GoesEnsurePost,
     GoesRefused, GoesReadAcl, GoesWriteAcl, GoesClearAcl, GoesSync, GoesClose, GoesUpdate
<1>4. ASSUME NEW a \in Actors, Insert(a) PROVE SyncInv' /\ CalmInv'
  <2>1. This(a).name \in {"insert", "sync_insert"}
    BY <1>4 DEF Insert, Does, This
  <2> QED
    BY <1>1, <1>2, <1>4, <2>1, GoesInsert, GoesSync
<1>5. ASSUME NEW a \in Actors, Delete(a) PROVE SyncInv' /\ CalmInv'
  <2>1. This(a).name \in {"delete", "sync_delete"}
    BY <1>5 DEF Delete, Does, This
  <2> QED
    BY <1>1, <1>2, <1>5, <2>1, GoesDelete, GoesSync
<1>6. UNCHANGED vars \/ Terminating => SyncInv' /\ CalmInv'
  BY <1>1, GoesNothing DEF Terminating
<1>7. SyncInv' /\ CalmInv'
  BY <1>1, <1>3, <1>4, <1>5, <1>6 DEF Next
<1> QED
  BY <1>2, <1>7 DEF Inv

LEMMA Invariance == Spec => []Inv
<1>1. Init => Inv
  BY TypeInit, Initially DEF Inv
<1> QED
  BY <1>1, Inductive, PTL DEF Spec

-----------------------------------------------------------------------------
(* What the sharing guarantees *)

\* The ACLs of a container that has ever been shared name its owner, as long as no
\* operations overlap and no request fails, wherever the pages were closed.
THEOREM OwnerStays == Spec => []OwnerKeepsAccess
<1>1. Inv => OwnerKeepsAccess
  BY DEF Inv, CalmInv, CalmOf, Owned, OwnerKeepsAccess
<1> QED
  BY <1>1, Invariance, PTL

\* A project that the ACL of the container admits is in the table of shares.
THEOREM AccessIsListed == Spec => []NoHiddenAccess
<1>1. Inv => NoHiddenAccess
  BY DEF Inv, CalmInv, CalmOf, NoneHidden, NoHiddenAccess
<1> QED
  BY <1>1, Invariance, PTL

\* A synchronisation that nothing disturbs ends with the table and the ACLs in
\* agreement, whatever it began with and in whatever order its calls were made.
THEOREM TableHealed == Spec => []SyncHeals
<1>1. Inv => SyncHeals
  BY DEF Inv, SyncInv, AllAgree, SyncHeals
<1> QED
  BY <1>1, Invariance, PTL
=============================================================================
