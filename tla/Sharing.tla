------------------------------- MODULE Sharing -------------------------------
(***************************************************************************)
(* Sharing a container with other projects: the ACL headers that the store  *)
(* keeps of the container and of its segments container, the API handlers   *)
(* that read and rewrite them (ui/api.py), the Shares table (common/db.py,  *)
(* sharing/api.py), and the browser code that calls both: the share dialogs *)
(* (ShareModal.vue, ShareModalTable.vue) and the synchronisation that every *)
(* page runs once (conv.js).                                                *)
(*                                                                         *)
(* The browser awaits its calls one by one, so that an operation is the     *)
(* sequence of calls it has still to make.  A call that changes an ACL      *)
(* takes several requests to the store, between which anything else may     *)
(* happen.  An ACL string is the set of the projects in it, and a row of    *)
(* Shares the set of its rights.                                            *)
(***************************************************************************)
EXTENDS SequencesExt

CONSTANTS Recipients,  \* projects that the container may be shared with
          Owner,       \* the project it belongs to
          Actors,      \* dialogs and pages that are open at the same time
          MaxOps,      \* bound: operations in a behaviour
          MaxFaults,   \* bound: faults in a behaviour
          Faults       \* "head", "post": the store fails to answer or refuses;
                       \* "close": the page is closed or left

ASSUME SharingAssumption == /\ Owner \notin Recipients /\ IsFiniteSet(Recipients)
                            /\ {MaxOps, MaxFaults} \subseteq Nat
                            /\ Faults \subseteq {"head", "post", "close"}

Parts == {"container", "segments"}
Rights == {{}, {"r"}, {"r", "w"}}  \* view, transfer data, collaborate

VARIABLES
  acl,     \* per part: the read and the write ACL
  shares,  \* per part and recipient: the rights in its row of Shares, or NoRow
  todo,    \* per actor: the calls it has still to make, first the current one
  stage,   \* per actor: the request of the current call that comes next
  seen,    \* per actor and part: the ACL as the last HEAD answered
  ops,     \* operations begun so far
  faults,  \* faults so far
  calm,    \* history: no operations overlapped, no request failed, no sync broke off
  quiet    \* history: the last operation is a sync that nothing has disturbed

vars == <<acl, shares, todo, stage, seen, ops, faults, calm, quiet>>

NoRow == {"no row"}
NoAcl == [read |-> {}, write |-> {}]
Granted(a) == a.read \cup a.write

Call(name, part, to, rights) == [name |-> name, part |-> part, to |-> to, rights |-> rights]
OnBoth(name, to, rights) ==
  <<Call(name, "container", to, rights), Call(name, "segments", to, rights)>>
Sync(name) == Call(name, "container", {}, {})

Init ==
  /\ acl = [p \in Parts |-> NoAcl]
  /\ shares = [p \in Parts |-> [r \in Recipients |-> NoRow]]
  /\ todo = [a \in Actors |-> <<>>] /\ stage = [a \in Actors |-> "begin"]
  /\ seen = [a \in Actors |-> [p \in Parts |-> NoAcl]]
  /\ ops = 0 /\ faults = 0 /\ calm = TRUE /\ quiet = FALSE

Busy(a) == todo[a] # <<>>
Listed(p, r) == shares[p][r] # NoRow
ListedParts == {p \in Parts : \E r \in Recipients : Listed(p, r)}
SyncCalls == {"snapshot", "list_stale", "list_rows", "details", "list_new", "new",
              "sync_delete", "sync_insert"}
Syncing(a) == Busy(a) /\ Last(todo[a]).name \in SyncCalls

-----------------------------------------------------------------------------
(* What the users do.  The table of a dialog lists the container's rows.    *)

Begins(a, calls) ==
  /\ ~Busy(a) /\ ops < MaxOps /\ ops' = ops + 1
  /\ todo' = [todo EXCEPT ![a] = calls]
  /\ seen' = [seen EXCEPT ![a] = [p \in Parts |-> NoAcl]]
  /\ calm' = (calm /\ \A b \in Actors : ~Busy(b))
  /\ UNCHANGED <<acl, shares, stage, faults>>

\* (mutant) the access is granted before it is recorded
ShareAclFirst(a) ==
  /\ \E to \in SUBSET Recipients \ {{}}, rights \in Rights :
       Begins(a, OnBoth("add", to, rights \cup {"r"}) \o OnBoth("insert", to, rights))
  /\ quiet' = FALSE

Share(a) ==
  /\ \E to \in SUBSET Recipients \ {{}}, rights \in Rights :
       Begins(a, OnBoth("insert", to, rights) \o OnBoth("add", to, rights \cup {"r"}))
  /\ quiet' = FALSE

Edit(a) ==
  /\ \E r \in Recipients, rights \in Rights :
       /\ Listed("container", r)
       /\ Begins(a, OnBoth("modify", {r}, rights) \o OnBoth("update", {r}, rights))
  /\ quiet' = FALSE

\* removeAccessControlMeta is called without a receiver: the ACLs are emptied
Unshare(a) ==
  /\ \E r \in Recipients :
       /\ Listed("container", r)
       /\ Begins(a, OnBoth("clear", {r}, {}) \o OnBoth("delete", {r}, {}))
  /\ quiet' = FALSE

StartSync(a) ==
  /\ Begins(a, OnBoth("snapshot", {}, {}) \o <<Sync("list_stale"), Sync("list_rows")>>)
  /\ quiet' = \A b \in Actors : ~Busy(b)

-----------------------------------------------------------------------------
(* The current call of an actor *)

Does(a, names) == Busy(a) /\ Head(todo[a]).name \in names
This(a) == Head(todo[a])
Rest(a) == Tail(todo[a])
\* (mutant) the next call does not begin at its beginning
ContinueStays(a, calls) ==
  todo' = [todo EXCEPT ![a] = calls] /\ UNCHANGED stage

Continue(a, calls) ==
  todo' = [todo EXCEPT ![a] = calls] /\ stage' = [stage EXCEPT ![a] = "begin"]
To(a, s) == stage' = [stage EXCEPT ![a] = s] /\ UNCHANGED todo
Forget(a) == seen' = [seen EXCEPT ![a] = [p \in Parts |-> NoAcl]]
History == UNCHANGED <<ops, faults, calm, quiet>>
Fault(name) ==
  name \in Faults /\ faults < MaxFaults /\ faults' = faults + 1 /\ quiet' = FALSE /\ UNCHANGED ops
Fails(name) == Fault(name) /\ calm' = FALSE

(* Shares: each statement is a transaction of the database *)

Rows(a, row) == [shares EXCEPT ![This(a).part] =
                   [r \in Recipients |-> IF r \in This(a).to THEN row ELSE @[r]]]

\* add_share: a row that exists refuses them all, which ends the operation
Insert(a) ==
  /\ Does(a, {"insert", "sync_insert"})
  /\ IF \E r \in This(a).to : Listed(This(a).part, r)
     THEN Continue(a, <<>>) /\ UNCHANGED shares
     ELSE Continue(a, Rest(a)) /\ shares' = Rows(a, This(a).rights)
  /\ UNCHANGED <<acl, seen>> /\ History

Update(a) ==
  /\ Does(a, {"update"}) /\ Continue(a, Rest(a))
  /\ shares' = [shares EXCEPT ![This(a).part] =
                  [r \in Recipients |->
                     IF r \in This(a).to /\ Listed(This(a).part, r) THEN This(a).rights ELSE @[r]]]
  /\ UNCHANGED <<acl, seen>> /\ History

Delete(a) ==
  /\ Does(a, {"delete", "sync_delete"}) /\ Continue(a, Rest(a))
  /\ shares' = Rows(a, NoRow)
  /\ UNCHANGED <<acl, seen>> /\ History

-----------------------------------------------------------------------------
(* The ACLs: HEAD and POST requests to the store.  The status of a HEAD is  *)
(* not looked at: one that fails reads as an empty ACL.                     *)

Reads(a, p) ==
  \/ seen' = [seen EXCEPT ![a][p] = acl[p]] /\ History
  \/ Fails("head") /\ seen' = [seen EXCEPT ![a][p] = NoAcl]

\* (mutant) the write header is forgotten
RetainedRead(s) == [read |-> s.read \cup {Owner}, write |-> s.write]

\* the ACL with which _ensure_owner_access_to_container retains the access
Retained(s) == [read |-> s.read \cup {Owner}, write |-> s.write \cup {Owner}]

Done(a) == IF This(a).name = "clear" THEN Continue(a, Rest(a)) ELSE To(a, "read")

EnsureHead(a) ==
  /\ \/ Does(a, {"add", "modify"}) /\ stage[a] = "begin"
     \/ Does(a, {"clear"}) /\ stage[a] = "cleared"
  /\ Reads(a, This(a).part)
  /\ LET s == seen'[a][This(a).part] IN IF s = Retained(s) THEN Done(a) ELSE To(a, "retain")
  /\ UNCHANGED <<acl, shares>>

EnsurePost(a) ==
  /\ Busy(a) /\ stage[a] = "retain"
  /\ acl' = [acl EXCEPT ![This(a).part] = Retained(seen[a][This(a).part])]
  /\ Done(a) /\ Forget(a) /\ UNCHANGED shares /\ History

\* answered with 403, on which the browser leaves the page
EnsureRefused(a) ==
  /\ Fails("post") /\ Busy(a) /\ stage[a] = "retain"
  /\ Continue(a, <<>>) /\ Forget(a) /\ UNCHANGED <<acl, shares>>

ReadAcl(a) ==
  /\ Does(a, {"add", "modify"}) /\ stage[a] = "read" /\ To(a, "write")
  /\ Reads(a, This(a).part) /\ UNCHANGED <<acl, shares>>

Changed(c, s) ==
  LET kept(set) == IF c.name = "modify" THEN set \ c.to ELSE set
  IN [read |-> IF c.name = "add" /\ "r" \in c.rights THEN s.read \cup c.to ELSE s.read,
      write |-> IF "w" \in c.rights THEN s.write \cup c.to ELSE kept(s.write)]

WriteAcl(a) ==
  /\ Does(a, {"add", "modify"}) /\ stage[a] = "write" /\ Continue(a, Rest(a))
  /\ acl' = [acl EXCEPT ![This(a).part] = Changed(This(a), seen[a][This(a).part])]
  /\ Forget(a) /\ UNCHANGED shares /\ History

ClearAcl(a) ==
  /\ Does(a, {"clear"}) /\ stage[a] = "begin" /\ To(a, "cleared")
  /\ acl' = [acl EXCEPT ![This(a).part] = NoAcl]
  /\ UNCHANGED <<shares, seen>> /\ History

\* answered with 404, at which the browser does not look
PostRefused(a) ==
  /\ Fails("post")
  /\ \/ Does(a, {"add", "modify"}) /\ stage[a] = "write"
     \/ Does(a, {"clear"}) /\ stage[a] = "begin"
  /\ Continue(a, Rest(a)) /\ Forget(a) /\ UNCHANGED <<acl, shares>>

-----------------------------------------------------------------------------
(* syncContainerACLs.  The containers are listed and their details read     *)
(* between the deletions and the insertions that follow from them.          *)

\* get_access_control_metadata: the HEADs are answered in any order
Snapshot(a) ==
  /\ Does(a, {"snapshot"})
  /\ \E i \in DOMAIN todo[a] :
       /\ todo[a][i].name = "snapshot"
       /\ Reads(a, todo[a][i].part)
       /\ Continue(a, RemoveAt(todo[a], i))
  /\ UNCHANGED <<acl, shares>>

InSomeOrder(a, set, call(_), rest) ==
  \E order \in SetToSeqs(set) : Continue(a, [i \in DOMAIN order |-> call(order[i])] \o rest)

Shown(a) == {p \in Parts : Granted(seen[a][p]) # {}}  \* aclmeta

ListStale(a) ==
  /\ Does(a, {"list_stale"})
  /\ LET gone(p) == Call("sync_delete", p, Recipients, {})
     IN InSomeOrder(a, ListedParts \ Shown(a), gone, Rest(a))
  /\ UNCHANGED <<acl, shares, seen>> /\ History

ListRows(a) ==
  /\ Does(a, {"list_rows"})
  /\ LET details(p) == Call("details", p, {}, {})
     IN InSomeOrder(a, ListedParts, details, <<Sync("list_new")>>)
  /\ UNCHANGED <<acl, shares, seen>> /\ History

\* (mutant) write access that was taken away is no mismatch
StaleMembers(row, r, s) ==
  \/ r \notin Granted(s)
  \/ "r" \in row /\ r \notin s.read
  \/ "w" \notin row /\ r \in s.write

Stale(row, r, s) ==
  \/ r \notin Granted(s)
  \/ "r" \in row /\ r \notin s.read
  \/ ("w" \in row) # (r \in s.write)

\* a row of a container that the ACLs do not show is a TypeError, where no
\* rows are none.  (The pass over the rows that share a container with its
\* own project finds nothing: no dialog and no synchronisation inserts one.)
Details(a) ==
  /\ Does(a, {"details"})
  /\ LET p == This(a).part
         gone(r) == Call("sync_delete", p, {r}, {})
     IN IF p \in ListedParts \ Shown(a)
        THEN Continue(a, <<>>)
        ELSE InSomeOrder(a, {r \in Recipients : Listed(p, r) /\ Stale(shares[p][r], r, seen[a][p])},
                         gone, Rest(a))
  /\ UNCHANGED <<acl, shares, seen>> /\ History

\* the details are not fetched of a container that is not in the listing
ListNew(a) ==
  /\ Does(a, {"list_new"})
  /\ LET new(p) == Call("new", p, IF p \in ListedParts THEN Recipients ELSE {}, {})
     IN InSomeOrder(a, Shown(a), new, <<>>)
  /\ UNCHANGED <<acl, shares, seen>> /\ History

RightsIn(s, r) == (IF r \in s.read THEN {"r"} ELSE {}) \cup (IF r \in s.write THEN {"w"} ELSE {})

New(a) ==
  /\ Does(a, {"new"})
  /\ LET p == This(a).part
         known == {r \in This(a).to : Listed(p, r)}
         insert(r) == Call("sync_insert", p, {r}, RightsIn(seen[a][p], r))
     IN InSomeOrder(a, Granted(seen[a][p]) \ ({Owner} \cup known), insert, Rest(a))
  /\ UNCHANGED <<acl, shares, seen>> /\ History

-----------------------------------------------------------------------------
(* A page that is closed or left makes no further calls.  The handler of    *)
(* the call it has made runs to its end.                                    *)
Close(a) ==
  /\ Fault("close") /\ Busy(a) /\ (stage[a] = "begin" \/ Len(todo[a]) > 1)
  /\ IF stage[a] = "begin" THEN todo' = [todo EXCEPT ![a] = <<>>]
                           ELSE todo' = [todo EXCEPT ![a] = <<Head(@)>>]
  /\ IF Syncing(a) THEN calm' = FALSE ELSE UNCHANGED calm
  /\ UNCHANGED <<acl, shares, stage, seen>>

Terminating == ops = MaxOps /\ (\A a \in Actors : ~Busy(a)) /\ UNCHANGED vars

Next ==
  \/ \E a \in Actors :
       \/ Share(a) \/ Edit(a) \/ Unshare(a) \/ StartSync(a)
       \/ Insert(a) \/ Update(a) \/ Delete(a)
       \/ EnsureHead(a) \/ EnsurePost(a) \/ EnsureRefused(a)
       \/ ReadAcl(a) \/ WriteAcl(a) \/ ClearAcl(a) \/ PostRefused(a)
       \/ Snapshot(a) \/ ListStale(a) \/ ListRows(a) \/ Details(a) \/ ListNew(a) \/ New(a)
       \/ Close(a)
  \/ Terminating

Spec == Init /\ [][Next]_vars

-----------------------------------------------------------------------------
(* Properties *)

Acls == [read : SUBSET (Recipients \cup {Owner}), write : SUBSET (Recipients \cup {Owner})]
Calls == [name : SyncCalls \cup {"insert", "update", "delete", "add", "modify", "clear"},
          part : Parts, to : SUBSET Recipients, rights : SUBSET {"r", "w"}]

\* The types of the variables.  A request to the store is only ever pending
\* for a call that changes an ACL.
TypeOK ==
  /\ acl \in [Parts -> Acls]
  /\ shares \in [Parts -> [Recipients -> {NoRow} \cup SUBSET {"r", "w"}]]
  /\ \A a \in Actors : Range(todo[a]) \subseteq Calls
  /\ \A a \in Actors : stage[a] # "begin" => Does(a, {"add", "modify", "clear"})
  /\ stage \in [Actors -> {"begin", "cleared", "retain", "read", "write"}]
  /\ seen \in [Actors -> [Parts -> Acls]]
  /\ ops \in 0..MaxOps /\ faults \in 0..MaxFaults /\ calm \in BOOLEAN /\ quiet \in BOOLEAN

Idle == \A a \in Actors : ~Busy(a)

Agrees(p, r) ==
  /\ Listed(p, r) <=> r \in Granted(acl[p])
  /\ Listed(p, r) => /\ "r" \in shares[p][r] => r \in acl[p].read
                     /\ "w" \in shares[p][r] <=> r \in acl[p].write

\* Whatever the dialogs of other pages, refused requests and pages closed half
\* way have left in the database and in the ACLs, a synchronisation that runs
\* undisturbed to its end makes the table of shares agree with the ACLs, for
\* the container as for its segments.
SyncHeals == quiet /\ Idle => \A p \in Parts, r \in Recipients : Agrees(p, r)

\* A project that the ACL lets into the container is one that the owner sees
\* in the sharing dialog.  It holds at every moment between and during the
\* operations, also when the page is closed between two calls of one: rows are
\* inserted before the ACLs are granted and deleted after they are taken away.
\* (As long as operations do not overlap and no request fails; a
\* synchronisation deletes the rows that it is about to insert again.)
NoHiddenAccess ==
  calm /\ (\A a \in Actors : ~Syncing(a)) =>
    \A r \in Recipients : r \in Granted(acl["container"]) => Listed("container", r)

\* An ACL that any of the handlers has touched names the owner, in both headers
\* and in both containers, at every moment and wherever a page was closed: also
\* between the two requests with which a handler rewrites it.  (As long as
\* operations do not overlap and no request fails.)
OwnerKeepsAccess ==
  calm => \A p \in Parts : acl[p] # NoAcl => Owner \in acl[p].read \cap acl[p].write
=============================================================================
