# SD Connect (swift_browser_ui): TLA+ models, checks and proofs

This directory models the parts of SD Connect in which the order of steps
decides whether data is right: encrypted uploads, container copies and the page
that follows them, sharing, browser sessions, and access tokens.
The models are written from the source and name its functions; `PROJECT.json`
maps each definition to the lines it stands for.

## 1. Inventory of the system

| Part | Source | State it keeps | Operations | Talks to |
|---|---|---|---|---|
| Browser upload worker | `wasm/js/crypt-post-upworker.js` | per container the files and their `StreamSlicer` (`iter`), `uploadCancelled`, the websocket | `addFiles`, `sendChunks`, `retryChunk`, `finishFile`, `onmessage`, `closeWebSocket` | upload runner, by websocket messages |
| Upload runner, files | `upload/cryptupload.py` | per session `uploads[container][path]` and `ws`; per file `chunk_cache`, `done_chunks`, `tasks`, `aborted`, `finished` | `handle_begin_upload`, `handle_upload_chunk(s)`, `handle_finish_upload`, `handle_close`; one `upload_segment` task per segment | browser, object store |
| Upload runner, handlers | `upload/api.py` | `replication_jobs` of the app | `handle_upload_ws`, `handle_replicate_container`, `.._object`, `.._status`, `.._cancel`, downloads | both of the above |
| Container replication | `upload/replicate.py` | the job's record and task; position in the listing | `a_ensure_container`, `a_copy_from_container`, `a_copy_object`, `a_sync_object_segments` | object store |
| Runner sessions | `upload/auth.py`, `common.py`, `server.py` | runner session and its token | open and close a session | UI backend, keystone |
| Container ACLs | `ui/api.py` | none: the read and write headers in the store | add, modify, remove, snapshot of all | object store |
| Shares table | `common/db.py`, `sharing/` | `Shares(container, owner, recipient, read, write)`, tokens, project ids | add, edit, delete, list | PostgreSQL |
| Sharing in the browser | `ShareModal.vue`, `ShareModalTable.vue`, `common/conv.js` | the dialog; a snapshot of ACLs during a synchronisation | share, edit, unshare, synchronise | ACL API and sharing API |
| Sharing requests | `request/`, `common/db.py` | `Requests` table | add, list, delete | PostgreSQL |
| Login and UI sessions | `ui/login.py`, `ui/middlewares.py`, `ui/_convenience.py` | session in redis: projects, tokens, taint, runner | login, lock, logout, open runner session, sign a temporary URL | keystone, redis, runner |
| Access tokens | `ui/signature.py`, `TokenModal.vue`, `sharing/api.py`, `common/db.py` | `Tokens(owner, name, identifier, created)`, the cache of project ids, the dialog | add, list, remove, prune, validate a signature | sharing API, PostgreSQL |
| Store and copy polling | `src/common/store.js`, `CopyProgressToast.vue` | vuex state, `copyJobs`, `pollers` | start, poll, cancel, close | UI backend |
| Download worker, tar | `wasm/js/crypt-post-downworker.js`, `tar.js` | open files and streams | decrypt, stream | UI backend |
| Wiring | servers, health, discovery, settings, pages | none | | |

**Interactions.** The browser sends a file in batches of chunks and the runner
answers `next`, `retry_chunk`, `success` or `abort`. The runner is one asyncio
process: its tasks interleave at awaits and nowhere else. All websockets of a
user and project share one `UploadSession`. A copy job is a task that a request
starts, other requests poll and cancel, and that works in the store while the
source's owner does too. Sharing changes two containers' ACL headers and two sets
of database rows, in separate calls that the browser makes one after the other,
so that other pages and failures come between any two.

**What is hard, and the property that makes each part correct.** (The hazards at
their lines are in `PROJECT.json`.)

- *Upload of a file*: several tasks and a message loop share a cache; duplicates
  after retries; cancels at any await. An object appears at once, complete, and
  is never damaged; a cancel leaves nothing behind; memory stays bounded.
- *Upload session*: several loops change one map and await in the middle. No
  upload is forgotten, no loop waits for another for ever.
- *Replication*: paging while the source changes, cancels at any await, two jobs
  in one destination. What is present is complete, what is finished has all.
- *Sharing*: no transaction spans the ACLs and the table. No access that the
  owner does not see; a synchronisation heals what interrupted operations leave.
- *UI sessions*: each request loads the session, works on its copy across awaits
  and saves all of it. What is stored is the result of one login or lock, a
  logout is final, runner sessions and temporary URLs that are handed out work.
- *Access tokens*: a connection pool that closes, calls whose answers come out of
  order. A token that is displayed works, a listing is exact.
- *Copy polling*: a timer that does not wait for answers. The page never says
  too early that a copy is finished, and comes to an end.
- *Downloads*: not modelled yet (section 7).

## 2. Modules

| Module | Models | Role |
|---|---|---|
| `UploadLayout` | segment and chunk arithmetic of `FileUpload.__init__`, `slice_segment`, `addFiles` | constants and pure operators |
| `ObjectUpload` | what a reader of the container may see of an upload | abstract specification |
| `FileUpload` | one file over one websocket: slicer, both message queues, message loop, tasks, store | detailed specification; `Object` is its refinement mapping to `ObjectUpload` |
| `UploadSession` | several websockets over one session | composes uploads whose data is one batch |
| `Replication`, `MCReplication` | copy jobs | the MC module defines the objects' segments |
| `CopyPolling`, `MCCopyPolling` | the page that started a copy: card, timer, polls, cancel | composed with the jobs of `Replication`, which it extends |
| `UiSession`, `MCUiSession` | the session in redis, its copies in overlapping requests, runner sessions, temporary-URL keys | the MC module has the symmetry, settings and claims |
| `AccessTokens`, `MCAccessTokens` | token tables, dialog, validation of signatures, project id cache | the MC module has the symmetry |
| `Sharing`, `MCSharing` | ACL handlers, Shares table, dialogs, synchronisation | the MC module has the symmetry and a constraint |
| `*_proofs` | theorems about the module they are named for | TLAPS |

Correspondence of state and actions:

- **FileUpload.** The browser's `iter`, `sending` (an unanswered read in
  `sendChunks`) and `retryReads`; the queues `toRunner`, `toBrowser`; `handler`,
  the await at which `handle_upload_ws` is; `chunk_cache`, `done_chunks`,
  `aborted`, `finished` as in the code; `task[s]`, the await at which the
  `upload_segment` task is; `stored` and `manifest`, the store. An action is the
  code between two awaits: `HandleBegin`/`InitUpload`, `HandleChunks`/
  `WaitForCache`, `HandleFinish`/`FinishGather`/`FinishManifest`,
  `HandleCancel`/`AbortGather`/`AbortDelete` are the halves of their handlers.
  `Faults` names what may fail. A chunk's bytes are its order.
- **UploadSession.** `uploads` and `ws` are the attributes of that name;
  `loop[k]` is where the loop of socket `k` waits and `aborts[k][u]` where the
  `abort_upload` of `u` that it runs is. A `KeyError` or a send on a closed socket
  ends the loop (`dead`).
- **Replication.** `pc[j]` is the request to the store that job `j` awaits. A
  page, a listing and an object are fetched and looked at in one action each,
  since nothing else runs between the answer and the next await. `state`, `done`,
  `total`, `cancel` are the fields of the job's record, `thrown` the pending
  `CancelledError`.
- **CopyPolling.** `shown` and `counted` are `state` and `done` of
  `copyJobs[jobId]`, `poller` is `pollers[jobId]`. `polls` holds the polls under
  way in the order of sending: without an answer until `HandleStatus` reads the
  job's record, and with it until `PollAnswered`, the rest of `pollCopyJob`. Both
  may take them in any order. `trouble` is a history variable.
- **UiSession.** `store` is what redis has under the browser's cookie, `req[n]`
  a request: the copy of the session that it loaded, and the await at which its
  handler is. An action is the code between two awaits; a handler's last action
  saves its copy, as aiohttp_session does. `Login` stands for every chain of
  login handlers, of which the ones over SSO differ in how a token comes to be.
  `login` of a session says which login its projects and tokens are from.
- **AccessTokens.** `rows` is the table `Tokens` of one project, `id` its row of
  `ProjectIDs`, `dialog[a]` what the page's dialog holds. A call goes from the
  dialog to the first statement of the sharing API, perhaps to a second
  (`PruneTokens` and `GetTokens`, `MatchId` and `AddId`), and its answer back to
  the dialog, one action each. `Refuse`, `ShutDown` and `DayPasses` are actions of
  their own. `Accepts` is what `handle_validate_authentication` makes of a signature.
- **Sharing.** `todo[a]` is the list of calls the browser has still to await,
  `stage[a]` the request to the store within a call that changes an ACL,
  `seen[a]` what its HEADs answered. A statement of the sharing API is one
  transaction. `calm` and `quiet` are history variables for the properties. The
  store drops empty elements of an ACL, so that a header is a set of projects.
  The table of a dialog is taken to show the rows as they are at the click. The
  pass of the synchronisation that removes rows shared with the container's own
  project (`conv.js:93-107`) is left out: the dialogs refuse such a share and the
  synchronisation skips it, so that there is none.

## 3. Runs

| Run | Instance | Question and answer |
|---|---|---|
| `upload` | 38 bytes, cut by 8 and counted by 9: 5 chunks in 2 segments, batch 2, cache depth 1, one retry, cancel | `CleanAbort`, `StoredComplete`, `FinalObject`; liveness `CancelCompletes`; refinement `AppearsComplete` (safety) and `AppearsInTheEnd` (liveness). All hold. |
| `upload_faults` | 47 bytes, cut by 8 and counted by 9: 6 chunks, depth 0, every fault | `TypeOK`, `OneBatch`, `BoundedCache`, `EachChunkOnce`: flow control and duplicate suppression hold whatever fails. |
| `session` | 2 websockets, 2 paths, 2 uploads, 1 cancel | `LoopsReturn` for both sockets; `NoLostUpload`, `NoDanglingManifest`, `AbortClean` while the session has had one websocket (with two they fail, section 6). |
| `copy` | 1 job and its page, 2 objects of 0 and 2 segments, page of 2, all faults, 2 polls at once | `FinishedCopied` while the owner adds and deletes objects, `JobEnds`; `ShownComplete`, `ClosedEnded`, `ShownForward`, `ShownSettles` while polls overlap, fail and overtake. |
| `copy_two` | 2 jobs that may share a destination, 2 objects of 0 and 2 segments, page of 1, refused requests, cancels, an owner who adds and deletes | `PresentComplete`, `ProgressExact`, `CancelStops`. |
| `sharing` | 2 projects, 2 pages, 3 operations, 2 faults | `SyncHeals`, `NoHiddenAccess`, `OwnerKeepsAccess`. |
| `ui_session` | 2 projects, 4 requests of which 2 overlap, with and without restricted mode, with and without a claim | `Whole`, `RestrictedToOne`, `RunnerOwned`, `RunnerAlive`, `UrlsWork`, `LogoutEnds`. |
| `access_tokens` | 2 pages, 2 identifiers, 3 calls of which 2 overlap, a server that fails or closes down | `ShownWorks`, `ListedTrue`, `IdKept`. |

Four more runs (`upload_chunk_size`, `upload_success`, `session_replace`,
`token_lifetime`) check what the code's texts say and does not hold; see
section 5.

**Bounds.** The chunks have two sizes, the browser's the smaller one as in the
code, and a file long enough that both count the same number of them. Two segments, of which the first is full and the last is not
(`upload`) or is (`upload_faults`), with a batch that straddles the border, and a cache
smaller than a segment reach the waits, the retries and both ends of the
arithmetic; more segments repeat tasks that do not share chunks. Two sockets are
the fewest that share a session, two uploads the fewest of which one replaces
the other. Two objects in pages of two
(`copy`) and of one (`copy_two`) make full, short, further and empty pages.
Three sharing operations are two that overlap and break off, and the
synchronisation after them; `Recipients = {p, q}` are the project an operation
is about and one that it is not. Two polls are the fewest that overtake each other.
A property of sessions takes a login, a
request that loads the session before a change and saves it after, the change,
and one more request that sees the result: four requests, two at a time.
`SomeClaims` are no claim and a claim to one project, `AllSettings` a plain
server and one with every one of the `Options`. A token that is wrongly shown or
missing takes a change and a listing that overlap, and a third call.
`MaxRetries`, `MaxUploads`, `MaxCancels`, `MaxOps`, `MaxFaults`, `MaxPolls`,
`MaxReqs`, `MaxCalls` and `MaxFlight` bound what users and the network do; they
appear in guards. `Undecided` (MCSharing) cuts off states where the last operation has
begun, was not an undisturbed synchronisation, and something was not calm: no
property but `TypeOK` can fail after them, and `TypeOK` of such an operation is
reached in the calm behaviours.

**Deadlock** is checked in `sharing`. The other runs stop rightly when a file
is stored or cancelled, the user stops, the jobs have ended, or the last of the
requests or calls has been answered, so it is off.

**Fairness.** Weak fairness of the browser's event loop and timers, of each message loop, of
each asyncio task and of the answers of the store (aiohttp's client times out
otherwise). Asyncio runs ready tasks in FIFO order, so that a task that stays
ready runs; a task polling with `asyncio.sleep` stays ready. What users, faults
and the owner of a source do is never fair.

## 4. Theorems

Each is checked by TLAPS for all values of the constants that meet the named
assumptions.

- `UploadLayout_proofs`: `Partitioned`, and, for a browser whose chunks are no
  larger than the runner's, `NoTaskWaitsInVain` and `WhenCountsAgree`: both count the
  same number of chunks exactly if the file is longer than all of its chunks but
  the last would be at the runner's size.
- `FileUpload_proofs`, under the same condition (`SizesFit`):
  - `TypeCorrect`: `Spec => []TypeOK`, one lemma for the browser, one for the
    handlers, one for the tasks.
  - `ChunksOnce`: `Spec => []EachChunkOnce`. `EachChunkOnce` is inductive with
    `TypeOK`: `slice_segment` is the only place where a chunk leaves the cache
    and enters `done_chunks`, and `add_to_chunks` refuses both.
  - `ManifestOfCounted` and `ImplementsCountedUpload`, under `NoRefusals` (no fault
    that loses a PUT): a manifest stands over exactly the chunks that the runner
    counts, and the upload implements `ObjectUpload` over these (`CountedObject`).
    Under `CountsAgree`, that the runner counts as many chunks as the browser cuts,
    they are the file's, which makes them `ManifestOfAllChunks` (`StoredComplete`)
    and `ImplementsObjectUpload` (`AppearsComplete`). Where the counts differ,
    `ManifestWithoutTheEnd`: every manifest stands over an object that is cut short.
    `StoredComplete` is not inductive: the manifest is put after a gather whose
    meaning depends on tasks that were created at `start_upload`, and nothing in
    it excludes a second `start_upload` or an upload that was aborted and
    finished. The strengthening `StoreInv`, which holds for all faults, says that
    a `start_upload` is on its
    way at most once and only before the tasks exist, what each await of the
    handler implies for `present`, `aborted` and the tasks, and, where no PUT is
    lost, that a segment
    whose task has ended unaborted is stored whole. The refinement
    follows: `FinishManifest` is `Commit`, `HandleCancel` is `Cancel`, every
    other step stutters.
  - `ObjectFinal` (`FinalObject`), from `StoreInv` alone, for all faults.
  - `CancelLeavesNothing` (`CleanAbort`), under `NoneKept` (deletions succeed, and
    no PUT raises). `AbortInv` says that the tasks have ended when the deletion begins,
    and that nothing is stored when the upload has gone. It needs `StoreInv` to
    know that no second handler creates tasks behind the abort's back.
  - `BatchesTakeTurns` (`OneBatch`), from `FlowInv`: the batches that the browser
    has been asked for, that it reads or has on the wire, and those that a
    handler waits to ask for, are one together.
  - `CacheLimited` (`BoundedCache`). The bound is not inductive, for the cache says
    nothing of what is under way. `AskedInv` says that each chunk that is sent
    again was yielded to a slicer or is awaited by one; `SurplusInv` bounds the
    cache without those by the queue depth while a batch is to come, and by the
    depth and a batch at all times.
- `Replication_proofs`: `TypeCorrect`;
  - `FinishedHasAll` (`FinishedCopied`). The strengthening `CopyInv`: as long as a
    job runs, each object that has stayed in the source is in the destination, in
    the page being copied, or listed after the marker. It holds for any number of
    jobs, objects and faults, because the marker only moves over names that were in
    the page.
  - `FinishedCounts` (`ProgressExact`). `CountInv`: while the source is as it was,
    the count is the number of objects up to the marker that are not in the page.
  - `PresentHasAll` (`PresentComplete`), under `ListsWhole` (a listing of segments
    neither fails nor is cut). `WholeInv` says of an object that a job copies,
    unless its owner deleted it, that each segment which the job has not still to
    copy is in the destination, whichever job put it there.
- `UploadSession_proofs`: `TypeCorrect` for any number of websockets; with one,
  `ManifestWhole` (`NoDanglingManifest`), `AbortLeavesNothing` (`AbortClean`) and
  `NoneLost` (`NoLostUpload`). `SingleInv` says nothing once a second websocket has
  been opened. Until then `LoopOf` says what the one message loop implies at each
  await for the upload it serves, `UploadOf` what an abort that has ended and
  tasks that have ended leave of an upload, and `PathOf` that a
  manifest is of an upload that ended unaborted and has left the map, so that no
  abort can reach it any more.
- `Sharing_proofs`: `TypeCorrect`, `OwnerStays` (`OwnerKeepsAccess`),
  `AccessIsListed` (`NoHiddenAccess`) and `TableHealed` (`SyncHeals`), for any finite
  set of recipients. `SyncInv` says of each phase of an undisturbed synchronisation
  what is already right and which of the calls to come will make right the rest;
  `CalmInv` says, while all has been calm, what the calls that a dialog has
  still to make will find. Both are conditioned as the properties are, so that an
  operation that disturbs another needs no case beyond ending the condition.
- `CopyPolling_proofs`: `JobsBehave` shows that the composition implements
  `Replication`, so that `FinishedHasAll` holds beside the page. From it and the
  invariant `PageInv` follow `PageTypeCorrect`, `ShownIsComplete`,
  `ClosedHasEnded`, `RemovedForGood` and `ShownGoesForward`. `PageInv` says of
  each answer under way that an end it reports is the job's (`Honest`), and, as
  long as the polls have kept their order, that the answered ones come first,
  each at least as far as the one before, and the page behind them all
  (`Ordered`). It rests on a lemma about Replication, that an ended job does not
  change and a count never falls (`JobsOnward`).
- `UiSession_proofs`, for any number of projects and overlapping requests:
  - `TypeCorrect`, `RunnersOwned` (`RunnerOwned`), `LockHolds`
    (`RestrictedToOne`), `SessionsWhole` (`Whole`) and `LogoutFinal`
    (`LogoutEnds`). A property
    of the stored session is not inductive, since any request may save the copy it
    loaded long ago: `FitInv` says the same of every copy, and of what its request
    has got so far and is about to put in it (`CopyFits`), and that requests only
    move forward through the logins. `out` is the number of requests begun when the
    last logout was answered, while it is in force. `OutInv` says that until then the
    browser's session has no login, nor has a copy of any request begun later.
  - `UrlsVerify` (`UrlsWork`). `UrlInv`: until two requests for a URL overlap or a
    HEAD fails, one is under way at most, and the key it carries is the account's.
  - `RunnersAlive` (`RunnerAlive`). `HolderInv`: each runner session that a stored session or
    a copy names belongs to one browser session (`Owned`) and has been opened
    (`KindInv`); while `calm`, one request at most closes runner sessions, and only
    the stored session that it works on may still name what it has closed
    (`AliveInv`). `FitInv` makes it one project's.
- `AccessTokens_proofs`: `TypeCorrect`, `DisplayedWorks` (`ShownWorks`),
  `ListingExact` (`ListedTrue`) and `IdStays` (`IdKept`). The strengthenings say of
  each call under way what it has already done to the table, and of a listing that
  nothing overlapped that what it has read is still the table.

`SizesFit` holds in production, where the browser cuts 65536 bytes and the runner
counts in 65564. `CountsAgree` holds there for the files that `WhenCountsAgree`
describes: those whose last chunk has more than 28 bytes for each chunk before it, so
none of more than 2341 chunks (153 MB). Every other file is stored without its end
(section 5, and `ManifestWithoutTheEnd`); `ManifestOfCounted` and
`ImplementsCountedUpload` hold for all of them.

`NoRefusals`, `NoneKept` and `ListsWhole` exclude faults after which the property
does not hold (section 6); the runs of these properties exclude the same ones.

Every invariant and every action property of section 3 is thus proved. Only
model-checked is what is beyond the prover: the liveness properties
`CancelCompletes`, `AppearsInTheEnd`, `LoopsReturn`, `JobEnds`, `CancelStops` and
`ShownSettles`. What the runs with an expected violation show needs no proof.

## 5. Where code and text disagree

| Run | What happens |
|---|---|
| `upload_chunk_size` | The browser cuts 65536 bytes to a chunk, the runner counts in 65564: a file of 65540 bytes is stored without its last four. |
| `upload_success` | A refused PUT of the last segment is reported as `success`. |
| `session_replace` | Replacing a running upload sends `abort` on the websocket of the new one, which the browser then stops. |
| `token_lifetime` | `db.py:76` selects `WHERE token_owner = $1 OR token_owner_name = $1 AND created > NOW() - INTERVAL '1 day'`: AND binds stronger than OR, so that a token of any age still authenticates requests that name its project by id. `lang.js:334` tells the user that tokens are valid for a day. |

## 6. Known limits of the properties that hold

They are conditioned where the code does not deliver more:

- With a *second websocket* in a session, `handle_close` of one forgets an upload
  that the other begins meanwhile; an abort that arrives before `init_upload`
  has created the tasks leaves segments behind; one socket may finish what the
  other aborts and leave a manifest over deleted segments. Hence `OneSocket`.
- While `wait_for_cache` waits and the tasks cannot take chunks any more, a
  cancel behind it is not read; a retried chunk that arrives after the file was
  finished ends the message loop with a `KeyError`. `CancelCompletes` is checked
  with a store that works.
- `PresentComplete` fails when the store's listing of segments fails (fault
  `list`) or is cut at its limit (`ListLimit` below the number): `copy_two`
  leaves both out. When the owner deletes the segments of an object after its
  manifest was fetched, the manifest is put without them: the property is about
  objects that were not deleted.
- Two requests that both find a destination missing both copy into it, for
  creating an existing container succeeds; `copy_two` shows that the objects
  are complete nevertheless. `docs/source/runner.rst:63` speaks of a fresh
  container.
- `NoHiddenAccess` and `OwnerKeepsAccess` hold as long as operations do not
  overlap and no request fails: the ACL handlers read, change and write headers
  in separate requests and do not look at the status of a HEAD. A page closed
  at any point is covered. Removing one project's permissions empties the
  ACLs for all projects (`ShareModalTable.vue:304-336`), while the others remain
  listed; the next synchronisation removes them.
- After a connection broke, the tasks of its files poll for their chunks for ever.
- Copying a single object raises a `TypeError` (`replicate.py:287`) in a task that
  nobody awaits, and nothing is copied.
- An answer of a poll that was overtaken, or follows one that failed, puts a card
  back to running after the timer has stopped, where it stays until the user
  cancels it. Any error of a poll is shown as a failed copy while the job goes on.
  Of several jobs the card shows the one with the greatest random identifier, not
  the newest (`CopyProgressToast.vue:2`).
- A login that breaks off without being refused leaves the projects that it got so
  far beside the previous token; `Whole` speaks of the others.
- A logout is undone by a request that was in flight when it was answered and saves
  its copy of the session afterwards; `LogoutEnds` says that no request begun later
  undoes it, and nothing until such a save. A
  runner session that was opened meanwhile is not closed; neither are one whose
  request raises after opening it, one that the runner answers the closing of with
  an error (both are forgotten all the same), the runner
  sessions of a session that logs out, and the tokens of projects that a lock
  leaves out are not revoked. A runner that restarts leaves identifiers of dead
  runner sessions in the session: `RunnerAlive` speaks of one that has not.
- Two first downloads at once, or a HEAD that fails, replace the temporary-URL key,
  and invalidate URLs that were signed before; hence the conditions of `UrlsWork`.
- The session middlewares let a path pass that contains the word `login` or, for
  sessions that are to be locked, `lock`, wherever in the path it is.
- Removing a token answers 204 whatever the sharing API answered, and the list of
  tokens answers 200 with the error's text. A server that is closing down answers
  as if it had stored a row. A dialog displays a new token under the identifier
  that the input field has when the answer comes. Listings that overlap may leave
  the older one on display. The request API's connection has no `add_token` and
  `revoke_token`, so that its token handlers raise.

## 7. Not modelled, and the plan

Done: (1) `UploadLayout`, `FileUpload` with `ObjectUpload`; (2) `UploadSession`;
(3) `Replication`; (4) `Sharing`; (5) `UiSession`; (6) `AccessTokens`;
(7) `CopyPolling`. Next, in this order:

1. `Download`: the download worker's open files, tar framing and cancel.
2. The limit on files at a time in the upload worker, and the routing of `next`
   to the websocket that was opened last.
3. The store's cache of container listings and its updates that overlap.

Abstract specifications worth adding: an atomic copy (a job either finishes with
everything or shows no wrong object) for `Replication`; an atomic share for the
undisturbed operations of `Sharing`; a session that only narrows for `UiSession`.

Theorems in reach: the refinements of these specifications, the first from
`CopyInv` and `WholeInv`, the second from `SyncInv`, the third from `FitInv`.

Left out for good: encryption and key handling (pure functions in wasm and an
external service), request signatures (a pure function of path and time), the
request API (each handler is one statement, with no state between them), the
wiring of the servers, static pages, health and discovery, layout and wording of
the pages.
