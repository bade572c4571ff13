# Verification of the OneNote MCP backend

The backend keeps a searchable copy of a user's OneNote notebooks and serves it
over MCP. This directory models the part of it where processes meet, the
durable queue of sync jobs; what one of its jobs does while the user goes on
editing, the content sync of a notebook, and what several do to one notebook when
they overlap; and the services around them: the pacing and paging of Graph calls,
the making of a page's text, the token cache, the login, the MCP server with its
search, and the notebook page of the web application. It checks the models with
TLC and proves, with TLAPS, every safety property that the checks find to hold,
and that the queue implements its abstract specification.

Paths below are relative to `src/backend/` unless they start with `src/`.

## The system

Three kinds of process share one Postgres database (`Procfile`):

- **web** (`app/main.py`): FastAPI. A request is one transaction, committed
  after the handler and rolled back on an exception (`app/core/database.py:26`).
  It may also host a worker in its lifespan.
- **worker** (`sync/worker.py`): claims one job at a time and runs it. The
  deployment intends exactly one, because the Graph rate limiter is in memory.
- **cron** (`sync/run.py`): enqueues one discovery job for each active
  connection and exits; with `--notebook-id` it enqueues one content job.

Transactions run under READ COMMITTED. There is no other channel between the
processes: the tables are the messages.

| Component | State | Operations | What makes it correct |
|---|---|---|---|
| Sync job queue (`sync_job_repository.py`, `models.py`) | `sync_jobs` rows: status, attempts, next_run_at, lease | enqueue, claim, heartbeat, mark_*, reschedule, cancel, reap | one active job per notebook, one executor per job, a retry budget, jobs end and stay ended |
| Worker (`worker.py`) | the job it runs, its heartbeat task | startup reap, poll, two job kinds, fail or retry | every claimed job is finalised or recovered; the notebook's status follows its job |
| Producers (`notebook_service.py`, `routers/notebooks.py`, `run.py`) | requests in flight | sync, toggle, refresh, cron, CLI | a click is idempotent; SYNCING is always driven on |
| Discovery (`sync_service.py:131-249`) | `notebooks` rows | upsert what Graph lists, delete the rest | nothing is deleted on a partial list |
| Microsoft connection (`auth_service.py`, `sync_service.py:179`) | status, token cache | login, disconnect, silent token | a refused token flags the connection; a new login is not undone |
| Content sync (`sync_service.py:302-714`) | sections, pages, `last_synced_at` | incremental page sync | no page is skipped for ever; one bad page does not lose others |
| Token cache (`sync_service.py:_acquire_token`, `microsoft_connection_repository.py`) | the connection's row, a copy of it in each run | read, ask MSAL, save or flag | what a run learnt does not reach a newer connection |
| Rate limiter and budgets (`graph_client.py:70-254`) | request log, cooldown, semaphore, registry | get, reserve, throttle, release, evict | both windows are respected; a cooldown is never shortened; a budget in use is never replaced |
| Graph lists (`graph_client.py:_get_all`) | the pages so far, the count | page by `$skip` | a list is called complete only when it is |
| Page content (`graph_client.py`, `pdf_extract.py`, `ocr_client.py`, `_build_page_content_result`) | the result being built | HTML and ink, images, composite and OCR, PDFs | a FRESH page has its text |
| Login flow (`auth_service.py:32-63`, `routers/auth.py`, `oauth_bridge.py`) | `oauth_login_flows`, `users` | begin, callback | single use; an id means one person |
| MCP server and keys (`app/mcp/`, `mcp_connection_service.py`) | `mcp_connections`, the request's scope | create, revoke, authenticate, search, expand | an answer stays in scope; a handle names its text |
| Search windows (`search_service.py`) | the windows taken | score, absorb, assemble | windows stay in the text, apart, and within their limits |
| Notebook page (`src/frontend/src/features/notebooks/`) | cached rows, GET in flight, mutations | poll, sync, toggle | at rest it shows the server's rows |
| Migrations, scripts, wiring | none at run time | | |

What is hard here: transactions of several processes interleave between a
read and a write of the same handler; a worker may die anywhere and another
(or itself) recovers its job by a lease; jobs are retried with a backoff while
users switch notebooks off, disconnect and click again; a cascade deletes rows
under a running worker; a notebook is edited while it is listed and fetched;
Graph's lists may be short. Around the queue, everything that is read before an
await is used after it: a token cache across a call to Microsoft, a budget
across a request, a key's row across its scope lookup, a snapshot of the rows
across a POST. `PROJECT.json` lists each hazard at its line.

## Modules

| Module | Role |
|---|---|
| `SyncQueue.tla` | the queue, the worker, the producers, discovery, the connection's status |
| `JobQueue.tla` | the abstract specification: what a queue promises whatever its storage, leases and timers |
| `MCSyncQueue.tla` | symmetry of the small sets for TLC |
| `SyncQueueProofs.tla` | its types and safety theorems, proved |
| `SyncQueueRefinement.tla` | that `SyncQueue` implements `JobQueue`, proved |
| `ContentSync.tla` | the content sync of one notebook against a user who edits it |
| `MCContentSync.tla` | its instances for TLC |
| `ContentSyncProofs.tla` | its types and safety theorems, proved |
| `ContentOverlap.tla` | several content syncs of one notebook in progress together |
| `ContentOverlapProofs.tla` | its types and safety theorems, proved |
| `GraphBudget.tla` | pacing: limiter, cooldown, semaphore, registry, retries |
| `GraphBudgetProofs.tla` | its types and safety theorems, proved |
| `GraphPaging.tla` | how one collection is listed by `$skip` while it changes |
| `PageContent.tla` | from a OneNote page to the text that is stored |
| `GraphReadingProofs.tla` | the types and safety theorems of the last two, proved |
| `MicrosoftToken.tla` | the token cache between runs, logins and disconnects |
| `LoginFlow.tla` | the login with Microsoft and its bridge to WorkOS |
| `McpServer.tla` | keys, scope, search and expansion of snippets |
| `SnippetSelection.tla` | which windows of text a search answers with |
| `Dashboard.tla` | the notebook page: cache, polling, optimistic sync |
| `WebAppProofs.tla` | the types and safety theorems of the last five, proved |
| `MCServices.tla` | one small instance of each of nine modules: the eight services and `ContentOverlap` |
| `ServicesProofs.tla` | that `MCServices` behaves in each of its parts as that part's specification says, and its types, proved |

### SyncQueue

One action is one transaction. State and code correspond as follows.

| Variable | Code |
|---|---|
| `syncStatus`, `syncEnabled` | the columns of `notebooks`; "undiscovered" and "deleted" stand for a missing row |
| `connection` | `microsoft_connections.status`, or "none" |
| `jobs` | the `sync_jobs` rows. `target` is `notebook_id`, and `NoNotebook` makes it a DISCOVERY job; `due` is `next_run_at <= now()`; `lease` tells where `lease_expires_at` stands; `created` orders `created_at` |
| `clock` | the order of enqueuing transactions |
| `request` | a `POST /notebooks/{id}/sync` handler between its statements |
| `worker` | a worker process: which step of `_execute` it is in, and the `SyncJobResponse` its claim returned (`job`, `target`, `attempts`) with the notebook list a discovery remembers (`seen`) |
| `crashes` | how often worker processes have died |

Where the code reads in one statement and writes in a later one, and another
transaction may commit in between, the handler is split:

- the sync route reads and checks (`StartSyncRead`), then inserts
  (`StartSyncEnqueue`), then, if the insert found a duplicate, marks the
  notebook (`StartSyncMark`). An inserted row becomes visible together with
  the mark, at the commit, so these two are one step;
- a content job is claimed, checked and marked SYNCING (`StartContent`), gets
  a token (`Authorize`), and is finalised with its notebook (`SyncSucceeds`);
- a discovery job gets a token, upserts the list Graph gave it
  (`DiscoverList`) and fans out from what that transaction read (`FanOut`);
- a failure rolls back (`JobRaises`) and is recorded in a new session
  (`FailJob`, `Reschedule`). A reschedule that violates the unique index ends
  the process (`RescheduleRejected`).

Abstractions, each deliberate:

- one user with one connection; ownership checks are left out;
- `FOR UPDATE SKIP LOCKED` and row locks make a transaction look atomic, so
  blocking, `lock_timeout` and lock order are not modelled;
- what a content sync does between token and finalising is one step that
  succeeds or raises; `ContentSync` opens it up;
- time is three facts: a backoff ends, a lease runs out, the reaper's interval
  passes. A lease runs out under a live worker only if `LeaseMayLapse`, since
  the heartbeat renews it every 30 s of its 120 s;
- `--run-inline` bypasses the queue for debugging and is left out; what a run outside
  the queue can do to the tables is the subject of `ContentOverlap`;
- the refresh route runs discovery in the web process, as the code does,
  although the worker's docstring calls the worker the only process to do so;
- `Init` is the moment after the first login, which creates the user.

### JobQueue

Jobs are submitted under a key that has no live job, started by an idle
executor at most `MaxAttempts` times, finished, retried, recovered when no
executor runs them, or withdrawn. `SyncQueue!Abstract` maps a row to its phase
and a worker to the job it runs; leases, backoffs, notebooks, requests and the
connection are forgotten. `ImplementsJobQueue` says every step of `SyncQueue`
maps to a step of `JobQueue` or to none.

### ContentSync

OneNote itself is part of the model, as an environment: a user creates, edits
and deletes pages and sections at any moment. A page's `lastModifiedDateTime`
counts edits and stands for the content that edit left, so "current" means
that the row holds the number the page has.

| Variable | Code |
|---|---|
| `clock`, `remoteSection`, `remote` | OneNote: time, sections, and `lastModifiedDateTime` of each page (`Unborn`, `Deleted`) |
| `sections`, `pages` | the rows of the notebook; a page row is its `sync_status` and `content` |
| `lastSynced`, `lastModified` | `notebooks.last_synced_at` (0 is NULL), `last_modified_datetime` |
| `run` | the locals of `_sync_notebook`: `started` is the worker's `sync_started_at`, `since` the `last_synced_at` it read, `gone` the sections to delete, `whole` the sections whose page list was complete, `seen` the listed times, `queue` the pages to fetch, `built` the results waiting for the apply lock |
| `faults` | how many calls, processes or responses have failed |

| Action | Code |
|---|---|
| `Begin` | `_run_notebook_content` takes the time and reads the notebook |
| `ListSections` | `get_sections`, the section upsert and the guarded delete, not yet committed |
| `ListPages(s)` | one of the gathered `get_pages`; a 404 ends the run |
| `PlanSection(s)` | `_sync_section_metadata` up to its commit; the first also commits the section rows |
| `BuildContent(p)` | `_build_page_content_result`: a page's content or its error |
| `ApplyContent(p)` | `_apply_page_content_result`, an UPDATE by id |
| `Finish` | the worker writes FRESH, `last_synced_at` and `last_modified_datetime` |
| `Abort` | an exception or the death of the process; what was committed stays |

Abstractions:

- `_get_all` is one read of the collection, with the pair it returns: complete
  and exact, or not complete and possibly short (`ShortLists`), or not complete
  only because Graph gave no count. That a list may shift while it is paged by
  `$skip` is the subject of `GraphPaging`;
- a fetch is one read of the page. The beta call and its fallback, images, PDFs
  and OCR make up one content here, and `PageContent` takes it apart;
- `asyncio.Semaphore` bounds fetches in flight and has no other effect, so it
  is left out; the apply lock makes applies atomic;
- runs of one notebook exclude each other, which `RunsExclude` proves of
  `SyncQueue` while no lease lapses; `ContentOverlap` is about the other case.
  `force` is left out;
- the account stays connected and the notebook is not deleted in mid-run;
  applies to deleted rows touch nothing, as in the code;
- Microsoft's clock and the worker's agree, and time is as fine as edits.

### ContentOverlap

Runs of one notebook overlap when a lease lapses under a live worker, when
`sync.run --run-inline` runs beside the worker, and when the user disconnects
and connects again under a run while there is a second worker (the cascade
deletes the job, not the notebook, so the next click finds no active job). Then
each works on a copy of what it read, and both write the same rows.

| Variable | Code |
|---|---|
| `editClock`, `modified` | OneNote: the time of the last edit, `lastModifiedDateTime` of each page |
| `rows`, `lastSyncedAt` | the page rows and `notebooks.last_synced_at` |
| `syncRun` | the locals of each run, as `run` of `ContentSync` |
| `overtaken` | history: the runs that were in progress when another began |
| `harmed` | history: the pages to which an overtaken run, or a list that left them out, did harm since they were last edited or applied as they are |

A run is that of `ContentSync` with three steps taken apart, since another run
may come between: `BeginSync` takes the time and commits SYNCING, `ReadNotebook`
reads `last_synced_at` in a new transaction (nothing holds on to the row that
the worker read), and `StoreSections` upserts the sections. The upsert locks
every section row until the first section's pages are committed, and another run
waits for it (`LocksSections`). A result is applied by the id of its row, so when
another run deletes the row, what is fetched for it is lost (`WithoutRows`), also if
a third inserts the page again.

The sections stay as they are, so the list of sections is left out; the page
lists, the deletes and the fetches are those of `ContentSync`. Calls may fail
and lists may be short any number of times.

### GraphBudget

One step is what `_get` and what it calls do between two awaits. The locks of
the registry and of the limiter are not held across an await, so they do not
appear.

| Variable | Code |
|---|---|
| `registry`, `lastEvicted` | `_budgets`, `_last_evicted` of `_BudgetRegistry` |
| `budgets` | the budget objects: `times` is the request log, `pausedUntil`, `level` and `lastThrottle` the cooldown, `lastUsed` and `active` what eviction looks at. An object that neither the registry nor a call refers to is free to be a new one |
| `stage`, `holds`, `wake`, `attempts` | the locals of each call: where it awaits, its `budget`, the end of its sleep in `acquire()`, tenacity's count |
| `sent`, `ordered` | history: when requests of a connection were let go, and the latest deadline a cooldown set |

`GetBudget`, `Acquire` (one turn of its loop), `EnterSemaphore`, `SendRequest`
(the end of `wait_out_cooldown`), `Return`, `Throttle` (429 and 503),
`TransientError` and `Cancel` (the TaskGroup of a sync run) are the steps;
`Tick` is time. Time is whole units with the cooldown's base as 1. A
`Retry-After` is absent or the cap, which the code reduces all longer ones to;
a call between two attempts waits any time.

### GraphPaging

`collection` is a list in OneNote that the user changes between requests by
`AddMember`, `DeleteMember` and `MoveMember`; `listing` is the state of
`_get_all`, one request a step; `Complete` is its verdict. `lost`, `gained` and
`moved` remember what the user did meanwhile.

### PageContent

`body` and `pdfs` say what a page holds, piece by piece: typed text, a picture
of its own or a printout of an attached PDF, ink; embedded text and scanned
pages. `build` is the result on its way through `GetContent` (beta with ink, or
v1.0 without), `FetchImages`, `ReadComposite`, `ExtractPdf` and `StoreContent`;
`FailPage` and `AbandonPage` may come at any stage. Text is the set of pieces
that went into it. Where a piece is on the canvas and what it says is left out.

### MicrosoftToken

`connection` is the row with its `id`, its cache and its status; `tokenRun` the
copy each run made of it. `_acquire_token` is three steps, `ReadConnection`,
`AskMicrosoft` and `SaveOutcome`, as each is an await after which the others may
have written. A cache is named by the login it comes from. Content sync reads
the connection whatever its status, discovery and refresh only an ACTIVE one.
`madeBy` is a history: the login whose INSERT made the present row.

### LoginFlow

A callback is one transaction, split at its statements and its two external
calls; its writes become visible at `CommitCallback`, which FastAPI runs after
the response (`AnswerCallback`). Row locks are `FlowLocked` and `UserLocked`.
`NextId` is a Postgres sequence, which a rollback does not turn back. A state may
be signed in for more than once, as the sign-in page may be opened again:
`codes` are what Microsoft issues, each redeemed once. So two callbacks with a
code each may both use one flow, if both read its row before either deletes it.
Unique e-mail addresses, the JWT's content and the encryption of the cache are left
out.

### McpServer

A request is two transactions: authentication (`LookUpKey`, `ResolveScope`, or
`ResolveJwtIdentity` for a WorkOS token) and the tool (`RankPages` and
`AnswerSearch`, or `AnswerExpand`). Users toggle notebooks and revoke keys, and
the sync rewrites and deletes pages, between any two statements. Content is named
by its `revision`, so the checksum in a handle is that revision. `answer.seen`
collects what was switched on at some moment of the request.

### SnippetSelection

`chosen` is the list `_assemble` makes and `usedChars` its budget. Windows come in
any order and any number of times, so what holds is independent of the scores,
of fuzzy matching and of the query. `AbsorbCandidate` is `_absorb`, `TakeCandidate`
a slot or the end by the budget. Matches are found in `content.lower()`
(`LoweredLength`) and cut from `content`, which may be shorter, so a window may lie
past the end with no text. Such a window meets nothing, not even itself;
`copy` tells equal ones apart. `matched` is a history: the text of all
that was taken or absorbed. A term has no longest length, in the code or here.

### Dashboard

`served` is the server; `cached`, `fetch`, `syncing` and `toggling` are TanStack
Query's cache, its one GET, and the mutations of `use-sync-notebook.ts` and
`use-toggle-sync.ts`. `tentative` holds what a PATCH has written and not yet
committed when its answer arrives. A request may also fail for the client and be
served afterwards: `late` holds those, `LateSync`, `LateToggle` and `ServeLate`
are their steps. Filters, paging, the refresh button and the
drawer of keys are left out: they change no row.

## What the runs check

All bounds are constants of the cfg files.

| Run | Instance | Shows |
|---|---|---|
| `queue_two_workers` | 1 notebook, 3 jobs, 2 workers, 2 attempts, 1 crash | exclusive execution, the retry budget, finality, and the refinement of `JobQueue`, when no lease lapses |
| `queue_one_worker` | 2 notebooks, 3 jobs, 1 worker | types, and that only a cancelled or deleted job, a late mark or a deleted row strands a notebook |
| `queue_lapsing_leases` | 1 notebook, 2 jobs, 2 workers, leases lapse | the unique indexes hold, and the budget is overrun by at most one attempt |
| `queue_liveness` | 1 notebook, 2 jobs, 1 worker, 1 click at a time, fair | jobs end; a SYNCING notebook with a job is driven on |
| `queue_stranded` | the same, no crash | a violation: sync, then switch off before the claim, and SYNCING stays |
| `queue_late_mark` | the same | a violation: a duplicate click's mark lands after the job ended |
| `queue_zombie` | 1 job, 2 workers, leases lapse | a violation: a finished job is rewritten by a worker that lost it |
| `content_exact` | 2 pages in 2 sections, 3 edits, 2 faults, exact lists, fair | no edit is missed; the tables converge to the notebook |
| `content_short_lists` | 2 pages in 1 of 2 sections, 3 edits, 2 faults, short lists | types; nothing that is still in OneNote is deleted; content never goes back |
| `content_missed` | 2 pages, 2 edits, 1 short list | a violation: a short list loses an edit for good |
| `content_sectionless` | 2 pages, 1 edit, no fault, fair | a violation: the last section's rows are never deleted |
| `services` | each of the eight service modules, and `ContentOverlap`, on its own | the properties of the table below |

| Module | Property of `services` | Shows |
|---|---|---|
| `ContentOverlap` | `MissedOnlyIfHarmed` | overlapping runs lose an edit only where an overtaken one deletes or overwrites, or a list is short |
| `GraphBudget` | `BudgetInUseIsKept` | eviction never gives a connection two windows, cooldowns or semaphores at once |
| | `ReleasesArePaced` | requests are a spacing apart, also across an eviction, so no minute is overrun |
| | `HourOverrunIsTwofold` | an hour is overrun by eviction, at most twofold |
| | `CooldownIsHonoured` | nothing is sent before the end of any cooldown set, by whichever call |
| | `NeverOversleeps` | a computed wait is never longer than needed |
| `GraphPaging` | `QuietListIsExact`, `CompleteMissesOnlyUnderSwap`, `RepeatsOnlyUnderGrowth` | what the count can and cannot vouch for |
| `PageContent` | `FreshPagesKeepTheirText` | which text a FRESH page has whatever failed, and which it loses though nothing did |
| `MicrosoftToken` | `DisconnectIsFinal`, `StaleWritesNeedAnOverlap` | no write outlives a disconnect, whatever logins follow; a stale one needs a run under way at the login |
| `LoginFlow` | `UsedFlowIsGone`, `IdentitiesAreNeverShared`, `UsersKeepTheirId` | a used flow does not come back; stable ids under rollback and overlap |
| `McpServer` | `RevocationIsFinal`, `AnswersStayInScope`, `HandlesNameTheirText` | scope and handles under concurrent toggles, revocations and syncs |
| `SnippetSelection` | `SnippetsAreDisjoint`, `AnswerIsWhatMatched`, `BudgetIsAccounted`, `OverrunIsOneAbsorption` | what the loop keeps of the matches, and its budget, for every ranking |
| `Dashboard` | `PageAtRestIsCurrent` | no flip, rollback or overtaken GET leaves a wrong badge |

Why these bounds suffice to be interesting: two jobs let a discovery and a
content job meet, or a content job and its successor; three let a finished
job, a running one and a new one of the same notebook coexist. Two attempts
distinguish a retry from the last try. One crash lets each recovery happen
once, against everything else. Two notebooks are what a fan-out needs to
insert more than one row. When all job ids are used, producers stop, which the
job bound causes and the program would not do; the properties say nothing that
needs a further job. In `ContentSync` two pages let one be listed, fetched or
failed while the other is not, in one section (a short page list) or in two (a
short section list, a plan between two commits); three edits let a page be
edited before, during and after a run; two faults let a run break off after an
earlier one left something FAILED or unlisted. Runs are not bounded. `Symmetry` is used in the runs without liveness only.

In `services` a behaviour is one of a single module (`part`): they share no
state, and interleaving them would only multiply their states. Its `Symmetry`
permutes calls, callbacks, codes, people, rows and runs all at once, which halves the
larger modules and costs one comparison a state. Two calls with a
permit for one, windows of two requests and a clock past the hour let a call be
throttled while another sleeps, is queued or holds the permit, and let a budget be
evicted and made anew; `SYNC_GRAPH_BUDGET_EVICT_INTERVAL_S` is 0, so that any
call may evict. Two pages of two members, with three changes, let a member leave
one page and another enter. Pages of 18 and 9 characters with windows widened up to 6
let a window be widened twice and lie between two others; the shorter page has 12
characters when lowered, so that windows lie past its end, and a term of 5 makes
a lone window of 7. Two states, two codes, two people and two callbacks are what
a reload, two uses of one flow and two overlapping first logins need, and three ids what two rollbacks do. Two runs and three logins let a run
overlap with one login and outlive another. In `McpServer` one key and two
notebooks of a page each distinguish what is in scope. Two rows, two clicks and one
outside sync let a rollback restore a snapshot that another click has outdated,
and one click fail and be served while the other is under way. All layouts of
two blocks and a PDF are initial states. Two runs, a page and two edits let a page
be edited between what one run reads and what it writes while the other goes
past it; checked once, without error, were also two runs with three edits (1.9
million states), with two pages and two edits (10.6 million) and with two
sections, and three runs with one edit (2.9 million). Without `harmed` the
property fails after 18 steps. The run is about safety and assumes no
fairness. It has no deadlock check, as lists end, clocks run to their bound and
users stop.

Fairness (`Fairness`): a worker that can boot, reap, claim or go on with its
job does so; a request handler is run to its end; backoffs and leases run
out. These are the event loop, the platform's restart policy and time. Users,
cron, Graph and Microsoft owe nothing, so `RunJob` may end by raising every
time, and a crash may always come (within `MaxCrashes`).

`ContentSync` assumes that a run goes on and that another follows it
(`WF_vars(RunStep)`): the former is the worker's loop, the latter cron, whose
discovery enqueues every enabled notebook. Edits and faults are bounded, which is
how `Converges` says "once they cease".

### Disagreements with what the repository says

1. *SYNCING is not always driven on* (`queue_stranded`). The docstring of
   `start_notebook_sync` promises that the worker drives an optimistically
   marked notebook to FRESH or FAILED. `set_sync_enabled` cancels the pending
   job and leaves the status; `disconnect` deletes the job. The frontend polls
   for as long as a notebook is SYNCING
   (`src/frontend/src/features/notebooks/api/use-notebooks.ts:20`).
2. *A duplicate click can strand a notebook* (`queue_late_mark`). The mark is
   made even when `enqueue` returned None, and the duplicate may have been
   finalised in between. No cancellation is needed.
3. *The queue is not safe with two workers whose leases lapse*
   (`queue_zombie`). The finalising UPDATEs match by id alone. With one
   worker, or while no lease lapses, `Finality` proves it cannot happen.

4. *An edit can be missed for good* (`content_missed`). The guard against short
   lists suppresses deletes only: the run still succeeds and `last_synced_at`
   moves past edits it has not seen. The next run compares with that time, so
   the page stays old, or is inserted as PENDING and never fetched. The design
   has a time per page (`src/docs/backend_plan.md:243`), which the code lacks.
5. *The last section is never pruned* (`content_sectionless`). An empty section
   list, even one Graph vouches for, makes the upsert raise, so every job of
   that notebook fails and its pages stay searchable.

Further disagreements show in what the properties of `services` allow, and have
no run of their own:

- a page is FRESH without the typed text that shares a block with a picture or
  with ink (`graph_client.py:384-399`), and is not fetched again before it changes
  (`Shadowed`);
- `auth_service.py:54` calls a flow single-use "even if expired"; the 400 of an
  expired flow is an exception, which rolls its DELETE back, so the row stays
  until the next login sweeps it. Only a login that commits uses it up, and two
  callbacks with a code each may both do so, as nobody asks how many rows the
  DELETE met (`ReadFlow`, `PopFlow`);
- the callback turns a `ValueError` into a 400, but a refused code raises
  `MSALAuthError`, which is none, so it is a 500 (`ExchangeCode`);
- a JWT leaves, and WorkOS is told, before the commit, so an id may go out that
  belongs to nobody (`IdentitiesAreNeverShared` says: and never to another);
- `search_service.py:523` calls the text of a dropped candidate "already on its
  way out"; the part of it outside the window it meets is not (`AbsorbCandidate`);
- `search_service.py:49-52` calls `MAX_SNIPPET_CHARS` a ceiling and
  `scripts/smoke_mcp.py:178` asserts that no snippet exceeds it; only absorbing
  looks at it, so a lone window around a term of more than 200 characters does
  (`TakeCandidate`);
- a match found past the end of `content`, in `content.lower()`, takes a slot and
  answers with no text, and does so again for the next such match (`WindowAt`);
- the dashboard misses a toggle that commits after the list was read again, and
  does not reread after a failed toggle (`missed`);
- idle budgets are evicted after 30 minutes and their hour's log with them, so
  the hourly quota is met by half a log (`HourOverrunIsTwofold`);
- a run under way during a login may put the old cache under the new login
  or flag it NEEDS_REAUTH (`StaleWritesNeedAnOverlap`);
- a run that another has overtaken may put an older version of a page over a newer
  one, or delete a page that was added meanwhile, and the other then moves
  `last_synced_at` past it (`MissedOnlyIfHarmed`).

The other way round, `src/plans/sync-stale-delete-data-loss.md:94` asks that an
empty list never delete anything; the code does delete a section's pages when the
empty list is confirmed by a count of 0, and `KeepsLivePages` shows that this is
safe as far as the count can be trusted.

## What is proved

The theorems of the queue hold for every set of notebooks, jobs, workers and
requests and every positive `MaxAttempts` (`QueueAssumption`, which has the
workers finite in number, as processes are); those of the content sync for every set of sections and pages and all bounds
(`ContentAssumption`), and of overlapping ones for any set of runs besides
(`OverlapAssumption`); those of the services for all values of their constants
that the `ASSUME` of the module admits. These assumptions relate limits of the
code to each other where a proof needs it: in `BudgetAssumption` a spacing and a
cooldown are within the time after which an idle budget is evicted.
`PagingAssumption` has Graph name no member of a resting collection
twice.

A condition that a single theorem needs is a hypothesis of that theorem, and
stands in the last column. `~LeaseMayLapse` and `~ShortLists` are the choice of
the runs that check these properties; the other choice is what
`queue_zombie` and `content_missed` find them to fail under. `HourQuota` needs
that the idle times before two evictions do not fit within an hour:
`SYNC_GRAPH_BUDGET_IDLE_EVICT_S` is half an hour by default (`app/core/config.py:40`),
which is just enough; the theorem says nothing of a smaller setting.

| Theorem | Statement | Assumes |
|---|---|---|
| `TypeCorrect` | `Spec => []TypeOK` | |
| `OneActive` | `Spec => []OneActiveJobPerNotebook` | |
| `Exclusion` | `Spec => []ExecutionIsExclusive` | `~LeaseMayLapse` |
| `Budget` | `Spec => []RetryBudget` | `~LeaseMayLapse` |
| `Finality` | `Spec => TerminalIsFinal` | `~LeaseMayLapse` |
| `RunsExclude` | `Spec => []OneRunPerNotebook` | `~LeaseMayLapse` |
| `Stranding` | `Spec => StrandedOnlyByLoss` | `~LeaseMayLapse` |
| `OverrunBound` | `Spec => []OverrunIsBounded` | |
| `Refinement` | `Spec => ImplementsJobQueue` | `~LeaseMayLapse` |
| `ContentTypeCorrect` | `Spec => []TypeOK` | |
| `LivePagesKept` | `Spec => KeepsLivePages` | |
| `ServedContentAdvances` | `Spec => ContentOnlyAdvances` | |
| `NoEditMissed` | `Spec => []NothingMissed` | `~ShortLists` |
| `OverlapTypes` | `OverlapSpec => []OverlapTypeOK` | |
| `MissedEditsHarmed` | `OverlapSpec => []MissedOnlyIfHarmed` | |
| `AloneMissesNothing` | `OverlapSpec => []NothingOverlooked` | `~MayOmit`, `[]NoneOvertaken` |
| `BudgetsInUseKept` | `BudgetSpec => []BudgetInUseIsKept` | |
| `PacedReleases` | `BudgetSpec => ReleasesArePaced` | |
| `CooldownsHonoured` | `BudgetSpec => CooldownIsHonoured` | |
| `BudgetTypes` | `BudgetSpec => []BudgetTypeOK` | |
| `Punctual` | `BudgetSpec => []NeverOversleeps` | |
| `HourQuota` | `BudgetSpec => []HourOverrunIsTwofold` | `2 * IdleEvict >= Hour` |
| `PageTypeCorrect` | `PageSpec => []PageTypeOK` | |
| `FreshTextKept` | `PageSpec => []FreshPagesKeepTheirText` | |
| `PagingTypes` | `PagingSpec => []PagingTypeOK` | |
| `QuietLists` | `PagingSpec => []QuietListIsExact` | |
| `CompleteLists` | `PagingSpec => []CompleteMissesOnlyUnderSwap` | |
| `UnrepeatedLists` | `PagingSpec => []RepeatsOnlyUnderGrowth` | |
| `TokenTypeCorrect` | `TokenSpec => []TokenTypeOK` | |
| `OnlyOverlapsGoStale` | `TokenSpec => []StaleWritesNeedAnOverlap` | |
| `DisconnectKept` | `TokenSpec => []DisconnectIsFinal` | |
| `LoginTypeCorrect` | `LoginSpec => []LoginTypeOK` | |
| `UsedFlowsGone` | `LoginSpec => []UsedFlowIsGone` | |
| `IdentitiesUnshared` | `LoginSpec => []IdentitiesAreNeverShared` | |
| `UserIdsKept` | `LoginSpec => UsersKeepTheirId` | |
| `DashboardTypes` | `DashboardSpec => []DashboardTypeOK` | |
| `PageAtRest` | `DashboardSpec => []PageAtRestIsCurrent` | |
| `SnippetTypeCorrect` | `SnippetSpec => []SnippetTypeOK` | |
| `SnippetsApart` | `SnippetSpec => []SnippetsAreDisjoint` | |
| `AnswerKept` | `SnippetSpec => []AnswerIsWhatMatched` | |
| `OverrunIsSmall` | `SnippetSpec => []OverrunIsOneAbsorption` | |
| `BudgetAccounted` | `SnippetSpec => []BudgetIsAccounted` | |
| `McpTypeCorrect` | `McpSpec => []McpTypeOK` | |
| `RevocationKept` | `McpSpec => RevocationIsFinal` | |
| `ScopeKept` | `McpSpec => []AnswersStayInScope` | |
| `HandlesKept` | `McpSpec => []HandlesNameTheirText` | |
| `PartsKeepTheirSpecs` | `ServicesSpec => BudgetSpec /\ ... /\ OverlapSpec` | |
| `ServicesTypes` | `ServicesSpec => []ServicesTypeOK` | |

The argument. `OneActiveJobPerNotebook` is inductive together with the types:
an insert checks the index, a reschedule is rejected by it, and every other
step can only make active rows fewer (`DistinctKept`).

`ExecutionIsExclusive` alone is not inductive: a reap could requeue a job under
its executor. `ClaimIsLeased` adds that the row of a job in execution, unless
deleted, has a lease that stands, and that the job is a row at all; a reap
takes expired leases only. To keep the step proofs small, `StepShape` first
shows once, action by action, that a step does to a row one of eight things
(`RowStep`) and to a worker one of three (`WorkerStep`), and that one worker
moves at a time. Exclusion, budget and finality then follow from these shapes,
without looking at an action again: a worker that releases its job holds a row
that is RUNNING on the attempt it remembers, so its retry decision is about
the row's own count (`Budget`), and the row it finalises is not yet final
(`Finality`).

`StrandedOnlyByLoss` speaks of a notebook, and a worker finalises a job by what
it remembers of its target, so `TargetInv` adds to exclusion that the row, unless
deleted, still has the target that its worker took from it, and that a worker
about to list or fan out has no notebook to strand. The step proof then asks of
each action only when it can make a notebook SYNCING (`MarkedSyncing`) or take
its last active job away.

`OneRunPerNotebook` takes exclusion from jobs to notebooks: what two workers run for
one notebook are two active rows with its id as target, unless one is deleted, and
`OneActive` allows one. Nothing weaker would do: without the exception TLC finds the
disconnect of `ContentOverlap` in nine steps.

`OverrunIsBounded` drops exclusion, since leases may lapse, and counts instead.
A worker can send a job back only if its own copy of the count is below
`MaxAttempts` (`Hopeful`), and a claim that takes the row past the budget has a
count that makes nobody hopeful. So once the budget is used up, the claims made,
the claim that a PENDING row is still good for (`Waiting`) and the hopeful
workers together are at most `MaxAttempts` and the other workers (`Overrun`):
each further claim is paid for by a hopeful worker that gave up its hope. The
property alone is not inductive, as it says nothing of who may still requeue.

The refinement maps a row to what it promises (`AbstractJob`: a key, a phase and
the attempts) and a worker to the job it has in execution. `JobQueue` knows no
table, lease, timer, request or notebook, so most of the work is to show that an
action changes nothing of what is mapped (`QuietStep`). For the others, one lemma
states each abstract step in the terms of the mapping (`SubmitStep`, `StartStep`,
`RetryStep`, ...) and one shows that the concrete action has that shape
(`EnqueueSubmits`, `ClaimStarts`, `RescheduleRetries`, ...). A reap and a disconnect
touch many rows at once, hence the abstract steps over sets of jobs. `BudgetInv`
is needed twice: `JobQueue` starts only jobs with budget left, while a claim does
not look at the count; and it retries by the job's own count, while the code
goes by the worker's copy of it.

`LivePagesKept` rests on `GoneInv`: whatever has a row has existed in OneNote, so
when a complete list leaves it out it can only be deleted, and ids do not come
back. `ServedContentAdvances` rests on `ContentInv`: a fetched version waiting for
the apply lock is never older than the row, and no content newer than its page.

`NothingMissed` speaks of the times between runs and is not inductive within
one. `MissInv` follows a page that has not been edited since the run began
through the run (`Covered`): it is in a section still to be listed, or listed
with its present time; its section is still to be planned, or it is `Settled`,
that is current, FAILED, queued, or fetched and not yet applied. A page edited
since the run began needs nothing, because `last_synced_at` will only move to
that beginning (`TimesInv`, `Fetched`). `~ShortLists` is used in two places, the
two list actions, which is exactly where `content_missed` breaks it.

`MissedOnlyIfHarmed` has no moment at which nothing runs, and no run whose
beginning `last_synced_at` is sure to be at: a run may compare with the time
another wrote after it began, and write a time before it. `OverlapInv` makes
every run answer for every page (`AllCovered`): a page that nothing has harmed, and
whose last edit is in the past of a run, or of the time it compares with, is safe or
is `OnTheWay` in that run. Two things keep this true under the steps of others. A
run may take away what another relies on, a row or its content, only if it
holds an outdated list or version; `HoldsCurrent` says that it is outdated only by
an edit since that run began. Such an edit is due to all (`DueToAll`) if the run
was not overtaken, because then it began last and nothing was called synced later
(`LastBegun`); and if it was overtaken, the step counts as harm. `AloneMissesNothing`
closes the circle: while nobody is overtaken and lists are whole nothing is harmed,
so what `NoEditMissed` says of one run at a time holds in this finer model too.

The services. `BudgetInv` says of the pacing why eviction is harmless. `active`
is the number of calls that hold the budget (`Counted`), so an evicted one is
held by nobody; and when it goes, it takes no request younger than the spacing
and no deadline that is still ahead with it (`Remembered`, `Deferred`), because
no spacing and no cooldown outlasts the idle time that eviction waits for.
`BudgetsInUseKept`, `PacedReleases` and `CooldownsHonoured` read off what a request
holds, remembers and waits for.

`NeverOversleeps` compares a sleep with the budget as it is at each moment of
it, which other requests have changed meanwhile. `Sleepers` says why that is
harmless: a sleep has a `Reason` in the budget (the pause, the last request, or as
many requests as a window holds, none of which leaves before the sleep ends), and
whatever a request does to the budget keeps what a reason rests on (`Kept`: the
pause only moves on, and a time leaves the log only when its hour is over). The
converse, that a computed wait is no longer than its reason, is `WaitHasReason`.

`HourOverrunIsTwofold` counts over the log of everything sent, which outlives
the budgets. A request `Opens` a budget when every earlier one is longer ago than
`IdleEvict`; `LastUse` shows that a budget's first request is such a one, and
`HourLogged` that what was sent since is in the window of the present budget, as
long as its hour lasts. So (`QuotaKept`) every request has an opening before it
such that the hour up to it holds at most `PerHour` requests from that opening
on. What is left of the hour before that opening is older than `IdleEvict`,
and ends in a request that has an opening of its own with at most `PerHour`
after it; a third would lie twice `IdleEvict` back, which is out of the hour.

`PagingInv` follows a listing from page to page under three suppositions, one for
each property. If nothing was edited, what is listed is the collection up to the
skip (`QuietSoFar`). If nothing was lost or moved, every member that was there is
listed or still behind the skip (`GrownSoFar`), since members only shift towards
the end. If nothing was gained or moved, nothing is listed twice, nothing behind the
skip is listed yet, and the first count is still an upper bound for the members
listed and present together (`ShrunkSoFar`); so a list as long as the count
misses nothing. The step proofs rest on lemmas about what an insertion and a
removal do to a sequence without repetitions (`InsertedAt`, `RemovedAt`, ...).

`PageInv` carries the typed text from the parse to the row: no later step, and
no failure of one, takes a piece away.

`TokenInv` says that, unless a run was under way at a login, every run that read
the present connection knows its newest cache (`Informed`). `DisconnectInv` says
that a run which holds the present row's id also has a cache of a login since that
row was made, and, once denied, that Microsoft refuses that login
(`RunIsOfTheRow`). A run of an earlier row keeps an earlier id, and no id comes back:
`TokenShape` has none that a run remembers still to be given out.

`Traced` says that every row, code, callback and sign-in is of a state that was
begun; a
new flow takes a state that was not, so none comes back (`UsedFlowsGone`).
`Identified` collects everything that claims an id for a person (the row, a
callback that wrote it, a token that left): all claims of an id name one person
and the sequence is past them, and of two callbacks of one person the second
waits for the lock of the first.

`PageAtRestIsCurrent` is about a page that waits for nothing, and `PageIsFollowed`
about one that does: as long as the cached rows, or those a GET has read, are
behind the server's for another reason than an outside change, an answer is
still `Awaited` that will fetch the rows again, or the read failed. "Behind" leaves
out the status SYNCING (`UpToDate`), because that one keeps the page polling.

`SnippetInv` says that the windows end in their pages (`Placed`), are `Apart`, and that
equal ones differ in their copy, so that one taken is always new. A candidate
that meets none is apart from all, and one that is absorbed widens its window
only if no other window of the page is met by the result. For `AnswerKept`:
windows that meet have text, with no gap between them, so the widened one
has the text of both and no other (`WidenedText`). `BudgetIsAccounted`
equates `used_chars` with a sum over a set, which is a recursive definition. The
library's induction theorems cannot be used here, so its lemmas are proved by the
smallest set that would refute them (`Smallest`): that the recursion defines a
function (`SumsExist`), and that the sum loses the cost of whichever element is
taken out (`CharsWithout`).

`ScopeInv` follows what a request may show from the row it looked up to the
answer. `seen`, what was switched on since the request began, only grows; a
key's scope never changes (`KeysStep`), so the row read at the start still
speaks for it at the end. A handle's text needs only the types, since the
revision is compared in the statement that cuts the text.

`MCServices` moves one part in a step and leaves the others alone
(`PartsMoveAlone`), so a behaviour of it is one of every part
(`PartsKeepTheirSpecs`), and each theorem about a part, stated over its own
specification, holds of the composition that the run checks; `ServicesTypes` is the
first to be drawn from it.

Only model-checked is liveness (`JobsSettle`, `SyncingSettles`, `Converges`): fairness
and ENABLED are out of the prover's reach.

The five runs that expect a violation refute; there is nothing to prove there.

## Plan

Done: the queue with its refinement, the content sync alone and overlapping, the
services, their checks, and the theorems above. What is left would be to run
`ContentOverlap` inside the workers of `SyncQueue`. `RunsExclude` and
`AloneMissesNothing` meet at the word "overtaken", but that a worker's run is in
progress exactly while its job is in execution is read off the code and not
proved. The other open point is durations: that the idle transaction of the
section upsert may be ended by Postgres on every attempt
(`sync_service.py:343`) is a fault here, which may come or not.

## Not modelled

- migrations and scripts: they run by hand and hold no logic of the service;
- the start of the web application, its configuration and its routes' wiring;
- the ranking of a search (BM25 scores, fuzzy matching, Unicode folding): no
  property here depends on the order of the windows, which is why
  `SnippetSelection` takes them in any;
- the extraction itself: HTML to text, InkML to strokes, PDF to pages, OCR. What
  is modelled is which piece reaches which stage and what an error does to it;
- the frontend outside the notebook page, and there the filters and the paging;
- of `--run-inline`, the `force` mode, which fetches every page whatever its time,
  and the run of all notebooks (`_sync_connection`), which compares with the
  `last_synced_at` it read when it listed them, an earlier one than the run of a
  single notebook that `ContentOverlap` models (`sync_single_notebook`).

## Running

    tlc -workers 2 -config QueueTwoWorkers.cfg MCSyncQueue.tla
    tlapm SyncQueueProofs.tla
    tlapm SyncQueueRefinement.tla
    tlc -workers 2 -config ContentExact.cfg MCContentSync.tla
    tlapm ContentSyncProofs.tla
    tlapm ContentOverlapProofs.tla
    tlc -workers 2 -config Services.cfg MCServices.tla
    tlapm GraphBudgetProofs.tla
    tlapm GraphReadingProofs.tla
    tlapm WebAppProofs.tla
    tlapm ServicesProofs.tla
