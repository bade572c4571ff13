------------------------------ MODULE SyncQueue ------------------------------
(***************************************************************************)
(* The durable sync-job queue of one user's Microsoft connection: the      *)
(* sync_jobs table, the sync_status and sync_enabled columns of notebooks, *)
(* the producers that enqueue (the web routes, cron and the CLI) and the   *)
(* workers that claim, run, heartbeat, finalise and reap                   *)
(* (sync/worker.py, sync/run.py, app/repositories/sync_job_repository.py,  *)
(* app/services/notebook_service.py).                                      *)
(*                                                                         *)
(* One action is one database transaction.  Where a handler reads in one   *)
(* statement and writes in a later one, and another transaction may commit *)
(* in between (READ COMMITTED), the handler is split and what it read is   *)
(* kept in `request` or `worker`.                                          *)
(*                                                                         *)
(* Time is abstracted: `due` is next_run_at <= now(), `lease` is where     *)
(* lease_expires_at stands against now(), `created` orders created_at.     *)
(***************************************************************************)
EXTENDS Integers, FiniteSets

CONSTANTS
  Notebooks,      (* database ids of notebooks; a deleted id is never reused  *)
  Jobs,           (* ids of sync_jobs rows: bounds how many are ever enqueued *)
  Workers,        (* worker processes (the deployment intends exactly one)    *)
  Requests,       (* concurrent POST /notebooks/{id}/sync handlers            *)
  NoNotebook,     (* a NULL notebook_id: the job is a DISCOVERY               *)
  NoJob,          (* a worker that has claimed nothing                        *)
  MaxAttempts,    (* settings.SYNC_JOB_MAX_ATTEMPTS                           *)
  MaxCrashes,     (* bound: how often worker processes die                    *)
  LeaseMayLapse   (* may a lease expire under a live worker, that is, may its *)
                  (* heartbeats fail for SYNC_JOB_LEASE_S on end?             *)

ASSUME QueueAssumption ==
  /\ NoNotebook \notin Notebooks
  /\ NoJob \notin Jobs
  /\ MaxAttempts \in Nat \ {0}
  /\ MaxCrashes \in Nat
  /\ LeaseMayLapse \in BOOLEAN
  /\ IsFiniteSet(Workers)

VARIABLES
  syncStatus,     (* notebooks.sync_status, or "undiscovered" or "deleted"    *)
  syncEnabled,    (* notebooks.sync_enabled                                   *)
  connection,     (* the status of the user's microsoft_connections row       *)
  jobs,           (* the sync_jobs table                                      *)
  clock,          (* logical time: how many jobs have been enqueued           *)
  request,        (* the web sync handlers in flight                          *)
  worker,         (* the worker processes                                     *)
  crashes         (* how many worker deaths there have been                   *)

notebookVars == <<syncStatus, syncEnabled, connection>>
queueVars == <<jobs, clock>>
vars == <<notebookVars, queueVars, request, worker, crashes>>

----------------------------------------------------------------------------
(* The tables *)

NotebookSyncStatus == {"PENDING", "SYNCING", "FRESH", "FAILED"}
SyncJobStatus == {"PENDING", "RUNNING", "SUCCEEDED", "FAILED", "CANCELLED"}
ActiveStatuses == {"PENDING", "RUNNING"}
TerminalStatuses == {"SUCCEEDED", "FAILED", "CANCELLED"}
ConnectionStatus == {"ACTIVE", "NEEDS_REAUTH", "none"}
AutoPriority == 0
ManualPriority == 100
Targets == Notebooks \cup {NoNotebook}

SyncJob ==
  [status : SyncJobStatus \cup {"unused", "deleted"}, target : Targets,
   priority : {AutoPriority, ManualPriority}, attempts : Nat,
   due : BOOLEAN, lease : {"none", "held", "expired"}, created : Nat]

BlankJob(status) ==
  [status |-> status, target |-> NoNotebook, priority |-> AutoPriority,
   attempts |-> 0, due |-> FALSE, lease |-> "none", created |-> 0]

LowercaseJob(t, priority, created) ==
  [status |-> "pending", target |-> t, priority |-> priority,
   attempts |-> 0, due |-> TRUE, lease |-> "none", created |-> created]

NewJob(t, priority, created) ==
  [status |-> "PENDING", target |-> t, priority |-> priority,
   attempts |-> 0, due |-> TRUE, lease |-> "none", created |-> created]

Exists(n) == syncStatus[n] \in NotebookSyncStatus
Stored(j) == jobs[j].status \in SyncJobStatus
Active(j) == jobs[j].status \in ActiveStatuses

\* The predicate of the partial unique indexes.
HasPendingJob(t) == \E j \in Jobs : jobs[j].status = "PENDING" /\ jobs[j].target = t
HasActiveJob(t) == \E j \in Jobs : Active(j) /\ jobs[j].target = t

\* UPDATE notebooks SET sync_status: no row is touched when the notebook is gone.
SetStatus(n, status) ==
  syncStatus' = IF n \in Notebooks /\ Exists(n)
                THEN [syncStatus EXCEPT ![n] = status] ELSE syncStatus

\* UPDATE sync_jobs ... WHERE id = j, whatever the row's status; a deleted row stays so.
Finalise(j, status) ==
  jobs' = IF Stored(j)
          THEN [jobs EXCEPT ![j].status = status, ![j].lease = "none"] ELSE jobs

\* The INSERT ... ON CONFLICT DO NOTHING of one job, in a transaction that began when
\* the clock showed `created`.
Enqueue(t, priority, created) ==
  IF HasActiveJob(t)
  THEN UNCHANGED queueVars
  ELSE \E j \in Jobs :
         /\ jobs[j].status = "unused"
         /\ jobs' = [jobs EXCEPT ![j] = NewJob(t, priority, created)]
         /\ clock' = clock + 1

----------------------------------------------------------------------------
(* Discovery: upsert the notebooks Graph listed, delete the rest if the list is  *)
(* complete.  A deleted notebook takes its jobs with it (ON DELETE CASCADE).     *)

Discover(listed, complete) ==
  LET gone == IF complete THEN {n \in Notebooks \ listed : Exists(n)} ELSE {}
  IN /\ listed # {}   \* an upsert of no rows is an INSERT the table rejects
     /\ \A n \in listed : syncStatus[n] # "deleted"
     /\ syncStatus' = [n \in Notebooks |->
                         IF n \in gone THEN "deleted"
                         ELSE IF n \in listed /\ ~Exists(n) THEN "PENDING"
                         ELSE syncStatus[n]]
     /\ syncEnabled' = [n \in Notebooks |-> syncEnabled[n] /\ n \notin gone]
     /\ jobs' = [j \in Jobs |-> IF Stored(j) /\ jobs[j].target \in gone
                                THEN BlankJob("deleted") ELSE jobs[j]]

----------------------------------------------------------------------------
(* The web application *)

NoRequest == [pc |-> "idle", notebook |-> NoNotebook, created |-> 0, stale |-> FALSE]

\* Login callback, after the login that created the user: the connection row is
\* inserted again, or set ACTIVE again.
Connect ==
  /\ connection # "ACTIVE"
  /\ connection' = "ACTIVE"
  /\ UNCHANGED <<syncStatus, syncEnabled, queueVars, request, worker, crashes>>

\* DELETE of the connection row, which cascades to every job; the id a sync handler
\* has read no longer satisfies the foreign key.
Disconnect ==
  /\ connection # "none"
  /\ connection' = "none"
  /\ jobs' = [j \in Jobs |-> IF Stored(j) THEN BlankJob("deleted") ELSE jobs[j]]
  /\ request' = [r \in Requests |-> [request[r] EXCEPT !.stale = request[r].pc = "read"]]
  /\ UNCHANGED <<syncStatus, syncEnabled, clock, worker, crashes>>

\* POST /notebooks/refresh: discovery inside the web process, when Graph has answered.
\* The connection was ACTIVE when the request began and may be anything by now.
RefreshNotebooks ==
  /\ \E listed \in SUBSET Notebooks, complete \in BOOLEAN : Discover(listed, complete)
  /\ UNCHANGED <<connection, clock, request, worker, crashes>>

\* A token request that Microsoft refuses, made by the refresh route.
RefreshRefused ==
  /\ connection = "ACTIVE"
  /\ connection' = "NEEDS_REAUTH"
  /\ UNCHANGED <<syncStatus, syncEnabled, queueVars, request, worker, crashes>>

\* cancel_pending_for_notebook leaves a running job alone.
AnyActive(j) == jobs[j].status \in ActiveStatuses
Cancellable(j) == jobs[j].status = "PENDING"

\* PATCH /notebooks/{id}: set_sync_enabled.
SetSyncEnabled(n, enabled) ==
  /\ Exists(n)
  /\ syncEnabled' = [syncEnabled EXCEPT ![n] = enabled]
  /\ jobs' = [j \in Jobs |->
                IF ~enabled /\ Cancellable(j) /\ jobs[j].target = n
                THEN [jobs[j] EXCEPT !.status = "CANCELLED"] ELSE jobs[j]]
  /\ UNCHANGED <<syncStatus, connection, clock, request, worker, crashes>>

\* POST /notebooks/{id}/sync, its reads: 404, 409 not enabled, 409 no connection.
StartSyncRead(r, n) ==
  /\ request[r].pc = "idle"
  /\ Exists(n)
  /\ syncEnabled[n]
  /\ connection = "ACTIVE"
  /\ request' = [request EXCEPT ![r] =
                   [pc |-> "read", notebook |-> n, created |-> clock, stale |-> FALSE]]
  /\ UNCHANGED <<notebookVars, queueVars, worker, crashes>>

\* Its INSERT.  A duplicate is noticed at once and the request goes on to mark the
\* notebook; a row that is inserted becomes visible with that mark, at the commit.
StartSyncEnqueue(r) ==
  LET n == request[r].notebook IN
  /\ request[r].pc = "read"
  /\ \/ /\ HasActiveJob(n)
        /\ request' = [request EXCEPT ![r].pc = "deduped", ![r].stale = FALSE]
        /\ UNCHANGED <<syncStatus, queueVars>>
     \/ /\ ~HasActiveJob(n)
        /\ Exists(n) /\ ~request[r].stale
        /\ Enqueue(n, ManualPriority, request[r].created)
        /\ SetStatus(n, "SYNCING")
        /\ request' = [request EXCEPT ![r] = NoRequest]
     \/ /\ ~HasActiveJob(n)
        /\ ~Exists(n) \/ request[r].stale   \* foreign key violation: rolled back
        /\ request' = [request EXCEPT ![r] = NoRequest]
        /\ UNCHANGED <<syncStatus, queueVars>>
  /\ UNCHANGED <<syncEnabled, connection, worker, crashes>>

\* Its UPDATE of the notebook after an INSERT that found a duplicate.
StartSyncMark(r) ==
  /\ request[r].pc = "deduped"
  /\ SetStatus(request[r].notebook, "SYNCING")
  /\ request' = [request EXCEPT ![r] = NoRequest]
  /\ UNCHANGED <<syncEnabled, connection, queueVars, worker, crashes>>

----------------------------------------------------------------------------
(* Cron and the command line: python -m sync.run [--notebook-id N] *)

CronEnqueue ==
  /\ connection = "ACTIVE"
  /\ Enqueue(NoNotebook, AutoPriority, clock)
  /\ UNCHANGED <<notebookVars, request, worker, crashes>>

CliEnqueue(n) ==
  /\ Exists(n)
  /\ connection # "none"
  /\ Enqueue(n, AutoPriority, clock)
  /\ UNCHANGED <<notebookVars, request, worker, crashes>>

----------------------------------------------------------------------------
(* Workers *)

Executing == {"claimed", "cancelling", "authorizing", "syncing", "listing", "fanout",
              "failing"}

Resting(pc) ==
  [pc |-> pc, job |-> NoJob, target |-> NoNotebook, attempts |-> 0, seen |-> {}]

Goto(w, pc) == worker' = [worker EXCEPT ![w].pc = pc]
BackToPoll(w) == worker' = [worker EXCEPT ![w] = Resting("poll")]
Holds(w, j) == worker[w].pc \in Executing /\ worker[w].job = j

\* The retry budget of a job that has been claimed so many times is used up.
SpentLate(attempts) == attempts > MaxAttempts
Spent(attempts) == attempts >= MaxAttempts

RunningIsExpired(j) == jobs[j].status = "RUNNING"
NeverExpired(j) == FALSE
Expired(j) == jobs[j].status = "RUNNING" /\ jobs[j].lease = "expired"

NoReconciliation(n) == FALSE
FailedByReap(n) ==
  \E j \in Jobs : Expired(j) /\ Spent(jobs[j].attempts) /\ jobs[j].target = n

\* reap_expired, and the reconciliation of the notebooks whose jobs it fails.
Reap ==
  /\ jobs' = [j \in Jobs |->
                IF ~Expired(j) THEN jobs[j]
                ELSE IF Spent(jobs[j].attempts)
                THEN [jobs[j] EXCEPT !.status = "FAILED", !.lease = "none"]
                ELSE [jobs[j] EXCEPT !.status = "PENDING", !.due = TRUE, !.lease = "none"]]
  /\ syncStatus' = [n \in Notebooks |->
                      IF Exists(n) /\ FailedByReap(n) THEN "FAILED" ELSE syncStatus[n]]

\* The process starts: startup recovery, then the loop.
Boot(w) ==
  /\ worker[w].pc = "down"
  /\ Reap
  /\ BackToPoll(w)
  /\ UNCHANGED <<syncEnabled, connection, clock, request, crashes>>

\* SYNC_REAPER_INTERVAL_S has passed; only ever between two jobs.
PeriodicReap(w) ==
  /\ worker[w].pc = "poll"
  /\ Reap
  /\ UNCHANGED <<syncEnabled, connection, clock, request, worker, crashes>>

ClaimsRunning(j) == Active(j) /\ jobs[j].due
Claimable(j) == jobs[j].status = "PENDING" /\ jobs[j].due

\* ORDER BY priority DESC, created_at.
ClaimedBefore(i, j) ==
  \/ jobs[i].priority > jobs[j].priority
  \/ jobs[i].priority = jobs[j].priority /\ jobs[i].created <= jobs[j].created

Claim(w) ==
  /\ worker[w].pc = "poll"
  /\ \E j \in Jobs :
       /\ Claimable(j)
       /\ \A i \in Jobs : Claimable(i) => ClaimedBefore(j, i)
       /\ jobs' = [jobs EXCEPT ![j].status = "RUNNING", ![j].attempts = @ + 1,
                               ![j].lease = "held"]
       /\ worker' = [worker EXCEPT ![w] =
                       [pc |-> "claimed", job |-> j, target |-> jobs[j].target,
                        attempts |-> jobs[j].attempts + 1, seen |-> {}]]
  /\ UNCHANGED <<notebookVars, clock, request, crashes>>

\* _heartbeat_loop: refreshes the lease of a job that is RUNNING, whoever claimed it.
Heartbeat(w) ==
  /\ worker[w].pc \in Executing
  /\ jobs[worker[w].job].status = "RUNNING"
  /\ jobs' = [jobs EXCEPT ![worker[w].job].lease = "held"]
  /\ UNCHANGED <<notebookVars, clock, request, worker, crashes>>

\* _run_notebook_content, the check that the notebook can be synced, and its refusal.
StartContent(w) ==
  LET n == worker[w].target IN
  /\ worker[w].pc = "claimed"
  /\ n # NoNotebook
  /\ \/ /\ Exists(n) /\ syncEnabled[n]
        /\ SetStatus(n, "SYNCING")
        /\ Goto(w, "authorizing")
     \/ /\ ~(Exists(n) /\ syncEnabled[n])
        /\ Goto(w, "cancelling")
        /\ UNCHANGED syncStatus
  /\ UNCHANGED <<syncEnabled, connection, queueVars, request, crashes>>

CancelJob(w) ==
  /\ worker[w].pc = "cancelling"
  /\ Finalise(worker[w].job, "CANCELLED")
  /\ BackToPoll(w)
  /\ UNCHANGED <<notebookVars, clock, request, crashes>>

\* sync_notebook_content reads the connection and acquires a token, or raises; it does
\* nothing at all for a notebook that is gone.
Authorize(w) ==
  /\ worker[w].pc = "authorizing"
  /\ Exists(worker[w].target) => connection # "none"
  /\ Goto(w, "syncing")
  /\ UNCHANGED <<notebookVars, queueVars, request, crashes>>

\* discover_notebooks does so for the job's own connection, and wants it ACTIVE.
AuthorizeDiscovery(w) ==
  /\ worker[w].pc = "claimed"
  /\ worker[w].target = NoNotebook
  /\ connection = "ACTIVE" /\ Stored(worker[w].job)
  /\ Goto(w, "listing")
  /\ UNCHANGED <<notebookVars, queueVars, request, crashes>>

\* Microsoft refuses the token: the connection is flagged and the job fails.
TokenRefused(w) ==
  /\ \/ worker[w].pc = "authorizing" /\ connection # "none"
     \/ /\ worker[w].pc = "claimed" /\ worker[w].target = NoNotebook
        /\ connection = "ACTIVE" /\ Stored(worker[w].job)
  /\ connection' = "NEEDS_REAUTH"
  /\ Goto(w, "failing")
  /\ UNCHANGED <<syncStatus, syncEnabled, queueVars, request, crashes>>

\* FRESH and SUCCEEDED are committed together.
SyncSucceeds(w) ==
  /\ worker[w].pc = "syncing"
  /\ SetStatus(worker[w].target, "FRESH")
  /\ Finalise(worker[w].job, "SUCCEEDED")
  /\ BackToPoll(w)
  /\ UNCHANGED <<syncEnabled, connection, clock, request, crashes>>

\* _run_discovery, first transaction: the notebook list.  `seen` is what it remembers.
DiscoverList(w) ==
  /\ worker[w].pc = "listing"
  /\ \E listed \in SUBSET Notebooks, complete \in BOOLEAN :
       /\ Discover(listed, complete)
       /\ worker' = [worker EXCEPT ![w].pc = "fanout",
                                   ![w].seen = {n \in listed : syncEnabled[n]}]
  /\ UNCHANGED <<connection, clock, request, crashes>>

\* Second transaction: one content job per enabled notebook that has none active, and
\* the discovery job SUCCEEDED.  A notebook or a connection deleted since makes an
\* INSERT violate its foreign key, which JobRaises covers.
FanOut(w) ==
  LET wanted == {n \in worker[w].seen : ~HasActiveJob(n)}
      d == worker[w].job
  IN /\ worker[w].pc = "fanout"
     /\ wanted # {} => Stored(d)
     /\ \A n \in wanted : Exists(n)
     /\ \E row \in [wanted -> {j \in Jobs : jobs[j].status = "unused"}] :
          /\ \A m, n \in wanted : row[m] = row[n] => m = n
          /\ jobs' = [j \in Jobs |->
                        IF \E n \in wanted : row[n] = j
                        THEN NewJob(CHOOSE n \in wanted : row[n] = j, AutoPriority, clock)
                        ELSE IF j = d /\ Stored(d)
                        THEN [jobs[j] EXCEPT !.status = "SUCCEEDED", !.lease = "none"]
                        ELSE jobs[j]]
     /\ clock' = IF wanted = {} THEN clock ELSE clock + 1
     /\ BackToPoll(w)
     /\ UNCHANGED <<notebookVars, request, crashes>>

\* An exception on the way: Graph, OCR, the database, a missing connection.
JobRaises(w) ==
  /\ worker[w].pc \in Executing \ {"failing"}
  /\ Goto(w, "failing")
  /\ UNCHANGED <<notebookVars, queueVars, request, crashes>>

\* _fail_or_retry, on the attempts the claim returned: the budget is spent.
FailJob(w) ==
  /\ worker[w].pc = "failing"
  /\ Spent(worker[w].attempts)
  /\ Finalise(worker[w].job, "FAILED")
  /\ SetStatus(worker[w].target, "FAILED")
  /\ BackToPoll(w)
  /\ UNCHANGED <<syncEnabled, connection, clock, request, crashes>>

NoConflict(j) == FALSE

\* Would an UPDATE that makes job j active violate the partial unique index?
IndexConflict(j) ==
  /\ Stored(j)
  /\ \E i \in Jobs \ {j} : Active(i) /\ jobs[i].target = jobs[j].target

\* _fail_or_retry with attempts left: PENDING again after a backoff.
Reschedule(w) ==
  LET j == worker[w].job IN
  /\ worker[w].pc = "failing"
  /\ ~Spent(worker[w].attempts)
  /\ ~IndexConflict(j)
  /\ jobs' = IF Stored(j)
             THEN [jobs EXCEPT ![j].status = "PENDING", ![j].due = FALSE, ![j].lease = "none"]
             ELSE jobs
  /\ BackToPoll(w)
  /\ UNCHANGED <<notebookVars, clock, request, crashes>>

\* The rescheduled row collides with a newer active job of its notebook: the exception
\* leaves _execute's own handler and ends the worker process.
RescheduleRejected(w) ==
  /\ worker[w].pc = "failing"
  /\ ~Spent(worker[w].attempts)
  /\ IndexConflict(worker[w].job)
  /\ worker' = [worker EXCEPT ![w] = Resting("down")]
  /\ UNCHANGED <<notebookVars, queueVars, request, crashes>>

\* The process is killed, or stops between two jobs on a signal.
Crash(w) ==
  /\ worker[w].pc # "down"
  /\ crashes < MaxCrashes
  /\ crashes' = crashes + 1
  /\ worker' = [worker EXCEPT ![w] = Resting("down")]
  /\ UNCHANGED <<notebookVars, queueVars, request>>

----------------------------------------------------------------------------
(* Time *)

BackoffElapses(j) ==
  /\ jobs[j].status = "PENDING"
  /\ ~jobs[j].due
  /\ jobs' = [jobs EXCEPT ![j].due = TRUE]
  /\ UNCHANGED <<notebookVars, clock, request, worker, crashes>>

LeaseExpires(j) ==
  /\ jobs[j].status = "RUNNING"
  /\ jobs[j].lease = "held"
  /\ LeaseMayLapse \/ ~\E w \in Workers : Holds(w, j)
  /\ jobs' = [jobs EXCEPT ![j].lease = "expired"]
  /\ UNCHANGED <<notebookVars, clock, request, worker, crashes>>

----------------------------------------------------------------------------

\* The first login has just created the user and the connection.
Init ==
  /\ syncStatus = [n \in Notebooks |-> "undiscovered"]
  /\ syncEnabled = [n \in Notebooks |-> FALSE]
  /\ connection = "ACTIVE"
  /\ jobs = [j \in Jobs |-> BlankJob("unused")]
  /\ clock = 0
  /\ request = [r \in Requests |-> NoRequest]
  /\ worker = [w \in Workers |-> Resting("down")]
  /\ crashes = 0

User ==
  \/ Connect \/ Disconnect \/ RefreshNotebooks \/ RefreshRefused
  \/ \E n \in Notebooks, enabled \in BOOLEAN : SetSyncEnabled(n, enabled)
  \/ \E r \in Requests, n \in Notebooks : StartSyncRead(r, n)

Handler(r) == StartSyncEnqueue(r) \/ StartSyncMark(r)

Producer == CronEnqueue \/ \E n \in Notebooks : CliEnqueue(n)

RunJob(w) ==
  \/ StartContent(w) \/ CancelJob(w) \/ Authorize(w) \/ SyncSucceeds(w)
  \/ AuthorizeDiscovery(w) \/ TokenRefused(w) \/ DiscoverList(w) \/ FanOut(w) \/ JobRaises(w)
  \/ FailJob(w) \/ Reschedule(w) \/ RescheduleRejected(w)

Time == \E j \in Jobs : BackoffElapses(j) \/ LeaseExpires(j)

Next ==
  \/ User \/ Producer \/ Time
  \/ \E r \in Requests : Handler(r)
  \/ \E w \in Workers : \/ Boot(w) \/ PeriodicReap(w) \/ Claim(w) \/ Heartbeat(w)
                        \/ RunJob(w) \/ Crash(w)

Spec == Init /\ [][Next]_vars

\* The event loop keeps running a worker and a request handler, the platform restarts a
\* worker that died, and time passes.  Users, cron, Graph and Microsoft owe nothing.
Fairness ==
  /\ \A w \in Workers : /\ WF_vars(Boot(w)) /\ WF_vars(PeriodicReap(w))
                        /\ WF_vars(Claim(w)) /\ WF_vars(RunJob(w))
  /\ \A r \in Requests : WF_vars(Handler(r))
  /\ \A j \in Jobs : WF_vars(BackoffElapses(j)) /\ WF_vars(LeaseExpires(j))

FairSpec == Spec /\ Fairness

----------------------------------------------------------------------------
(* Properties *)

TypeOK ==
  /\ syncStatus \in [Notebooks -> NotebookSyncStatus \cup {"undiscovered", "deleted"}]
  /\ syncEnabled \in [Notebooks -> BOOLEAN]
  /\ connection \in ConnectionStatus
  /\ jobs \in [Jobs -> SyncJob]
  /\ clock \in Nat
  /\ request \in [Requests -> [pc : {"idle", "read", "deduped"}, notebook : Targets,
                               created : Nat, stale : BOOLEAN]]
  /\ worker \in [Workers -> [pc : Executing \cup {"down", "poll"}, job : Jobs \cup {NoJob},
                             target : Targets, attempts : Nat, seen : SUBSET Notebooks]]
  /\ crashes \in 0 .. MaxCrashes

\* At most one active job per notebook, and one active discovery: whatever click, cron,
\* CLI, fan-out, retry, reap and cancellation interleave (enqueue's dedup, models.py's
\* two partial unique indexes).
OneActiveJobPerNotebook ==
  \A i, j \in Jobs : Active(i) /\ Active(j) /\ jobs[i].target = jobs[j].target => i = j

\* A worker in the middle of a job is the only one running it: the row is RUNNING on the
\* very attempt this worker claimed, unless a cascade has deleted it.
ExecutionIsExclusive ==
  \A w \in Workers : worker[w].pc \in Executing =>
    /\ \A v \in Workers : worker[v].pc \in Executing /\ worker[v].job = worker[w].job => v = w
    /\ \/ jobs[worker[w].job].status = "deleted"
       \/ /\ jobs[worker[w].job].status = "RUNNING"
          /\ jobs[worker[w].job].attempts = worker[w].attempts

\* No job is claimed more than max_attempts times, and a job that waits still has an
\* attempt left, through crashes, reaps and retries.
RetryBudget ==
  \A j \in Jobs : /\ jobs[j].attempts <= MaxAttempts
                  /\ jobs[j].status = "PENDING" => jobs[j].attempts < MaxAttempts

\* A finished job is never put back in the queue nor finished a second time.
TerminalIsFinal ==
  [][\A j \in Jobs : jobs[j].status \in TerminalStatuses =>
       jobs'[j].status \in {jobs[j].status, "deleted"}]_vars

Syncing(n) == syncStatus[n] = "SYNCING"
Stranded(n) == Syncing(n) /\ ~HasActiveJob(n)

\* Only four things leave a notebook SYNCING with no job to drive it on: its job is
\* cancelled, its job is deleted, a duplicate click marks it late, or a worker starts a
\* job whose row is gone.  No crash, reap, failure, retry or success does (reap_expired's
\* "so a killed worker never strands a notebook in SYNCING").
StrandedOnlyByLoss ==
  [][\A n \in Notebooks : ~Stranded(n) /\ Stranded(n)' =>
       \/ \E j \in Jobs : /\ Active(j) /\ jobs[j].target = n
                          /\ jobs'[j].status \in {"CANCELLED", "deleted"}
       \/ \E r \in Requests : /\ request[r].pc = "deduped" /\ request[r].notebook = n
                              /\ request'[r].pc = "idle"
       \/ \E w \in Workers : /\ worker[w].pc = "claimed" /\ worker[w].target = n
                             /\ jobs[worker[w].job].status = "deleted"]_vars

\* Even when leases lapse under live workers, a job is claimed at most once more than
\* its budget for every further worker (_fail_or_retry goes by the attempts its own
\* claim returned).
OverrunIsBounded ==
  \A j \in Jobs : jobs[j].attempts <= MaxAttempts + Cardinality(Workers) - 1

\* Every job that is queued or running comes to an end, whatever fails and crashes.
JobsSettle == \A j \in Jobs : Active(j) ~> ~Active(j)

\* A SYNCING notebook that has a job leaves SYNCING, unless one of its jobs is
\* cancelled, or the notebook or the connection is deleted.
SyncingSettles ==
  \A n \in Notebooks :
    Syncing(n) /\ HasActiveJob(n) ~>
      \/ ~Syncing(n) \/ connection = "none"
      \/ \E j \in Jobs : jobs[j].target = n /\ jobs[j].status = "CANCELLED"

\* What start_notebook_sync promises: a notebook marked SYNCING is driven on.
SyncingIsDriven == \A n \in Notebooks : Syncing(n) ~> ~Syncing(n)

\* The same when no job of the notebook is ever cancelled and no job ever deleted: only
\* clicks, job runs and crashes are left to blame.
ClickedSyncIsDriven ==
  \A n \in Notebooks :
    Syncing(n) ~>
      \/ ~Syncing(n) \/ connection # "ACTIVE"
      \/ \E j \in Jobs : \/ jobs[j].status = "deleted"
                         \/ jobs[j].target = n /\ jobs[j].status = "CANCELLED"

----------------------------------------------------------------------------
(* Refinement: leases, timers, notebooks and requests forgotten, this is a JobQueue *)

AbstractJob(j) ==
  CASE jobs[j].status = "unused" -> [phase |-> "new"]
    [] jobs[j].status = "PENDING" ->
         [phase |-> "queued", key |-> jobs[j].target, tries |-> jobs[j].attempts]
    [] jobs[j].status = "RUNNING" ->
         [phase |-> "running", key |-> jobs[j].target, tries |-> jobs[j].attempts]
    [] OTHER -> [phase |-> "done"]

Abstract == INSTANCE JobQueue WITH
  Keys <- Targets,
  job <- [j \in Jobs |-> AbstractJob(j)],
  executing <- [w \in Workers |-> IF worker[w].pc \in Executing THEN worker[w].job ELSE NoJob]

\* The table, the leases and the reaper implement an exclusive queue with a retry
\* budget, as long as no lease lapses under a live worker.
ImplementsJobQueue == Abstract!QueueSpec

=============================================================================
