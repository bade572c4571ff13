--------------------------- MODULE SyncQueueProofs ---------------------------
(***************************************************************************)
(* Safety of SyncQueue for every set of notebooks, jobs, workers and       *)
(* requests and every retry budget: what a step may do to a row and to a   *)
(* worker, with type correctness; at most one active job per notebook      *)
(* always, and a bounded overrun of the budget; exclusive execution, the   *)
(* retry budget, the finality of finished jobs and what may strand a       *)
(* notebook as long as no lease lapses under a live worker.                *)
(***************************************************************************)
EXTENDS SyncQueue, FiniteSetTheorems, TLAPS

----------------------------------------------------------------------------
(* Type correctness *)

\* The rows the model writes are rows of the table.
LEMMA RowsAreTyped ==
  ASSUME NEW t \in Targets, NEW p \in {AutoPriority, ManualPriority}, NEW c \in Nat
  PROVE  /\ NewJob(t, p, c) \in SyncJob
         /\ BlankJob("unused") \in SyncJob /\ BlankJob("deleted") \in SyncJob
  BY DEF NewJob, BlankJob, SyncJob, SyncJobStatus, Targets

LEMMA TypeInit == Init => TypeOK
  BY QueueAssumption, SMT
  DEF Init, TypeOK, BlankJob, SyncJob, SyncJobStatus, Targets, NoRequest, Resting,
      ConnectionStatus, NotebookSyncStatus, Executing, AutoPriority, ManualPriority

LEMMA DiscoverTyped ==
  ASSUME TypeOK, NEW listed \in SUBSET Notebooks, NEW complete \in BOOLEAN,
         Discover(listed, complete)
  PROVE  /\ syncStatus' \in [Notebooks -> NotebookSyncStatus \cup {"undiscovered", "deleted"}]
         /\ syncEnabled' \in [Notebooks -> BOOLEAN]
         /\ jobs' \in [Jobs -> SyncJob]
<1> BlankJob("deleted") \in SyncJob
  BY DEF BlankJob, SyncJob, Targets
<1> QED
  BY DEF TypeOK, Discover, NotebookSyncStatus

LEMMA EnqueueTyped ==
  ASSUME TypeOK, NEW t \in Targets, NEW p \in {AutoPriority, ManualPriority}, NEW c \in Nat,
         Enqueue(t, p, c)
  PROVE  jobs' \in [Jobs -> SyncJob] /\ clock' \in Nat
<1> NewJob(t, p, c) \in SyncJob
  BY RowsAreTyped
<1> QED
  BY DEF TypeOK, Enqueue, queueVars

LEMMA SetStatusTyped ==
  ASSUME TypeOK, NEW n, NEW s \in NotebookSyncStatus, SetStatus(n, s)
  PROVE  syncStatus' \in [Notebooks -> NotebookSyncStatus \cup {"undiscovered", "deleted"}]
  BY DEF TypeOK, SetStatus

\* What is left of a row after an UPDATE of some of its columns is a row.
LEMMA UpdatedRowsAreTyped ==
  ASSUME NEW r \in SyncJob, NEW s \in SyncJobStatus, NEW d \in BOOLEAN,
         NEW a \in Nat, NEW l \in {"none", "held", "expired"}
  PROVE  /\ [r EXCEPT !.status = s] \in SyncJob
         /\ [r EXCEPT !.lease = l] \in SyncJob
         /\ [r EXCEPT !.due = d] \in SyncJob
         /\ [r EXCEPT !.status = s, !.lease = l] \in SyncJob
         /\ [r EXCEPT !.status = s, !.due = d, !.lease = l] \in SyncJob
         /\ [r EXCEPT !.status = s, !.attempts = a, !.lease = l] \in SyncJob
<1>1. [r EXCEPT !.status = s] \in SyncJob
  BY DEF SyncJob
<1>2. [r EXCEPT !.lease = l] \in SyncJob
  BY DEF SyncJob
<1>3. [r EXCEPT !.due = d] \in SyncJob
  BY DEF SyncJob
<1>4. [r EXCEPT !.status = s, !.lease = l] \in SyncJob
  BY DEF SyncJob
<1>5. [r EXCEPT !.status = s, !.due = d, !.lease = l] \in SyncJob
  BY DEF SyncJob
<1>6. [r EXCEPT !.status = s, !.attempts = a, !.lease = l] \in SyncJob
  BY DEF SyncJob
<1> QED
  BY <1>1, <1>2, <1>3, <1>4, <1>5, <1>6

\* Finalise in terms of the whole row.
LEMMA FinaliseRow ==
  ASSUME TypeOK, NEW j \in Jobs \cup {NoJob}, NEW s \in TerminalStatuses,
         Finalise(j, s), NEW i \in Jobs
  PROVE  jobs'[i] = IF i = j /\ Stored(j)
                    THEN [jobs[i] EXCEPT !.status = s, !.lease = "none"] ELSE jobs[i]
  BY QueueAssumption DEF TypeOK, Finalise, SyncJob

LEMMA FinaliseTyped ==
  ASSUME TypeOK, NEW j \in Jobs \cup {NoJob}, NEW s \in TerminalStatuses, Finalise(j, s)
  PROVE  jobs' \in [Jobs -> SyncJob]
<1>1. jobs' = [i \in Jobs |-> jobs'[i]]
  BY DEF TypeOK, Finalise
<1>2. ASSUME NEW i \in Jobs PROVE jobs'[i] \in SyncJob
  <2>1. jobs[i] \in SyncJob /\ s \in SyncJobStatus
    BY DEF TypeOK, TerminalStatuses, SyncJobStatus
  <2>2. [jobs[i] EXCEPT !.status = s, !.lease = "none"] \in SyncJob
    BY <2>1, UpdatedRowsAreTyped
  <2> QED
    BY <2>1, <2>2, FinaliseRow
<1> QED
  BY <1>1, <1>2

LEMMA RestingTyped ==
  ASSUME NEW pc \in {"down", "poll"}
  PROVE  Resting(pc) \in [pc : Executing \cup {"down", "poll"}, job : Jobs \cup {NoJob},
                          target : Targets, attempts : Nat, seen : SUBSET Notebooks]
  BY DEF Resting, Targets, Executing

LEMMA ReapTyped ==
  ASSUME TypeOK, Reap
  PROVE  /\ jobs' \in [Jobs -> SyncJob]
         /\ syncStatus' \in [Notebooks -> NotebookSyncStatus \cup {"undiscovered", "deleted"}]
<1>1. ASSUME NEW r \in SyncJob
      PROVE  /\ [r EXCEPT !.status = "FAILED", !.lease = "none"] \in SyncJob
             /\ [r EXCEPT !.status = "PENDING", !.due = TRUE, !.lease = "none"] \in SyncJob
  BY DEF SyncJob, SyncJobStatus
<1> QED
  BY <1>1 DEF Reap, TypeOK, NotebookSyncStatus

\* What a fan-out does to one row.
LEMMA FanOutRow ==
  ASSUME NEW w \in Workers, FanOut(w), NEW j \in Jobs
  PROVE  \/ /\ jobs[j].status = "unused"
            /\ \E n \in worker[w].seen : /\ ~HasActiveJob(n)
                                         /\ jobs'[j] = NewJob(n, AutoPriority, clock)
         \/ /\ j = worker[w].job /\ Stored(j)
            /\ jobs'[j] = [jobs[j] EXCEPT !.status = "SUCCEEDED", !.lease = "none"]
         \/ jobs'[j] = jobs[j]
<1> DEFINE wanted == {n \in worker[w].seen : ~HasActiveJob(n)}
           d == worker[w].job
<1>1. PICK row \in [wanted -> {i \in Jobs : jobs[i].status = "unused"}] :
        jobs' = [i \in Jobs |->
                   IF \E n \in wanted : row[n] = i
                   THEN NewJob(CHOOSE n \in wanted : row[n] = i, AutoPriority, clock)
                   ELSE IF i = d /\ Stored(d)
                   THEN [jobs[i] EXCEPT !.status = "SUCCEEDED", !.lease = "none"]
                   ELSE jobs[i]]
  BY DEF FanOut
<1>2. CASE \E n \in wanted : row[n] = j
  <2>1. (CHOOSE n \in wanted : row[n] = j) \in wanted
    BY <1>2
  <2>2. jobs[j].status = "unused"
    BY <1>2
  <2> QED
    BY <1>1, <1>2, <2>1, <2>2
<1>3. CASE ~\E n \in wanted : row[n] = j
  BY <1>1, <1>3
<1> QED
  BY <1>2, <1>3

LEMMA FanOutTyped ==
  ASSUME TypeOK, NEW w \in Workers, FanOut(w)
  PROVE  TypeOK'
<1>1. ASSUME NEW j \in Jobs PROVE jobs'[j] \in SyncJob
  <2>1. jobs[j] \in SyncJob
    BY DEF TypeOK
  <2>2. [jobs[j] EXCEPT !.status = "SUCCEEDED", !.lease = "none"] \in SyncJob
    BY <2>1, UpdatedRowsAreTyped DEF SyncJobStatus
  <2>3. \A n \in worker[w].seen : NewJob(n, AutoPriority, clock) \in SyncJob
    BY RowsAreTyped DEF TypeOK, Targets
  <2> QED
    BY <2>1, <2>2, <2>3, FanOutRow
<1>2. jobs' = [j \in Jobs |-> jobs'[j]]
  BY DEF FanOut
<1>3. clock' \in Nat
  <2>1. clock' = clock \/ clock' = clock + 1
    BY DEF FanOut
  <2> QED
    BY <2>1 DEF TypeOK
<1> QED
  BY <1>1, <1>2, <1>3, RestingTyped DEF FanOut, BackToPoll, TypeOK, notebookVars

\* Every action keeps the types of the queue's columns.
LEMMA TypeStep == TypeOK /\ [Next]_vars => TypeOK'
<1> SUFFICES ASSUME TypeOK, [Next]_vars PROVE TypeOK'
  OBVIOUS
<1> USE QueueAssumption
<1>1. CASE Connect
  BY <1>1 DEF Connect, TypeOK, queueVars, ConnectionStatus
<1>2. CASE Disconnect
  <2>1. BlankJob("deleted") \in SyncJob
    BY DEF BlankJob, SyncJob, Targets
  <2> QED
    BY <1>2, <2>1 DEF Disconnect, TypeOK, ConnectionStatus
<1>3. CASE RefreshNotebooks
  BY <1>3, DiscoverTyped DEF RefreshNotebooks, TypeOK
<1>4. CASE RefreshRefused
  BY <1>4 DEF RefreshRefused, TypeOK, queueVars, ConnectionStatus
<1>5. ASSUME NEW n \in Notebooks, NEW enabled \in BOOLEAN, SetSyncEnabled(n, enabled)
      PROVE  TypeOK'
  <2>1. \A j \in Jobs : [jobs[j] EXCEPT !.status = "CANCELLED"] \in SyncJob
    BY DEF TypeOK, SyncJob, SyncJobStatus
  <2> QED
    BY <1>5, <2>1 DEF SetSyncEnabled, TypeOK
<1>6. ASSUME NEW r \in Requests, NEW n \in Notebooks, StartSyncRead(r, n)
      PROVE  TypeOK'
  BY <1>6 DEF StartSyncRead, TypeOK, notebookVars, queueVars, Targets
<1>7. ASSUME NEW r \in Requests, StartSyncEnqueue(r)
      PROVE  TypeOK'
  <2>1. NoRequest \in [pc : {"idle", "read", "deduped"}, notebook : Targets,
                       created : Nat, stale : BOOLEAN]
    BY DEF NoRequest, Targets
  <2>2. CASE HasActiveJob(request[r].notebook)
    BY <1>7, <2>2 DEF StartSyncEnqueue, TypeOK, queueVars
  <2>3. CASE ~HasActiveJob(request[r].notebook) /\ Exists(request[r].notebook)
             /\ ~request[r].stale
    <3>1. request[r].notebook \in Targets /\ request[r].created \in Nat
      BY DEF TypeOK
    <3>2. jobs' \in [Jobs -> SyncJob] /\ clock' \in Nat
      BY <1>7, <2>3, <3>1, EnqueueTyped DEF StartSyncEnqueue
    <3>3. syncStatus' \in [Notebooks -> NotebookSyncStatus \cup {"undiscovered", "deleted"}]
      BY <1>7, <2>3, SetStatusTyped DEF StartSyncEnqueue, NotebookSyncStatus
    <3> QED
      BY <1>7, <2>1, <2>3, <3>2, <3>3 DEF StartSyncEnqueue, TypeOK
  <2>4. CASE ~HasActiveJob(request[r].notebook)
             /\ (~Exists(request[r].notebook) \/ request[r].stale)
    BY <1>7, <2>1, <2>4 DEF StartSyncEnqueue, TypeOK, queueVars
  <2> QED
    BY <2>2, <2>3, <2>4
<1>8. ASSUME NEW r \in Requests, StartSyncMark(r)
      PROVE  TypeOK'
  <2>1. NoRequest \in [pc : {"idle", "read", "deduped"}, notebook : Targets,
                       created : Nat, stale : BOOLEAN]
    BY DEF NoRequest, Targets
  <2>2. syncStatus' \in [Notebooks -> NotebookSyncStatus \cup {"undiscovered", "deleted"}]
    BY <1>8, SetStatusTyped DEF StartSyncMark, NotebookSyncStatus
  <2> QED
    BY <1>8, <2>1, <2>2 DEF StartSyncMark, TypeOK, queueVars
<1>9. CASE CronEnqueue
  BY <1>9, EnqueueTyped DEF CronEnqueue, TypeOK, notebookVars, Targets
<1>10. ASSUME NEW n \in Notebooks, CliEnqueue(n)
       PROVE  TypeOK'
  BY <1>10, EnqueueTyped DEF CliEnqueue, TypeOK, notebookVars, Targets
<1>11. ASSUME NEW w \in Workers, Boot(w) \/ PeriodicReap(w)
       PROVE  TypeOK'
  <2>1. Reap /\ UNCHANGED <<syncEnabled, connection, clock, request, crashes>>
    BY <1>11 DEF Boot, PeriodicReap
  <2>2. jobs' \in [Jobs -> SyncJob]
    BY <2>1, ReapTyped
  <2>3. syncStatus' \in [Notebooks -> NotebookSyncStatus \cup {"undiscovered", "deleted"}]
    BY <2>1, ReapTyped
  <2>4. worker' = worker \/ worker' = [worker EXCEPT ![w] = Resting("poll")]
    BY <1>11 DEF Boot, PeriodicReap, BackToPoll
  <2> QED
    BY <2>1, <2>2, <2>3, <2>4, RestingTyped DEF TypeOK
<1>12. ASSUME NEW w \in Workers, Claim(w)
       PROVE  TypeOK'
  <2>1. PICK j \in Jobs :
          /\ jobs' = [jobs EXCEPT ![j].status = "RUNNING", ![j].attempts = @ + 1,
                                  ![j].lease = "held"]
          /\ worker' = [worker EXCEPT ![w] =
                          [pc |-> "claimed", job |-> j, target |-> jobs[j].target,
                           attempts |-> jobs[j].attempts + 1, seen |-> {}]]
    BY <1>12 DEF Claim
  <2>2. jobs[j] \in SyncJob /\ jobs[j].attempts + 1 \in Nat /\ jobs[j].target \in Targets
    BY DEF TypeOK, SyncJob
  <2>3. [pc |-> "claimed", job |-> j, target |-> jobs[j].target,
         attempts |-> jobs[j].attempts + 1, seen |-> {}] \in
          [pc : Executing \cup {"down", "poll"}, job : Jobs \cup {NoJob},
           target : Targets, attempts : Nat, seen : SUBSET Notebooks]
    BY <2>2 DEF Executing
  <2>4. jobs' = [jobs EXCEPT ![j] = [jobs[j] EXCEPT !.status = "RUNNING",
                              !.attempts = jobs[j].attempts + 1, !.lease = "held"]]
    BY <2>1, <2>2 DEF TypeOK, SyncJob
  <2>5. jobs' \in [Jobs -> SyncJob]
    BY <2>2, <2>4, UpdatedRowsAreTyped DEF TypeOK, SyncJobStatus
  <2> QED
    BY <1>12, <2>1, <2>3, <2>5 DEF Claim, TypeOK, notebookVars
<1>13. ASSUME NEW w \in Workers, Heartbeat(w)
       PROVE  TypeOK'
  <2>1. ASSUME NEW i \in Jobs PROVE [jobs[i] EXCEPT !.lease = "held"] \in SyncJob
    BY DEF TypeOK, SyncJob
  <2>2. jobs' \in [Jobs -> SyncJob]
    BY <1>13, <2>1 DEF Heartbeat, TypeOK
  <2> QED
    BY <1>13, <2>2 DEF Heartbeat, TypeOK, notebookVars
<1>14. ASSUME NEW w \in Workers, StartContent(w)
       PROVE  TypeOK'
  <2>1. syncStatus' \in [Notebooks -> NotebookSyncStatus \cup {"undiscovered", "deleted"}]
    BY <1>14, SetStatusTyped DEF StartContent, NotebookSyncStatus, TypeOK
  <2>2. worker' \in [Workers -> [pc : Executing \cup {"down", "poll"},
                                job : Jobs \cup {NoJob}, target : Targets,
                                attempts : Nat, seen : SUBSET Notebooks]]
    BY <1>14 DEF StartContent, Goto, TypeOK, Executing
  <2>3. UNCHANGED <<syncEnabled, connection, queueVars, request, crashes>>
    BY <1>14 DEF StartContent
  <2> QED
    BY <2>1, <2>2, <2>3 DEF TypeOK, queueVars
<1>15. ASSUME NEW w \in Workers, CancelJob(w) \/ SyncSucceeds(w) \/ FailJob(w)
       PROVE  TypeOK'
  <2>1. worker[w].job \in Jobs \cup {NoJob}
    BY DEF TypeOK
  <2>2. PICK s \in TerminalStatuses : Finalise(worker[w].job, s)
    BY <1>15 DEF CancelJob, SyncSucceeds, FailJob, TerminalStatuses
  <2>3. jobs' \in [Jobs -> SyncJob]
    BY <2>1, <2>2, FinaliseTyped
  <2>4. syncStatus' \in [Notebooks -> NotebookSyncStatus \cup {"undiscovered", "deleted"}]
    BY <1>15, SetStatusTyped
    DEF CancelJob, SyncSucceeds, FailJob, NotebookSyncStatus, notebookVars, TypeOK
  <2> QED
    BY <1>15, <2>3, <2>4, RestingTyped
    DEF CancelJob, SyncSucceeds, FailJob, BackToPoll, TypeOK, notebookVars
<1>16. ASSUME NEW w \in Workers, Authorize(w) \/ AuthorizeDiscovery(w)
                               \/ TokenRefused(w) \/ JobRaises(w)
       PROVE  TypeOK'
  <2>1. worker' \in [Workers -> [pc : Executing \cup {"down", "poll"},
                                job : Jobs \cup {NoJob}, target : Targets,
                                attempts : Nat, seen : SUBSET Notebooks]]
    <3>1. PICK pc \in Executing : Goto(w, pc)
      BY <1>16 DEF Authorize, AuthorizeDiscovery, TokenRefused, JobRaises, Executing
    <3> QED BY <3>1 DEF Goto, TypeOK
  <2>2. connection' \in ConnectionStatus
    BY <1>16 DEF Authorize, AuthorizeDiscovery, TokenRefused, JobRaises, TypeOK, ConnectionStatus,
                 notebookVars
  <2>3. UNCHANGED <<syncStatus, syncEnabled, queueVars, request, crashes>>
    BY <1>16 DEF Authorize, AuthorizeDiscovery, TokenRefused, JobRaises, notebookVars
  <2> QED
    BY <2>1, <2>2, <2>3 DEF TypeOK, queueVars
<1>17. ASSUME NEW w \in Workers, DiscoverList(w)
       PROVE  TypeOK'
  <2>1. PICK listed \in SUBSET Notebooks, complete \in BOOLEAN :
          /\ Discover(listed, complete)
          /\ worker' = [worker EXCEPT ![w].pc = "fanout",
                                      ![w].seen = {n \in listed : syncEnabled[n]}]
    BY <1>17 DEF DiscoverList
  <2>2. worker' \in [Workers -> [pc : Executing \cup {"down", "poll"}, job : Jobs \cup {NoJob},
                             target : Targets, attempts : Nat, seen : SUBSET Notebooks]]
    BY <2>1 DEF TypeOK, Executing
  <2>3. /\ syncStatus' \in [Notebooks -> NotebookSyncStatus \cup {"undiscovered", "deleted"}]
        /\ syncEnabled' \in [Notebooks -> BOOLEAN]
        /\ jobs' \in [Jobs -> SyncJob]
    BY <2>1, DiscoverTyped
  <2>4. UNCHANGED <<connection, clock, request, crashes>>
    BY <1>17 DEF DiscoverList
  <2> QED
    BY <2>2, <2>3, <2>4 DEF TypeOK
<1>18. ASSUME NEW w \in Workers, FanOut(w)
       PROVE  TypeOK'
  BY <1>18, FanOutTyped
<1>19. ASSUME NEW w \in Workers, Reschedule(w)
       PROVE  TypeOK'
  <2>1. ASSUME NEW i \in Jobs
        PROVE  [jobs[i] EXCEPT !.status = "PENDING", !.due = FALSE, !.lease = "none"] \in SyncJob
    <3>1. jobs[i] \in SyncJob
      BY DEF TypeOK
    <3> QED
      BY <3>1, UpdatedRowsAreTyped DEF SyncJobStatus
  <2>2. jobs' \in [Jobs -> SyncJob]
    BY <1>19, <2>1 DEF Reschedule, TypeOK
  <2> QED
    BY <1>19, <2>2, RestingTyped DEF Reschedule, BackToPoll, TypeOK, notebookVars
<1>20. ASSUME NEW w \in Workers, RescheduleRejected(w) \/ Crash(w)
       PROVE  TypeOK'
  BY <1>20, RestingTyped DEF RescheduleRejected, Crash, TypeOK, notebookVars, queueVars
<1>21. ASSUME NEW j \in Jobs, BackoffElapses(j) \/ LeaseExpires(j)
       PROVE  TypeOK'
  <2>1. ASSUME NEW i \in Jobs
        PROVE  /\ [jobs[i] EXCEPT !.due = TRUE] \in SyncJob
               /\ [jobs[i] EXCEPT !.lease = "expired"] \in SyncJob
    <3>1. jobs[i] \in SyncJob
      BY DEF TypeOK
    <3> QED
      BY <3>1 DEF SyncJob
  <2>2. jobs' \in [Jobs -> SyncJob]
    BY <1>21, <2>1 DEF BackoffElapses, LeaseExpires, TypeOK
  <2> QED
    BY <1>21, <2>2 DEF BackoffElapses, LeaseExpires, TypeOK, notebookVars
<1>22. CASE UNCHANGED vars
  BY <1>22 DEF vars, notebookVars, queueVars, TypeOK
<1> QED
  BY <1>1, <1>2, <1>3, <1>4, <1>5, <1>6, <1>7, <1>8, <1>9, <1>10, <1>11, <1>12, <1>13,
     <1>14, <1>15, <1>16, <1>17, <1>18, <1>19, <1>20, <1>21, <1>22
  DEF Next, User, Producer, Handler, RunJob, Time

\* Every row, status, request and worker keeps the type its table column or Python
\* variable has, whatever the producers, the workers and the reaper do.
THEOREM TypeCorrect == Spec => []TypeOK
  BY TypeInit, TypeStep, PTL DEF Spec

----------------------------------------------------------------------------
(* What a step may do to the row of a job.  Each of these is one kind of step, *)
(* told by status, attempts and lease alone.                                   *)

Untouched(j) ==
  /\ jobs'[j].status = jobs[j].status
  /\ jobs'[j].attempts = jobs[j].attempts
  /\ jobs'[j].lease \in {jobs[j].lease, "held"}

LeaseLost(j) ==
  /\ jobs[j].status = "RUNNING" /\ jobs'[j].status = "RUNNING"
  /\ jobs'[j].attempts = jobs[j].attempts
  /\ LeaseMayLapse \/ ~\E w \in Workers : Holds(w, j)

Created(j) ==
  jobs[j].status = "unused" /\ jobs'[j].status = "PENDING" /\ jobs'[j].attempts = 0

Deleted(j) == jobs'[j].status = "deleted" /\ jobs'[j].attempts = 0

Withdrawn(j) ==
  /\ jobs[j].status = "PENDING" /\ jobs'[j].status = "CANCELLED"
  /\ jobs'[j].attempts = jobs[j].attempts

Recovered(j) ==
  /\ Expired(j)
  /\ jobs'[j].attempts = jobs[j].attempts
  /\ \/ jobs'[j].status = "FAILED"
     \/ jobs'[j].status = "PENDING" /\ ~Spent(jobs[j].attempts)

ClaimedBy(w, j) ==
  /\ jobs[j].status = "PENDING" /\ jobs'[j].status = "RUNNING"
  /\ jobs'[j].attempts = jobs[j].attempts + 1
  /\ jobs'[j].lease = "held"
  /\ worker[w].pc = "poll"
  /\ worker'[w].pc = "claimed" /\ worker'[w].job = j
  /\ worker'[w].attempts = jobs'[j].attempts

ReleasedBy(w, j) ==
  /\ Holds(w, j) /\ worker'[w].pc \notin Executing
  /\ Stored(j)
  /\ jobs'[j].attempts = jobs[j].attempts
  /\ \/ jobs'[j].status \in TerminalStatuses
     \/ jobs'[j].status = "PENDING" /\ ~Spent(worker[w].attempts)

RowStep(j) ==
  \/ Untouched(j) \/ LeaseLost(j) \/ Created(j) \/ Deleted(j) \/ Withdrawn(j) \/ Recovered(j)
  \/ \E w \in Workers : ClaimedBy(w, j) \/ ReleasedBy(w, j)

(* What a step may do to a worker: it goes on with its job, rests, or claims one. *)
WorkerStep(w) ==
  \/ worker'[w].pc \notin Executing
  \/ /\ worker[w].pc \in Executing
     /\ worker'[w].job = worker[w].job /\ worker'[w].attempts = worker[w].attempts
  \/ \E j \in Jobs : ClaimedBy(w, j)

OneWorkerMoves ==
  \A v, w \in Workers : worker'[v] # worker[v] /\ worker'[w] # worker[w] => v = w

Shape ==
  /\ \A j \in Jobs : RowStep(j)
  /\ \A w \in Workers : WorkerStep(w)
  /\ OneWorkerMoves

----------------------------------------------------------------------------

LEMMA IdleWorkers ==
  ASSUME UNCHANGED worker
  PROVE  (\A w \in Workers : WorkerStep(w)) /\ OneWorkerMoves
  BY DEF WorkerStep, OneWorkerMoves

\* A worker that changes its pc, and nothing else of what a claim gave it.
LEMMA WorkingWorker ==
  ASSUME TypeOK, NEW w \in Workers, worker[w].pc \in Executing,
         \A v \in Workers : v # w => worker'[v] = worker[v],
         worker'[w].job = worker[w].job, worker'[w].attempts = worker[w].attempts
  PROVE  (\A v \in Workers : WorkerStep(v)) /\ OneWorkerMoves
  BY DEF WorkerStep, OneWorkerMoves

LEMMA RestingWorker ==
  ASSUME TypeOK, NEW w \in Workers, NEW pc \in {"down", "poll"},
         worker' = [worker EXCEPT ![w] = Resting(pc)]
  PROVE  /\ (\A v \in Workers : WorkerStep(v)) /\ OneWorkerMoves
         /\ worker'[w].pc \notin Executing
  BY DEF WorkerStep, OneWorkerMoves, TypeOK, Resting, Executing

LEMMA IdleRows ==
  ASSUME UNCHANGED jobs
  PROVE  \A j \in Jobs : RowStep(j)
  BY DEF RowStep, Untouched

LEMMA DiscoverRows ==
  ASSUME TypeOK, NEW listed \in SUBSET Notebooks, NEW complete \in BOOLEAN,
         Discover(listed, complete)
  PROVE  \A j \in Jobs : RowStep(j)
<1> SUFFICES ASSUME NEW j \in Jobs PROVE RowStep(j)
  OBVIOUS
<1>1. jobs'[j] = BlankJob("deleted") \/ jobs'[j] = jobs[j]
  BY DEF Discover
<1> QED
  BY <1>1 DEF RowStep, Untouched, Deleted, BlankJob

LEMMA EnqueueRows ==
  ASSUME TypeOK, NEW t, NEW p, NEW c, Enqueue(t, p, c)
  PROVE  \A j \in Jobs : RowStep(j)
<1> SUFFICES ASSUME NEW j \in Jobs PROVE RowStep(j)
  OBVIOUS
<1>1. jobs'[j] = jobs[j] \/ (jobs[j].status = "unused" /\ jobs'[j] = NewJob(t, p, c))
  BY DEF Enqueue, queueVars, TypeOK
<1> QED
  BY <1>1 DEF RowStep, Untouched, Created, NewJob

LEMMA ReapRows ==
  ASSUME TypeOK, Reap
  PROVE  \A j \in Jobs : RowStep(j)
<1> SUFFICES ASSUME NEW j \in Jobs PROVE RowStep(j)
  OBVIOUS
<1>1. jobs[j] \in SyncJob
  BY DEF TypeOK
<1>2. CASE ~Expired(j)
  BY <1>2 DEF Reap, RowStep, Untouched
<1>3. CASE Expired(j)
  BY <1>1, <1>3 DEF Reap, RowStep, Recovered, SyncJob
<1> QED
  BY <1>2, <1>3

\* A worker that finalises its job and goes back to polling.
LEMMA FinaliseShape ==
  ASSUME TypeOK, NEW w \in Workers, NEW s \in TerminalStatuses,
         worker[w].pc \in Executing, Finalise(worker[w].job, s), BackToPoll(w)
  PROVE  Shape
<1>1. /\ (\A v \in Workers : WorkerStep(v)) /\ OneWorkerMoves
      /\ worker'[w].pc \notin Executing
  BY RestingWorker DEF BackToPoll
<1>2. ASSUME NEW j \in Jobs PROVE RowStep(j)
  <2>1. worker[w].job \in Jobs \cup {NoJob} /\ jobs[j] \in SyncJob
    BY DEF TypeOK
  <2>2. jobs'[j] = IF j = worker[w].job /\ Stored(worker[w].job)
                   THEN [jobs[j] EXCEPT !.status = s, !.lease = "none"] ELSE jobs[j]
    BY <2>1, FinaliseRow
  <2>3. CASE j = worker[w].job /\ Stored(j)
    BY <1>1, <2>1, <2>2, <2>3 DEF RowStep, ReleasedBy, Holds, SyncJob
  <2>4. CASE ~(j = worker[w].job /\ Stored(j))
    BY <2>2, <2>4 DEF RowStep, Untouched
  <2> QED
    BY <2>3, <2>4
<1> QED
  BY <1>1, <1>2 DEF Shape

LEMMA ClaimShape ==
  ASSUME TypeOK, NEW w \in Workers, Claim(w)
  PROVE  Shape
<1>1. PICK j \in Jobs :
        /\ Claimable(j)
        /\ jobs' = [jobs EXCEPT ![j].status = "RUNNING", ![j].attempts = @ + 1,
                                ![j].lease = "held"]
        /\ worker' = [worker EXCEPT ![w] =
                        [pc |-> "claimed", job |-> j, target |-> jobs[j].target,
                         attempts |-> jobs[j].attempts + 1, seen |-> {}]]
  BY DEF Claim
<1>2. jobs[j] \in SyncJob
  BY DEF TypeOK
<1>3. ClaimedBy(w, j)
  BY <1>1, <1>2 DEF ClaimedBy, Claim, Claimable, TypeOK, SyncJob
<1>4. ASSUME NEW i \in Jobs, i # j PROVE Untouched(i)
  BY <1>1, <1>4 DEF Untouched, TypeOK
<1>5. \A v \in Workers : v # w => worker'[v] = worker[v]
  BY <1>1 DEF TypeOK
<1> QED
  BY <1>3, <1>4, <1>5 DEF Shape, RowStep, WorkerStep, OneWorkerMoves

LEMMA FanOutShape ==
  ASSUME TypeOK, NEW w \in Workers, FanOut(w)
  PROVE  Shape
<1>1. /\ (\A v \in Workers : WorkerStep(v)) /\ OneWorkerMoves
      /\ worker'[w].pc \notin Executing
  BY RestingWorker DEF FanOut, BackToPoll
<1>2. ASSUME NEW j \in Jobs PROVE RowStep(j)
  <2>1. jobs[j] \in SyncJob
    BY DEF TypeOK
  <2>2. \/ jobs[j].status = "unused" /\ \E n : jobs'[j] = NewJob(n, AutoPriority, clock)
        \/ /\ j = worker[w].job /\ Stored(j)
           /\ jobs'[j] = [jobs[j] EXCEPT !.status = "SUCCEEDED", !.lease = "none"]
        \/ jobs'[j] = jobs[j]
    BY FanOutRow
  <2>3. worker[w].pc \in Executing
    BY DEF FanOut, Executing
  <2>4. CASE jobs[j].status = "unused" /\ \E n : jobs'[j] = NewJob(n, AutoPriority, clock)
    BY <2>4 DEF RowStep, Created, NewJob
  <2>5. CASE /\ j = worker[w].job /\ Stored(j)
             /\ jobs'[j] = [jobs[j] EXCEPT !.status = "SUCCEEDED", !.lease = "none"]
    <3>1. jobs'[j].status = "SUCCEEDED" /\ jobs'[j].attempts = jobs[j].attempts
      BY <2>1, <2>5 DEF SyncJob
    <3> QED
      BY <1>1, <2>3, <2>5, <3>1 DEF RowStep, ReleasedBy, Holds, TerminalStatuses
  <2>6. CASE jobs'[j] = jobs[j]
    BY <2>6 DEF RowStep, Untouched
  <2> QED
    BY <2>2, <2>4, <2>5, <2>6
<1> QED
  BY <1>1, <1>2 DEF Shape

LEMMA RescheduleShape ==
  ASSUME TypeOK, NEW w \in Workers, Reschedule(w)
  PROVE  Shape
<1>1. /\ (\A v \in Workers : WorkerStep(v)) /\ OneWorkerMoves
      /\ worker'[w].pc \notin Executing
  BY RestingWorker DEF Reschedule, BackToPoll
<1>2. ASSUME NEW j \in Jobs PROVE RowStep(j)
  <2>1. jobs[j] \in SyncJob
    BY DEF TypeOK
  <2>2. CASE j = worker[w].job /\ Stored(j)
    <3>1. /\ jobs'[j].status = "PENDING" /\ jobs'[j].attempts = jobs[j].attempts
      BY <2>1, <2>2 DEF Reschedule, TypeOK, SyncJob
    <3> QED
      BY <1>1, <2>2, <3>1 DEF RowStep, ReleasedBy, Holds, Reschedule, Executing
  <2>3. CASE ~(j = worker[w].job /\ Stored(j))
    BY <2>3 DEF Reschedule, TypeOK, RowStep, Untouched
  <2> QED
    BY <2>2, <2>3
<1> QED
  BY <1>1, <1>2 DEF Shape

\* Whatever a step does to a row or a worker is one of the kinds above.
LEMMA StepShape == TypeOK /\ [Next]_vars => Shape
<1> SUFFICES ASSUME TypeOK, [Next]_vars PROVE Shape
  OBVIOUS
<1>1. CASE Connect \/ RefreshRefused \/ UNCHANGED vars
  BY <1>1, IdleRows, IdleWorkers DEF Connect, RefreshRefused, vars, queueVars, Shape
<1>2. CASE Disconnect
  <2>1. ASSUME NEW j \in Jobs PROVE RowStep(j)
    BY <1>2 DEF Disconnect, RowStep, Untouched, Deleted, BlankJob
  <2> QED
    BY <1>2, <2>1, IdleWorkers DEF Disconnect, Shape
<1>3. CASE RefreshNotebooks
  BY <1>3, DiscoverRows, IdleWorkers DEF RefreshNotebooks, Shape
<1>4. ASSUME NEW n \in Notebooks, NEW enabled \in BOOLEAN, SetSyncEnabled(n, enabled)
      PROVE  Shape
  <2>1. ASSUME NEW j \in Jobs PROVE RowStep(j)
    <3>1. jobs[j] \in SyncJob
      BY DEF TypeOK
    <3> QED
      BY <1>4, <3>1 DEF SetSyncEnabled, Cancellable, RowStep, Untouched, Withdrawn, SyncJob
  <2> QED
    BY <1>4, <2>1, IdleWorkers DEF SetSyncEnabled, Shape
<1>5. ASSUME NEW r \in Requests, NEW n \in Notebooks, StartSyncRead(r, n)
      PROVE  Shape
  BY <1>5, IdleRows, IdleWorkers DEF StartSyncRead, queueVars, Shape
<1>6. ASSUME NEW r \in Requests, StartSyncEnqueue(r) \/ StartSyncMark(r)
      PROVE  Shape
  <2>1. \A j \in Jobs : RowStep(j)
    BY <1>6, IdleRows, EnqueueRows DEF StartSyncEnqueue, StartSyncMark, queueVars
  <2> QED
    BY <1>6, <2>1, IdleWorkers DEF StartSyncEnqueue, StartSyncMark, Shape
<1>7. CASE Producer
  <2>1. \A j \in Jobs : RowStep(j)
    BY <1>7, EnqueueRows DEF Producer, CronEnqueue, CliEnqueue
  <2> QED
    BY <1>7, <2>1, IdleWorkers DEF Producer, CronEnqueue, CliEnqueue, Shape
<1>8. ASSUME NEW w \in Workers, Boot(w) \/ PeriodicReap(w)
      PROVE  Shape
  <2>1. \A j \in Jobs : RowStep(j)
    BY <1>8, ReapRows DEF Boot, PeriodicReap
  <2> QED
    BY <1>8, <2>1, IdleWorkers, RestingWorker DEF Boot, PeriodicReap, BackToPoll, Shape
<1>9. ASSUME NEW w \in Workers, Claim(w)
      PROVE  Shape
  BY <1>9, ClaimShape
<1>10. ASSUME NEW w \in Workers, Heartbeat(w)
       PROVE  Shape
  <2>1. ASSUME NEW j \in Jobs PROVE RowStep(j)
    <3>1. jobs[j] \in SyncJob
      BY DEF TypeOK
    <3> QED
      BY <1>10, <3>1 DEF Heartbeat, TypeOK, RowStep, Untouched, SyncJob
  <2> QED
    BY <1>10, <2>1, IdleWorkers DEF Heartbeat, Shape
<1>11. ASSUME NEW w \in Workers,
              \/ StartContent(w) \/ Authorize(w) \/ AuthorizeDiscovery(w)
              \/ TokenRefused(w) \/ JobRaises(w)
       PROVE  Shape
  <2>1. /\ worker[w].pc \in Executing
        /\ \A v \in Workers : v # w => worker'[v] = worker[v]
        /\ worker'[w].job = worker[w].job /\ worker'[w].attempts = worker[w].attempts
    BY <1>11 DEF StartContent, Authorize, AuthorizeDiscovery, TokenRefused, JobRaises, Goto,
               TypeOK, Executing
  <2>2. UNCHANGED jobs
    BY <1>11 DEF StartContent, Authorize, AuthorizeDiscovery, TokenRefused, JobRaises, queueVars
  <2> QED
    BY <2>1, <2>2, IdleRows, WorkingWorker DEF Shape
<1>12. ASSUME NEW w \in Workers, CancelJob(w) \/ SyncSucceeds(w) \/ FailJob(w)
       PROVE  Shape
  <2>1. PICK s \in TerminalStatuses : Finalise(worker[w].job, s)
    BY <1>12 DEF CancelJob, SyncSucceeds, FailJob, TerminalStatuses
  <2> QED
    BY <1>12, <2>1, FinaliseShape DEF CancelJob, SyncSucceeds, FailJob, Executing
<1>13. ASSUME NEW w \in Workers, DiscoverList(w)
       PROVE  Shape
  <2>1. /\ worker[w].pc \in Executing
        /\ \A v \in Workers : v # w => worker'[v] = worker[v]
        /\ worker'[w].job = worker[w].job /\ worker'[w].attempts = worker[w].attempts
    BY <1>13 DEF DiscoverList, TypeOK, Executing
  <2>2. \A j \in Jobs : RowStep(j)
    BY <1>13, DiscoverRows DEF DiscoverList
  <2> QED
    BY <2>1, <2>2, WorkingWorker DEF Shape
<1>14. ASSUME NEW w \in Workers, FanOut(w)
       PROVE  Shape
  BY <1>14, FanOutShape
<1>15. ASSUME NEW w \in Workers, Reschedule(w)
       PROVE  Shape
  BY <1>15, RescheduleShape
<1>16. ASSUME NEW w \in Workers, RescheduleRejected(w) \/ Crash(w)
       PROVE  Shape
  BY <1>16, IdleRows, RestingWorker DEF RescheduleRejected, Crash, queueVars, Shape
<1>17. ASSUME NEW j \in Jobs, BackoffElapses(j) \/ LeaseExpires(j)
       PROVE  Shape
  <2>1. ASSUME NEW i \in Jobs PROVE RowStep(i)
    <3>1. jobs[i] \in SyncJob
      BY DEF TypeOK
    <3>2. CASE BackoffElapses(j)
      BY <3>1, <3>2 DEF BackoffElapses, TypeOK, RowStep, Untouched, SyncJob
    <3>3. CASE LeaseExpires(j) /\ i # j
      BY <3>3 DEF LeaseExpires, TypeOK, RowStep, Untouched
    <3>4. CASE LeaseExpires(j) /\ i = j
      <4>1. jobs'[i].status = jobs[i].status /\ jobs'[i].attempts = jobs[i].attempts
        BY <3>1, <3>4 DEF LeaseExpires, TypeOK, SyncJob
      <4> QED
        BY <3>4, <4>1 DEF LeaseExpires, RowStep, LeaseLost
    <3> QED
      BY <1>17, <3>2, <3>3, <3>4
  <2> QED
    BY <1>17, <2>1, IdleWorkers DEF BackoffElapses, LeaseExpires, Shape
<1> QED
  BY <1>1, <1>2, <1>3, <1>4, <1>5, <1>6, <1>7, <1>8, <1>9, <1>10, <1>11, <1>12, <1>13,
     <1>14, <1>15, <1>16, <1>17
  DEF Next, User, Handler, RunJob, Time

----------------------------------------------------------------------------
(* What a step does to the target of a job, and of a worker *)

\* No row is ever given another notebook.
LEMMA TargetsKept ==
  ASSUME TypeOK, [Next]_vars, NEW j \in Jobs, jobs[j].status # "unused"
  PROVE  jobs'[j].status = "deleted" \/ jobs'[j].target = jobs[j].target
<1> DEFINE Kept == jobs'[j].status = "deleted" \/ jobs'[j].target = jobs[j].target
<1> SUFFICES Kept
  OBVIOUS
<1>1. jobs[j] \in SyncJob
  BY DEF TypeOK
<1>2. CASE UNCHANGED jobs
  BY <1>2
<1>3. ASSUME \/ Disconnect \/ RefreshNotebooks \/ \E w \in Workers : DiscoverList(w)
      PROVE  Kept
  <2>1. jobs'[j] = BlankJob("deleted") \/ jobs'[j] = jobs[j]
    BY <1>3 DEF Disconnect, RefreshNotebooks, DiscoverList, Discover
  <2> QED
    BY <2>1 DEF BlankJob
<1>4. ASSUME NEW t, NEW p, NEW c, Enqueue(t, p, c)
      PROVE  Kept
  BY <1>4 DEF Enqueue, queueVars, TypeOK
<1>5. ASSUME NEW n \in Notebooks, NEW enabled \in BOOLEAN, SetSyncEnabled(n, enabled)
      PROVE  Kept
  BY <1>1, <1>5 DEF SetSyncEnabled, SyncJob
<1>6. ASSUME Reap
      PROVE  Kept
  BY <1>1, <1>6 DEF Reap, SyncJob
<1>7. ASSUME NEW w \in Workers, Claim(w)
      PROVE  Kept
  <2>1. PICK i \in Jobs :
          jobs' = [jobs EXCEPT ![i].status = "RUNNING", ![i].attempts = @ + 1,
                               ![i].lease = "held"]
    BY <1>7 DEF Claim
  <2> QED
    BY <1>1, <2>1 DEF TypeOK, SyncJob
<1>8. ASSUME NEW w \in Workers, Heartbeat(w)
      PROVE  Kept
  BY <1>1, <1>8 DEF Heartbeat, TypeOK, SyncJob
<1>9. ASSUME NEW w \in Workers, CancelJob(w) \/ SyncSucceeds(w) \/ FailJob(w)
      PROVE  Kept
  <2>1. PICK s \in TerminalStatuses : Finalise(worker[w].job, s)
    BY <1>9 DEF CancelJob, SyncSucceeds, FailJob, TerminalStatuses
  <2>2. worker[w].job \in Jobs \cup {NoJob}
    BY DEF TypeOK
  <2>3. \/ jobs'[j] = [jobs[j] EXCEPT !.status = s, !.lease = "none"]
        \/ jobs'[j] = jobs[j]
    BY <2>1, <2>2, FinaliseRow
  <2> QED
    BY <1>1, <2>3 DEF SyncJob
<1>10. ASSUME NEW w \in Workers, FanOut(w)
       PROVE  Kept
  BY <1>1, <1>10, FanOutRow DEF SyncJob
<1>11. ASSUME NEW w \in Workers, Reschedule(w)
       PROVE  Kept
  BY <1>1, <1>11 DEF Reschedule, TypeOK, SyncJob
<1>12. ASSUME NEW i \in Jobs, BackoffElapses(i) \/ LeaseExpires(i)
       PROVE  Kept
  <2>1. CASE BackoffElapses(i)
    BY <1>1, <2>1 DEF BackoffElapses, TypeOK, SyncJob
  <2>2. CASE LeaseExpires(i)
    BY <1>1, <2>2 DEF LeaseExpires, TypeOK, SyncJob
  <2> QED
    BY <1>12, <2>1, <2>2
<1>13. ASSUME \/ Connect \/ RefreshRefused \/ UNCHANGED vars
              \/ \E r \in Requests : StartSyncMark(r)
              \/ \E r \in Requests, n \in Notebooks : StartSyncRead(r, n)
              \/ \E w \in Workers : \/ StartContent(w) \/ Authorize(w) \/ AuthorizeDiscovery(w)
                                    \/ TokenRefused(w) \/ JobRaises(w)
                                    \/ RescheduleRejected(w) \/ Crash(w)
       PROVE  UNCHANGED jobs
  BY <1>13 DEF Connect, RefreshRefused, vars, queueVars, StartSyncMark, StartSyncRead,
     StartContent, Authorize, AuthorizeDiscovery, TokenRefused, JobRaises,
     RescheduleRejected, Crash
<1>14. ASSUME \/ \E r \in Requests : StartSyncEnqueue(r)
              \/ Producer
       PROVE  UNCHANGED jobs \/ \E t, p, c : Enqueue(t, p, c)
  BY <1>14 DEF StartSyncEnqueue, Producer, CronEnqueue, CliEnqueue, queueVars
<1>15. ASSUME \E w \in Workers : Boot(w) \/ PeriodicReap(w)
       PROVE  Reap
  BY <1>15 DEF Boot, PeriodicReap
<1> HIDE DEF Kept
<1> QED
  BY <1>2, <1>3, <1>4, <1>5, <1>6, <1>7, <1>8, <1>9, <1>10, <1>11, <1>12, <1>13, <1>14, <1>15
  DEF Next, User, Handler, RunJob, Time

\* A worker keeps what it remembers, rests, or has just claimed a job.
WorkerTarget(w) ==
  \/ worker'[w].pc \notin Executing
  \/ /\ worker[w].pc \in Executing
     /\ worker'[w].job = worker[w].job /\ worker'[w].target = worker[w].target
     /\ \/ worker'[w].pc \in {"listing", "fanout"} => worker[w].pc \in {"listing", "fanout"}
        \/ worker[w].target = NoNotebook
  \/ /\ worker'[w].pc = "claimed" /\ worker'[w].job \in Jobs
     /\ worker'[w].target = jobs[worker'[w].job].target
     /\ jobs[worker'[w].job].status = "PENDING"

LEMMA WorkerTargets ==
  ASSUME TypeOK, [Next]_vars, NEW w \in Workers
  PROVE  WorkerTarget(w)
<1>1. CASE UNCHANGED worker
  BY <1>1 DEF WorkerTarget
<1>2. ASSUME NEW v \in Workers, NEW pc \in {"down", "poll"},
             worker' = [worker EXCEPT ![v] = Resting(pc)]
      PROVE  WorkerTarget(w)
  BY <1>2 DEF WorkerTarget, TypeOK, Resting, Executing
<1>3. ASSUME NEW v \in Workers, Claim(v)
      PROVE  WorkerTarget(w)
  <2>1. PICK j \in Jobs :
          /\ jobs[j].status = "PENDING"
          /\ worker' = [worker EXCEPT ![v] =
                          [pc |-> "claimed", job |-> j, target |-> jobs[j].target,
                           attempts |-> jobs[j].attempts + 1, seen |-> {}]]
    BY <1>3 DEF Claim, Claimable
  <2> QED
    BY <2>1 DEF WorkerTarget, TypeOK
<1>4. ASSUME NEW v \in Workers, NEW pc \in Executing \ {"listing", "fanout"},
             worker[v].pc \in Executing, Goto(v, pc)
      PROVE  WorkerTarget(w)
  BY <1>4 DEF WorkerTarget, Goto, TypeOK
<1>5. ASSUME NEW v \in Workers, AuthorizeDiscovery(v) \/ DiscoverList(v)
      PROVE  WorkerTarget(w)
  BY <1>5 DEF WorkerTarget, AuthorizeDiscovery, DiscoverList, Goto, TypeOK, Executing
<1>6. ASSUME NEW v \in Workers,
             \/ StartContent(v) \/ Authorize(v) \/ TokenRefused(v) \/ JobRaises(v)
      PROVE  \E pc \in Executing \ {"listing", "fanout"} : worker[v].pc \in Executing /\ Goto(v, pc)
  BY <1>6 DEF StartContent, Authorize, TokenRefused, JobRaises, Executing
<1>7. ASSUME NEW v \in Workers,
             \/ Boot(v) \/ CancelJob(v) \/ SyncSucceeds(v) \/ FanOut(v) \/ FailJob(v)
             \/ Reschedule(v) \/ RescheduleRejected(v) \/ Crash(v)
      PROVE  \E pc \in {"down", "poll"} : worker' = [worker EXCEPT ![v] = Resting(pc)]
  BY <1>7 DEF Boot, CancelJob, SyncSucceeds, FanOut, FailJob, Reschedule, RescheduleRejected,
     Crash, BackToPoll
<1>8. ASSUME \/ User \/ Producer \/ Time \/ \E r \in Requests : Handler(r)
             \/ \E v \in Workers : PeriodicReap(v) \/ Heartbeat(v)
             \/ UNCHANGED vars
      PROVE  UNCHANGED worker
  BY <1>8 DEF User, Connect, Disconnect, RefreshNotebooks, RefreshRefused, SetSyncEnabled,
     StartSyncRead, Producer, CronEnqueue, CliEnqueue, Time, BackoffElapses, LeaseExpires,
     Handler, StartSyncEnqueue, StartSyncMark, PeriodicReap, Heartbeat, vars
<1> QED
  BY <1>1, <1>2, <1>3, <1>4, <1>5, <1>6, <1>7, <1>8 DEF Next, RunJob

----------------------------------------------------------------------------
(* Exclusive execution *)

\* The lease of a job that a live worker is running stands.
ClaimIsLeased ==
  \A w \in Workers : worker[w].pc \in Executing =>
    /\ worker[w].job \in Jobs
    /\ jobs[worker[w].job].status = "RUNNING" => jobs[worker[w].job].lease = "held"

ExclusionInv == TypeOK /\ ExecutionIsExclusive /\ ClaimIsLeased

LEMMA ExclusionInit == Init => ExclusionInv
  BY TypeInit DEF Init, ExclusionInv, ExecutionIsExclusive, ClaimIsLeased, Resting, Executing

LEMMA ExclusionStep ==
  ASSUME ~LeaseMayLapse, ExclusionInv, [Next]_vars
  PROVE  ExclusionInv'
<1>1. TypeOK' /\ Shape
  BY TypeStep, StepShape DEF ExclusionInv
<1>2. ASSUME NEW w \in Workers, worker'[w].pc \in Executing
      PROVE  /\ worker'[w].job \in Jobs
             /\ \/ jobs'[worker'[w].job].status = "deleted"
                \/ /\ jobs'[worker'[w].job].status = "RUNNING"
                   /\ jobs'[worker'[w].job].attempts = worker'[w].attempts
                   /\ jobs'[worker'[w].job].lease = "held"
  <2>1. CASE \E j \in Jobs : ClaimedBy(w, j)
    BY <2>1 DEF ClaimedBy
  <2>2. CASE /\ worker[w].pc \in Executing
             /\ worker'[w].job = worker[w].job /\ worker'[w].attempts = worker[w].attempts
    <3> DEFINE j == worker[w].job
    <3>1. /\ j \in Jobs
          /\ \/ jobs[j].status = "deleted"
             \/ /\ jobs[j].status = "RUNNING"
                /\ jobs[j].attempts = worker[w].attempts
                /\ jobs[j].lease = "held"
      BY <2>2 DEF ExclusionInv, ExecutionIsExclusive, ClaimIsLeased
    <3>2. RowStep(j)
      BY <1>1, <3>1 DEF Shape
    <3>3. ~\E v \in Workers : ClaimedBy(v, j) \/ ReleasedBy(v, j)
      BY <1>2, <2>2, <3>1
      DEF ClaimedBy, ReleasedBy, Holds, Stored, SyncJobStatus, ExclusionInv, ExecutionIsExclusive
    <3>4. ~(LeaseLost(j) \/ Created(j) \/ Withdrawn(j) \/ Recovered(j))
      BY <2>2, <3>1 DEF LeaseLost, Created, Withdrawn, Recovered, Expired, Holds
    <3> QED
      BY <2>2, <3>1, <3>2, <3>3, <3>4 DEF RowStep, Untouched, Deleted
  <2> QED
    BY <1>1, <1>2, <2>1, <2>2 DEF Shape, WorkerStep
<1>3. ASSUME NEW v \in Workers, NEW w \in Workers, worker'[v].pc \in Executing,
             worker'[w].pc \in Executing, worker'[v].job = worker'[w].job
      PROVE  v = w
  <2>1. CASE worker[v].pc \in Executing /\ worker[w].pc \in Executing
             /\ worker'[v].job = worker[v].job /\ worker'[w].job = worker[w].job
    BY <1>3, <2>1 DEF ExclusionInv, ExecutionIsExclusive
  <2>2. ASSUME NEW u \in Workers, NEW x \in Workers, NEW j \in Jobs, ClaimedBy(u, j),
               worker'[x].pc \in Executing, worker'[x].job = j, x # u
        PROVE  FALSE
    <3>1. worker'[x] = worker[x]
      BY <1>1, <2>2 DEF Shape, OneWorkerMoves, ClaimedBy, Executing
    <3> QED
      BY <2>2, <3>1 DEF ClaimedBy, ExclusionInv, ExecutionIsExclusive
  <2> QED
    BY <1>1, <1>3, <2>1, <2>2 DEF Shape, WorkerStep, ClaimedBy
<1> QED
  BY <1>1, <1>2, <1>3 DEF ExclusionInv, ExecutionIsExclusive, ClaimIsLeased

\* As long as no lease lapses under a live worker, a job is run by one worker at a time,
\* on the attempt it claimed, through every crash, restart, reap and withdrawal.
THEOREM Exclusion == ASSUME ~LeaseMayLapse PROVE Spec => []ExecutionIsExclusive
<1>1. ExclusionInv /\ [Next]_vars => ExclusionInv'
  BY ExclusionStep
<1>2. ExclusionInv => ExecutionIsExclusive
  BY DEF ExclusionInv
<1> QED
  BY ExclusionInit, <1>1, <1>2, PTL DEF Spec

----------------------------------------------------------------------------
(* What exclusive execution buys: the retry budget and the finality of jobs *)

BudgetInv == ExclusionInv /\ RetryBudget

LEMMA BudgetStep ==
  ASSUME ~LeaseMayLapse, BudgetInv, [Next]_vars
  PROVE  BudgetInv'
<1>1. ExclusionInv' /\ Shape
  BY ExclusionStep, StepShape DEF BudgetInv, ExclusionInv
<1>2. ASSUME NEW j \in Jobs
      PROVE  /\ jobs'[j].attempts <= MaxAttempts
             /\ jobs'[j].status = "PENDING" => jobs'[j].attempts < MaxAttempts
  <2>1. /\ jobs[j].attempts \in Nat /\ MaxAttempts \in Nat \ {0}
        /\ jobs[j].attempts <= MaxAttempts
        /\ jobs[j].status = "PENDING" => jobs[j].attempts < MaxAttempts
    <3>1. jobs[j] \in SyncJob
      BY DEF BudgetInv, ExclusionInv, TypeOK
    <3> QED
      BY <3>1, QueueAssumption DEF BudgetInv, RetryBudget, SyncJob
  <2>2. RowStep(j)
    BY <1>1 DEF Shape
  <2>3. CASE Untouched(j) \/ LeaseLost(j) \/ Withdrawn(j)
    BY <2>1, <2>3 DEF Untouched, LeaseLost, Withdrawn
  <2>4. CASE Created(j) \/ Deleted(j)
    BY <2>1, <2>4 DEF Created, Deleted
  <2>5. CASE Recovered(j)
    BY <2>1, <2>5 DEF Recovered, Spent
  <2>6. ASSUME NEW w \in Workers, ClaimedBy(w, j)
        PROVE  jobs'[j].status = "RUNNING" /\ jobs'[j].attempts <= MaxAttempts
    BY <2>1, <2>6 DEF ClaimedBy
  <2>7. ASSUME NEW w \in Workers, ReleasedBy(w, j)
        PROVE  /\ jobs'[j].attempts <= MaxAttempts
               /\ jobs'[j].status = "PENDING" => jobs'[j].attempts < MaxAttempts
    <3>1. jobs[j].attempts = worker[w].attempts
      BY <2>7 DEF ReleasedBy, Holds, Stored, SyncJobStatus, BudgetInv, ExclusionInv,
                  ExecutionIsExclusive
    <3> QED
      BY <2>1, <2>7, <3>1 DEF ReleasedBy, Spent, TerminalStatuses
  <2> QED
    BY <2>2, <2>3, <2>4, <2>5, <2>6, <2>7 DEF RowStep
<1> QED
  BY <1>1, <1>2 DEF BudgetInv, RetryBudget

\* As long as no lease lapses under a live worker, no job is run more often than its
\* budget allows, and one that waits still has an attempt: the count the worker
\* remembers is the row's.
THEOREM Budget == ASSUME ~LeaseMayLapse PROVE Spec => []RetryBudget
<1>1. Init => BudgetInv
  BY ExclusionInit, QueueAssumption DEF Init, BudgetInv, RetryBudget, BlankJob
<1>2. BudgetInv /\ [Next]_vars => BudgetInv'
  BY BudgetStep
<1>3. BudgetInv => RetryBudget
  BY DEF BudgetInv
<1> QED
  BY <1>1, <1>2, <1>3, PTL DEF Spec

\* As long as no lease lapses under a live worker, a finished job is never put back in
\* the queue nor finished again, although no mark_* statement looks at the status.
THEOREM Finality == ASSUME ~LeaseMayLapse PROVE Spec => TerminalIsFinal
<1>1. ASSUME ExclusionInv, [Next]_vars, NEW j \in Jobs, jobs[j].status \in TerminalStatuses
      PROVE  jobs'[j].status \in {jobs[j].status, "deleted"}
  <2>1. RowStep(j)
    BY <1>1, StepShape DEF ExclusionInv, Shape
  <2>2. ~\E w \in Workers : ClaimedBy(w, j) \/ ReleasedBy(w, j)
    BY <1>1 DEF ClaimedBy, ReleasedBy, Holds, TerminalStatuses, ExclusionInv,
                ExecutionIsExclusive
  <2> QED
    BY <1>1, <2>1, <2>2
    DEF RowStep, Untouched, LeaseLost, Created, Deleted, Withdrawn, Recovered, Expired,
        TerminalStatuses
<1>2. ExclusionInv /\ [Next]_vars =>
        [\A j \in Jobs : jobs[j].status \in TerminalStatuses =>
           jobs'[j].status \in {jobs[j].status, "deleted"}]_vars
  BY <1>1
<1>3. ExclusionInv /\ [Next]_vars => ExclusionInv'
  BY ExclusionStep
<1> QED
  BY ExclusionInit, <1>2, <1>3, PTL DEF Spec, TerminalIsFinal

----------------------------------------------------------------------------
(* One active job per notebook, whatever the leases do *)

\* No row changes its target or becomes active, except as said.
LEMMA DistinctKept ==
  ASSUME OneActiveJobPerNotebook,
         \A j \in Jobs : Active(j)' => Active(j) /\ jobs'[j].target = jobs[j].target
  PROVE  OneActiveJobPerNotebook'
  BY DEF OneActiveJobPerNotebook

LEMMA DistinctDiscover ==
  ASSUME TypeOK, OneActiveJobPerNotebook, NEW listed \in SUBSET Notebooks,
         NEW complete \in BOOLEAN, Discover(listed, complete)
  PROVE  OneActiveJobPerNotebook'
  BY DistinctKept DEF Discover, BlankJob, Active, ActiveStatuses, TypeOK

LEMMA DistinctEnqueue ==
  ASSUME TypeOK, OneActiveJobPerNotebook, NEW t, NEW p, NEW c, Enqueue(t, p, c)
  PROVE  OneActiveJobPerNotebook'
  BY DEF Enqueue, queueVars, HasActiveJob, OneActiveJobPerNotebook, NewJob, Active,
         ActiveStatuses, TypeOK

LEMMA DistinctReap ==
  ASSUME TypeOK, OneActiveJobPerNotebook, Reap
  PROVE  OneActiveJobPerNotebook'
<1>1. ASSUME NEW j \in Jobs, Active(j)'
      PROVE  Active(j) /\ jobs'[j].target = jobs[j].target
  <2>1. jobs[j] \in SyncJob
    BY DEF TypeOK
  <2> QED
    BY <1>1, <2>1 DEF Reap, Expired, Active, ActiveStatuses, SyncJob
<1> QED
  BY <1>1, DistinctKept

LEMMA DistinctFinalise ==
  ASSUME TypeOK, OneActiveJobPerNotebook, NEW j \in Jobs \cup {NoJob},
         NEW s \in TerminalStatuses, Finalise(j, s)
  PROVE  OneActiveJobPerNotebook'
<1>1. ASSUME NEW i \in Jobs, Active(i)'
      PROVE  Active(i) /\ jobs'[i].target = jobs[i].target
  <2>1. jobs[i] \in SyncJob
    BY DEF TypeOK
  <2>2. jobs'[i] = IF i = j /\ Stored(j)
                   THEN [jobs[i] EXCEPT !.status = s, !.lease = "none"] ELSE jobs[i]
    BY FinaliseRow
  <2> QED
    BY <1>1, <2>1, <2>2 DEF Active, ActiveStatuses, TerminalStatuses, SyncJob
<1> QED
  BY <1>1, DistinctKept

LEMMA DistinctFanOut ==
  ASSUME TypeOK, OneActiveJobPerNotebook, NEW w \in Workers, FanOut(w)
  PROVE  OneActiveJobPerNotebook'
<1> DEFINE wanted == {n \in worker[w].seen : ~HasActiveJob(n)}
           d == worker[w].job
<1>1. PICK row \in [wanted -> {j \in Jobs : jobs[j].status = "unused"}] :
        /\ \A m, n \in wanted : row[m] = row[n] => m = n
        /\ jobs' = [j \in Jobs |->
                      IF \E n \in wanted : row[n] = j
                      THEN NewJob(CHOOSE n \in wanted : row[n] = j, AutoPriority, clock)
                      ELSE IF j = d /\ Stored(d)
                      THEN [jobs[j] EXCEPT !.status = "SUCCEEDED", !.lease = "none"]
                      ELSE jobs[j]]
  BY DEF FanOut
<1> DEFINE new(j) == \E n \in wanted : row[n] = j
<1>2. ASSUME NEW j \in Jobs, new(j)
      PROVE  \E n \in wanted : row[n] = j /\ jobs'[j].target = n
  <2>1. (CHOOSE n \in wanted : row[n] = j) \in wanted
    BY <1>2
  <2> QED
    BY <1>1, <1>2, <2>1 DEF NewJob
<1>3. ASSUME NEW j \in Jobs, ~new(j), Active(j)'
      PROVE  Active(j) /\ jobs'[j].target = jobs[j].target
  <2>1. jobs[j] \in SyncJob
    BY DEF TypeOK
  <2>2. jobs'[j] = IF j = d /\ Stored(d)
                   THEN [jobs[j] EXCEPT !.status = "SUCCEEDED", !.lease = "none"]
                   ELSE jobs[j]
    BY <1>1, <1>3
  <2> QED
    BY <1>3, <2>1, <2>2 DEF Active, ActiveStatuses, SyncJob
<1>4. ASSUME NEW i \in Jobs, NEW j \in Jobs, Active(i)', Active(j)',
             jobs'[i].target = jobs'[j].target
      PROVE  i = j
  <2>1. CASE new(i) /\ new(j)
    <3>1. PICK m \in wanted : row[m] = i /\ jobs'[i].target = m
      BY <1>2, <2>1
    <3>2. PICK n \in wanted : row[n] = j /\ jobs'[j].target = n
      BY <1>2, <2>1
    <3> QED
      BY <1>4, <3>1, <3>2
  <2>2. CASE ~new(i) /\ ~new(j)
    <3>1. Active(i) /\ Active(j) /\ jobs[i].target = jobs[j].target
      BY <1>3, <1>4, <2>2
    <3> QED
      BY <3>1 DEF OneActiveJobPerNotebook
  <2>3. ASSUME NEW k \in Jobs, NEW l \in Jobs, new(k), ~new(l), Active(l)',
               jobs'[k].target = jobs'[l].target
        PROVE  FALSE
    <3>1. ~HasActiveJob(jobs'[k].target)
      BY <1>2, <2>3
    <3>2. Active(l) /\ jobs[l].target = jobs'[k].target
      BY <1>3, <2>3
    <3> QED
      BY <3>1, <3>2 DEF HasActiveJob
  <2> HIDE DEF new
  <2> QED
    BY <1>4, <2>1, <2>2, <2>3
<1> QED
  BY <1>4 DEF OneActiveJobPerNotebook

LEMMA DistinctStep ==
  ASSUME TypeOK, OneActiveJobPerNotebook, [Next]_vars
  PROVE  OneActiveJobPerNotebook'
<1>1. CASE UNCHANGED jobs
  BY <1>1, DistinctKept DEF Active
<1>2. CASE Disconnect
  BY <1>2, DistinctKept DEF Disconnect, BlankJob, Active, ActiveStatuses, Stored, SyncJobStatus
<1>3. CASE RefreshNotebooks
  BY <1>3, DistinctDiscover DEF RefreshNotebooks
<1>4. ASSUME NEW n \in Notebooks, NEW enabled \in BOOLEAN, SetSyncEnabled(n, enabled)
      PROVE  OneActiveJobPerNotebook'
  <2>1. ASSUME NEW j \in Jobs, Active(j)'
        PROVE  Active(j) /\ jobs'[j].target = jobs[j].target
    <3>1. jobs[j] \in SyncJob
      BY DEF TypeOK
    <3> QED
      BY <1>4, <2>1, <3>1 DEF SetSyncEnabled, Active, ActiveStatuses, SyncJob
  <2> QED
    BY <2>1, DistinctKept
<1>5. ASSUME NEW r \in Requests, StartSyncEnqueue(r)
      PROVE  OneActiveJobPerNotebook'
  BY <1>1, <1>5, DistinctEnqueue DEF StartSyncEnqueue, queueVars
<1>6. CASE Producer
  BY <1>6, DistinctEnqueue DEF Producer, CronEnqueue, CliEnqueue
<1>7. ASSUME NEW w \in Workers, Boot(w) \/ PeriodicReap(w)
      PROVE  OneActiveJobPerNotebook'
  BY <1>7, DistinctReap DEF Boot, PeriodicReap
<1>8. ASSUME NEW w \in Workers, Claim(w)
      PROVE  OneActiveJobPerNotebook'
  <2>1. PICK j \in Jobs :
          /\ jobs[j].status = "PENDING"
          /\ jobs' = [jobs EXCEPT ![j].status = "RUNNING", ![j].attempts = @ + 1,
                                  ![j].lease = "held"]
    BY <1>8 DEF Claim, Claimable
  <2>2. ASSUME NEW i \in Jobs, Active(i)'
        PROVE  Active(i) /\ jobs'[i].target = jobs[i].target
    <3>1. jobs[i] \in SyncJob
      BY DEF TypeOK
    <3> QED
      BY <2>1, <2>2, <3>1 DEF Active, ActiveStatuses, TypeOK, SyncJob
  <2> QED
    BY <2>2, DistinctKept
<1>9. ASSUME NEW w \in Workers, Heartbeat(w)
      PROVE  OneActiveJobPerNotebook'
  <2>1. ASSUME NEW i \in Jobs
        PROVE  jobs'[i].status = jobs[i].status /\ jobs'[i].target = jobs[i].target
    <3>1. jobs[i] \in SyncJob
      BY DEF TypeOK
    <3> QED
      BY <1>9, <3>1 DEF Heartbeat, TypeOK, SyncJob
  <2> QED
    BY <2>1, DistinctKept DEF Active
<1>10. ASSUME NEW w \in Workers, CancelJob(w) \/ SyncSucceeds(w) \/ FailJob(w)
       PROVE  OneActiveJobPerNotebook'
  <2>1. PICK s \in TerminalStatuses : Finalise(worker[w].job, s)
    BY <1>10 DEF CancelJob, SyncSucceeds, FailJob, TerminalStatuses
  <2>2. worker[w].job \in Jobs \cup {NoJob}
    BY DEF TypeOK
  <2> QED
    BY <2>1, <2>2, DistinctFinalise
<1>11. ASSUME NEW w \in Workers, DiscoverList(w)
       PROVE  OneActiveJobPerNotebook'
  BY <1>11, DistinctDiscover DEF DiscoverList
<1>12. ASSUME NEW w \in Workers, FanOut(w)
       PROVE  OneActiveJobPerNotebook'
  BY <1>12, DistinctFanOut
<1>13. ASSUME NEW w \in Workers, Reschedule(w)
       PROVE  OneActiveJobPerNotebook'
  <2> DEFINE j == worker[w].job
  <2>1. ASSUME NEW i \in Jobs
        PROVE  /\ jobs'[i].target = jobs[i].target
               /\ i # j \/ ~Stored(j) => jobs'[i] = jobs[i]
    <3>1. jobs[i] \in SyncJob
      BY DEF TypeOK
    <3> QED
      BY <1>13, <3>1 DEF Reschedule, TypeOK, SyncJob
  <2>2. CASE ~Stored(j)
    BY <1>1, <1>13, <2>2 DEF Reschedule
  <2>3. CASE Stored(j)
    <3>1. \A i \in Jobs \ {j} : Active(i) => jobs[i].target # jobs[j].target
      BY <1>13, <2>3 DEF Reschedule, IndexConflict
    <3> QED
      BY <2>1, <3>1 DEF OneActiveJobPerNotebook, Active
  <2> QED
    BY <2>2, <2>3
<1>14. ASSUME NEW j \in Jobs, BackoffElapses(j) \/ LeaseExpires(j)
       PROVE  OneActiveJobPerNotebook'
  <2>1. ASSUME NEW i \in Jobs
        PROVE  jobs'[i].status = jobs[i].status /\ jobs'[i].target = jobs[i].target
    <3>1. jobs[i] \in SyncJob
      BY DEF TypeOK
    <3>2. CASE BackoffElapses(j)
      BY <3>1, <3>2 DEF BackoffElapses, TypeOK, SyncJob
    <3>3. CASE LeaseExpires(j)
      BY <3>1, <3>3 DEF LeaseExpires, TypeOK, SyncJob
    <3> QED
      BY <1>14, <3>2, <3>3
  <2> QED
    BY <2>1, DistinctKept DEF Active
<1>15. ASSUME \/ Connect \/ RefreshRefused \/ UNCHANGED vars
              \/ \E r \in Requests : StartSyncMark(r)
              \/ \E r \in Requests, n \in Notebooks : StartSyncRead(r, n)
              \/ \E w \in Workers : \/ StartContent(w) \/ Authorize(w) \/ AuthorizeDiscovery(w)
                                    \/ TokenRefused(w) \/ JobRaises(w)
                                    \/ RescheduleRejected(w) \/ Crash(w)
       PROVE  UNCHANGED jobs
  BY <1>15 DEF Connect, RefreshRefused, vars, queueVars, StartSyncMark, StartSyncRead,
     StartContent, Authorize, AuthorizeDiscovery, TokenRefused, JobRaises,
     RescheduleRejected, Crash
<1> QED
  BY <1>1, <1>2, <1>3, <1>4, <1>5, <1>6, <1>7, <1>8, <1>9, <1>10, <1>11, <1>12, <1>13,
     <1>14, <1>15
  DEF Next, User, Handler, RunJob, Time

\* A notebook never has two active jobs, nor the connection two active discoveries,
\* whatever clicks, cron, fan-outs, retries, reaps and lapsing leases interleave.
THEOREM OneActive == Spec => []OneActiveJobPerNotebook
<1>1. Init => OneActiveJobPerNotebook
  BY DEF Init, OneActiveJobPerNotebook, Active, ActiveStatuses, BlankJob
<1>2. TypeOK /\ OneActiveJobPerNotebook /\ [Next]_vars => OneActiveJobPerNotebook'
  BY DistinctStep
<1> QED
  BY <1>1, <1>2, TypeInit, TypeStep, PTL DEF Spec

----------------------------------------------------------------------------
(* What leaves a notebook SYNCING with no job *)

\* What a worker remembers of its job: the notebook of the row, and that only the
\* discovery reaches the notebook list.
Remembers(w) ==
  /\ \/ jobs[worker[w].job].status = "deleted"
     \/ jobs[worker[w].job].target = worker[w].target
  /\ worker[w].pc \in {"listing", "fanout"} => worker[w].target = NoNotebook

TargetInv == ExclusionInv /\ \A w \in Workers : worker[w].pc \in Executing => Remembers(w)

LEMMA TargetStep ==
  ASSUME ~LeaseMayLapse, TargetInv, [Next]_vars
  PROVE  TargetInv'
<1>1. ExclusionInv' /\ TypeOK
  BY ExclusionStep DEF TargetInv, ExclusionInv
<1>2. ASSUME NEW w \in Workers, worker'[w].pc \in Executing
      PROVE  Remembers(w)'
  <2>1. WorkerTarget(w)
    BY <1>1, WorkerTargets
  <2>2. worker'[w].job \in Jobs
    BY <1>1, <1>2 DEF ExclusionInv, ClaimIsLeased
  <2>3. \/ jobs[worker'[w].job].status = "unused" \/ jobs'[worker'[w].job].status = "deleted"
        \/ jobs'[worker'[w].job].target = jobs[worker'[w].job].target
    BY <1>1, <2>2, TargetsKept
  <2>4. CASE /\ worker'[w].pc = "claimed"
             /\ worker'[w].target = jobs[worker'[w].job].target
             /\ jobs[worker'[w].job].status = "PENDING"
    BY <2>3, <2>4 DEF Remembers
  <2>5. CASE /\ worker[w].pc \in Executing
             /\ worker'[w].job = worker[w].job /\ worker'[w].target = worker[w].target
             /\ \/ worker'[w].pc \in {"listing", "fanout"} => worker[w].pc \in {"listing", "fanout"}
                \/ worker[w].target = NoNotebook
    <3>1. Remembers(w)
      BY <2>5 DEF TargetInv
    <3>2. jobs[worker[w].job].status \in {"RUNNING", "deleted"}
      BY <2>5 DEF TargetInv, ExclusionInv, ExecutionIsExclusive
    <3>3. jobs[worker[w].job].status = "deleted" => jobs'[worker[w].job].status = "deleted"
      <4>1. RowStep(worker[w].job)
        BY <1>1, <2>2, <2>5, StepShape DEF Shape
      <4> QED
        BY <4>1 DEF RowStep, Untouched, LeaseLost, Created, Deleted, Withdrawn, Recovered,
           Expired, ClaimedBy, ReleasedBy, Stored, SyncJobStatus
    <3> QED
      BY <2>3, <2>5, <3>1, <3>2, <3>3 DEF Remembers
  <2> QED
    BY <1>2, <2>1, <2>4, <2>5 DEF WorkerTarget
<1> QED
  BY <1>1, <1>2 DEF TargetInv

LEMMA TargetInit == Init => TargetInv
  BY ExclusionInit DEF Init, TargetInv, Resting, Executing

\* Two workers run jobs of one notebook at once only if a disconnect has deleted the job
\* of one of them under its run: exclusive jobs make exclusive runs, which is what
\* _sync_notebook relies on when it reads, builds and applies in separate transactions.
OneRunPerNotebook ==
  \A v, w \in Workers :
    /\ worker[v].pc \in Executing /\ jobs[worker[v].job].status # "deleted"
    /\ worker[w].pc \in Executing /\ jobs[worker[w].job].status # "deleted"
    /\ worker[v].target = worker[w].target
    => v = w

\* As long as no lease lapses under a live worker, no two runs of one notebook, nor two
\* discoveries, overlap, but for a run whose job a disconnect deleted in its course.
THEOREM RunsExclude == ASSUME ~LeaseMayLapse PROVE Spec => []OneRunPerNotebook
<1>1. TargetInv /\ [Next]_vars => TargetInv'
  BY TargetStep
<1>2. TargetInv /\ OneActiveJobPerNotebook => OneRunPerNotebook
  <2> SUFFICES ASSUME TargetInv, OneActiveJobPerNotebook,
                      NEW v \in Workers, NEW w \in Workers,
                      worker[v].pc \in Executing, jobs[worker[v].job].status # "deleted",
                      worker[w].pc \in Executing, jobs[worker[w].job].status # "deleted",
                      worker[v].target = worker[w].target
               PROVE  v = w
    BY DEF OneRunPerNotebook
  <2>1. ASSUME NEW u \in Workers, worker[u].pc \in Executing,
               jobs[worker[u].job].status # "deleted"
        PROVE  /\ worker[u].job \in Jobs /\ Active(worker[u].job)
               /\ jobs[worker[u].job].target = worker[u].target
    BY <2>1 DEF TargetInv, Remembers, ExclusionInv, ExecutionIsExclusive, ClaimIsLeased,
                Active, ActiveStatuses
  <2>2. worker[v].job = worker[w].job
    BY <2>1 DEF OneActiveJobPerNotebook
  <2> QED
    BY <2>2 DEF TargetInv, ExclusionInv, ExecutionIsExclusive
<1> QED
  BY TargetInit, <1>1, <1>2, OneActive, PTL DEF Spec

\* A job that has come to an end took its notebook out of SYNCING in the same step.
LEMMA FinishedIsSettled ==
  ASSUME ~LeaseMayLapse, TargetInv, [Next]_vars, NEW j \in Jobs, NEW n \in Notebooks,
         Active(j), jobs[j].target = n, jobs'[j].status \in {"SUCCEEDED", "FAILED"}
  PROVE  ~Syncing(n)'
<1>1. TypeOK /\ jobs[j] \in SyncJob /\ n # NoNotebook
  BY QueueAssumption DEF TargetInv, ExclusionInv, TypeOK
<1>2. jobs[j].status \in {"PENDING", "RUNNING"} /\ jobs'[j] # jobs[j]
  BY DEF Active, ActiveStatuses
<1>3. ASSUME Reap
      PROVE  ~Syncing(n)'
  <2>1. Expired(j) /\ Spent(jobs[j].attempts)
    BY <1>1, <1>2, <1>3 DEF Reap, SyncJob
  <2>2. FailedByReap(n)
    BY <2>1 DEF FailedByReap
  <2> QED
    BY <1>1, <1>3, <2>2 DEF Reap, Syncing, Exists, NotebookSyncStatus
<1>4. ASSUME NEW w \in Workers, worker[w].pc \in Executing, NEW s \in TerminalStatuses,
             Finalise(worker[w].job, s)
      PROVE  worker[w].job = j /\ worker[w].target = n /\ jobs'[j].status = s
  <2>1. worker[w].job \in Jobs \cup {NoJob}
    BY <1>1 DEF TypeOK
  <2>2. /\ worker[w].job = j
        /\ jobs'[j] = [jobs[j] EXCEPT !.status = s, !.lease = "none"]
    BY <1>1, <1>2, <1>4, <2>1, FinaliseRow
  <2>3. Remembers(w)
    BY <1>4 DEF TargetInv
  <2> QED
    BY <1>1, <1>2, <2>2, <2>3 DEF Remembers, SyncJob
<1>5. ASSUME NEW s \in {"FRESH", "FAILED"}, SetStatus(n, s)
      PROVE  ~Syncing(n)'
  BY <1>1, <1>5 DEF SetStatus, Syncing, Exists, NotebookSyncStatus, TypeOK
<1>6. ASSUME NEW w \in Workers, SyncSucceeds(w)
      PROVE  ~Syncing(n)'
  <2>1. worker[w].target = n
    BY <1>4, <1>6 DEF SyncSucceeds, Executing, TerminalStatuses
  <2> QED
    BY <1>5, <1>6, <2>1 DEF SyncSucceeds
<1>7. ASSUME NEW w \in Workers, FailJob(w)
      PROVE  ~Syncing(n)'
  <2>1. worker[w].target = n
    BY <1>4, <1>7 DEF FailJob, Executing, TerminalStatuses
  <2> QED
    BY <1>5, <1>7, <2>1 DEF FailJob
<1>8. ASSUME NEW w \in Workers, CancelJob(w)
      PROVE  FALSE
  BY <1>4, <1>8 DEF CancelJob, Executing, TerminalStatuses
<1>9. ASSUME NEW w \in Workers, FanOut(w)
      PROVE  FALSE
  <2>1. worker[w].job = j
    BY <1>2, <1>9, FanOutRow DEF NewJob
  <2>2. Remembers(w) /\ worker[w].pc = "fanout"
    BY <1>9 DEF TargetInv, FanOut, Executing
  <2> QED
    BY <1>1, <1>2, <2>1, <2>2 DEF Remembers
<1>10. ASSUME NEW w \in Workers, Reschedule(w)
       PROVE  FALSE
  BY <1>1, <1>2, <1>10 DEF Reschedule, TypeOK, SyncJob
<1>11. ASSUME NEW w \in Workers, Claim(w)
       PROVE  FALSE
  <2>1. PICK i \in Jobs :
          jobs' = [jobs EXCEPT ![i].status = "RUNNING", ![i].attempts = @ + 1,
                               ![i].lease = "held"]
    BY <1>11 DEF Claim
  <2> QED
    BY <1>1, <1>2, <2>1 DEF TypeOK, SyncJob
<1>12. ASSUME NEW w \in Workers, Heartbeat(w)
       PROVE  FALSE
  BY <1>1, <1>2, <1>12 DEF Heartbeat, TypeOK, SyncJob
<1>13. ASSUME NEW i \in Jobs, BackoffElapses(i) \/ LeaseExpires(i)
       PROVE  FALSE
  <2>1. CASE BackoffElapses(i)
    BY <1>1, <1>2, <2>1 DEF BackoffElapses, TypeOK, SyncJob
  <2>2. CASE LeaseExpires(i)
    BY <1>1, <1>2, <2>2 DEF LeaseExpires, TypeOK, SyncJob
  <2> QED
    BY <1>13, <2>1, <2>2
<1>14. ASSUME NEW t, NEW p, NEW c, Enqueue(t, p, c)
       PROVE  FALSE
  BY <1>1, <1>2, <1>14 DEF Enqueue, queueVars, TypeOK
<1>15. ASSUME Disconnect \/ RefreshNotebooks \/ \E w \in Workers : DiscoverList(w)
       PROVE  FALSE
  <2>1. jobs'[j] = BlankJob("deleted") \/ jobs'[j] = jobs[j]
    BY <1>15 DEF Disconnect, RefreshNotebooks, DiscoverList, Discover
  <2> QED
    BY <1>2, <2>1 DEF BlankJob
<1>16. ASSUME NEW m \in Notebooks, NEW enabled \in BOOLEAN, SetSyncEnabled(m, enabled)
       PROVE  FALSE
  BY <1>1, <1>2, <1>16 DEF SetSyncEnabled, SyncJob
<1>17. ASSUME \/ Connect \/ RefreshRefused \/ UNCHANGED vars
              \/ \E r \in Requests : StartSyncMark(r)
              \/ \E r \in Requests, m \in Notebooks : StartSyncRead(r, m)
              \/ \E w \in Workers : \/ StartContent(w) \/ Authorize(w) \/ AuthorizeDiscovery(w)
                                    \/ TokenRefused(w) \/ JobRaises(w)
                                    \/ RescheduleRejected(w) \/ Crash(w)
       PROVE  UNCHANGED jobs
  BY <1>17 DEF Connect, RefreshRefused, vars, queueVars, StartSyncMark, StartSyncRead,
     StartContent, Authorize, AuthorizeDiscovery, TokenRefused, JobRaises,
     RescheduleRejected, Crash
<1>18. ASSUME Producer \/ \E r \in Requests : StartSyncEnqueue(r)
       PROVE  UNCHANGED jobs \/ \E t, p, c : Enqueue(t, p, c)
  BY <1>18 DEF StartSyncEnqueue, Producer, CronEnqueue, CliEnqueue, queueVars
<1>19. ASSUME \E w \in Workers : Boot(w) \/ PeriodicReap(w)
       PROVE  Reap
  BY <1>19 DEF Boot, PeriodicReap
<1> QED
  BY <1>2, <1>3, <1>6, <1>7, <1>8, <1>9, <1>10, <1>11, <1>12, <1>13, <1>14, <1>15, <1>16,
     <1>17, <1>18, <1>19
  DEF Next, User, Handler, RunJob, Time

\* Who marks a notebook SYNCING: the click that enqueues its job, the click that finds
\* one, and the worker that starts it.
LEMMA MarkedSyncing ==
  ASSUME TypeOK, [Next]_vars, NEW n \in Notebooks, ~Syncing(n), Syncing(n)'
  PROVE  \/ HasActiveJob(n)'
         \/ \E r \in Requests : /\ request[r].pc = "deduped" /\ request[r].notebook = n
                                /\ request'[r].pc = "idle"
         \/ \E w \in Workers : /\ worker[w].pc = "claimed" /\ worker[w].target = n
                               /\ UNCHANGED jobs
<1>1. syncStatus[n] # "SYNCING" /\ syncStatus'[n] = "SYNCING"
  BY DEF Syncing
<1>2. ASSUME NEW m, NEW s \in NotebookSyncStatus, SetStatus(m, s)
      PROVE  m = n /\ s = "SYNCING" /\ Exists(n)
  BY <1>1, <1>2 DEF SetStatus, TypeOK
<1>3. ASSUME NEW r \in Requests, StartSyncEnqueue(r)
      PROVE  HasActiveJob(n)'
  <2>1. /\ ~HasActiveJob(request[r].notebook)
        /\ Enqueue(request[r].notebook, ManualPriority, request[r].created)
        /\ SetStatus(request[r].notebook, "SYNCING")
    BY <1>1, <1>3 DEF StartSyncEnqueue
  <2>2. request[r].notebook = n
    BY <1>2, <2>1 DEF NotebookSyncStatus
  <2>3. PICK j \in Jobs : jobs'[j] = NewJob(n, ManualPriority, request[r].created)
    BY <2>1, <2>2 DEF Enqueue, TypeOK
  <2> QED
    BY <2>3 DEF HasActiveJob, Active, ActiveStatuses, NewJob
<1>4. ASSUME NEW r \in Requests, StartSyncMark(r)
      PROVE  /\ request[r].pc = "deduped" /\ request[r].notebook = n
             /\ request'[r].pc = "idle"
  <2>1. request'[r] = NoRequest
    BY <1>4 DEF StartSyncMark, TypeOK
  <2>2. request[r].notebook = n
    BY <1>2, <1>4 DEF StartSyncMark, NotebookSyncStatus
  <2> QED
    BY <1>4, <2>1, <2>2 DEF StartSyncMark, NoRequest
<1>5. ASSUME NEW w \in Workers, StartContent(w)
      PROVE  worker[w].pc = "claimed" /\ worker[w].target = n /\ UNCHANGED jobs
  <2>1. SetStatus(worker[w].target, "SYNCING")
    BY <1>1, <1>5 DEF StartContent
  <2> QED
    BY <1>2, <1>5, <2>1 DEF StartContent, queueVars, NotebookSyncStatus
<1>6. ASSUME NEW w \in Workers, SyncSucceeds(w) \/ FailJob(w)
      PROVE  FALSE
  BY <1>2, <1>6 DEF SyncSucceeds, FailJob, NotebookSyncStatus
<1>7. ASSUME Reap
      PROVE  FALSE
  BY <1>1, <1>7 DEF Reap
<1>8. ASSUME RefreshNotebooks \/ \E w \in Workers : DiscoverList(w)
      PROVE  FALSE
  <2>1. syncStatus'[n] \in {"deleted", "PENDING", syncStatus[n]}
    BY <1>8 DEF RefreshNotebooks, DiscoverList, Discover
  <2> QED
    BY <1>1, <2>1
<1>9. ASSUME \/ Connect \/ Disconnect \/ RefreshRefused \/ Producer \/ Time \/ UNCHANGED vars
             \/ \E m \in Notebooks, enabled \in BOOLEAN : SetSyncEnabled(m, enabled)
             \/ \E r \in Requests, m \in Notebooks : StartSyncRead(r, m)
             \/ \E w \in Workers : \/ Claim(w) \/ Heartbeat(w) \/ CancelJob(w) \/ Authorize(w)
                                   \/ AuthorizeDiscovery(w) \/ TokenRefused(w) \/ FanOut(w)
                                   \/ JobRaises(w) \/ Reschedule(w) \/ RescheduleRejected(w)
                                   \/ Crash(w)
      PROVE  UNCHANGED syncStatus
  BY <1>9 DEF Connect, Disconnect, RefreshRefused, Producer, CronEnqueue, CliEnqueue, Time,
     BackoffElapses, LeaseExpires, vars, notebookVars, SetSyncEnabled, StartSyncRead, Claim,
     Heartbeat, CancelJob, Authorize, AuthorizeDiscovery, TokenRefused, FanOut, JobRaises,
     Reschedule, RescheduleRejected, Crash
<1>10. ASSUME \E w \in Workers : Boot(w) \/ PeriodicReap(w)
       PROVE  Reap
  BY <1>10 DEF Boot, PeriodicReap
<1> QED
  BY <1>1, <1>3, <1>4, <1>5, <1>6, <1>7, <1>8, <1>9, <1>10 DEF Next, User, Handler, RunJob

LEMMA StrandingStep ==
  ASSUME ~LeaseMayLapse, TargetInv, [Next]_vars, NEW n \in Notebooks, ~Stranded(n), Stranded(n)'
  PROVE  \/ \E j \in Jobs : /\ Active(j) /\ jobs[j].target = n
                            /\ jobs'[j].status \in {"CANCELLED", "deleted"}
         \/ \E r \in Requests : /\ request[r].pc = "deduped" /\ request[r].notebook = n
                                /\ request'[r].pc = "idle"
         \/ \E w \in Workers : /\ worker[w].pc = "claimed" /\ worker[w].target = n
                               /\ jobs[worker[w].job].status = "deleted"
<1>1. TypeOK /\ Syncing(n)' /\ ~HasActiveJob(n)'
  BY DEF TargetInv, ExclusionInv, Stranded
<1>2. CASE Syncing(n)
  <2>1. PICK j \in Jobs : Active(j) /\ jobs[j].target = n
    BY <1>2 DEF Stranded, HasActiveJob
  <2>2. jobs[j].status # "unused"
    BY <2>1 DEF Active, ActiveStatuses
  <2>3. jobs'[j].status = "deleted" \/ jobs'[j].target = n
    BY <1>1, <2>1, <2>2, TargetsKept
  <2>4. jobs'[j].status \notin {"SUCCEEDED", "FAILED"}
    BY <1>1, <2>1, FinishedIsSettled
  <2>5. jobs'[j].status # "unused"
    <3>1. RowStep(j)
      BY <1>1, StepShape DEF Shape
    <3> QED
      BY <2>2, <3>1 DEF RowStep, Untouched, LeaseLost, Created, Deleted, Withdrawn, Recovered,
         ClaimedBy, ReleasedBy, TerminalStatuses
  <2>6. jobs'[j].status \in SyncJobStatus \cup {"unused", "deleted"}
    <3>1. jobs'[j] \in SyncJob
      BY <1>1, TypeStep DEF TypeOK
    <3> QED
      BY <3>1 DEF SyncJob
  <2>7. jobs'[j].status \notin ActiveStatuses \/ jobs'[j].target # n
    BY <1>1 DEF HasActiveJob, Active
  <2> QED
    BY <2>1, <2>3, <2>4, <2>5, <2>6, <2>7 DEF SyncJobStatus, ActiveStatuses
<1>3. CASE ~Syncing(n)
  <2>1. ASSUME NEW w \in Workers, worker[w].pc = "claimed", worker[w].target = n, UNCHANGED jobs
        PROVE  jobs[worker[w].job].status = "deleted"
    <3>1. /\ worker[w].job \in Jobs
          /\ \/ jobs[worker[w].job].status = "deleted"
             \/ jobs[worker[w].job].status = "RUNNING" /\ jobs[worker[w].job].target = n
      BY <2>1 DEF TargetInv, Remembers, ExclusionInv, ExecutionIsExclusive, ClaimIsLeased,
         Executing
    <3> QED
      BY <1>1, <2>1, <3>1 DEF HasActiveJob, Active, ActiveStatuses
  <2> QED
    BY <1>1, <1>3, <2>1, MarkedSyncing
<1> QED
  BY <1>2, <1>3

\* As long as no lease lapses under a live worker, a notebook is left SYNCING with no
\* job to drive it on by four losses only: its job cancelled or deleted, a duplicate
\* click marking it late, or a worker starting a job whose row is gone.
THEOREM Stranding == ASSUME ~LeaseMayLapse PROVE Spec => StrandedOnlyByLoss
<1>1. TargetInv /\ [Next]_vars =>
        [\A n \in Notebooks : ~Stranded(n) /\ Stranded(n)' =>
           \/ \E j \in Jobs : /\ Active(j) /\ jobs[j].target = n
                              /\ jobs'[j].status \in {"CANCELLED", "deleted"}
           \/ \E r \in Requests : /\ request[r].pc = "deduped" /\ request[r].notebook = n
                                  /\ request'[r].pc = "idle"
           \/ \E w \in Workers : /\ worker[w].pc = "claimed" /\ worker[w].target = n
                                 /\ jobs[worker[w].job].status = "deleted"]_vars
  BY StrandingStep
<1>2. TargetInv /\ [Next]_vars => TargetInv'
  BY TargetStep
<1> QED
  BY TargetInit, <1>1, <1>2, PTL DEF Spec, StrandedOnlyByLoss

----------------------------------------------------------------------------
(* How far a job is run past its budget when leases lapse *)

\* The workers that may still put a job back in the queue: what each remembers of its
\* own claim leaves an attempt.
Hopeful(j) == {w \in Workers : Holds(w, j) /\ worker[w].attempts < MaxAttempts}

Waiting(j) == IF jobs[j].status = "PENDING" THEN 1 ELSE 0

\* A job whose budget is used up can be claimed once for each worker that may still
\* reschedule it, and the worker that used it up is not one of those.
Overrun(j) ==
  jobs[j].attempts >= MaxAttempts =>
    jobs[j].attempts + Waiting(j) + Cardinality(Hopeful(j))
      <= MaxAttempts + Cardinality(Workers) - 1

OverrunInv == TypeOK /\ \A j \in Jobs : Overrun(j)

LEMMA HopefulIsFinite ==
  ASSUME NEW j \in Jobs
  PROVE  /\ IsFiniteSet(Hopeful(j)) /\ Cardinality(Hopeful(j)) \in Nat
         /\ IsFiniteSet(Hopeful(j)') /\ Cardinality(Hopeful(j)') \in Nat
         /\ Cardinality(Workers) \in Nat
<1>1. IsFiniteSet(Workers)
  BY QueueAssumption
<1>2. Hopeful(j) \in SUBSET Workers /\ Hopeful(j)' \in SUBSET Workers
  BY DEF Hopeful
<1> QED
  BY <1>1, <1>2, FS_Subset, FS_CardinalityType

\* Nobody becomes hopeful of a job but by claiming it.
LEMMA HopefulShrinks ==
  ASSUME TypeOK, Shape, NEW j \in Jobs, ~\E w \in Workers : ClaimedBy(w, j)
  PROVE  /\ Hopeful(j)' \subseteq Hopeful(j)
         /\ Cardinality(Hopeful(j)') <= Cardinality(Hopeful(j))
<1>1. ASSUME NEW w \in Workers, w \in Hopeful(j)'
      PROVE  w \in Hopeful(j)
  <2>1. WorkerStep(w)
    BY DEF Shape
  <2>2. worker'[w].pc \in Executing /\ worker'[w].job = j /\ worker'[w].attempts < MaxAttempts
    BY <1>1 DEF Hopeful, Holds
  <2>3. ~\E i \in Jobs : ClaimedBy(w, i)
    BY <2>2 DEF ClaimedBy
  <2> QED
    BY <2>1, <2>2, <2>3 DEF WorkerStep, Hopeful, Holds
<1>2. Hopeful(j)' \subseteq Hopeful(j)
  BY <1>1 DEF Hopeful
<1> QED
  BY <1>2, HopefulIsFinite, FS_Subset

LEMMA OverrunStep ==
  ASSUME OverrunInv, [Next]_vars
  PROVE  OverrunInv'
<1>1. TypeOK' /\ Shape
  BY TypeStep, StepShape DEF OverrunInv
<1>2. ASSUME NEW j \in Jobs, jobs'[j].attempts >= MaxAttempts
      PROVE  jobs'[j].attempts + Waiting(j)' + Cardinality(Hopeful(j)')
               <= MaxAttempts + Cardinality(Workers) - 1
  <2>1. /\ jobs[j].attempts \in Nat /\ MaxAttempts \in Nat \ {0}
        /\ Cardinality(Hopeful(j)) \in Nat /\ Cardinality(Hopeful(j)') \in Nat
        /\ Cardinality(Workers) \in Nat
    <3>1. jobs[j] \in SyncJob
      BY DEF OverrunInv, TypeOK
    <3> QED
      BY <3>1, QueueAssumption, HopefulIsFinite DEF SyncJob
  <2>2. RowStep(j)
    BY <1>1 DEF Shape
  <2>3. ASSUME NEW w \in Workers, ClaimedBy(w, j)
        PROVE  jobs'[j].attempts + Waiting(j)' + Cardinality(Hopeful(j)')
                 <= MaxAttempts + Cardinality(Workers) - 1
    <3>1. /\ jobs'[j].attempts = jobs[j].attempts + 1
          /\ Waiting(j) = 1 /\ Waiting(j)' = 0
      BY <2>3 DEF ClaimedBy, Waiting
    <3>2. w \notin Hopeful(j)'
      BY <1>2, <2>1, <2>3, <3>1 DEF ClaimedBy, Hopeful
    <3>3. CASE jobs[j].attempts < MaxAttempts
      <4>1. Hopeful(j)' \in SUBSET (Workers \ {w})
        BY <3>2 DEF Hopeful
      <4>2. IsFiniteSet(Workers \ {w}) /\ Cardinality(Workers \ {w}) = Cardinality(Workers) - 1
        BY QueueAssumption, FS_RemoveElement
      <4>3. Cardinality(Hopeful(j)') <= Cardinality(Workers) - 1
        BY <4>1, <4>2, FS_Subset
      <4> QED
        BY <1>2, <2>1, <3>1, <3>3, <4>3
    <3>4. CASE jobs[j].attempts >= MaxAttempts
      <4>1. Hopeful(j)' \in SUBSET Hopeful(j)
        <5>1. ASSUME NEW v \in Workers, v # w, v \in Hopeful(j)'
              PROVE  v \in Hopeful(j)
          <6>1. worker'[v] = worker[v]
            BY <1>1, <2>3, <5>1 DEF Shape, OneWorkerMoves, ClaimedBy, Executing
          <6> QED
            BY <5>1, <6>1 DEF Hopeful, Holds
        <5> QED
          BY <3>2, <5>1 DEF Hopeful
      <4>2. Cardinality(Hopeful(j)') <= Cardinality(Hopeful(j))
        BY <4>1, HopefulIsFinite, FS_Subset
      <4>3. jobs[j].attempts + Waiting(j) + Cardinality(Hopeful(j))
              <= MaxAttempts + Cardinality(Workers) - 1
        BY <3>4 DEF OverrunInv, Overrun
      <4> QED
        BY <2>1, <3>1, <4>2, <4>3
    <3> QED
      BY <2>1, <3>3, <3>4
  <2>4. ASSUME ~\E w \in Workers : ClaimedBy(w, j)
        PROVE  jobs'[j].attempts + Waiting(j)' + Cardinality(Hopeful(j)')
                 <= MaxAttempts + Cardinality(Workers) - 1
    <3>1. Cardinality(Hopeful(j)') <= Cardinality(Hopeful(j))
      BY <1>1, <2>4, HopefulShrinks DEF OverrunInv
    <3>2. jobs'[j].attempts = jobs[j].attempts
      BY <1>2, <2>1, <2>2, <2>4
      DEF RowStep, Untouched, LeaseLost, Created, Deleted, Withdrawn, Recovered, ReleasedBy
    <3>3. jobs[j].attempts + Waiting(j) + Cardinality(Hopeful(j))
            <= MaxAttempts + Cardinality(Workers) - 1
      BY <1>2, <3>2 DEF OverrunInv, Overrun
    <3>4. CASE Waiting(j)' <= Waiting(j)
      BY <2>1, <3>1, <3>2, <3>3, <3>4 DEF Waiting
    <3>5. CASE Waiting(j)' > Waiting(j)
      <4>1. jobs[j].status # "PENDING" /\ jobs'[j].status = "PENDING"
        BY <3>5 DEF Waiting
      <4>2. PICK w \in Workers : ReleasedBy(w, j) /\ ~Spent(worker[w].attempts)
        BY <1>2, <2>1, <2>2, <2>4, <3>2, <4>1
        DEF RowStep, Untouched, LeaseLost, Created, Deleted, Withdrawn, Recovered, Spent,
            ReleasedBy, TerminalStatuses
      <4>3. w \in Hopeful(j) /\ w \notin Hopeful(j)'
        <5>1. worker[w].attempts \in Nat
          BY DEF OverrunInv, TypeOK
        <5> QED
          BY <2>1, <4>2, <5>1 DEF ReleasedBy, Spent, Hopeful, Holds
      <4>4. Hopeful(j)' \in SUBSET (Hopeful(j) \ {w})
        BY <1>1, <2>4, <4>3, HopefulShrinks DEF OverrunInv
      <4>5. Cardinality(Hopeful(j)') <= Cardinality(Hopeful(j)) - 1
        <5>1. /\ IsFiniteSet(Hopeful(j) \ {w})
              /\ Cardinality(Hopeful(j) \ {w}) = Cardinality(Hopeful(j)) - 1
          BY <4>3, HopefulIsFinite, FS_RemoveElement
        <5> QED
          BY <4>4, <5>1, FS_Subset
      <4> QED
        BY <2>1, <3>2, <3>3, <4>1, <4>5 DEF Waiting
    <3> QED
      BY <3>4, <3>5 DEF Waiting
  <2> QED
    BY <2>3, <2>4
<1> QED
  BY <1>1, <1>2 DEF OverrunInv, Overrun

\* However leases lapse, a job is claimed at most once more than its budget for every
\* further worker: after the claim that uses the budget up, only a worker whose own
\* claim was an earlier one can put the job back, and it does so once.
THEOREM OverrunBound == Spec => []OverrunIsBounded
<1>1. Init => OverrunInv
  BY TypeInit, QueueAssumption DEF Init, OverrunInv, Overrun, BlankJob
<1>2. OverrunInv /\ [Next]_vars => OverrunInv'
  BY OverrunStep
<1>3. OverrunInv => OverrunIsBounded
  <2>1. ASSUME OverrunInv, NEW j \in Jobs
        PROVE  jobs[j].attempts <= MaxAttempts + Cardinality(Workers) - 1
    <3>1. /\ jobs[j].attempts \in Nat /\ MaxAttempts \in Nat
          /\ Cardinality(Hopeful(j)) \in Nat /\ Cardinality(Workers) \in Nat
      <4>1. jobs[j] \in SyncJob
        BY <2>1 DEF OverrunInv, TypeOK
      <4> QED
        BY <4>1, QueueAssumption, HopefulIsFinite DEF SyncJob
    <3>2. Overrun(j)
      BY <2>1 DEF OverrunInv
    <3> QED
      BY <3>1, <3>2 DEF Overrun, Waiting
  <2> QED
    BY <2>1 DEF OverrunIsBounded
<1> QED
  BY <1>1, <1>2, <1>3, PTL DEF Spec
=============================================================================
