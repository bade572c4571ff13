------------------------- MODULE SyncQueueRefinement -------------------------
(***************************************************************************)
(* The table, the leases, the reaper and the retries of SyncQueue          *)
(* implement JobQueue, for every set of notebooks, jobs, workers and       *)
(* requests, as long as no lease lapses under a live worker.               *)
(***************************************************************************)
EXTENDS SyncQueueProofs

----------------------------------------------------------------------------
(* The abstract state, and the abstract actions in terms of it *)

ExecutedBy(w) == IF worker[w].pc \in Executing THEN worker[w].job ELSE NoJob

AbstractJobs == [j \in Jobs |-> AbstractJob(j)]
AbstractExecuting == [w \in Workers |-> ExecutedBy(w)]

Live(j) == AbstractJob(j).phase \in {"queued", "running"}
TakenKeys == {AbstractJob(j).key : j \in {i \in Jobs : Live(i)}}

\* The step of the job queue a step of the table amounts to, if any.
AbstractStep ==
  \/ Abstract!QueueNext
  \/ AbstractJobs' = AbstractJobs /\ AbstractExecuting' = AbstractExecuting

\* A choice of unused rows and of free keys for them is one the job queue may submit.
LEMMA FreeRows ==
  ASSUME NEW S \in SUBSET Jobs, \A j \in S : jobs[j].status = "unused",
         NEW f \in [S -> Targets \ TakenKeys], \A i, j \in S : f[i] = f[j] => i = j
  PROVE  f \in Abstract!Submissions
<1>1. Abstract!LiveKeys = TakenKeys
  BY DEF Abstract!LiveKeys, Abstract!Live, TakenKeys, Live
<1>2. S \in SUBSET {j \in Jobs : [i \in Jobs |-> AbstractJob(i)][j] = Abstract!New}
  BY DEF AbstractJob, Abstract!New
<1>3. f \in {g \in [S -> Targets \ Abstract!LiveKeys] : \A i, j \in S : g[i] = g[j] => i = j}
  BY <1>1
<1> QED
  BY <1>2, <1>3 DEF Abstract!Submissions

LEMMA SubmitStep ==
  ASSUME NEW S \in SUBSET Jobs, \A j \in S : jobs[j].status = "unused",
         NEW f \in [S -> Targets \ TakenKeys], \A i, j \in S : f[i] = f[j] => i = j,
         \A j \in Jobs : AbstractJob(j)' = IF j \in S THEN [phase |-> "queued", key |-> f[j], tries |-> 0]
                                           ELSE AbstractJob(j),
         AbstractExecuting' = AbstractExecuting
  PROVE  AbstractStep
<1>1. f \in Abstract!Submissions
  BY FreeRows
<1>2. AbstractJobs' = [j \in Jobs |-> IF j \in DOMAIN f THEN Abstract!Queued(f[j], 0)
                                         ELSE AbstractJobs[j]]
  BY DEF AbstractJobs, Abstract!Queued
<1>3. Abstract!Submit
  BY <1>1, <1>2 DEF Abstract!Submit, AbstractJobs, AbstractExecuting, ExecutedBy
<1> QED
  BY <1>3 DEF AbstractStep, Abstract!QueueNext

LEMMA FinishStep ==
  ASSUME NEW w \in Workers, ExecutedBy(w) # NoJob,
         NEW S \in SUBSET Jobs, \A j \in S : jobs[j].status = "unused",
         NEW f \in [S -> Targets \ TakenKeys], \A i, j \in S : f[i] = f[j] => i = j,
         \A j \in Jobs : AbstractJob(j)' = IF j \in S THEN [phase |-> "queued", key |-> f[j], tries |-> 0]
                                           ELSE IF j = ExecutedBy(w) THEN [phase |-> "done"]
                                           ELSE AbstractJob(j),
         AbstractExecuting' = [AbstractExecuting EXCEPT ![w] = NoJob]
  PROVE  AbstractStep
<1>1. f \in Abstract!Submissions
  BY FreeRows
<1>2. AbstractJobs' = [j \in Jobs |-> IF j \in DOMAIN f THEN Abstract!Queued(f[j], 0)
                                      ELSE IF j = AbstractExecuting[w] THEN Abstract!Done
                                      ELSE AbstractJobs[j]]
  BY DEF AbstractJobs, AbstractExecuting, Abstract!Queued, Abstract!Done
<1>3. Abstract!Finish(w)
  BY <1>1, <1>2 DEF Abstract!Finish, AbstractJobs, AbstractExecuting, ExecutedBy
<1> QED
  BY <1>3 DEF AbstractStep, Abstract!QueueNext

\* A worker that is done with its job, which produced none.
LEMMA FinishAlone ==
  ASSUME NEW w \in Workers, ExecutedBy(w) # NoJob,
         \A j \in Jobs : AbstractJob(j)' = IF j = ExecutedBy(w) THEN [phase |-> "done"]
                                           ELSE AbstractJob(j),
         AbstractExecuting' = [AbstractExecuting EXCEPT ![w] = NoJob]
  PROVE  AbstractStep
<1>1. PICK f : f \in [{} -> Targets \ TakenKeys]
  <2>1. [j \in {} |-> NoNotebook] \in [{} -> Targets \ TakenKeys]
    OBVIOUS
  <2> QED
    BY <2>1
<1> QED
  BY <1>1, FinishStep

LEMMA WithdrawStep ==
  ASSUME NEW S \in SUBSET {j \in Jobs : Live(j)},
         \A j \in Jobs : AbstractJob(j)' = IF j \in S THEN [phase |-> "done"] ELSE AbstractJob(j),
         AbstractExecuting' = AbstractExecuting
  PROVE  AbstractStep
<1>1. Abstract!Withdraw
  BY DEF Abstract!Withdraw, Abstract!Live, Abstract!Done, AbstractJobs, AbstractExecuting,
     ExecutedBy, Live
<1> QED
  BY <1>1 DEF AbstractStep, Abstract!QueueNext

LEMMA RecoverStep ==
  ASSUME NEW S \in SUBSET {j \in Jobs : /\ AbstractJob(j).phase = "running"
                                        /\ \A w \in Workers : ExecutedBy(w) # j},
         \A j \in Jobs : AbstractJob(j)' =
           IF j \notin S THEN AbstractJob(j)
           ELSE IF AbstractJob(j).tries < MaxAttempts
           THEN [phase |-> "queued", key |-> AbstractJob(j).key, tries |-> AbstractJob(j).tries]
           ELSE [phase |-> "done"],
         AbstractExecuting' = AbstractExecuting
  PROVE  AbstractStep
<1>1. S \in SUBSET {j \in Jobs : /\ AbstractJobs[j].phase = "running"
                                 /\ \A w \in Workers : AbstractExecuting[w] # j}
  BY DEF AbstractJobs, AbstractExecuting
<1>2. AbstractJobs' = [j \in Jobs |->
                         IF j \notin S THEN AbstractJobs[j]
                         ELSE IF AbstractJobs[j].tries < MaxAttempts
                         THEN Abstract!Queued(AbstractJobs[j].key, AbstractJobs[j].tries)
                         ELSE Abstract!Done]
  BY DEF AbstractJobs, Abstract!Queued, Abstract!Done
<1>3. Abstract!Recover
  BY <1>1, <1>2 DEF Abstract!Recover, AbstractJobs, AbstractExecuting, ExecutedBy
<1> QED
  BY <1>3 DEF AbstractStep, Abstract!QueueNext

LEMMA RetryStep ==
  ASSUME NEW w \in Workers, NEW j \in Jobs, ExecutedBy(w) = j, j # NoJob,
         \A i \in Jobs : AbstractJob(i)' =
           IF i = j /\ Live(j) /\ AbstractJob(j).tries < MaxAttempts
           THEN [phase |-> "queued", key |-> AbstractJob(j).key, tries |-> AbstractJob(j).tries]
           ELSE AbstractJob(i),
         AbstractExecuting' = [AbstractExecuting EXCEPT ![w] = NoJob]
  PROVE  AbstractStep
<1>1. AbstractJobs' = IF Live(j) /\ AbstractJobs[j].tries < MaxAttempts
                      THEN [AbstractJobs EXCEPT
                              ![j] = Abstract!Queued(AbstractJobs[j].key, AbstractJobs[j].tries)]
                      ELSE AbstractJobs
  BY DEF AbstractJobs, Abstract!Queued
<1>2. Abstract!Retry(w)
  BY <1>1 DEF Abstract!Retry, Abstract!Live, AbstractJobs, AbstractExecuting, ExecutedBy, Live
<1> QED
  BY <1>2 DEF AbstractStep, Abstract!QueueNext

LEMMA StartStep ==
  ASSUME NEW w \in Workers, NEW j \in Jobs, ExecutedBy(w) = NoJob,
         AbstractJob(j).phase = "queued", AbstractJob(j).tries < MaxAttempts,
         \A i \in Jobs : AbstractJob(i)' =
           IF i = j THEN [phase |-> "running", key |-> AbstractJob(j).key,
                          tries |-> AbstractJob(j).tries + 1]
           ELSE AbstractJob(i),
         AbstractExecuting' = [AbstractExecuting EXCEPT ![w] = j]
  PROVE  AbstractStep
<1>1. AbstractJobs' = [AbstractJobs EXCEPT
                         ![j] = Abstract!Running(AbstractJobs[j].key, AbstractJobs[j].tries + 1)]
  BY DEF AbstractJobs, Abstract!Running
<1>2. Abstract!Start(w)
  BY <1>1 DEF Abstract!Start, AbstractJobs, AbstractExecuting, ExecutedBy
<1> QED
  BY <1>2 DEF AbstractStep, Abstract!QueueNext

LEMMA DieStep ==
  ASSUME NEW w \in Workers, UNCHANGED jobs,
         AbstractExecuting' = [AbstractExecuting EXCEPT ![w] = NoJob]
  PROVE  AbstractStep
<1>1. Abstract!Die(w)
  BY DEF Abstract!Die, AbstractExecuting, ExecutedBy, AbstractJob
<1> QED
  BY <1>1 DEF AbstractStep, Abstract!QueueNext

LEMMA StutterStep ==
  ASSUME \A j \in Jobs : AbstractJob(j)' = AbstractJob(j),
         AbstractExecuting' = AbstractExecuting
  PROVE  AbstractStep
  BY DEF AbstractStep, AbstractJobs

----------------------------------------------------------------------------
(* What a row and a worker are in the abstract *)

LEMMA RowAbstracts ==
  ASSUME NEW j \in Jobs
  PROVE  /\ jobs[j].status = "unused" => AbstractJob(j) = [phase |-> "new"]
         /\ jobs[j].status = "PENDING" =>
              AbstractJob(j) = [phase |-> "queued", key |-> jobs[j].target,
                                tries |-> jobs[j].attempts]
         /\ jobs[j].status = "RUNNING" =>
              AbstractJob(j) = [phase |-> "running", key |-> jobs[j].target,
                                tries |-> jobs[j].attempts]
         /\ jobs[j].status \notin {"unused", "PENDING", "RUNNING"} =>
              AbstractJob(j) = [phase |-> "done"]
  BY DEF AbstractJob

\* A row that shows the queue nothing new.
Shown(j) ==
  /\ jobs'[j].status = jobs[j].status
  /\ jobs'[j].target = jobs[j].target
  /\ jobs'[j].attempts = jobs[j].attempts

LEMMA ShownRow ==
  ASSUME NEW j \in Jobs, Shown(j)
  PROVE  AbstractJob(j)' = AbstractJob(j)
  BY DEF AbstractJob, Shown

LEMMA NewRow ==
  ASSUME NEW j \in Jobs, NEW t, NEW p, NEW c, jobs'[j] = NewJob(t, p, c)
  PROVE  AbstractJob(j)' = [phase |-> "queued", key |-> t, tries |-> 0]
  BY DEF AbstractJob, NewJob

LEMMA LiveRows ==
  ASSUME TypeOK, NEW j \in Jobs
  PROVE  Live(j) <=> Active(j)
<1>1. jobs[j] \in SyncJob
  BY DEF TypeOK
<1> QED
  BY <1>1, RowAbstracts DEF Live, Active, ActiveStatuses

LEMMA FreeKeys ==
  ASSUME TypeOK, NEW t \in Targets, ~HasActiveJob(t)
  PROVE  t \in Targets \ TakenKeys
<1>1. ASSUME NEW j \in Jobs, Live(j)
      PROVE  AbstractJob(j).key # t
  <2>1. Active(j)
    BY <1>1, LiveRows
  <2>2. AbstractJob(j).key = jobs[j].target
    BY <2>1, RowAbstracts DEF Active, ActiveStatuses
  <2> QED
    BY <2>1, <2>2 DEF HasActiveJob
<1> QED
  BY <1>1 DEF TakenKeys

LEMMA Idle ==
  ASSUME UNCHANGED worker
  PROVE  AbstractExecuting' = AbstractExecuting
  BY DEF AbstractExecuting, ExecutedBy

LEMMA GoesOn ==
  ASSUME TypeOK, NEW w \in Workers, worker[w].pc \in Executing, worker'[w].pc \in Executing,
         worker'[w].job = worker[w].job,
         \A v \in Workers : v # w => worker'[v] = worker[v]
  PROVE  AbstractExecuting' = AbstractExecuting
  BY DEF AbstractExecuting, ExecutedBy

\* One worker executes another job, or none.
LEMMA MovedOne ==
  ASSUME NEW w \in Workers, NEW x, ExecutedBy(w)' = x,
         \A v \in Workers : v # w => ExecutedBy(v)' = ExecutedBy(v)
  PROVE  AbstractExecuting' = [AbstractExecuting EXCEPT ![w] = x]
<1>1. \A v \in Workers : ExecutedBy(v)' = IF v = w THEN x ELSE AbstractExecuting[v]
  BY DEF AbstractExecuting
<1> QED
  BY <1>1 DEF AbstractExecuting

LEMMA Rests ==
  ASSUME TypeOK, NEW w \in Workers, NEW pc \in {"down", "poll"},
         worker' = [worker EXCEPT ![w] = Resting(pc)]
  PROVE  AbstractExecuting' = [AbstractExecuting EXCEPT ![w] = NoJob]
<1>1. worker'[w].pc \notin Executing /\ \A v \in Workers : v # w => worker'[v] = worker[v]
  BY DEF TypeOK, Resting, Executing
<1>2. ExecutedBy(w)' = NoJob /\ \A v \in Workers : v # w => ExecutedBy(v)' = ExecutedBy(v)
  BY <1>1 DEF ExecutedBy
<1> QED
  BY <1>2, MovedOne

----------------------------------------------------------------------------
(* The steps of the table are steps of the queue *)

\* The rows are shown unchanged, and every worker goes on.
LEMMA QuietStep ==
  ASSUME \A j \in Jobs : Shown(j), AbstractExecuting' = AbstractExecuting
  PROVE  AbstractStep
  BY ShownRow, StutterStep

\* Rows are cancelled or deleted under whoever runs them.
LEMMA WithdrawRows ==
  ASSUME TypeOK, AbstractExecuting' = AbstractExecuting,
         \A j \in Jobs : \/ Shown(j)
                         \/ /\ jobs[j].status # "unused"
                            /\ jobs'[j].status \in {"CANCELLED", "deleted"}
  PROVE  AbstractStep
<1> DEFINE S == {j \in Jobs : Live(j) /\ ~Shown(j)}
<1>1. ASSUME NEW j \in Jobs
      PROVE  AbstractJob(j)' = IF j \in S THEN [phase |-> "done"] ELSE AbstractJob(j)
  <2>1. CASE Shown(j)
    BY <2>1, ShownRow
  <2>2. CASE /\ ~Shown(j) /\ jobs[j].status # "unused"
             /\ jobs'[j].status \in {"CANCELLED", "deleted"}
    <3>1. AbstractJob(j)' = [phase |-> "done"]
      BY <2>2 DEF AbstractJob
    <3>2. ~Live(j) => AbstractJob(j) = [phase |-> "done"]
      BY <2>2, RowAbstracts DEF Live
    <3> QED
      BY <2>2, <3>1, <3>2
  <2> QED
    BY <2>1, <2>2
<1>2. S \in SUBSET {j \in Jobs : Live(j)}
  OBVIOUS
<1> HIDE DEF S
<1> QED
  BY <1>1, <1>2, WithdrawStep

LEMMA DiscoverWithdraws ==
  ASSUME TypeOK, AbstractExecuting' = AbstractExecuting,
         NEW listed \in SUBSET Notebooks, NEW complete \in BOOLEAN, Discover(listed, complete)
  PROVE  AbstractStep
<1>1. ASSUME NEW j \in Jobs
      PROVE  \/ Shown(j)
             \/ jobs[j].status # "unused" /\ jobs'[j].status \in {"CANCELLED", "deleted"}
  <2>1. jobs'[j] = jobs[j] \/ (Stored(j) /\ jobs'[j] = BlankJob("deleted"))
    BY DEF Discover
  <2> QED
    BY <2>1 DEF Shown, Stored, SyncJobStatus, BlankJob
<1> QED
  BY <1>1, WithdrawRows

LEMMA EnqueueSubmits ==
  ASSUME TypeOK, UNCHANGED worker, NEW t \in Targets, NEW p, NEW c, Enqueue(t, p, c)
  PROVE  AbstractStep
<1>1. AbstractExecuting' = AbstractExecuting
  BY Idle
<1>2. CASE UNCHANGED jobs
  BY <1>1, <1>2, QuietStep DEF Shown
<1>3. CASE ~HasActiveJob(t)
  <2>1. PICK i \in Jobs : /\ jobs[i].status = "unused"
                          /\ jobs' = [jobs EXCEPT ![i] = NewJob(t, p, c)]
    BY <1>3 DEF Enqueue
  <2>2. PICK f : f = [j \in {i} |-> t]
    OBVIOUS
  <2>3. f \in [{i} -> Targets \ TakenKeys] /\ f[i] = t
    BY <1>3, <2>2, FreeKeys
  <2>4. ASSUME NEW j \in Jobs
        PROVE  AbstractJob(j)' = IF j \in {i} THEN [phase |-> "queued", key |-> f[j], tries |-> 0]
                                 ELSE AbstractJob(j)
    <3>1. CASE j = i
      <4>1. jobs'[i] = NewJob(t, p, c)
        BY <2>1 DEF TypeOK
      <4> QED
        BY <2>3, <3>1, <4>1, NewRow
    <3>2. CASE j # i
      BY <2>1, <3>2, ShownRow DEF TypeOK, Shown
    <3> QED
      BY <3>1, <3>2
  <2> QED
    BY <1>1, <2>1, <2>3, <2>4, SubmitStep
<1> QED
  BY <1>2, <1>3 DEF Enqueue, queueVars

LEMMA ReapRecovers ==
  ASSUME ExclusionInv, Reap, AbstractExecuting' = AbstractExecuting
  PROVE  AbstractStep
<1> DEFINE S == {j \in Jobs : Expired(j)}
<1>1. ASSUME NEW j \in Jobs, Expired(j), NEW w \in Workers
      PROVE  ExecutedBy(w) # j
  BY <1>1, QueueAssumption
  DEF ExecutedBy, Expired, ExclusionInv, ClaimIsLeased
<1>2. S \in SUBSET {j \in Jobs : /\ AbstractJob(j).phase = "running"
                                 /\ \A w \in Workers : ExecutedBy(w) # j}
  <2>1. ASSUME NEW j \in Jobs, Expired(j)
        PROVE  AbstractJob(j).phase = "running"
    BY <2>1, RowAbstracts DEF Expired
  <2> QED
    BY <1>1, <2>1
<1>3. ASSUME NEW j \in Jobs
      PROVE  AbstractJob(j)' =
               IF j \notin S THEN AbstractJob(j)
               ELSE IF AbstractJob(j).tries < MaxAttempts
               THEN [phase |-> "queued", key |-> AbstractJob(j).key,
                     tries |-> AbstractJob(j).tries]
               ELSE [phase |-> "done"]
  <2>1. jobs[j] \in SyncJob /\ MaxAttempts \in Nat
    BY QueueAssumption DEF ExclusionInv, TypeOK
  <2>2. CASE ~Expired(j)
    BY <2>2, ShownRow DEF Reap, Shown
  <2>3. CASE Expired(j)
    <3>1. AbstractJob(j) = [phase |-> "running", key |-> jobs[j].target, tries |-> jobs[j].attempts]
      BY <2>3, RowAbstracts DEF Expired
    <3>2. CASE Spent(jobs[j].attempts)
      <4>1. jobs'[j].status = "FAILED"
        BY <2>1, <2>3, <3>2 DEF Reap, SyncJob
      <4>2. AbstractJob(j)' = [phase |-> "done"]
        BY <4>1 DEF AbstractJob
      <4> QED
        BY <2>1, <2>3, <3>1, <3>2, <4>2 DEF Spent, SyncJob
    <3>3. CASE ~Spent(jobs[j].attempts)
      <4>1. /\ jobs'[j].status = "PENDING" /\ jobs'[j].target = jobs[j].target
            /\ jobs'[j].attempts = jobs[j].attempts
        BY <2>1, <2>3, <3>3 DEF Reap, SyncJob
      <4>2. AbstractJob(j)' = [phase |-> "queued", key |-> jobs[j].target,
                               tries |-> jobs[j].attempts]
        BY <4>1 DEF AbstractJob
      <4> QED
        BY <2>1, <2>3, <3>1, <3>3, <4>2 DEF Spent, SyncJob
    <3> QED
      BY <3>2, <3>3
  <2> QED
    BY <2>2, <2>3
<1> HIDE DEF S
<1> QED
  BY <1>2, <1>3, RecoverStep

LEMMA ClaimStarts ==
  ASSUME BudgetInv, NEW w \in Workers, Claim(w)
  PROVE  AbstractStep
<1>1. PICK j \in Jobs :
        /\ jobs[j].status = "PENDING"
        /\ jobs' = [jobs EXCEPT ![j].status = "RUNNING", ![j].attempts = @ + 1,
                                ![j].lease = "held"]
        /\ worker' = [worker EXCEPT ![w] =
                        [pc |-> "claimed", job |-> j, target |-> jobs[j].target,
                         attempts |-> jobs[j].attempts + 1, seen |-> {}]]
  BY DEF Claim, Claimable
<1>2. TypeOK /\ jobs[j] \in SyncJob /\ worker[w].pc = "poll"
  BY DEF BudgetInv, ExclusionInv, TypeOK, Claim
<1>3. AbstractJob(j) = [phase |-> "queued", key |-> jobs[j].target, tries |-> jobs[j].attempts]
  BY <1>1, RowAbstracts
<1>4. jobs[j].attempts < MaxAttempts
  BY <1>1 DEF BudgetInv, RetryBudget
<1>5. ASSUME NEW i \in Jobs
      PROVE  AbstractJob(i)' =
               IF i = j THEN [phase |-> "running", key |-> AbstractJob(j).key,
                              tries |-> AbstractJob(j).tries + 1]
               ELSE AbstractJob(i)
  <2>1. CASE i = j
    <3>1. /\ jobs'[j].status = "RUNNING" /\ jobs'[j].target = jobs[j].target
          /\ jobs'[j].attempts = jobs[j].attempts + 1
      BY <1>1, <1>2 DEF TypeOK, SyncJob
    <3>2. AbstractJob(j)' = [phase |-> "running", key |-> jobs[j].target,
                             tries |-> jobs[j].attempts + 1]
      BY <3>1 DEF AbstractJob
    <3> QED
      BY <1>3, <2>1, <3>2
  <2>2. CASE i # j
    BY <1>1, <1>2, <2>2, ShownRow DEF TypeOK, Shown
  <2> QED
    BY <2>1, <2>2
<1>6. AbstractExecuting' = [AbstractExecuting EXCEPT ![w] = j]
  <2>1. worker'[w].pc = "claimed" /\ worker'[w].job = j
    BY <1>1, <1>2 DEF TypeOK
  <2>2. \A v \in Workers : v # w => worker'[v] = worker[v]
    BY <1>1, <1>2 DEF TypeOK
  <2>3. ExecutedBy(w)' = j /\ \A v \in Workers : v # w => ExecutedBy(v)' = ExecutedBy(v)
    BY <2>1, <2>2 DEF ExecutedBy, Executing
  <2> QED
    BY <2>3, MovedOne
<1>7. ExecutedBy(w) = NoJob
  BY <1>2 DEF ExecutedBy, Executing
<1>8. AbstractJob(j).phase = "queued" /\ AbstractJob(j).tries < MaxAttempts
  BY <1>3, <1>4
<1> QED
  BY <1>5, <1>6, <1>7, <1>8, StartStep

\* The job a worker runs, in the abstract: it is running or has been withdrawn.
LEMMA Executed ==
  ASSUME ExclusionInv, NEW w \in Workers, worker[w].pc \in Executing
  PROVE  /\ worker[w].job \in Jobs /\ ExecutedBy(w) = worker[w].job /\ ExecutedBy(w) # NoJob
         /\ \/ jobs[worker[w].job].status = "deleted" /\ ~Stored(worker[w].job)
            \/ /\ jobs[worker[w].job].status = "RUNNING" /\ Stored(worker[w].job)
               /\ jobs[worker[w].job].attempts = worker[w].attempts
  BY QueueAssumption
  DEF ExecutedBy, ExclusionInv, ExecutionIsExclusive, ClaimIsLeased, Stored, SyncJobStatus

LEMMA FinaliseFinishes ==
  ASSUME ExclusionInv, NEW w \in Workers, NEW s \in TerminalStatuses,
         worker[w].pc \in Executing, Finalise(worker[w].job, s), BackToPoll(w)
  PROVE  AbstractStep
<1>1. AbstractExecuting' = [AbstractExecuting EXCEPT ![w] = NoJob]
  BY Rests DEF BackToPoll, ExclusionInv
<1>2. ASSUME NEW j \in Jobs
      PROVE  AbstractJob(j)' = IF j = ExecutedBy(w) THEN [phase |-> "done"] ELSE AbstractJob(j)
  <2>1. /\ jobs[j] \in SyncJob
        /\ jobs'[j] = IF j = worker[w].job /\ Stored(worker[w].job)
                      THEN [jobs[j] EXCEPT !.status = s, !.lease = "none"] ELSE jobs[j]
    <3>1. TypeOK /\ worker[w].job \in Jobs \cup {NoJob}
      BY Executed DEF ExclusionInv
    <3>2. jobs[j] \in SyncJob
      BY <3>1 DEF TypeOK
    <3> QED
      BY <3>1, <3>2, FinaliseRow
  <2>2. CASE j = worker[w].job /\ Stored(j)
    <3>1. jobs'[j].status = s
      BY <2>1, <2>2 DEF SyncJob
    <3>2. AbstractJob(j)' = [phase |-> "done"]
      BY <3>1 DEF AbstractJob, TerminalStatuses
    <3> QED
      BY <2>2, <3>2, Executed
  <2>3. CASE j = worker[w].job /\ ~Stored(j)
    <3>1. jobs'[j].status = "deleted" /\ jobs[j].status = "deleted"
      BY <2>1, <2>3, Executed
    <3>2. AbstractJob(j)' = [phase |-> "done"]
      BY <3>1 DEF AbstractJob
    <3> QED
      BY <2>3, <3>2, Executed
  <2>4. CASE j # worker[w].job
    BY <2>1, <2>4, Executed, ShownRow DEF Shown
  <2> QED
    BY <2>2, <2>3, <2>4
<1> QED
  BY <1>1, <1>2, Executed, FinishAlone

LEMMA FanOutFinishes ==
  ASSUME ExclusionInv, NEW w \in Workers, FanOut(w)
  PROVE  AbstractStep
<1> DEFINE wanted == {n \in worker[w].seen : ~HasActiveJob(n)}
           d == worker[w].job
<1>1. PICK row \in [wanted -> {j \in Jobs : jobs[j].status = "unused"}] :
        /\ \A m, n \in wanted : row[m] = row[n] => m = n
        /\ jobs' = [j \in Jobs |->
                      IF \E n \in wanted : row[n] = j
                      THEN NewJob(CHOOSE n \in wanted : row[n] = j, AutoPriority, clock)
                      ELSE IF j = d /\ Stored(d)
                      THEN [jobs[j] EXCEPT !.status = "SUCCEEDED", !.lease = "none"]
                      ELSE jobs[j]]
  BY DEF FanOut
<1>2. TypeOK /\ worker[w].pc \in Executing
  BY DEF ExclusionInv, FanOut, Executing
<1>3. PICK S \in SUBSET Jobs : S = {j \in Jobs : \E n \in wanted : row[n] = j}
  OBVIOUS
<1>4. PICK f : f = [j \in S |-> CHOOSE n \in wanted : row[n] = j]
  OBVIOUS
<1>5. ASSUME NEW j \in S
      PROVE  f[j] \in wanted /\ row[f[j]] = j /\ jobs[j].status = "unused"
  <2>1. \E n \in wanted : row[n] = j
    BY <1>3
  <2>2. (CHOOSE n \in wanted : row[n] = j) \in wanted /\ row[CHOOSE n \in wanted : row[n] = j] = j
    BY <2>1
  <2>3. f[j] = CHOOSE n \in wanted : row[n] = j
    BY <1>4
  <2> QED
    BY <2>2, <2>3
<1>6. f \in [S -> Targets \ TakenKeys]
  <2>1. ASSUME NEW n \in wanted
        PROVE  n \in Targets \ TakenKeys
    <3>1. n \in Targets
      BY <1>2 DEF TypeOK, Targets
    <3> QED
      BY <1>2, <3>1, FreeKeys
  <2> QED
    BY <1>4, <1>5, <2>1
<1>7. \A i, j \in S : f[i] = f[j] => i = j
  BY <1>5
<1>8. ASSUME NEW j \in Jobs
      PROVE  AbstractJob(j)' = IF j \in S THEN [phase |-> "queued", key |-> f[j], tries |-> 0]
                               ELSE IF j = ExecutedBy(w) THEN [phase |-> "done"]
                               ELSE AbstractJob(j)
  <2>1. jobs[j] \in SyncJob
    BY <1>2 DEF TypeOK
  <2>2. CASE j \in S
    <3>1. jobs'[j] = NewJob(f[j], AutoPriority, clock)
      BY <1>1, <1>3, <1>4, <2>2
    <3> QED
      BY <2>2, <3>1, NewRow
  <2>3. CASE j \notin S /\ j = d
    <3>1. /\ d = ExecutedBy(w)
          /\ \/ jobs[d].status = "deleted" /\ ~Stored(d)
             \/ jobs[d].status = "RUNNING" /\ Stored(d)
      BY <1>2, Executed
    <3>2. jobs'[j] = IF Stored(d) THEN [jobs[j] EXCEPT !.status = "SUCCEEDED", !.lease = "none"]
                     ELSE jobs[j]
      BY <1>1, <1>3, <2>3
    <3>3. jobs'[j].status \in {"SUCCEEDED", "deleted"}
      BY <2>1, <2>3, <3>1, <3>2 DEF SyncJob
    <3>4. AbstractJob(j)' = [phase |-> "done"]
      BY <3>3 DEF AbstractJob
    <3> QED
      BY <2>3, <3>1, <3>4
  <2>4. CASE j \notin S /\ j # d
    <3>1. jobs'[j] = jobs[j]
      BY <1>1, <1>3, <2>4
    <3>2. AbstractJob(j)' = AbstractJob(j)
      BY <3>1, ShownRow DEF Shown
    <3> QED
      BY <1>2, <2>4, <3>2, Executed
  <2> QED
    BY <2>2, <2>3, <2>4
<1>9. AbstractExecuting' = [AbstractExecuting EXCEPT ![w] = NoJob]
  BY <1>2, Rests DEF FanOut, BackToPoll
<1>10. ExecutedBy(w) # NoJob
  BY <1>2, Executed
<1>11. \A j \in S : jobs[j].status = "unused"
  BY <1>5
<1> HIDE DEF wanted, d
<1> QED
  BY <1>6, <1>7, <1>8, <1>9, <1>10, <1>11, FinishStep

LEMMA RescheduleRetries ==
  ASSUME ExclusionInv, NEW w \in Workers, Reschedule(w)
  PROVE  AbstractStep
<1>1. TypeOK /\ worker[w].pc \in Executing
  BY DEF ExclusionInv, Reschedule, Executing
<1>2. PICK j \in Jobs : /\ j = worker[w].job /\ ExecutedBy(w) = j /\ j # NoJob
                        /\ \/ jobs[j].status = "deleted" /\ ~Stored(j)
                           \/ /\ jobs[j].status = "RUNNING" /\ Stored(j)
                              /\ jobs[j].attempts = worker[w].attempts
  BY <1>1, Executed
<1>3. worker[w].attempts < MaxAttempts
  <2>1. worker[w].attempts \in Nat /\ MaxAttempts \in Nat
    BY <1>1, QueueAssumption DEF TypeOK
  <2> QED
    BY <2>1 DEF Reschedule, Spent
<1>4. ASSUME NEW i \in Jobs
      PROVE  AbstractJob(i)' =
               IF i = j /\ Live(j) /\ AbstractJob(j).tries < MaxAttempts
               THEN [phase |-> "queued", key |-> AbstractJob(j).key,
                     tries |-> AbstractJob(j).tries]
               ELSE AbstractJob(i)
  <2>1. jobs[i] \in SyncJob
    BY <1>1 DEF TypeOK
  <2>2. CASE i = j /\ Stored(j)
    <3>1. AbstractJob(j) = [phase |-> "running", key |-> jobs[j].target,
                            tries |-> jobs[j].attempts]
      BY <1>2, <2>2, RowAbstracts
    <3>2. Live(j) /\ AbstractJob(j).tries < MaxAttempts
      BY <1>2, <1>3, <2>2, <3>1 DEF Live
    <3>3. /\ jobs'[j].status = "PENDING" /\ jobs'[j].target = jobs[j].target
          /\ jobs'[j].attempts = jobs[j].attempts
      BY <1>1, <1>2, <2>1, <2>2 DEF Reschedule, TypeOK, SyncJob
    <3>4. AbstractJob(j)' = [phase |-> "queued", key |-> jobs[j].target,
                             tries |-> jobs[j].attempts]
      BY <3>3 DEF AbstractJob
    <3> QED
      BY <2>2, <3>1, <3>2, <3>4
  <2>3. CASE i = j /\ ~Stored(j)
    <3>1. UNCHANGED jobs
      BY <1>2, <2>3 DEF Reschedule
    <3>2. ~Live(j)
      BY <1>2, <2>3, RowAbstracts DEF Live
    <3> QED
      BY <2>3, <3>1, <3>2, ShownRow DEF Shown
  <2>4. CASE i # j
    <3>1. jobs'[i] = jobs[i]
      BY <1>1, <1>2, <2>4 DEF Reschedule, TypeOK
    <3> QED
      BY <2>4, <3>1, ShownRow DEF Shown
  <2> QED
    BY <2>2, <2>3, <2>4
<1>5. AbstractExecuting' = [AbstractExecuting EXCEPT ![w] = NoJob]
  BY <1>1, Rests DEF Reschedule, BackToPoll
<1> QED
  BY <1>2, <1>4, <1>5, RetryStep

\* Every step of the table, the web and the workers is a step of the queue or none.
LEMMA StepRefines ==
  ASSUME BudgetInv, [Next]_vars
  PROVE  AbstractStep
<1>1. ExclusionInv /\ TypeOK
  BY DEF BudgetInv, ExclusionInv
<1>2. ASSUME UNCHANGED jobs, AbstractExecuting' = AbstractExecuting
      PROVE  AbstractStep
  BY <1>2, QuietStep DEF Shown
<1>3. CASE Connect \/ RefreshRefused \/ UNCHANGED vars
  BY <1>2, <1>3, Idle DEF Connect, RefreshRefused, vars, queueVars
<1>4. CASE Disconnect
  <2>1. ASSUME NEW j \in Jobs
        PROVE  \/ Shown(j)
               \/ jobs[j].status # "unused" /\ jobs'[j].status \in {"CANCELLED", "deleted"}
    <3>1. jobs'[j] = jobs[j] \/ (Stored(j) /\ jobs'[j] = BlankJob("deleted"))
      BY <1>4 DEF Disconnect
    <3> QED
      BY <3>1 DEF Shown, Stored, SyncJobStatus, BlankJob
  <2> QED
    BY <1>1, <1>4, <2>1, Idle, WithdrawRows DEF Disconnect
<1>5. CASE RefreshNotebooks
  BY <1>1, <1>5, Idle, DiscoverWithdraws DEF RefreshNotebooks
<1>6. ASSUME NEW n \in Notebooks, NEW enabled \in BOOLEAN, SetSyncEnabled(n, enabled)
      PROVE  AbstractStep
  <2>1. ASSUME NEW j \in Jobs
        PROVE  \/ Shown(j)
               \/ jobs[j].status # "unused" /\ jobs'[j].status \in {"CANCELLED", "deleted"}
    <3>1. jobs[j] \in SyncJob
      BY <1>1 DEF TypeOK
    <3> QED
      BY <1>6, <3>1 DEF SetSyncEnabled, Cancellable, Shown, SyncJob
  <2> QED
    BY <1>1, <1>6, <2>1, Idle, WithdrawRows DEF SetSyncEnabled
<1>7. ASSUME NEW r \in Requests, NEW n \in Notebooks, StartSyncRead(r, n)
      PROVE  AbstractStep
  BY <1>2, <1>7, Idle DEF StartSyncRead, queueVars
<1>8. ASSUME NEW r \in Requests, StartSyncMark(r)
      PROVE  AbstractStep
  BY <1>2, <1>8, Idle DEF StartSyncMark, queueVars
<1>9. ASSUME NEW r \in Requests, StartSyncEnqueue(r)
      PROVE  AbstractStep
  <2>1. UNCHANGED worker /\ request[r].notebook \in Targets
    BY <1>1, <1>9 DEF StartSyncEnqueue, TypeOK
  <2>2. \/ UNCHANGED jobs
        \/ Enqueue(request[r].notebook, ManualPriority, request[r].created)
    BY <1>9 DEF StartSyncEnqueue, queueVars
  <2> QED
    BY <1>1, <1>2, <2>1, <2>2, Idle, EnqueueSubmits
<1>10. CASE Producer
  <2>1. UNCHANGED worker /\ \E t \in Targets : \E p, c : Enqueue(t, p, c)
    BY <1>10 DEF Producer, CronEnqueue, CliEnqueue, Targets
  <2> QED
    BY <1>1, <2>1, EnqueueSubmits
<1>11. ASSUME NEW w \in Workers, Boot(w)
       PROVE  AbstractStep
  <2>1. AbstractExecuting' = [AbstractExecuting EXCEPT ![w] = NoJob]
    BY <1>1, <1>11, Rests DEF Boot, BackToPoll
  <2>2. AbstractExecuting[w] = NoJob
    BY <1>11 DEF AbstractExecuting, ExecutedBy, Boot, Executing
  <2>3. AbstractExecuting' = AbstractExecuting
    BY <2>1, <2>2 DEF AbstractExecuting
  <2> QED
    BY <1>1, <1>11, <2>3, ReapRecovers DEF Boot
<1>12. ASSUME NEW w \in Workers, PeriodicReap(w)
       PROVE  AbstractStep
  BY <1>1, <1>12, Idle, ReapRecovers DEF PeriodicReap
<1>13. ASSUME NEW w \in Workers, Claim(w)
       PROVE  AbstractStep
  BY <1>13, ClaimStarts
<1>14. ASSUME NEW w \in Workers, Heartbeat(w)
       PROVE  AbstractStep
  <2>1. ASSUME NEW j \in Jobs PROVE Shown(j)
    <3>1. jobs[j] \in SyncJob
      BY <1>1 DEF TypeOK
    <3> QED
      BY <1>1, <1>14, <3>1 DEF Heartbeat, TypeOK, Shown, SyncJob
  <2> QED
    BY <1>14, <2>1, Idle, QuietStep DEF Heartbeat
<1>15. ASSUME NEW w \in Workers,
              \/ StartContent(w) \/ Authorize(w) \/ AuthorizeDiscovery(w)
              \/ TokenRefused(w) \/ JobRaises(w)
       PROVE  AbstractStep
  <2>1. /\ worker[w].pc \in Executing /\ worker'[w].pc \in Executing
        /\ worker'[w].job = worker[w].job
        /\ \A v \in Workers : v # w => worker'[v] = worker[v]
    BY <1>1, <1>15 DEF StartContent, Authorize, AuthorizeDiscovery, TokenRefused, JobRaises,
       Goto, TypeOK, Executing
  <2>2. UNCHANGED jobs
    BY <1>15 DEF StartContent, Authorize, AuthorizeDiscovery, TokenRefused, JobRaises, queueVars
  <2> QED
    BY <1>1, <1>2, <2>1, <2>2, GoesOn
<1>16. ASSUME NEW w \in Workers, CancelJob(w) \/ SyncSucceeds(w) \/ FailJob(w)
       PROVE  AbstractStep
  <2>1. PICK s \in TerminalStatuses : Finalise(worker[w].job, s)
    BY <1>16 DEF CancelJob, SyncSucceeds, FailJob, TerminalStatuses
  <2> QED
    BY <1>1, <1>16, <2>1, FinaliseFinishes DEF CancelJob, SyncSucceeds, FailJob, Executing
<1>17. ASSUME NEW w \in Workers, DiscoverList(w)
       PROVE  AbstractStep
  <2>1. /\ worker[w].pc \in Executing /\ worker'[w].pc \in Executing
        /\ worker'[w].job = worker[w].job
        /\ \A v \in Workers : v # w => worker'[v] = worker[v]
    BY <1>1, <1>17 DEF DiscoverList, TypeOK, Executing
  <2> QED
    BY <1>1, <1>17, <2>1, GoesOn, DiscoverWithdraws DEF DiscoverList
<1>18. ASSUME NEW w \in Workers, FanOut(w)
       PROVE  AbstractStep
  BY <1>1, <1>18, FanOutFinishes
<1>19. ASSUME NEW w \in Workers, Reschedule(w)
       PROVE  AbstractStep
  BY <1>1, <1>19, RescheduleRetries
<1>20. ASSUME NEW w \in Workers, RescheduleRejected(w) \/ Crash(w)
       PROVE  AbstractStep
  BY <1>1, <1>20, Rests, DieStep DEF RescheduleRejected, Crash, queueVars
<1>21. ASSUME NEW j \in Jobs, BackoffElapses(j) \/ LeaseExpires(j)
       PROVE  AbstractStep
  <2>1. ASSUME NEW i \in Jobs PROVE Shown(i)
    <3>1. jobs[i] \in SyncJob
      BY <1>1 DEF TypeOK
    <3>2. CASE BackoffElapses(j)
      BY <1>1, <3>1, <3>2 DEF BackoffElapses, TypeOK, Shown, SyncJob
    <3>3. CASE LeaseExpires(j)
      BY <1>1, <3>1, <3>3 DEF LeaseExpires, TypeOK, Shown, SyncJob
    <3> QED
      BY <1>21, <3>2, <3>3
  <2> QED
    BY <1>21, <2>1, Idle, QuietStep DEF BackoffElapses, LeaseExpires
<1> QED
  BY <1>3, <1>4, <1>5, <1>6, <1>7, <1>8, <1>9, <1>10, <1>11, <1>12, <1>13, <1>14, <1>15,
     <1>16, <1>17, <1>18, <1>19, <1>20, <1>21
  DEF Next, User, Handler, RunJob, Time

\* As long as no lease lapses under a live worker, the sync_jobs table with its unique
\* indexes, leases, reaper and retries is a job queue: a key has one live job, a worker
\* runs a job alone, a job is tried within its budget, and what is done stays done.
THEOREM Refinement == ASSUME ~LeaseMayLapse PROVE Spec => ImplementsJobQueue
<1>1. Init => BudgetInv /\ Abstract!QueueInit
  <2>1. ASSUME Init PROVE BudgetInv
    BY <2>1, ExclusionInit, QueueAssumption DEF Init, BudgetInv, RetryBudget, BlankJob
  <2>2. ASSUME Init PROVE Abstract!QueueInit
    BY <2>2 DEF Init, Abstract!QueueInit, Abstract!New, AbstractJob, BlankJob, Resting, Executing
  <2> QED
    BY <2>1, <2>2
<1>2. BudgetInv /\ [Next]_vars => BudgetInv'
  BY BudgetStep
<1>3. BudgetInv /\ [Next]_vars => [Abstract!QueueNext]_(Abstract!jobVars)
  BY StepRefines DEF AbstractStep, Abstract!jobVars, AbstractJobs, AbstractExecuting, ExecutedBy
<1> QED
  BY <1>1, <1>2, <1>3, PTL DEF Spec, ImplementsJobQueue, Abstract!QueueSpec
=============================================================================
