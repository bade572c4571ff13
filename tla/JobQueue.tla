------------------------------ MODULE JobQueue ------------------------------
(***************************************************************************)
(* What a queue of jobs drained by workers promises, whatever its storage, *)
(* leases and timers: a key has at most one live job, a job is run by one  *)
(* worker at a time and at most MaxAttempts times, and a job that is done  *)
(* stays done.  SyncQueue implements it.                                   *)
(***************************************************************************)
EXTENDS Naturals

CONSTANTS Jobs, Workers, Keys, NoJob, MaxAttempts

VARIABLES
  job,         (* what has become of each job                    *)
  executing    (* the job each worker is running, or NoJob       *)

jobVars == <<job, executing>>

New == [phase |-> "new"]
Queued(key, tries) == [phase |-> "queued", key |-> key, tries |-> tries]
Running(key, tries) == [phase |-> "running", key |-> key, tries |-> tries]
Done == [phase |-> "done"]

Live(j) == job[j].phase \in {"queued", "running"}
LiveKeys == {job[j].key : j \in {i \in Jobs : Live(i)}}

\* A choice of new jobs to submit, one for each of some keys without a live job.
Submissions ==
  UNION {{f \in [S -> Keys \ LiveKeys] : \A i, j \in S : f[i] = f[j] => i = j} :
           S \in SUBSET {j \in Jobs : job[j] = New}}

Submit ==
  /\ \E f \in Submissions :
       job' = [j \in Jobs |-> IF j \in DOMAIN f THEN Queued(f[j], 0) ELSE job[j]]
  /\ UNCHANGED executing

Start(w) ==
  /\ executing[w] = NoJob
  /\ \E j \in Jobs :
       /\ job[j].phase = "queued"
       /\ job[j].tries < MaxAttempts
       /\ job' = [job EXCEPT ![j] = Running(job[j].key, job[j].tries + 1)]
       /\ executing' = [executing EXCEPT ![w] = j]

\* A worker is done with its job, which may have produced new ones.
Finish(w) ==
  /\ executing[w] # NoJob
  /\ \E f \in Submissions :
       job' = [j \in Jobs |-> IF j \in DOMAIN f THEN Queued(f[j], 0)
                              ELSE IF j = executing[w] THEN Done ELSE job[j]]
  /\ executing' = [executing EXCEPT ![w] = NoJob]

\* A worker gives its job back to be tried again; a withdrawn job stays done.
Retry(w) ==
  /\ executing[w] # NoJob
  /\ LET j == executing[w] IN
       job' = IF Live(j) /\ job[j].tries < MaxAttempts
              THEN [job EXCEPT ![j] = Queued(job[j].key, job[j].tries)] ELSE job
  /\ executing' = [executing EXCEPT ![w] = NoJob]

Die(w) ==
  /\ executing' = [executing EXCEPT ![w] = NoJob]
  /\ UNCHANGED job

\* Running jobs that no worker runs are queued again, or done if their budget is spent.
Recover ==
  /\ \E S \in SUBSET {j \in Jobs : /\ job[j].phase = "running"
                                   /\ \A w \in Workers : executing[w] # j} :
       job' = [j \in Jobs |-> IF j \notin S THEN job[j]
                              ELSE IF job[j].tries < MaxAttempts
                              THEN Queued(job[j].key, job[j].tries) ELSE Done]
  /\ UNCHANGED executing

Withdraw ==
  /\ \E S \in SUBSET {j \in Jobs : Live(j)} :
       job' = [j \in Jobs |-> IF j \in S THEN Done ELSE job[j]]
  /\ UNCHANGED executing

QueueInit ==
  /\ job = [j \in Jobs |-> New]
  /\ executing = [w \in Workers |-> NoJob]

QueueNext ==
  \/ Submit \/ Recover \/ Withdraw
  \/ \E w \in Workers : Start(w) \/ Finish(w) \/ Retry(w) \/ Die(w)

QueueSpec == QueueInit /\ [][QueueNext]_jobVars
=============================================================================
