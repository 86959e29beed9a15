-------------------------------- MODULE JobQueue --------------------------------
(* The HTTP job queue (legacy/services_python/job_submission.py) over its     *)
(* SQLite wrapper (database.py). Both guard their methods with an             *)
(* asyncio.Lock, which the task that holds it cannot take a second time.      *)
EXTENDS Naturals, Sequences, SequencesExt

CONSTANTS Submissions, Cancellers, Orgs, AllowedOrgs, Nobody

VARIABLES _pending,      \* the queue's list of [job, org, priority]
          jobsTable,     \* the ids in database.py's jobs table
          queueLock,     \* who holds JobQueue._lock
          databaseLock,  \* who holds Database._lock
          at             \* where each task is
queueVars == <<_pending, jobsTable, queueLock, databaseLock, at>>

Loop == "distribute_loop"
Tasks == Submissions \cup Cancellers \cup {Loop}

JobQueueInit ==
  /\ _pending = <<>> /\ jobsTable = {} /\ queueLock = Nobody /\ databaseLock = Nobody
  /\ at = [t \in Tasks |-> "start"]

Goes(t, there) == at' = [at EXCEPT ![t] = there]

\* submit_job refuses an unknown organization or an invalid script, and enters JobQueue.submit.
_org_is_allowed(org) == AllowedOrgs = {} \/ org \in AllowedOrgs
submit_job(t) ==
  /\ at[t] = "start" /\ UNCHANGED <<_pending, jobsTable, databaseLock>>
  /\ \/ Goes(t, "refused") /\ UNCHANGED queueLock
     \/ \E org \in Orgs : _org_is_allowed(org) /\ queueLock = Nobody /\ queueLock' = t /\ Goes(t, "submitting")

Before(a, b) == a.priority < b.priority
submit(t) ==
  /\ at[t] = "submitting" /\ databaseLock = Nobody
  /\ \E priority \in 0 .. 1 :
       _pending' = SortSeq(Append(_pending, [job |-> t, priority |-> priority]), Before)
  /\ databaseLock' = t /\ Goes(t, "inserting") /\ UNCHANGED <<jobsTable, queueLock>>

\* create_job inserts the row and, still inside the lock, awaits get_job for it.
create_job(t) ==
  /\ at[t] = "inserting" /\ jobsTable' = jobsTable \cup {t}
  /\ Goes(t, "reading back") /\ UNCHANGED <<_pending, queueLock, databaseLock>>
get_job(t) ==
  /\ at[t] = "reading back" /\ databaseLock = Nobody
  /\ queueLock' = Nobody /\ Goes(t, "answered") /\ UNCHANGED <<_pending, jobsTable, databaseLock>>

\* cancel_job looks the job up without the lock, and cancels it under the lock.
_find_active_job(job) == \E i \in DOMAIN _pending : _pending[i].job = job
cancel_job(t, job) ==
  /\ at[t] = "start" /\ UNCHANGED <<_pending, jobsTable, queueLock, databaseLock>>
  /\ Goes(t, IF _find_active_job(job) THEN "cancelling" ELSE "refused")
cancel(t, job) ==
  /\ at[t] = "cancelling" /\ queueLock = Nobody
  /\ _pending' = SelectSeq(_pending, LAMBDA j : j.job # job)
  /\ Goes(t, "answered") /\ UNCHANGED <<jobsTable, queueLock, databaseLock>>

\* The distributor looks at the head of the queue, under the lock, whenever a node is idle.
_get_next_pending_job ==
  /\ at[Loop] = "start" /\ queueLock = Nobody
  /\ Goes(Loop, IF _pending = <<>> THEN "asleep" ELSE "distributing")
  /\ UNCHANGED <<_pending, jobsTable, queueLock, databaseLock>>
distribute_loop ==
  /\ at[Loop] = "asleep" /\ Goes(Loop, "start")
  /\ UNCHANGED <<_pending, jobsTable, queueLock, databaseLock>>

JobQueueNext ==
  \/ \E t \in Submissions : submit_job(t) \/ submit(t) \/ create_job(t) \/ get_job(t)
  \/ \E t \in Cancellers, job \in Submissions : cancel_job(t, job) \/ cancel(t, job)
  \/ _get_next_pending_job \/ distribute_loop

\* The event loop runs every task that can go on.
JobQueueSpec ==
  /\ JobQueueInit /\ [][JobQueueNext]_queueVars
  /\ \A t \in Submissions : WF_queueVars(submit_job(t)) /\ WF_queueVars(submit(t)) /\ WF_queueVars(create_job(t)) /\ WF_queueVars(get_job(t))
  /\ WF_queueVars(_get_next_pending_job) /\ WF_queueVars(distribute_loop)

-----------------------------------------------------------------------------
\* The distributor keeps looking for work while the queue is not empty ("continuously assign
\* tasks to nodes"). It does not: create_job waits, inside the database lock, for the same
\* lock, and the submitter never gives the queue lock back (submit, create_job, distribute_loop).
QueuedJobIsSeen == (_pending # <<>>) ~> (_pending = <<>> \/ at[Loop] = "distributing")
=============================================================================
