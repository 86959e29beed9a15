------------------------------ MODULE DBManager ------------------------------
(* The job, task and node rows of the Python orchestrator's SQLite database   *)
(* (legacy/services_python/db), one action per method that changes them. A    *)
(* method is one transaction under the connection lock. Queue positions,      *)
(* progress figures, the node's status column and timestamps are presentation *)
(* and left out; what the methods and their callers branch on is kept.        *)
EXTENDS Integers, Sequences, FiniteSets

CONSTANTS Jobs, Tasks, Nodes, None,
          JobOf,          \* the job of each task
          QueueOrder,     \* the key get_queued_tasks sorts each task by
          MaxAttempts     \* tasks.max_attempts, per task

ASSUME DBAssumption == /\ JobOf \in [Tasks -> Jobs]
                       /\ MaxAttempts \in [Tasks -> Nat \ {0}]
                       /\ QueueOrder \in [Tasks -> Nat]
                       /\ None \notin Nodes \cup Tasks

VARIABLES task, job, node
dbVars == <<task, job, node>>

\* "failed" stands for the statuses in RETRYABLE_TASK_STATUSES: error, failed, timeout, invalid_gradient.
Retryable == {"failed"}
Terminal == {"success", "failed", "rejected", "cancelled"}
TaskStatus == {"none", "queued", "running"} \cup Terminal
JobStatus == {"none", "queued", "running", "success", "failed", "cancelled"}

TasksOf(j) == {t \in Tasks : JobOf[t] = j}

DBTypeOK ==
  /\ task \in [Tasks -> [st: TaskStatus, on: Nodes \cup {None}, tries: Nat, late: BOOLEAN]]
  /\ job \in [Jobs -> [st: JobStatus, latest: Tasks \cup {None}]]
  /\ node \in [Nodes -> [known: BOOLEAN, fresh: BOOLEAN, contributing: BOOLEAN]]

DBInit ==
  /\ task = [t \in Tasks |-> [st |-> "none", on |-> None, tries |-> 0, late |-> FALSE]]
  /\ job = [j \in Jobs |-> [st |-> "none", latest |-> None]]
  /\ node = [n \in Nodes |-> [known |-> FALSE, fresh |-> FALSE, contributing |-> FALSE]]

-----------------------------------------------------------------------------
RefreshWithoutRunning(rows, j) ==
  LET sts == {rows[t].st : t \in TasksOf(j)} IN
  IF "success" \in sts THEN "success"
  ELSE IF "queued" \in sts THEN "queued" ELSE "failed"

\* What _refresh_job_state makes of the statuses of a job's tasks.
StatusFromTasks(rows, j) ==
  LET sts == {rows[t].st : t \in TasksOf(j)} IN
  IF sts = {"success"} THEN "success"
  ELSE IF "running" \in sts THEN "running"
  ELSE IF "queued" \in sts THEN "queued"
  ELSE IF sts \cap (Terminal \ {"success"}) # {} THEN "failed"
  ELSE "queued"

\* The job rows after _refresh_job_state of one job; COALESCE keeps the latest task when none is given.
_refresh_job_state(rows, j, latest) ==
  [job EXCEPT ![j] = [st |-> StatusFromTasks(rows, j),
                      latest |-> IF latest = None THEN @.latest ELSE latest]]

\* The order of priority, votes, age and offset.
IsFirst(t, ts) == t \in ts /\ \A u \in ts : QueueOrder[t] <= QueueOrder[u]

insert_job(j, first) == [job EXCEPT ![j] = [st |-> "queued", latest |-> first]]
\* With create_tasks: the rows of a new job, queued, the first task its latest.
CreateJob(j) ==
  /\ job[j].st = "none"
  /\ task' = [t \in Tasks |-> IF JobOf[t] = j
                THEN [st |-> "queued", on |-> None, tries |-> 0, late |-> FALSE] ELSE task[t]]
  /\ \E first \in TasksOf(j) : IsFirst(first, TasksOf(j)) /\ job' = insert_job(j, first)
  /\ UNCHANGED node

\* The queued tasks; who reads them goes through them by QueueOrder.
get_queued_tasks == {t \in Tasks : task[t].st = "queued"}

\* assign_task looks only for the row: neither its status nor its assignee is checked.
assign_task(t, n) ==
  /\ UNCHANGED node
  /\ IF task[t].st = "none" THEN UNCHANGED <<task, job>>
     ELSE /\ task' = [task EXCEPT ![t].st = "running", ![t].on = n, ![t].tries = @ + 1]
          /\ job' = [job EXCEPT ![JobOf[t]] = [st |-> "running", latest |-> t]]

\* record_task_progress marks the job as running whatever it was.
record_task_progress(t) ==
  /\ UNCHANGED <<task, node>>
  /\ IF task[t].st = "none" THEN UNCHANGED job
     ELSE job' = [job EXCEPT ![JobOf[t]].st = "running"]

CompletedRowOneMore(row, n, status, limit) ==
  IF status \in Retryable /\ row.tries <= limit
  THEN [row EXCEPT !.st = "queued", !.on = None]
  ELSE [row EXCEPT !.st = status, !.on = n]

CompletedRow(row, n, status, limit) ==
  LET on == IF row.on = None THEN n ELSE row.on IN
  IF status \in Retryable /\ row.tries < limit
  THEN [row EXCEPT !.st = "queued", !.on = None]
  ELSE [row EXCEPT !.st = status, !.on = on]

\* complete_task: a retryable failure with attempts left is queued again, anything else is final.
complete_task(t, n, status) ==
  LET rows == [task EXCEPT ![t] = CompletedRow(@, n, status, MaxAttempts[t])] IN
  /\ UNCHANGED node
  /\ IF task[t].st = "none" THEN UNCHANGED <<task, job>>
     ELSE task' = rows /\ job' = _refresh_job_state(rows, JobOf[t], t)

\* update_task_result fills in the assignee and completes the task.
update_task_result(t, n, status) == complete_task(t, n, status)

\* The successful tasks of a job that get_job_results hands to the aggregation.
Successes(j) == {t \in TasksOf(j) : task[t].st = "success"}

-----------------------------------------------------------------------------
RecycledRow(row, limit) ==
  IF row.tries >= limit THEN [row EXCEPT !.st = "failed", !.on = None]
  ELSE [row EXCEPT !.st = "queued", !.on = None]

\* _recycle_task_rows: every row is queued again, or failed with its attempts spent, and
\* its job refreshed; the row visited last is the job's latest task.
_recycle_task_rows(ts) ==
  LET rows == [t \in Tasks |-> IF t \in ts THEN RecycledRow(task[t], MaxAttempts[t]) ELSE task[t]]
      hit == {JobOf[t] : t \in ts} IN
  /\ UNCHANGED node
  /\ task' = rows
  /\ \E last \in [hit -> ts] :
       /\ \A j \in hit : JobOf[last[j]] = j
       /\ job' = [j \in Jobs |-> IF j \in hit
                    THEN [st |-> StatusFromTasks(rows, j), latest |-> last[j]] ELSE job[j]]

StaleByHeartbeat(t) ==
  /\ task[t].st = "running" /\ task[t].on # None
  /\ node[task[t].on].known /\ ~node[task[t].on].fresh

Stale(t) ==
  /\ task[t].st = "running" /\ task[t].on # None
  /\ node[task[t].on].known
  /\ task[t].late \/ ~node[task[t].on].fresh

\* requeue_stale_tasks: the running tasks past their deadline or with a silent assignee.
requeue_stale_tasks == _recycle_task_rows({t \in Tasks : Stale(t)})

\* requeue_tasks_for_node: the running tasks of a disconnected node.
requeue_tasks_for_node(n) ==
  _recycle_task_rows({t \in Tasks : task[t].st = "running" /\ task[t].on = n})

\* operator_retry_job: only the job's latest task, if it is terminal, is queued again; its attempts stay.
operator_retry_job(j) ==
  LET t == job[j].latest IN
  /\ UNCHANGED node
  /\ IF job[j].st # "none" /\ t # None /\ task[t].st \in Terminal
     THEN LET rows == [task EXCEPT ![t].st = "queued", ![t].on = None] IN
          task' = rows /\ job' = _refresh_job_state(rows, j, t)
     ELSE UNCHANGED <<task, job>>

\* cancel_job: queued and running tasks are cancelled, and the job whatever it was.
cancel_job(j) ==
  /\ job[j].st # "none"
  /\ task' = [t \in Tasks |-> IF JobOf[t] = j /\ task[t].st \in {"queued", "running"}
                THEN [task[t] EXCEPT !.st = "cancelled"] ELSE task[t]]
  /\ job' = [job EXCEPT ![j].st = "cancelled"]
  /\ UNCHANGED node

\* clear_completed_jobs deletes the rows of every terminal job.
clear_completed_jobs ==
  LET gone == {j \in Jobs : job[j].st \in {"success", "failed", "cancelled"}} IN
  /\ gone # {}
  /\ task' = [t \in Tasks |-> IF JobOf[t] \in gone
                THEN [task[t] EXCEPT !.st = "none", !.on = None] ELSE task[t]]
  /\ job' = [j \in Jobs |-> IF j \in gone THEN [st |-> "none", latest |-> None] ELSE job[j]]
  /\ UNCHANGED node

-----------------------------------------------------------------------------
\* register_node, called by create_node: a new row contributes, an old one keeps its choice.
register_node(n) ==
  /\ node' = [node EXCEPT ![n] = [known |-> TRUE, fresh |-> TRUE,
                                  contributing |-> IF @.known THEN @.contributing ELSE TRUE]]
  /\ UNCHANGED <<task, job>>

\* update_heartbeat: an UPDATE, so an unknown node stays unknown.
update_heartbeat(n) ==
  /\ node' = [node EXCEPT ![n].fresh = @ \/ node[n].known]
  /\ UNCHANGED <<task, job>>

set_node_contributing(n, yes) ==
  /\ node' = [node EXCEPT ![n].contributing = IF node[n].known THEN yes ELSE @]
  /\ UNCHANGED <<task, job>>

\* Time: a task's deadline, fixed when it was created, passes; a heartbeat grows older than 30 s.
\* Both are only ever read of running tasks, so they are let pass only then.
DeadlinePasses(t) ==
  /\ task[t].st = "running" /\ ~task[t].late
  /\ task' = [task EXCEPT ![t].late = TRUE]
  /\ UNCHANGED <<job, node>>
HeartbeatExpires(n) ==
  /\ node[n].fresh /\ \E t \in Tasks : task[t].st = "running" /\ task[t].on = n
  /\ node' = [node EXCEPT ![n].fresh = FALSE]
  /\ UNCHANGED <<task, job>>
=============================================================================
