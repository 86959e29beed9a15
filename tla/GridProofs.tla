------------------------------ MODULE GridProofs ------------------------------
(***************************************************************************)
(* What holds of the Python grid (DBManager, NodeService, WorkerDaemon)    *)
(* for any number of nodes, streams, jobs, tasks, attempts and faults.     *)
(*                                                                         *)
(*   TypeInv     types of every variable: which messages a stream carries, *)
(*               and what a handler holds where it waits.  With it         *)
(*               RowsInv, that a job row agrees with its tasks and names   *)
(*               one of them as its latest;                                *)
(*   BudgetInv   a task that waits, and one whose job an operator has      *)
(*               asked to retry, still has the attempts this will cost;    *)
(*   CustodyInv  every delivery of a task that can still be paid is at one *)
(*               place - a queue, a worker, a handler, a call without its  *)
(*               handler - and there are no more of them than were sent    *)
(*               and not yet paid.                                         *)
(* The first section is about the methods of DBManager; then every         *)
(* invariant has one lemma per group of actions.                           *)
(***************************************************************************)
EXTENDS WorkerDaemon, FiniteSetTheorems, TLAPS

Outcome == {"success", "failed", "rejected"}
UpMessage ==
  [kind: {"register", "heartbeat"}, task: {None}, what: {"none"}]
    \cup [kind: {"progress"}, task: Tasks, what: {"none"}]
    \cup [kind: {"result"}, task: Tasks, what: Outcome]
DownMessage ==
  [kind: {"ack", "control", "end"}, task: {None}, what: {"token", "refused", "bft_aggregate_ready", "none"}]
    \cup [kind: {"assign"}, task: Tasks, what: {"script", "builtin"}]

\* Where a handler holds a message about a task, and about a result.
TaskPC == {"progress", "result", "pay", "gather", "store"}
ResultPC == {"result", "pay"}
Hand == [pc: {"recv", "register", "heartbeat"} \cup TaskPC,
         msg: UpMessage \cup {Message("none", None, "none")}, snap: SUBSET (Nodes \cup {None})]
Call == [call: ResultPC, node: Nodes \cup {None}, task: Tasks, what: Outcome]

StreamTypeOK ==
  /\ sess \in [Sessions -> [node: Nodes \cup {None}, server: {"free", "open", "closed"},
                            bound: BOOLEAN, alive: BOOLEAN]]
  /\ hand \in [Sessions -> Hand]
  /\ \A s \in Sessions : /\ hand[s].pc \in TaskPC => hand[s].msg.task \in Tasks
                         /\ hand[s].pc \in ResultPC => hand[s].msg.what \in Outcome
  /\ leaving \subseteq Sessions
  /\ up \in [Sessions -> Seq(UpMessage)] /\ \A s \in Sessions : Len(up[s]) <= MaxQueue
  /\ down \in [Sessions -> Seq(DownMessage)]
  /\ orphans \subseteq Call

ServiceTypeOK ==
  /\ connected \in [Nodes -> Sessions \cup {None}]
  /\ pending \in [Nodes -> Tasks \cup {None}]
  /\ aggregate \in [Jobs -> SUBSET (Nodes \cup {None})]
  /\ sched \in [pc: {"stale", "list", "scan", "assign", "send"}, todo: SUBSET Tasks, idle: SUBSET Nodes,
                node: Nodes \cup {None}, task: Tasks \cup {None}]
  /\ sched.pc = "send" => sched.node \in Nodes /\ sched.task \in Tasks
  /\ bundle \subseteq Tasks /\ saving \subseteq Tasks
  /\ kicked \subseteq Nodes /\ retrying \subseteq Jobs
  /\ retried \in Nat
  /\ sent \in [Tasks -> Nat] /\ paid \in [Tasks -> Nat]

WorkerTypeOK ==
  worker \in [Nodes -> [sess: Sessions \cup {None}, job: Tasks \cup {None},
                        how: {"none", "script", "builtin"}, stop: BOOLEAN]]

LatestIsOwn == \A j \in Jobs : job[j].latest # None => JobOf[job[j].latest] = j
RowsInv == DBTypeOK /\ JobRowAgreesWithTasks /\ LatestIsOwn
TypeInv == StreamTypeOK /\ ServiceTypeOK /\ WorkerTypeOK

\* The attempts a task is about to be given: it is queued or on the scheduler's list, and
\* an operator's retry of its job is under way.
Waiting(t) == task[t].st = "queued" \/ t \in sched.todo
Owed(t) == (IF Waiting(t) THEN 1 ELSE 0) + (IF JobOf[t] \in retrying THEN 1 ELSE 0)
BudgetInv ==
  /\ retrying # {} => retried > 0
  /\ \A t \in Tasks : task[t].tries + Owed(t) <= MaxAttempts[t] + retried

\* Where a delivery of t that may still be paid can be: a queue to or from the server,
\* a worker, a handler, or a call whose handler is gone.
Assigns(m, t) == m.kind = "assign" /\ m.task = t
Succeeds(m, t) == m.kind = "result" /\ m.task = t /\ m.what = "success"
HandPays(h, t) == h.msg.task = t /\ (h.pc = "pay" \/ (h.pc = "result" /\ h.msg.what = "success"))
Coming(t, toNodes) ==
  UNION {{<<"down", s, i>> : i \in {k \in DOMAIN toNodes[s] : Assigns(toNodes[s][k], t)}} : s \in Sessions}
GoingBack(t, fromNodes) ==
  UNION {{<<"up", s, i>> : i \in {k \in DOMAIN fromNodes[s] : Succeeds(fromNodes[s][k], t)}} : s \in Sessions}
AtWork(t, workers) == {<<"worker", n, 0>> : n \in {m \in Nodes : workers[m].job = t}}
Handled(t, handlers) == {<<"hand", s, 0>> : s \in {r \in Sessions : HandPays(handlers[r], t)}}
Called(t, calls) == {<<"orphan", c, 0>> : c \in {d \in calls : d.call = "pay" /\ d.task = t}}
InHand(t, toNodes, fromNodes, workers, handlers, calls) ==
  Coming(t, toNodes) \cup GoingBack(t, fromNodes) \cup AtWork(t, workers) \cup Handled(t, handlers) \cup Called(t, calls)
Custody(t) == InHand(t, down, up, worker, hand, orphans)
Covered(t) == IsFiniteSet(Custody(t)) /\ Cardinality(Custody(t)) + paid[t] <= sent[t]
CustodyInv == \A t \in Tasks : Covered(t)

-----------------------------------------------------------------------------
(* The methods of DBManager.                                                 *)

TaskRow == [st: TaskStatus, on: Nodes \cup {None}, tries: Nat, late: BOOLEAN]

\* What _refresh_job_state writes is a status, "success" only over successful tasks and
\* "failed" only if none is queued or running.
LEMMA Refreshed ==
  ASSUME NEW rows, NEW j
  PROVE  /\ StatusFromTasks(rows, j) \in JobStatus
         /\ StatusFromTasks(rows, j) = "success" => \A t \in TasksOf(j) : rows[t].st = "success"
         /\ StatusFromTasks(rows, j) = "failed" =>
              \A t \in TasksOf(j) : rows[t].st \notin {"queued", "running"}
<1> DEFINE sts == {rows[t].st : t \in TasksOf(j)}
<1>1. \A t \in TasksOf(j) : rows[t].st \in sts
  OBVIOUS
<1> QED
  BY <1>1 DEF StatusFromTasks, JobStatus

\* The task rows change for some jobs only, and those jobs' rows are refreshed from them.
LEMMA RefreshedRows ==
  ASSUME RowsInv, NEW hit \in SUBSET Jobs,
         task' \in [Tasks -> TaskRow],
         \A t \in Tasks : JobOf[t] \notin hit => task'[t] = task[t],
         job' \in [Jobs -> [st: JobStatus, latest: Tasks \cup {None}]],
         \A j \in Jobs \ hit : job'[j] = job[j],
         \A j \in hit : /\ job'[j].st = StatusFromTasks(task', j)
                        /\ job'[j].latest # None => JobOf[job'[j].latest] = j,
         UNCHANGED node
  PROVE  RowsInv'
<1>1. DBTypeOK'
  BY DEF RowsInv, DBTypeOK, TaskRow
<1>2. JobRowAgreesWithTasks'
  <2> SUFFICES ASSUME NEW j \in Jobs
               PROVE  /\ job'[j].st = "success" => \A t \in TasksOf(j) : task'[t].st = "success"
                      /\ job'[j].st = "failed" => \A t \in TasksOf(j) : task'[t].st \notin {"queued", "running"}
    BY DEF JobRowAgreesWithTasks, TasksOf
  <2>1. CASE j \in hit
    BY <2>1, Refreshed
  <2>2. CASE j \notin hit
    BY <2>2 DEF RowsInv, JobRowAgreesWithTasks, TasksOf
  <2> QED
    BY <2>1, <2>2
<1>3. LatestIsOwn'
  BY DEF RowsInv, LatestIsOwn
<1> QED
  BY <1>1, <1>2, <1>3 DEF RowsInv

\* A job is made with all its tasks queued.
LEMMA CreateJobRows ==
  ASSUME RowsInv, NEW j \in Jobs, CreateJob(j)
  PROVE  RowsInv'
<1>1. PICK first \in TasksOf(j) : job' = insert_job(j, first)
  BY DEF CreateJob
<1>2. DBTypeOK'
  BY <1>1, DBAssumption DEF RowsInv, DBTypeOK, CreateJob, insert_job, TasksOf, TaskStatus, JobStatus
<1>3. JobRowAgreesWithTasks'
  BY <1>1, DBAssumption DEF RowsInv, DBTypeOK, JobRowAgreesWithTasks, CreateJob, insert_job, TasksOf
<1>4. LatestIsOwn'
  BY <1>1, DBAssumption DEF RowsInv, DBTypeOK, LatestIsOwn, insert_job, TasksOf
<1> QED
  BY <1>2, <1>3, <1>4 DEF RowsInv

\* An assignment, whatever the row was, makes the job a running one.
LEMMA AssignRows ==
  ASSUME RowsInv, NEW t \in Tasks, NEW n \in Nodes, assign_task(t, n)
  PROVE  RowsInv'
<1>1. DBTypeOK'
  BY DBAssumption DEF RowsInv, DBTypeOK, assign_task, TaskStatus, JobStatus
<1>2. JobRowAgreesWithTasks'
  <2>1. CASE task[t].st = "none"
    BY <2>1 DEF RowsInv, JobRowAgreesWithTasks, assign_task, TasksOf
  <2>2. CASE task[t].st # "none"
    <3>1. \A j \in Jobs : job'[j].st = IF j = JobOf[t] THEN "running" ELSE job[j].st
      BY <2>2, DBAssumption DEF RowsInv, DBTypeOK, assign_task
    <3>2. \A u \in Tasks : JobOf[u] # JobOf[t] => task'[u] = task[u]
      BY <2>2 DEF RowsInv, DBTypeOK, assign_task
    <3> QED
      BY <3>1, <3>2 DEF RowsInv, JobRowAgreesWithTasks, TasksOf
  <2> QED
    BY <2>1, <2>2
<1>3. LatestIsOwn'
  BY DBAssumption DEF RowsInv, DBTypeOK, LatestIsOwn, assign_task
<1> QED
  BY <1>1, <1>2, <1>3 DEF RowsInv

\* So does progress, whatever has become of the job.
LEMMA ProgressRows ==
  ASSUME RowsInv, NEW t \in Tasks, record_task_progress(t)
  PROVE  RowsInv'
<1>1. DBTypeOK'
  BY DBAssumption DEF RowsInv, DBTypeOK, record_task_progress, JobStatus
<1>2. /\ UNCHANGED task
      /\ \A j \in Jobs : job'[j].latest = job[j].latest /\ job'[j].st \in {job[j].st, "running"}
  BY DEF RowsInv, DBTypeOK, record_task_progress
<1>3. JobRowAgreesWithTasks' /\ LatestIsOwn'
  BY <1>2 DEF RowsInv, JobRowAgreesWithTasks, LatestIsOwn, TasksOf
<1> QED
  BY <1>1, <1>3 DEF RowsInv

\* complete_task refreshes the job of the row it changes.
LEMMA CompleteRows ==
  ASSUME RowsInv, NEW t \in Tasks, NEW n \in Nodes \cup {None}, NEW status \in Outcome,
         complete_task(t, n, status)
  PROVE  RowsInv'
<1>1. CASE task[t].st = "none"
  BY <1>1 DEF complete_task, RowsInv, DBTypeOK, JobRowAgreesWithTasks, LatestIsOwn
<1>2. CASE task[t].st # "none"
  <2>1. CompletedRow(task[t], n, status, MaxAttempts[t]) \in TaskRow
    BY DBAssumption, ZenonT(40) DEF CompletedRow, TaskRow, RowsInv, DBTypeOK, Outcome, TaskStatus, Terminal
  <2>2. /\ task' = [task EXCEPT ![t] = CompletedRow(@, n, status, MaxAttempts[t])]
        /\ job' = _refresh_job_state(task', JobOf[t], t)
        /\ UNCHANGED node
    BY <1>2 DEF complete_task
  <2>3. JobOf[t] \in Jobs /\ t # None
    BY DBAssumption
  <2>4. task' \in [Tasks -> TaskRow] /\ \A u \in Tasks : JobOf[u] \notin {JobOf[t]} => task'[u] = task[u]
    BY <2>1, <2>2 DEF RowsInv, DBTypeOK, TaskRow
  <2>5. job' = [job EXCEPT ![JobOf[t]] = [st |-> StatusFromTasks(task', JobOf[t]), latest |-> t]]
    BY <2>2, <2>3 DEF _refresh_job_state
  <2>6. StatusFromTasks(task', JobOf[t]) \in JobStatus
    BY Refreshed
  <2>7. job' \in [Jobs -> [st: JobStatus, latest: Tasks \cup {None}]]
    BY <2>3, <2>5, <2>6 DEF RowsInv, DBTypeOK
  <2>8. \A j \in Jobs \ {JobOf[t]} : job'[j] = job[j]
    BY <2>5 DEF RowsInv, DBTypeOK
  <2>9. \A j \in {JobOf[t]} : /\ job'[j].st = StatusFromTasks(task', j)
                              /\ job'[j].latest # None => JobOf[job'[j].latest] = j
    BY <2>3, <2>5 DEF RowsInv, DBTypeOK
  <2>10. {JobOf[t]} \in SUBSET Jobs /\ UNCHANGED node
    BY <2>2, <2>3
  <2> QED
    BY <2>4, <2>7, <2>8, <2>9, <2>10, RefreshedRows, Zenon
<1> QED
  BY <1>1, <1>2

\* Recycling changes the rows of ts and refreshes the jobs they belong to.
LEMMA RecycleRows ==
  ASSUME RowsInv, NEW ts \in SUBSET Tasks, _recycle_task_rows(ts)
  PROVE  RowsInv'
<1> DEFINE hit == {JobOf[t] : t \in ts}
<1>1. \A t \in ts : RecycledRow(task[t], MaxAttempts[t]) \in TaskRow
  BY ZenonT(40) DEF RecycledRow, TaskRow, RowsInv, DBTypeOK, TaskStatus, Terminal
<1>2. task' = [t \in Tasks |-> IF t \in ts THEN RecycledRow(task[t], MaxAttempts[t]) ELSE task[t]]
  BY DEF _recycle_task_rows
<1>3. PICK last \in [hit -> ts] :
        /\ \A j \in hit : JobOf[last[j]] = j
        /\ job' = [j \in Jobs |-> IF j \in hit
                     THEN [st |-> StatusFromTasks(task', j), latest |-> last[j]] ELSE job[j]]
  BY DEF _recycle_task_rows
<1>4. hit \in SUBSET Jobs
  BY DBAssumption
<1>5. task' \in [Tasks -> TaskRow]
  BY <1>1, <1>2 DEF RowsInv, DBTypeOK, TaskRow
<1>6. \A t \in Tasks : JobOf[t] \notin hit => task'[t] = task[t]
  BY <1>2
<1>7. \A j \in Jobs : StatusFromTasks(task', j) \in JobStatus
  BY Refreshed
<1>8. job' \in [Jobs -> [st: JobStatus, latest: Tasks \cup {None}]]
  BY <1>3, <1>7 DEF RowsInv, DBTypeOK
<1>9. /\ \A j \in Jobs \ hit : job'[j] = job[j]
      /\ \A j \in hit : /\ job'[j].st = StatusFromTasks(task', j)
                        /\ job'[j].latest # None => JobOf[job'[j].latest] = j
  BY <1>3, <1>4
<1>10. UNCHANGED node
  BY DEF _recycle_task_rows
<1> HIDE DEF hit
<1> QED
  BY <1>4, <1>5, <1>6, <1>8, <1>9, <1>10, RefreshedRows, Zenon

\* A retry queues the job's latest task, which is one of its own.
LEMMA RetryRows ==
  ASSUME RowsInv, NEW j \in Jobs, operator_retry_job(j)
  PROVE  RowsInv'
<1> DEFINE t == job[j].latest
<1>1. CASE ~(job[j].st # "none" /\ t # None /\ task[t].st \in Terminal)
  <2>1. UNCHANGED <<task, job, node>>
    BY <1>1 DEF operator_retry_job
  <2> QED
    BY <2>1 DEF RowsInv, DBTypeOK, JobRowAgreesWithTasks, LatestIsOwn, TasksOf
<1>2. CASE job[j].st # "none" /\ t # None /\ task[t].st \in Terminal
  <2>1. t \in Tasks /\ JobOf[t] = j /\ t # None
    BY <1>2 DEF RowsInv, DBTypeOK, LatestIsOwn
  <2>2. /\ task' = [task EXCEPT ![t].st = "queued", ![t].on = None]
        /\ job' = _refresh_job_state(task', j, t)
        /\ UNCHANGED node
    BY <1>2 DEF operator_retry_job
  <2>3. task' \in [Tasks -> TaskRow] /\ \A u \in Tasks : JobOf[u] \notin {j} => task'[u] = task[u]
    BY <2>1, <2>2 DEF RowsInv, DBTypeOK, TaskRow, TaskStatus
  <2>4. job' = [job EXCEPT ![j] = [st |-> StatusFromTasks(task', j), latest |-> t]]
    BY <2>1, <2>2 DEF _refresh_job_state
  <2>5. StatusFromTasks(task', j) \in JobStatus
    BY Refreshed
  <2>6. job' \in [Jobs -> [st: JobStatus, latest: Tasks \cup {None}]] /\ \A i \in Jobs \ {j} : job'[i] = job[i]
    BY <2>1, <2>4, <2>5 DEF RowsInv, DBTypeOK
  <2>7. \A i \in {j} : /\ job'[i].st = StatusFromTasks(task', i)
                       /\ job'[i].latest # None => JobOf[job'[i].latest] = i
    BY <2>1, <2>4 DEF RowsInv, DBTypeOK
  <2>8. {j} \in SUBSET Jobs /\ UNCHANGED node
    BY <2>2
  <2> QED
    BY <2>3, <2>6, <2>7, <2>8, RefreshedRows, Zenon
<1> QED
  BY <1>1, <1>2

\* A cancelled job is neither successful nor failed, whatever its tasks were.
LEMMA CancelRows ==
  ASSUME RowsInv, NEW j \in Jobs, cancel_job(j)
  PROVE  RowsInv'
<1>1. DBTypeOK'
  <2>1. \A t \in Tasks : [task[t] EXCEPT !.st = "cancelled"] \in TaskRow
    BY DEF RowsInv, DBTypeOK, TaskStatus, Terminal, TaskRow
  <2>2. task' \in [Tasks -> TaskRow]
    BY <2>1 DEF RowsInv, DBTypeOK, cancel_job, TaskRow
  <2>3. job' \in [Jobs -> [st: JobStatus, latest: Tasks \cup {None}]]
    BY DEF RowsInv, DBTypeOK, cancel_job, JobStatus
  <2> QED
    BY <2>2, <2>3 DEF RowsInv, DBTypeOK, cancel_job, TaskRow
<1>2. \A t \in Tasks : JobOf[t] # j => task'[t] = task[t]
  BY DEF cancel_job
<1>3. \A i \in Jobs : job'[i].latest = job[i].latest /\ job'[i].st = IF i = j THEN "cancelled" ELSE job[i].st
  BY DEF RowsInv, DBTypeOK, cancel_job
<1> QED
  BY <1>1, <1>2, <1>3 DEF RowsInv, JobRowAgreesWithTasks, LatestIsOwn, TasksOf

\* Clearing deletes whole jobs.
LEMMA ClearRows ==
  ASSUME RowsInv, clear_completed_jobs
  PROVE  RowsInv'
<1> DEFINE gone == {j \in Jobs : job[j].st \in {"success", "failed", "cancelled"}}
<1>1. DBTypeOK'
  <2>1. task' \in [Tasks -> TaskRow]
    BY ZenonT(40) DEF RowsInv, DBTypeOK, clear_completed_jobs, TaskStatus, TaskRow
  <2>2. job' \in [Jobs -> [st: JobStatus, latest: Tasks \cup {None}]]
    BY DEF RowsInv, DBTypeOK, clear_completed_jobs, JobStatus
  <2> QED
    BY <2>1, <2>2 DEF RowsInv, DBTypeOK, clear_completed_jobs, TaskRow
<1>2. \A t \in Tasks : JobOf[t] \notin gone => task'[t] = task[t]
  BY DEF clear_completed_jobs
<1>3. \A j \in Jobs : job'[j] = IF j \in gone THEN [st |-> "none", latest |-> None] ELSE job[j]
  BY DEF clear_completed_jobs
<1>4. JobRowAgreesWithTasks'
  BY <1>2, <1>3 DEF RowsInv, JobRowAgreesWithTasks, TasksOf
<1>5. LatestIsOwn'
  BY <1>3 DEF RowsInv, LatestIsOwn
<1> QED
  BY <1>1, <1>4, <1>5 DEF RowsInv

\* The node rows do not matter to jobs and tasks, nor does a deadline.
LEMMA NodeRows ==
  ASSUME RowsInv, UNCHANGED <<task, job>>,
         node' \in [Nodes -> [known: BOOLEAN, fresh: BOOLEAN, contributing: BOOLEAN]]
  PROVE  RowsInv'
BY DEF RowsInv, DBTypeOK, JobRowAgreesWithTasks, LatestIsOwn, TasksOf

\* A step that leaves the tables alone keeps RowsInv.
LEMMA SameRows ==
  ASSUME RowsInv, UNCHANGED dbVars
  PROVE  RowsInv'
BY NodeRows DEF RowsInv, DBTypeOK, dbVars

\* A deadline that passes keeps RowsInv.
LEMMA DeadlineRows ==
  ASSUME RowsInv, NEW t \in Tasks, DeadlinePasses(t)
  PROVE  RowsInv'
<1>1. DBTypeOK'
  BY ZenonT(40) DEF RowsInv, DBTypeOK, DeadlinePasses
<1>2. \A u \in Tasks : task'[u].st = task[u].st
  BY DEF RowsInv, DBTypeOK, DeadlinePasses
<1> QED
  BY <1>1, <1>2 DEF RowsInv, JobRowAgreesWithTasks, LatestIsOwn, TasksOf, DeadlinePasses

-----------------------------------------------------------------------------
(* The types, and with them what the rows promise, are inductive.            *)

GridInv == RowsInv /\ TypeInv

\* The messages the two sides make.
LEMMA Messages ==
  /\ Message("register", None, "none") \in UpMessage
  /\ Message("heartbeat", None, "none") \in UpMessage
  /\ \A t \in Tasks : Message("progress", t, "none") \in UpMessage
  /\ \A t \in Tasks, o \in Outcome : Message("result", t, o) \in UpMessage
  /\ Message("ack", None, "refused") \in DownMessage /\ Message("ack", None, "token") \in DownMessage
  /\ Message("control", None, "bft_aggregate_ready") \in DownMessage
  /\ Message("end", None, "none") \in DownMessage
  /\ \A t \in Tasks : Message("assign", t, "script") \in DownMessage /\ Message("assign", t, "builtin") \in DownMessage
BY DEF Message, UpMessage, DownMessage

\* What a message up or down is about.
LEMMA MessageShape ==
  /\ \A m \in UpMessage : m.kind \in {"register", "heartbeat", "progress", "result"}
  /\ \A m \in UpMessage : m.kind \in {"progress", "result"} => m.task \in Tasks
  /\ \A m \in UpMessage : m.kind = "result" => m.what \in Outcome
  /\ \A m \in DownMessage : m.kind = "assign" => m.task \in Tasks /\ m.what \in {"script", "builtin"}
BY DEF UpMessage, DownMessage

\* A stream that reads is a state of a stream.
LEMMA IdleHand == Idle \in Hand /\ Idle.pc = "recv"
BY DEF Idle, Hand, Message

\* The scheduler before its first pass is a state of the scheduler.
LEMMA IdleSchedule ==
  /\ SchedIdle \in [pc: {"stale", "list", "scan", "assign", "send"}, todo: SUBSET Tasks, idle: SUBSET Nodes,
                    node: Nodes \cup {None}, task: Tasks \cup {None}]
  /\ SchedIdle.pc = "stale" /\ SchedIdle.todo = {}
BY DEF SchedIdle

\* What is put on a stream is a message to the worker.
LEMMA PutType ==
  ASSUME StreamTypeOK, NEW s \in Sessions, NEW m \in DownMessage, Put(s, m)
  PROVE  down' \in [Sessions -> Seq(DownMessage)]
BY DEF Put, StreamTypeOK

\* What the handlers have is of the right kind when one of them ends.
LEMMA DoneType ==
  ASSUME StreamTypeOK, NEW s \in Sessions, Done(s)
  PROVE  /\ hand' \in [Sessions -> Hand]
         /\ \A r \in Sessions : /\ hand'[r].pc \in TaskPC => hand'[r].msg.task \in Tasks
                                /\ hand'[r].pc \in ResultPC => hand'[r].msg.what \in Outcome
BY IdleHand DEF Done, StreamTypeOK, TaskPC, ResultPC

\* A handler that goes on with the message it has.
LEMMA GotoType ==
  ASSUME StreamTypeOK, NEW s \in Sessions, NEW pc \in TaskPC, Goto(s, pc), hand[s].pc \in ResultPC
  PROVE  /\ hand' \in [Sessions -> Hand]
         /\ \A r \in Sessions : /\ hand'[r].pc \in TaskPC => hand'[r].msg.task \in Tasks
                                /\ hand'[r].pc \in ResultPC => hand'[r].msg.what \in Outcome
BY ZenonT(40) DEF Goto, StreamTypeOK, TaskPC, ResultPC, Hand

\* Each step of a stream keeps types and rows.
LEMMA StreamsGrid ==
  ASSUME GridInv, Streams, UNCHANGED <<worker, faked>>
  PROVE  GridInv'
<1>0. WorkerTypeOK'
  BY DEF GridInv, TypeInv, WorkerTypeOK
<1> USE DEF GridInv, TypeInv
<1>1. ASSUME NEW s \in Sessions, Receive(s)
      PROVE  GridInv'
  <2>1. RowsInv'
    BY <1>1, SameRows DEF Receive
  <2> DEFINE m == Head(up[s])
  <2>2. m \in UpMessage /\ Tail(up[s]) \in Seq(UpMessage) /\ Len(Tail(up[s])) <= MaxQueue
    BY <1>1, QueueAssumption DEF Receive, StreamTypeOK
  <2>3. up' \in [Sessions -> Seq(UpMessage)] /\ \A r \in Sessions : Len(up'[r]) <= MaxQueue
    BY <1>1, <2>2 DEF Receive, StreamTypeOK
  <2>4. /\ hand' \in [Sessions -> Hand]
        /\ \A r \in Sessions : /\ hand'[r].pc \in TaskPC => hand'[r].msg.task \in Tasks
                               /\ hand'[r].pc \in ResultPC => hand'[r].msg.what \in Outcome
    <3>1. \/ UNCHANGED hand
          \/ hand' = [hand EXCEPT ![s] = [Idle EXCEPT !.pc = "register", !.msg = m]]
          \/ m.kind # "register" /\ hand' = [hand EXCEPT ![s] = [Idle EXCEPT !.pc = m.kind, !.msg = m]]
      BY <1>1 DEF Receive
    <3> DEFINE With(pc) == [Idle EXCEPT !.pc = pc, !.msg = m]
    <3>2. PICK pc \in {"register", m.kind} : hand' = hand \/ hand' = [hand EXCEPT ![s] = With(pc)]
      BY <3>1
    <3> DEFINE h == With(pc)
    <3>3. h \in Hand /\ h.pc = pc /\ h.msg = m
      BY <2>2, <3>2, MessageShape DEF Idle, Hand, TaskPC
    <3>4. pc \in TaskPC => m.task \in Tasks
      BY <2>2, <3>2, MessageShape DEF TaskPC
    <3>5. pc \in ResultPC => m.what \in Outcome
      BY <2>2, <3>2, MessageShape DEF ResultPC
    <3>6. hand' = hand \/ hand' = [hand EXCEPT ![s] = h]
      BY <3>2
    <3> HIDE DEF h
    <3> QED
      BY <3>3, <3>4, <3>5, <3>6 DEF StreamTypeOK
  <2>5. down' \in [Sessions -> Seq(DownMessage)]
    <3>1. Put(s, Message("ack", None, "refused")) \/ UNCHANGED down
      BY <1>1 DEF Receive
    <3> QED
      BY <3>1, PutType, Messages DEF StreamTypeOK
  <2>6. StreamTypeOK'
    <3>1. sess' \in {sess, [sess EXCEPT ![s].bound = TRUE]} /\ UNCHANGED <<leaving, orphans>>
      BY <1>1 DEF Receive
    <3> QED
      BY <3>1, <2>3, <2>4, <2>5, ZenonT(40) DEF StreamTypeOK
  <2>7. ServiceTypeOK'
    <3>1. connected' = connected \/ connected' = [connected EXCEPT ![NodeOf(s)] = s]
      BY <1>1 DEF Receive
    <3>2. connected' \in [Nodes -> Sessions \cup {None}]
      BY <3>1 DEF ServiceTypeOK
    <3> QED
      BY <1>1, <3>2 DEF Receive, ServiceTypeOK, adminVars
  <2> QED
    BY <1>0, <2>1, <2>6, <2>7
<1>2. ASSUME NEW s \in Sessions, HandleRegister(s)
      PROVE  GridInv'
  <2>1. RowsInv'
    BY <1>2, NodeRows DEF HandleRegister, register_node, RowsInv, DBTypeOK
  <2>2. StreamTypeOK'
    BY <1>2, DoneType, PutType, Messages DEF HandleRegister, StreamTypeOK
  <2>3. ServiceTypeOK'
    BY <1>2 DEF HandleRegister, ServiceTypeOK, adminVars, memVars, countVars
  <2> QED
    BY <1>0, <2>1, <2>2, <2>3
<1>3. ASSUME NEW s \in Sessions, HandleHeartbeat(s)
      PROVE  GridInv'
  <2>1. RowsInv'
    BY <1>3, NodeRows DEF HandleHeartbeat, update_heartbeat, RowsInv, DBTypeOK
  <2>2. StreamTypeOK'
    BY <1>3, DoneType DEF HandleHeartbeat, StreamTypeOK
  <2>3. ServiceTypeOK'
    BY <1>3 DEF HandleHeartbeat, ServiceTypeOK, adminVars, memVars, countVars
  <2> QED
    BY <1>0, <2>1, <2>2, <2>3
<1>4. ASSUME NEW s \in Sessions, HandleProgress(s)
      PROVE  GridInv'
  <2>1. hand[s].msg.task \in Tasks
    BY <1>4 DEF HandleProgress, At, StreamTypeOK, TaskPC
  <2>2. RowsInv'
    BY <1>4, <2>1, ProgressRows DEF HandleProgress
  <2>3. StreamTypeOK'
    BY <1>4, DoneType DEF HandleProgress, StreamTypeOK
  <2>4. ServiceTypeOK'
    BY <1>4 DEF HandleProgress, ServiceTypeOK, adminVars, memVars, countVars
  <2> QED
    BY <1>0, <2>2, <2>3, <2>4
<1>5. ASSUME NEW s \in Sessions, HandleResult(s)
      PROVE  GridInv'
  <2>1. hand[s].msg.task \in Tasks /\ hand[s].msg.what \in Outcome /\ NodeOf(s) \in Nodes \cup {None}
    BY <1>5 DEF HandleResult, At, StreamTypeOK, TaskPC, ResultPC, NodeOf
  <2>2. RowsInv'
    BY <1>5, <2>1, CompleteRows DEF HandleResult, update_task_result
  <2>3. StreamTypeOK'
    BY <1>5, GotoType DEF HandleResult, At, TaskPC, ResultPC, StreamTypeOK
  <2>4. ServiceTypeOK'
    BY <1>5 DEF HandleResult, ServiceTypeOK, adminVars, memVars, countVars
  <2> QED
    BY <1>0, <2>2, <2>3, <2>4
<1>6. ASSUME NEW s \in Sessions, PayResult(s)
      PROVE  GridInv'
  <2>1. RowsInv'
    BY <1>6, SameRows DEF PayResult
  <2>2. StreamTypeOK'
    BY <1>6, GotoType DEF PayResult, At, TaskPC, ResultPC, StreamTypeOK
  <2>3. hand[s].msg.task \in Tasks
    BY <1>6 DEF PayResult, At, StreamTypeOK, TaskPC
  <2>4. ServiceTypeOK'
    BY <1>6, <2>3 DEF PayResult, record_credit_earn, ServiceTypeOK, adminVars, memVars
  <2> QED
    BY <1>0, <2>1, <2>2, <2>4
<1>7. ASSUME NEW s \in Sessions, GatherResults(s)
      PROVE  GridInv'
  <2> DEFINE from == {task[u].on : u \in Successes(JobOf[hand[s].msg.task])}
  <2>1. RowsInv'
    BY <1>7, SameRows DEF GatherResults
  <2>2. from \in SUBSET (Nodes \cup {None})
    BY DEF RowsInv, DBTypeOK, Successes, TasksOf
  <2>3. /\ hand' \in [Sessions -> Hand]
        /\ \A r \in Sessions : /\ hand'[r].pc \in TaskPC => hand'[r].msg.task \in Tasks
                               /\ hand'[r].pc \in ResultPC => hand'[r].msg.what \in Outcome
    <3>1. CASE Done(s)
      BY <3>1, DoneType
    <3>2. CASE hand' = [hand EXCEPT ![s].pc = "store", ![s].snap = from]
      <4>1. [hand[s] EXCEPT !.pc = "store", !.snap = from] \in Hand
        BY <2>2, ZenonT(40) DEF Hand, StreamTypeOK, TaskPC
      <4> QED
        BY <1>7, <3>2, <4>1 DEF GatherResults, At, StreamTypeOK, TaskPC, ResultPC
    <3> QED
      BY <1>7, <3>1, <3>2 DEF GatherResults
  <2>4. StreamTypeOK'
    BY <1>7, <2>3 DEF GatherResults, StreamTypeOK
  <2>5. pending' \in [Nodes -> Tasks \cup {None}]
    BY <1>7 DEF GatherResults, PopPending, ServiceTypeOK
  <2>6. ServiceTypeOK'
    BY <1>7, <2>5 DEF GatherResults, ServiceTypeOK, adminVars, countVars
  <2> QED
    BY <1>0, <2>1, <2>4, <2>6
<1>8. ASSUME NEW s \in Sessions, StoreAggregate(s)
      PROVE  GridInv'
  <2>1. RowsInv'
    BY <1>8, SameRows DEF StoreAggregate
  <2>2. down' \in [Sessions -> Seq(DownMessage)]
    BY <1>8, Messages DEF StoreAggregate, StreamTypeOK
  <2>3. StreamTypeOK'
    BY <1>8, <2>2, DoneType DEF StoreAggregate, StreamTypeOK
  <2>4. pending' \in [Nodes -> Tasks \cup {None}]
    BY <1>8 DEF StoreAggregate, PopPending, ServiceTypeOK
  <2>5. aggregate' \in [Jobs -> SUBSET (Nodes \cup {None})]
    BY <1>8 DEF StoreAggregate, ServiceTypeOK, StreamTypeOK, Hand
  <2>6. ServiceTypeOK'
    BY <1>8, <2>4, <2>5 DEF StoreAggregate, ServiceTypeOK, adminVars, countVars
  <2> QED
    BY <1>0, <2>1, <2>3, <2>6
<1>9. ASSUME NEW s \in Sessions, CloseStream(s)
      PROVE  GridInv'
  <2>1. RowsInv'
    BY <1>9, SameRows DEF CloseStream
  <2>2. CallOf(s) \subseteq Call
    BY DEF CallOf, Call, StreamTypeOK, ResultPC, TaskPC, NodeOf
  <2>3. orphans' \subseteq Call
    BY <1>9, <2>2 DEF CloseStream, StreamTypeOK
  <2>4. up' \in [Sessions -> Seq(UpMessage)] /\ \A r \in Sessions : Len(up'[r]) <= MaxQueue
    BY <1>9, QueueAssumption DEF CloseStream, StreamTypeOK
  <2>5. StreamTypeOK'
    BY <1>9, <2>3, <2>4, DoneType, ZenonT(40) DEF CloseStream, StreamTypeOK
  <2>6. ServiceTypeOK'
    BY <1>9 DEF CloseStream, ServiceTypeOK, adminVars, countVars
  <2> QED
    BY <1>0, <2>1, <2>5, <2>6
<1>10. ASSUME NEW s \in Sessions, _handle_disconnect(s)
       PROVE  GridInv'
  <2>1. RowsInv'
    BY <1>10, RecycleRows DEF _handle_disconnect, requeue_tasks_for_node
  <2>2. StreamTypeOK'
    BY <1>10 DEF _handle_disconnect, StreamTypeOK
  <2>3. ServiceTypeOK'
    BY <1>10 DEF _handle_disconnect, ServiceTypeOK, adminVars, memVars, countVars
  <2> QED
    BY <1>0, <2>1, <2>2, <2>3
<1>11. ASSUME NEW c \in orphans, OrphanCall(c)
       PROVE  GridInv'
  <2>1. c \in Call
    BY DEF StreamTypeOK
  <2>2. RowsInv'
    BY <1>11, <2>1, CompleteRows, SameRows DEF OrphanCall, update_task_result, Call
  <2>3. StreamTypeOK'
    BY <1>11 DEF OrphanCall, StreamTypeOK
  <2>4. ServiceTypeOK'
    BY <1>11 DEF OrphanCall, record_credit_earn, ServiceTypeOK, adminVars, memVars
  <2> QED
    BY <1>0, <2>2, <2>3, <2>4
<1> QED
  BY <1>1, <1>2, <1>3, <1>4, <1>5, <1>6, <1>7, <1>8, <1>9, <1>10, <1>11 DEF Streams

\* Each step of the scheduler keeps types and rows.
LEMMA SchedulerGrid ==
  ASSUME GridInv, Scheduler, UNCHANGED <<worker, faked>>
  PROVE  GridInv'
<1>0. WorkerTypeOK'
  BY DEF GridInv, TypeInv, WorkerTypeOK
<1> USE DEF GridInv, TypeInv
<1>1. ASSUME UNCHANGED streamVars
      PROVE  StreamTypeOK'
  BY <1>1 DEF streamVars, StreamTypeOK
<1>2. ASSUME _process_stale_tasks
      PROVE  GridInv'
  <2>1. RowsInv'
    BY <1>2, RecycleRows DEF _process_stale_tasks, requeue_stale_tasks
  <2>2. StreamTypeOK'
    BY <1>1, <1>2 DEF _process_stale_tasks
  <2>3. ServiceTypeOK'
    BY <1>2 DEF _process_stale_tasks, ServiceTypeOK, adminVars, memVars, countVars
  <2> QED
    BY <1>0, <2>1, <2>2, <2>3
<1>3. ASSUME ListQueued
      PROVE  GridInv'
  <2>1. RowsInv'
    BY <1>3, SameRows DEF ListQueued
  <2>2. StreamTypeOK'
    BY <1>1, <1>3 DEF ListQueued
  <2>3. ServiceTypeOK'
    BY <1>3, IdleSchedule DEF ListQueued, get_queued_tasks, ServiceTypeOK, adminVars, memVars, countVars
  <2> QED
    BY <1>0, <2>1, <2>2, <2>3
<1>4. ASSUME ScanNodes
      PROVE  GridInv'
  <2>1. RowsInv'
    BY <1>4, SameRows DEF ScanNodes
  <2>2. StreamTypeOK'
    BY <1>1, <1>4 DEF ScanNodes
  <2>3. ServiceTypeOK'
    <3>1. _idle_candidates \in SUBSET Nodes
      BY DEF _idle_candidates
    <3>2. sched' = SchedIdle \/ sched' = [sched EXCEPT !.pc = "assign", !.idle = _idle_candidates]
      BY <1>4 DEF ScanNodes
    <3> QED
      BY <1>4, <3>1, <3>2, IdleSchedule DEF ScanNodes, ServiceTypeOK, adminVars, memVars, countVars
  <2> QED
    BY <1>0, <2>1, <2>2, <2>3
<1>5. ASSUME AssignNext
      PROVE  GridInv'
  <2>1. PICK t \in sched.todo, n \in sched.idle :
          /\ assign_task(t, n)
          /\ sched' = [sched EXCEPT !.pc = "send", !.todo = @ \ {t}, !.idle = @ \ {n}, !.node = n, !.task = t]
    BY <1>5 DEF AssignNext
  <2>2. t \in Tasks /\ n \in Nodes
    BY DEF ServiceTypeOK
  <2>3. RowsInv'
    BY <2>1, <2>2, AssignRows
  <2>4. StreamTypeOK'
    BY <1>1, <1>5 DEF AssignNext
  <2>5. ServiceTypeOK'
    BY <1>5, <2>1, <2>2 DEF AssignNext, ServiceTypeOK, adminVars, memVars, countVars
  <2> QED
    BY <1>0, <2>3, <2>4, <2>5
<1>6. ASSUME SendAssign
      PROVE  GridInv'
  <2>1. RowsInv'
    BY <1>6, SameRows DEF SendAssign
  <2>2. sched.task \in Tasks /\ sched.node \in Nodes /\ connected[sched.node] \in Sessions \cup {None}
    BY <1>6 DEF SendAssign, ServiceTypeOK
  <2>3. down' \in [Sessions -> Seq(DownMessage)]
    <3>1. CASE connected[sched.node] = None
      BY <1>6, <3>1 DEF SendAssign, StreamTypeOK
    <3>2. CASE connected[sched.node] # None
      BY <1>6, <2>2, <3>2, PutType, Messages DEF SendAssign
    <3> QED
      BY <3>1, <3>2
  <2>4. StreamTypeOK'
    BY <1>6, <2>3 DEF SendAssign, StreamTypeOK
  <2>5. /\ pending' \in [Nodes -> Tasks \cup {None}]
        /\ sent' \in [Tasks -> Nat]
    BY <1>6, <2>2 DEF SendAssign, ServiceTypeOK
  <2>6. sched' \in [pc: {"stale", "list", "scan", "assign", "send"}, todo: SUBSET Tasks, idle: SUBSET Nodes,
                    node: Nodes \cup {None}, task: Tasks \cup {None}] /\ sched'.pc # "send"
    BY <1>6, IdleSchedule DEF SendAssign, ServiceTypeOK
  <2>7. ServiceTypeOK'
    BY <1>6, <2>5, <2>6 DEF SendAssign, ServiceTypeOK, adminVars
  <2> QED
    BY <1>0, <2>1, <2>4, <2>7
<1> QED
  BY <1>2, <1>3, <1>4, <1>5, <1>6 DEF Scheduler

\* Each operator's call keeps types and rows.
LEMMA AdminGrid ==
  ASSUME GridInv, Admin, UNCHANGED <<worker, faked>>
  PROVE  GridInv'
<1>0. WorkerTypeOK'
  BY DEF GridInv, TypeInv, WorkerTypeOK
<1> USE DEF GridInv, TypeInv
<1>1. ASSUME UNCHANGED streamVars
      PROVE  StreamTypeOK'
  BY <1>1 DEF streamVars, StreamTypeOK
<1>2. ASSUME NEW j \in Jobs, AdminCreate(j)
      PROVE  GridInv'
  BY <1>0, <1>1, <1>2, CreateJobRows DEF AdminCreate, ServiceTypeOK, memVars, countVars, TasksOf
<1>3. ASSUME NEW j \in Jobs, AdminCancel(j)
      PROVE  GridInv'
  BY <1>0, <1>1, <1>3, CancelRows DEF AdminCancel, ServiceTypeOK, memVars
<1>4. ASSUME NEW j \in Jobs, AdminRetryRead(j)
      PROVE  GridInv'
  BY <1>0, <1>1, <1>4, SameRows DEF AdminRetryRead, ServiceTypeOK, memVars
<1>5. ASSUME NEW j \in Jobs, AdminRetryWrite(j)
      PROVE  GridInv'
  BY <1>0, <1>1, <1>5, RetryRows DEF AdminRetryWrite, ServiceTypeOK, memVars, countVars
<1>6. ASSUME NEW t \in Tasks, save_bundle(t)
      PROVE  GridInv'
  BY <1>0, <1>1, <1>6, SameRows DEF save_bundle, ServiceTypeOK, memVars, countVars
<1>7. ASSUME NEW t \in Tasks, SaveFails(t)
      PROVE  GridInv'
  BY <1>0, <1>1, <1>7, SameRows DEF SaveFails, ServiceTypeOK, memVars
<1>8. ASSUME NEW n \in Nodes, AdminDisconnect(n)
      PROVE  GridInv'
  <2>1. RowsInv'
    BY <1>8, SameRows DEF AdminDisconnect
  <2>2. connected[n] \in Sessions
    BY <1>8 DEF AdminDisconnect, ServiceTypeOK
  <2>3. StreamTypeOK'
    BY <1>8, <2>2, PutType, Messages DEF AdminDisconnect, StreamTypeOK
  <2>4. ServiceTypeOK'
    BY <1>8 DEF AdminDisconnect, ServiceTypeOK
  <2> QED
    BY <1>0, <2>1, <2>3, <2>4
<1>9. ASSUME NEW n \in Nodes, AdminDisconnectRow(n)
      PROVE  GridInv'
  <2>1. RowsInv'
    BY <1>9, NodeRows DEF AdminDisconnectRow, RowsInv, DBTypeOK
  <2> QED
    BY <1>0, <1>1, <1>9, <2>1 DEF AdminDisconnectRow, ServiceTypeOK, memVars, countVars
<1>10. ASSUME NEW n \in Nodes, NEW yes \in BOOLEAN, AdminContribute(n, yes)
       PROVE  GridInv'
  <2>1. RowsInv'
    BY <1>10, NodeRows DEF AdminContribute, set_node_contributing, RowsInv, DBTypeOK
  <2> QED
    BY <1>0, <1>1, <1>10, <2>1 DEF AdminContribute, ServiceTypeOK, memVars
<1>11. ASSUME AdminClear
       PROVE  GridInv'
  BY <1>0, <1>1, <1>11, ClearRows DEF AdminClear, ServiceTypeOK
<1> QED
  BY <1>2, <1>3, <1>4, <1>5, <1>6, <1>7, <1>8, <1>9, <1>10, <1>11 DEF Admin

\* Each fault of the service keeps types and rows.
LEMMA FaultsGrid ==
  ASSUME GridInv, ServiceFaults, UNCHANGED <<worker, faked>>
  PROVE  GridInv'
<1>0. WorkerTypeOK'
  BY DEF GridInv, TypeInv, WorkerTypeOK
<1> USE DEF GridInv, TypeInv
<1>1. ASSUME OrchestratorRestart
      PROVE  GridInv'
  <2>1. RowsInv'
    BY <1>1, SameRows DEF OrchestratorRestart
  <2>2. sess' \in [Sessions -> [node: Nodes \cup {None}, server: {"free", "open", "closed"},
                                bound: BOOLEAN, alive: BOOLEAN]]
    BY <1>1 DEF OrchestratorRestart, StreamTypeOK
  <2>3. /\ up' \in [Sessions -> Seq(UpMessage)] /\ \A s \in Sessions : Len(up'[s]) <= MaxQueue
        /\ down' \in [Sessions -> Seq(DownMessage)]
    <3>1. << >> \in Seq(UpMessage) /\ << >> \in Seq(DownMessage) /\ Len(<< >>) <= MaxQueue
      BY QueueAssumption
    <3> QED
      BY <1>1, <3>1 DEF OrchestratorRestart
  <2>4. StreamTypeOK'
    BY <1>1, <2>2, <2>3, IdleHand DEF OrchestratorRestart, StreamTypeOK, TaskPC, ResultPC
  <2>5. ServiceTypeOK'
    BY <1>1, IdleSchedule DEF OrchestratorRestart, ServiceTypeOK
  <2> QED
    BY <1>0, <2>1, <2>4, <2>5
<1>2. ASSUME TimePasses
      PROVE  GridInv'
  <2>1. ASSUME NEW n \in Nodes, HeartbeatExpires(n)
        PROVE  RowsInv'
    BY <2>1, NodeRows DEF HeartbeatExpires, RowsInv, DBTypeOK
  <2>2. RowsInv'
    BY <1>2, <2>1, DeadlineRows DEF TimePasses
  <2> QED
    BY <1>0, <1>2, <2>2 DEF TimePasses, streamVars, StreamTypeOK, ServiceTypeOK, memVars, adminVars
<1>3. ASSUME NEW s \in Sessions, StreamBreaks(s)
      PROVE  GridInv'
  <2>1. RowsInv'
    BY <1>3, SameRows DEF StreamBreaks
  <2>2. StreamTypeOK'
    <3>1. << >> \in Seq(DownMessage)
      OBVIOUS
    <3> QED
      BY <1>3, <3>1 DEF StreamBreaks, StreamTypeOK
  <2>3. ServiceTypeOK'
    BY <1>3 DEF StreamBreaks, ServiceTypeOK, memVars, adminVars
  <2> QED
    BY <1>0, <2>1, <2>2, <2>3
<1> QED
  BY <1>1, <1>2, <1>3 DEF ServiceFaults

\* A worker's message joins its stream's queue, if it has a stream.
LEMMA SendType ==
  ASSUME StreamTypeOK, WorkerTypeOK, NEW n \in Nodes, NEW m \in UpMessage, _send(n, m)
  PROVE  up' \in [Sessions -> Seq(UpMessage)] /\ \A s \in Sessions : Len(up'[s]) <= MaxQueue
<1> DEFINE s == worker[n].sess
<1>1. CASE s = None
  BY <1>1 DEF _send, StreamTypeOK
<1>2. CASE s # None
  <2>1. s \in Sessions /\ Len(up[s]) < MaxQueue /\ up' = [up EXCEPT ![s] = Append(@, m)]
    BY <1>2 DEF _send, WorkerTypeOK
  <2>2. Append(up[s], m) \in Seq(UpMessage) /\ Len(Append(up[s], m)) = Len(up[s]) + 1 /\ Len(up[s]) \in Nat
    BY <2>1 DEF StreamTypeOK
  <2> QED
    BY <2>1, <2>2, QueueAssumption DEF StreamTypeOK
<1> QED
  BY <1>1, <1>2

\* Each step of a worker keeps types and rows.
LEMMA WorkersGrid ==
  ASSUME GridInv, Workers
  PROVE  GridInv'
<1> USE DEF GridInv, TypeInv
<1>1. ASSUME ServerSame
      PROVE  RowsInv' /\ ServiceTypeOK'
  BY <1>1, SameRows DEF ServerSame, ServiceTypeOK, memVars, adminVars
<1>2. ASSUME ServerSame, UNCHANGED sess, UNCHANGED down,
             up' \in [Sessions -> Seq(UpMessage)] /\ \A s \in Sessions : Len(up'[s]) <= MaxQueue
      PROVE  StreamTypeOK'
  BY <1>2 DEF ServerSame, StreamTypeOK
<1>3. ASSUME NEW n \in Nodes, Connect(n)
      PROVE  GridInv'
  <2> DEFINE free == {r \in Sessions : sess[r].server = "free"}
             s == CHOOSE r \in free : TRUE
  <2>1. s \in Sessions
    BY <1>3 DEF Connect
  <2>2. /\ sess' = [sess EXCEPT ![s] = [node |-> n, server |-> "open", bound |-> FALSE, alive |-> TRUE]]
        /\ up' = [up EXCEPT ![s] = <<Message("register", None, "none")>>]
        /\ worker' = [worker EXCEPT ![n].sess = s]
    BY <1>3 DEF Connect
  <2> HIDE DEF s
  <2>3. <<Message("register", None, "none")>> \in Seq(UpMessage) /\ Len(<<Message("register", None, "none")>>) <= MaxQueue
    BY Messages, QueueAssumption
  <2>4. StreamTypeOK'
    BY <1>3, <2>1, <2>2, <2>3 DEF Connect, ServerSame, StreamTypeOK
  <2>5. WorkerTypeOK'
    BY <2>1, <2>2 DEF WorkerTypeOK
  <2> QED
    BY <1>1, <1>3, <2>4, <2>5 DEF Connect
<1>4. ASSUME NEW n \in Nodes, _heartbeat_loop(n)
      PROVE  GridInv'
  <2>1. StreamTypeOK'
    BY <1>2, <1>4, SendType, Messages DEF _heartbeat_loop
  <2> QED
    BY <1>1, <1>4, <2>1 DEF _heartbeat_loop, WorkerTypeOK
<1>5. ASSUME NEW n \in Nodes, _handle_message(n)
      PROVE  GridInv'
  <2> DEFINE s == worker[n].sess
             m == Head(down[s])
  <2>1. s \in Sessions /\ m \in DownMessage /\ Tail(down[s]) \in Seq(DownMessage)
    BY <1>5 DEF _handle_message, WorkerTypeOK, StreamTypeOK
  <2>2. down' \in [Sessions -> Seq(DownMessage)]
    BY <1>5, <2>1 DEF _handle_message, StreamTypeOK
  <2>3. /\ up' \in [Sessions -> Seq(UpMessage)] /\ \A r \in Sessions : Len(up'[r]) <= MaxQueue
        /\ WorkerTypeOK'
    <3>1. CASE m.kind = "assign" /\ _accept_job(n, m)
      <4>1. m.task \in Tasks /\ m.what \in {"script", "builtin"}
        BY <2>1, <3>1, MessageShape
      <4>2. Message("result", m.task, "rejected") \in UpMessage
        BY <4>1, Messages DEF Outcome
      <4>3. CASE worker[n].job # None
        BY <3>1, <4>2, <4>3, SendType DEF _accept_job, WorkerTypeOK
      <4>4. CASE worker[n].job = None
        <5>1. UNCHANGED up /\ worker' = [worker EXCEPT ![n].job = m.task, ![n].how = m.what]
          BY <3>1, <4>4 DEF _accept_job
        <5> HIDE DEF m
        <5>2. WorkerTypeOK'
          BY <4>1, <5>1, ZenonT(40) DEF WorkerTypeOK
        <5> QED
          BY <5>1, <5>2 DEF StreamTypeOK
      <4> QED
        BY <4>3, <4>4
    <3>2. CASE UNCHANGED up /\ (UNCHANGED worker \/ worker' = [worker EXCEPT ![n].stop = @ \/ m.what = "refused"])
      <4> DEFINE stops == m.what = "refused"
      <4>1. stops \in BOOLEAN
        OBVIOUS
      <4>2. UNCHANGED worker \/ worker' = [worker EXCEPT ![n].stop = @ \/ stops]
        BY <3>2
      <4> HIDE DEF stops
      <4>3. (worker[n].stop \/ stops) \in BOOLEAN
        OBVIOUS
      <4>4. WorkerTypeOK'
        BY <4>2, <4>3, ZenonT(40) DEF WorkerTypeOK
      <4> QED
        BY <3>2, <4>4 DEF StreamTypeOK
    <3> QED
      BY <1>5, <3>1, <3>2 DEF _handle_message
  <2>4. StreamTypeOK'
    BY <1>5, <2>2, <2>3 DEF _handle_message, ServerSame, StreamTypeOK
  <2> QED
    BY <1>1, <1>5, <2>3, <2>4 DEF _handle_message
<1>6. ASSUME NEW n \in Nodes, Disconnect(n)
      PROVE  GridInv'
  <2>1. StreamTypeOK'
    <3>1. << >> \in Seq(DownMessage)
      OBVIOUS
    <3> QED
      BY <1>6, <3>1, ZenonT(40) DEF Disconnect, ServerSame, StreamTypeOK
  <2> QED
    BY <1>1, <1>6, <2>1 DEF Disconnect, WorkerTypeOK
<1>7. ASSUME NEW n \in Nodes, _report_progress(n)
      PROVE  GridInv'
  <2>1. worker[n].job \in Tasks
    BY <1>7 DEF _report_progress, WorkerTypeOK
  <2>2. StreamTypeOK'
    BY <1>2, <1>7, <2>1, SendType, Messages DEF _report_progress
  <2> QED
    BY <1>1, <1>7, <2>2 DEF _report_progress, WorkerTypeOK
<1>8. ASSUME NEW n \in Nodes, NEW status \in {"success", "failed"}, _report_result(n, status)
      PROVE  GridInv'
  <2>1. worker[n].job \in Tasks
    BY <1>8 DEF _report_result, WorkerTypeOK
  <2>2. Message("result", worker[n].job, status) \in UpMessage
    BY <2>1, Messages DEF Outcome
  <2>3. StreamTypeOK'
    BY <1>2, <1>8, <2>2, SendType DEF _report_result
  <2>4. WorkerTypeOK'
    BY <1>8, ZenonT(40) DEF _report_result, WorkerTypeOK
  <2> QED
    BY <1>1, <1>8, <2>3, <2>4 DEF _report_result
<1>9. ASSUME NEW n \in Nodes, WorkerCrash(n)
      PROVE  GridInv'
  <2>1. StreamTypeOK'
    <3>1. << >> \in Seq(DownMessage)
      OBVIOUS
    <3>2. CASE worker[n].sess = None
      BY <1>2, <1>9, <3>2 DEF WorkerCrash, StreamTypeOK
    <3>3. CASE worker[n].sess \in Sessions /\ worker[n].sess # None
      <4>1. /\ sess' = [sess EXCEPT ![worker[n].sess].alive = FALSE]
            /\ down' = [down EXCEPT ![worker[n].sess] = <<>>]
            /\ UNCHANGED <<hand, leaving, up, orphans>>
        BY <1>9, <3>3 DEF WorkerCrash, ServerSame
      <4> QED
        BY <3>1, <3>3, <4>1, ZenonT(40) DEF StreamTypeOK
    <3> QED
      BY <3>2, <3>3 DEF WorkerTypeOK
  <2>2. WorkerTypeOK'
    BY <1>9 DEF WorkerCrash, WorkerTypeOK
  <2> QED
    BY <1>1, <1>9, <2>1, <2>2 DEF WorkerCrash
<1> QED
  BY <1>3, <1>4, <1>5, <1>6, <1>7, <1>8, <1>9 DEF Workers

\* Types and rows are right at first.
LEMMA GridStart == GridInit => GridInv
<1> SUFFICES ASSUME GridInit PROVE GridInv
  OBVIOUS
<1> USE DEF GridInit, ServiceInit, WorkerInit
<1>1. RowsInv
  BY DEF DBInit, RowsInv, DBTypeOK, TaskStatus, JobStatus, JobRowAgreesWithTasks, LatestIsOwn
<1>2. StreamTypeOK
  <2>1. << >> \in Seq(UpMessage) /\ << >> \in Seq(DownMessage) /\ Len(<< >>) <= MaxQueue
    BY QueueAssumption
  <2> QED
    BY <2>1, IdleHand DEF StreamTypeOK, TaskPC, ResultPC
<1>3. ServiceTypeOK
  BY IdleSchedule DEF ServiceTypeOK
<1>4. WorkerTypeOK
  BY DEF WorkerTypeOK
<1> QED
  BY <1>1, <1>2, <1>3, <1>4 DEF GridInv, TypeInv

\* Every step keeps types and rows.
LEMMA GridStep == GridInv /\ [GridNext]_gridVars => GridInv'
<1> SUFFICES ASSUME GridInv, [GridNext]_gridVars PROVE GridInv'
  OBVIOUS
<1>1. CASE UNCHANGED gridVars
  <2>1. RowsInv'
    BY <1>1, SameRows DEF GridInv, gridVars, orchVars
  <2>2. StreamTypeOK' /\ WorkerTypeOK'
    BY <1>1 DEF GridInv, TypeInv, gridVars, orchVars, streamVars, StreamTypeOK, WorkerTypeOK
  <2>3. ServiceTypeOK'
    BY <1>1 DEF GridInv, TypeInv, gridVars, orchVars, memVars, adminVars, countVars, ServiceTypeOK
  <2> QED
    BY <2>1, <2>2, <2>3 DEF GridInv, TypeInv
<1> QED
  BY <1>1, StreamsGrid, SchedulerGrid, AdminGrid, FaultsGrid, WorkersGrid DEF GridNext

\* Types and rows are right always.
THEOREM GridInvariant == GridSpec => []GridInv
BY GridStart, GridStep, PTL DEF GridSpec

\* Every variable keeps its type: streams carry only messages their sender makes, and no
\* stream more than MaxQueue of them (NodeService, WorkerDaemon).
THEOREM GridTypes == GridSpec => []GridTypeOK
<1>1. GridInv => GridTypeOK
  BY DEF GridInv, RowsInv, TypeInv, StreamTypeOK, ServiceTypeOK, WorkerTypeOK, GridTypeOK
<1> QED
  BY <1>1, GridInvariant, PTL

\* A job row says "success" only over successful tasks and "failed" only if none of them is
\* queued or running, through late results, requeues, retries and orphaned calls
\* (_refresh_job_state and every method that calls it or does not).
THEOREM JobRowsAgree == GridSpec => []JobRowAgreesWithTasks
<1>1. GridInv => JobRowAgreesWithTasks
  BY DEF GridInv, RowsInv
<1> QED
  BY <1>1, GridInvariant, PTL

-----------------------------------------------------------------------------
(* The attempt budget.                                                       *)

\* No task has had one attempt more, and one that is queued now was so before or has an
\* attempt left whatever an operator does.
NoDearer ==
  \A t \in Tasks : /\ task'[t].tries <= task[t].tries
                   /\ task'[t].st = "queued" => task[t].st = "queued" \/ task'[t].tries < MaxAttempts[t]

\* Rows left alone ask for no further attempt.
LEMMA SameIsNoDearer ==
  ASSUME RowsInv, UNCHANGED task
  PROVE  NoDearer
BY DEF NoDearer, RowsInv, DBTypeOK

\* A new job's tasks have their first attempt before them.
LEMMA CreateIsNoDearer ==
  ASSUME RowsInv, NEW j \in Jobs, CreateJob(j)
  PROVE  NoDearer
BY DBAssumption DEF NoDearer, RowsInv, DBTypeOK, CreateJob

\* A task that completes is queued again only while it has an attempt left.
LEMMA CompleteIsNoDearer ==
  ASSUME RowsInv, NEW t \in Tasks, NEW n, NEW status \in Outcome, complete_task(t, n, status)
  PROVE  NoDearer
<1>1. CASE task[t].st = "none"
  BY <1>1, SameIsNoDearer DEF complete_task
<1>2. CASE task[t].st # "none"
  <2>1. task' = [task EXCEPT ![t] = CompletedRow(@, n, status, MaxAttempts[t])]
    BY <1>2 DEF complete_task
  <2>2. /\ CompletedRow(task[t], n, status, MaxAttempts[t]).tries = task[t].tries
        /\ CompletedRow(task[t], n, status, MaxAttempts[t]).st = "queued" => task[t].tries < MaxAttempts[t]
    BY DEF CompletedRow, RowsInv, DBTypeOK, Outcome
  <2> QED
    BY <2>1, <2>2 DEF NoDearer, RowsInv, DBTypeOK
<1> QED
  BY <1>1, <1>2

\* A task is queued again only while it has an attempt left.
LEMMA RecycleIsNoDearer ==
  ASSUME RowsInv, NEW ts \in SUBSET Tasks, _recycle_task_rows(ts)
  PROVE  NoDearer
<1>1. \A t \in Tasks : /\ RecycledRow(task[t], MaxAttempts[t]).tries = task[t].tries
                       /\ RecycledRow(task[t], MaxAttempts[t]).st = "queued" => task[t].tries < MaxAttempts[t]
  BY DBAssumption DEF RecycledRow, RowsInv, DBTypeOK
<1>2. task' = [t \in Tasks |-> IF t \in ts THEN RecycledRow(task[t], MaxAttempts[t]) ELSE task[t]]
  BY DEF _recycle_task_rows
<1> QED
  BY <1>1, <1>2 DEF NoDearer, RowsInv, DBTypeOK

\* Cancelling a job asks for no attempt.
LEMMA CancelIsNoDearer ==
  ASSUME RowsInv, NEW j \in Jobs, cancel_job(j)
  PROVE  NoDearer
BY DEF NoDearer, RowsInv, DBTypeOK, cancel_job

\* Clearing completed jobs asks for no attempt.
LEMMA ClearIsNoDearer ==
  ASSUME RowsInv, clear_completed_jobs
  PROVE  NoDearer
<1> SUFFICES ASSUME NEW t \in Tasks
             PROVE  /\ task'[t].tries <= task[t].tries
                    /\ task'[t].st = "queued" => task[t].st = "queued"
  BY DEF NoDearer
<1>1. task'[t] = task[t] \/ task'[t] = [task[t] EXCEPT !.st = "none", !.on = None]
  BY DEF clear_completed_jobs
<1>2. task[t] \in TaskRow
  BY DEF RowsInv, DBTypeOK, TaskRow
<1>3. task[t].tries \in Nat
  BY <1>2 DEF TaskRow
<1>4. CASE task'[t] = task[t]
  BY <1>3, <1>4
<1>5. CASE task'[t] = [task[t] EXCEPT !.st = "none", !.on = None]
  <2>1. task'[t].tries = task[t].tries /\ task'[t].st = "none"
    BY <1>2, <1>5 DEF TaskRow
  <2> QED
    BY <1>3, <2>1
<1> QED
  BY <1>1, <1>4, <1>5

\* A step that gives no attempt and takes nothing on.
LEMMA BudgetKept ==
  ASSUME GridInv, GridInv', BudgetInv, NoDearer,
         sched'.todo \subseteq sched.todo, retrying' \subseteq retrying, retried' = retried
  PROVE  BudgetInv'
<1>1. \A t \in Tasks : /\ task[t].tries \in Nat /\ task'[t].tries \in Nat /\ retried \in Nat
                       /\ MaxAttempts[t] \in Nat
  BY DBAssumption DEF GridInv, TypeInv, RowsInv, DBTypeOK, ServiceTypeOK
<1>2. ASSUME NEW t \in Tasks
      PROVE  task'[t].tries + Owed(t)' <= MaxAttempts[t] + retried
  <2>1. CASE Waiting(t)' => Waiting(t)
    BY <1>1, <2>1 DEF BudgetInv, NoDearer, Owed
  <2>2. CASE Waiting(t)' /\ ~Waiting(t)
    <3>1. task'[t].tries + 1 <= MaxAttempts[t]
      BY <1>1, <2>2 DEF Waiting, NoDearer
    <3>2. JobOf[t] \in retrying' => retried > 0
      BY DEF BudgetInv
    <3> QED
      BY <1>1, <3>1, <3>2 DEF Owed
  <2> QED
    BY <2>1, <2>2
<1> QED
  BY <1>2 DEF BudgetInv

\* The scheduler pays an attempt for each assignment, from the list it read before.
LEMMA SchedulerBudget ==
  ASSUME GridInv, GridInv', BudgetInv, Scheduler
  PROVE  BudgetInv'
<1> USE DEF GridInv, TypeInv
<1>1. CASE _process_stale_tasks
  <2>1. NoDearer
    BY <1>1, RecycleIsNoDearer DEF _process_stale_tasks, requeue_stale_tasks
  <2> QED
    BY <1>1, <2>1, BudgetKept DEF _process_stale_tasks, adminVars, ServiceTypeOK
<1>2. CASE ListQueued
  <2>1. /\ UNCHANGED <<task, retrying, retried>>
        /\ \A t \in sched'.todo : t \in sched.todo \/ task[t].st = "queued"
    BY <1>2, IdleSchedule DEF ListQueued, get_queued_tasks, dbVars, adminVars, ServiceTypeOK
  <2>2. \A t \in Tasks : Waiting(t)' => Waiting(t)
    BY <2>1 DEF Waiting
  <2>3. \A t \in Tasks : task[t].tries \in Nat /\ retried \in Nat /\ MaxAttempts[t] \in Nat
    BY DBAssumption DEF RowsInv, DBTypeOK, ServiceTypeOK
  <2> QED
    BY <2>1, <2>2, <2>3 DEF BudgetInv, Owed
<1>3. CASE ScanNodes
  <2>1. UNCHANGED <<task, retrying, retried>> /\ sched'.todo \subseteq sched.todo
    BY <1>3, IdleSchedule DEF ScanNodes, dbVars, adminVars, ServiceTypeOK
  <2> QED
    BY <2>1, SameIsNoDearer, BudgetKept
<1>4. CASE AssignNext
  <2>1. PICK t \in sched.todo, n \in sched.idle :
          /\ assign_task(t, n)
          /\ sched' = [sched EXCEPT !.pc = "send", !.todo = @ \ {t}, !.idle = @ \ {n}, !.node = n, !.task = t]
    BY <1>4 DEF AssignNext
  <2>2. UNCHANGED <<retrying, retried>> /\ sched'.todo = sched.todo \ {t} /\ t \in Tasks
    BY <1>4, <2>1 DEF AssignNext, adminVars, ServiceTypeOK
  <2>3. \A u \in Tasks : /\ task[u].tries \in Nat /\ retried \in Nat /\ MaxAttempts[u] \in Nat
    BY DBAssumption DEF RowsInv, DBTypeOK, ServiceTypeOK
  <2>4. CASE task[t].st = "none"
    BY <2>1, <2>2, <2>4, SameIsNoDearer, BudgetKept DEF assign_task
  <2>5. CASE task[t].st # "none"
    <3>1. /\ task'[t].tries = task[t].tries + 1 /\ task'[t].st = "running"
          /\ \A u \in Tasks \ {t} : task'[u] = task[u]
      BY <2>1, <2>2, <2>5 DEF assign_task, RowsInv, DBTypeOK
    <3>2. Waiting(t) /\ ~Waiting(t)'
      BY <2>2, <3>1 DEF Waiting
    <3>3. \A u \in Tasks \ {t} : Waiting(u)' <=> Waiting(u)
      BY <2>2, <3>1 DEF Waiting
    <3>4. ASSUME NEW u \in Tasks
          PROVE  task'[u].tries + Owed(u)' <= MaxAttempts[u] + retried
      BY <2>2, <2>3, <3>1, <3>2, <3>3 DEF BudgetInv, Owed
    <3> QED
      BY <2>2, <3>4 DEF BudgetInv
  <2> QED
    BY <2>4, <2>5
<1>5. CASE SendAssign
  <2>1. UNCHANGED <<task, retrying, retried>> /\ sched'.todo \subseteq sched.todo
    BY <1>5, IdleSchedule DEF SendAssign, dbVars, adminVars, ServiceTypeOK
  <2> QED
    BY <2>1, SameIsNoDearer, BudgetKept
<1> QED
  BY <1>1, <1>2, <1>3, <1>4, <1>5 DEF Scheduler

\* Streams keep the budget of attempts.
LEMMA StreamsBudget ==
  ASSUME GridInv, GridInv', BudgetInv, Streams
  PROVE  BudgetInv'
<1> USE DEF GridInv, TypeInv
<1>1. UNCHANGED <<sched, retrying, retried>>
  BY ZenonT(40) DEF Streams, Receive, HandleRegister, HandleHeartbeat, HandleProgress, HandleResult, PayResult,
         GatherResults, StoreAggregate, CloseStream, _handle_disconnect, OrphanCall, adminVars
<1>2. ASSUME NEW s \in Sessions, HandleResult(s)
      PROVE  NoDearer
  <2>1. hand[s].msg.task \in Tasks /\ hand[s].msg.what \in Outcome
    BY <1>2 DEF HandleResult, At, StreamTypeOK, TaskPC, ResultPC
  <2> QED
    BY <1>2, <2>1, CompleteIsNoDearer DEF HandleResult, update_task_result
<1>3. ASSUME NEW s \in Sessions, _handle_disconnect(s)
      PROVE  NoDearer
  BY <1>3, RecycleIsNoDearer DEF _handle_disconnect, requeue_tasks_for_node
<1>4. ASSUME NEW c \in orphans, OrphanCall(c)
      PROVE  NoDearer
  <2>1. c \in Call
    BY DEF StreamTypeOK
  <2> QED
    BY <1>4, <2>1, CompleteIsNoDearer, SameIsNoDearer DEF OrphanCall, update_task_result, Call, dbVars
<1>5. NoDearer \/ UNCHANGED task
  BY <1>2, <1>3, <1>4
     DEF Streams, Receive, HandleRegister, HandleHeartbeat, HandleProgress, PayResult, GatherResults, StoreAggregate,
         CloseStream, register_node, update_heartbeat, record_task_progress, dbVars
<1> QED
  BY <1>1, <1>5, SameIsNoDearer, BudgetKept

\* An operator's retry adds the attempt it will cost.
LEMMA AdminBudget ==
  ASSUME GridInv, GridInv', BudgetInv, Admin
  PROVE  BudgetInv'
<1> USE DEF GridInv, TypeInv
<1>1. ASSUME NEW j \in Jobs, AdminRetryRead(j)
      PROVE  BudgetInv'
  <2>1. UNCHANGED <<task, sched>> /\ retried' = retried + 1 /\ retrying' = retrying \cup {j}
    BY <1>1 DEF AdminRetryRead, dbVars
  <2>2. \A t \in Tasks : task[t].tries \in Nat /\ retried \in Nat /\ MaxAttempts[t] \in Nat
    BY DBAssumption DEF RowsInv, DBTypeOK, ServiceTypeOK
  <2>3. \A t \in Tasks : Waiting(t)' <=> Waiting(t)
    BY <2>1 DEF Waiting
  <2>4. \A t \in Tasks : Owed(t)' <= Owed(t) + 1
    BY <2>1, <2>3 DEF Owed
  <2>5. \A t \in Tasks : Owed(t) \in Nat /\ Owed(t)' \in Nat
    BY DEF Owed
  <2>6. retried \in Nat
    BY DEF ServiceTypeOK
  <2> QED
    BY <2>1, <2>2, <2>4, <2>5, <2>6 DEF BudgetInv
<1>2. ASSUME NEW j \in Jobs, AdminRetryWrite(j)
      PROVE  BudgetInv'
  <2> DEFINE latest == job[j].latest
  <2>1. UNCHANGED <<sched, retried>> /\ j \in retrying /\ retrying' = retrying \ {j}
    BY <1>2 DEF AdminRetryWrite, streamVars
  <2>2. CASE ~(job[j].st # "none" /\ latest # None /\ task[latest].st \in Terminal)
    BY <1>2, <2>1, <2>2, SameIsNoDearer, BudgetKept DEF AdminRetryWrite, operator_retry_job
  <2>3. CASE job[j].st # "none" /\ latest # None /\ task[latest].st \in Terminal
    <3>1. PICK t \in Tasks : t = latest /\ JobOf[t] = j
      BY <2>3 DEF RowsInv, DBTypeOK, LatestIsOwn
    <3>2. task' = [task EXCEPT ![t].st = "queued", ![t].on = None]
      BY <1>2, <2>3, <3>1 DEF AdminRetryWrite, operator_retry_job
    <3>3. task'[t].tries = task[t].tries /\ \A u \in Tasks \ {t} : task'[u] = task[u]
      BY <3>1, <3>2 DEF RowsInv, DBTypeOK
    <3>4. \A u \in Tasks : task[u].tries \in Nat /\ retried \in Nat /\ MaxAttempts[u] \in Nat
      BY DBAssumption DEF RowsInv, DBTypeOK, ServiceTypeOK
    <3>5. Owed(t)' <= 1 /\ Owed(t) >= 1
      BY <2>1, <3>1 DEF Owed
    <3>6. Owed(t)' \in Nat /\ Owed(t) \in Nat
      BY DEF Owed
    <3>7. task'[t].tries + Owed(t)' <= MaxAttempts[t] + retried
      BY <3>1, <3>3, <3>4, <3>5, <3>6 DEF BudgetInv
    <3>8. ASSUME NEW u \in Tasks \ {t}
          PROVE  task'[u].tries + Owed(u)' <= MaxAttempts[u] + retried
      <4>1. Waiting(u)' <=> Waiting(u)
        BY <2>1, <3>3 DEF Waiting
      <4>2. Owed(u)' <= Owed(u) /\ Owed(u) \in Nat /\ Owed(u)' \in Nat
        BY <2>1, <4>1 DEF Owed
      <4> QED
        BY <3>3, <3>4, <4>2 DEF BudgetInv
    <3> QED
      BY <2>1, <3>7, <3>8 DEF BudgetInv
  <2> QED
    BY <2>2, <2>3
<1>3. ASSUME NEW j \in Jobs, AdminCreate(j)
      PROVE  BudgetInv'
  BY <1>3, CreateIsNoDearer, BudgetKept DEF AdminCreate
<1>4. ASSUME NEW j \in Jobs, AdminCancel(j)
      PROVE  BudgetInv'
  BY <1>4, CancelIsNoDearer, BudgetKept DEF AdminCancel
<1>5. ASSUME AdminClear
      PROVE  BudgetInv'
  BY <1>5, ClearIsNoDearer, BudgetKept DEF AdminClear
<1>6. ASSUME UNCHANGED <<task, sched, retrying, retried>>
      PROVE  BudgetInv'
  BY <1>6, SameIsNoDearer, BudgetKept
<1> QED
  BY <1>1, <1>2, <1>3, <1>4, <1>5, <1>6
     DEF Admin, save_bundle, SaveFails, AdminDisconnect, AdminDisconnectRow, AdminContribute, set_node_contributing, dbVars

\* Faults of the service keep the budget of attempts.
LEMMA FaultsBudget ==
  ASSUME GridInv, GridInv', BudgetInv, ServiceFaults
  PROVE  BudgetInv'
<1>1. NoDearer
  <2>1. ASSUME NEW t \in Tasks, DeadlinePasses(t)
        PROVE  NoDearer
    BY <2>1 DEF DeadlinePasses, NoDearer, GridInv, RowsInv, DBTypeOK
  <2>2. (\E t \in Tasks : DeadlinePasses(t)) \/ UNCHANGED task
    BY DEF ServiceFaults, OrchestratorRestart, TimePasses, HeartbeatExpires, StreamBreaks, dbVars
  <2> QED
    BY <2>1, <2>2, SameIsNoDearer DEF GridInv
<1>2. sched'.todo \subseteq sched.todo /\ retrying' \subseteq retrying /\ retried' = retried
  BY IdleSchedule DEF ServiceFaults, OrchestratorRestart, TimePasses, StreamBreaks, adminVars
<1> QED
  BY <1>1, <1>2, BudgetKept

\* Workers keep the budget of attempts.
LEMMA WorkersBudget ==
  ASSUME GridInv, GridInv', BudgetInv, Workers
  PROVE  BudgetInv'
<1>1. UNCHANGED <<task, sched, retrying, retried>>
  BY ZenonT(40) DEF Workers, Connect, _heartbeat_loop, _handle_message, Disconnect, _report_progress, _report_result,
         WorkerCrash, ServerSame, dbVars, adminVars
<1> QED
  BY <1>1, SameIsNoDearer, BudgetKept DEF GridInv

\* The budget of attempts holds always.
LEMMA BudgetInvariant == GridSpec => []BudgetInv
<1>1. GridInit => BudgetInv
  BY DBAssumption DEF GridInit, ServiceInit, DBInit, BudgetInv, Owed, Waiting, SchedIdle
<1>2. GridInv /\ GridInv' /\ BudgetInv /\ [GridNext]_gridVars => BudgetInv'
  <2> SUFFICES ASSUME GridInv, GridInv', BudgetInv, [GridNext]_gridVars PROVE BudgetInv'
    OBVIOUS
  <2>1. CASE UNCHANGED gridVars
    BY <2>1, SameIsNoDearer, BudgetKept DEF gridVars, orchVars, dbVars, adminVars, GridInv
  <2> QED
    BY <2>1, StreamsBudget, SchedulerBudget, AdminBudget, FaultsBudget, WorkersBudget DEF GridNext
<1> QED
  BY <1>1, <1>2, GridInvariant, PTL DEF GridSpec

\* A task is assigned at most max_attempts times plus once per operator retry, although the
\* scheduler assigns from a list it read earlier and looks at no status, results and sweeps
\* queue tasks again, and a retry is written after it was read (assign_task, complete_task,
\* _recycle_task_rows, operator_retry_job).
THEOREM AttemptsAreBounded == GridSpec => []AttemptBudget
<1>1. GridInv /\ BudgetInv => AttemptBudget
  <2> SUFFICES ASSUME GridInv, BudgetInv, NEW t \in Tasks
               PROVE  task[t].tries <= MaxAttempts[t] + retried
    BY DEF AttemptBudget
  <2>1. task[t].tries \in Nat /\ retried \in Nat /\ MaxAttempts[t] \in Nat
    BY DBAssumption DEF GridInv, TypeInv, RowsInv, DBTypeOK, ServiceTypeOK
  <2> QED
    BY <2>1 DEF BudgetInv, Owed
<1> QED
  BY <1>1, GridInvariant, BudgetInvariant, PTL

-----------------------------------------------------------------------------
(* Custody of the deliveries.                                                *)

\* The places, one kind after the other.
LEMMA Places ==
  ASSUME NEW t, NEW toNodes, NEW fromNodes, NEW workers, NEW handlers, NEW calls, NEW x
  PROVE  x \in InHand(t, toNodes, fromNodes, workers, handlers, calls) <=>
           \/ \E s \in Sessions : \E i \in DOMAIN toNodes[s] : x = <<"down", s, i>> /\ Assigns(toNodes[s][i], t)
           \/ \E s \in Sessions : \E i \in DOMAIN fromNodes[s] : x = <<"up", s, i>> /\ Succeeds(fromNodes[s][i], t)
           \/ \E n \in Nodes : x = <<"worker", n, 0>> /\ workers[n].job = t
           \/ \E s \in Sessions : x = <<"hand", s, 0>> /\ HandPays(handlers[s], t)
           \/ \E c \in calls : x = <<"orphan", c, 0>> /\ c.call = "pay" /\ c.task = t
<1>1. x \in Coming(t, toNodes) <=>
        \E s \in Sessions : \E i \in DOMAIN toNodes[s] : x = <<"down", s, i>> /\ Assigns(toNodes[s][i], t)
  BY DEF Coming
<1>2. x \in GoingBack(t, fromNodes) <=>
        \E s \in Sessions : \E i \in DOMAIN fromNodes[s] : x = <<"up", s, i>> /\ Succeeds(fromNodes[s][i], t)
  BY DEF GoingBack
<1>3. x \in AtWork(t, workers) <=> \E n \in Nodes : x = <<"worker", n, 0>> /\ workers[n].job = t
  BY DEF AtWork
<1>4. x \in Handled(t, handlers) <=> \E s \in Sessions : x = <<"hand", s, 0>> /\ HandPays(handlers[s], t)
  BY DEF Handled
<1>5. x \in Called(t, calls) <=> \E c \in calls : x = <<"orphan", c, 0>> /\ c.call = "pay" /\ c.task = t
  BY DEF Called
<1>6. x \in InHand(t, toNodes, fromNodes, workers, handlers, calls) <=>
        \/ x \in Coming(t, toNodes) \/ x \in GoingBack(t, fromNodes) \/ x \in AtWork(t, workers)
        \/ x \in Handled(t, handlers) \/ x \in Called(t, calls)
  BY DEF InHand
<1> QED
  BY <1>1, <1>2, <1>3, <1>4, <1>5, <1>6, Zenon

\* A set whose elements are all reached by a function on another is no larger than that.
LEMMA NoLarger ==
  ASSUME NEW T, IsFiniteSet(T), NEW f, f = [y \in T |-> f[y]], NEW S, \A x \in S : \E y \in T : f[y] = x
  PROVE  IsFiniteSet(S) /\ Cardinality(S) <= Cardinality(T)
<1> DEFINE image == {f[y] : y \in T}
<1>1. f \in Surjection(T, image)
  BY DEF Surjection
<1> HIDE DEF image
<1>2. IsFiniteSet(image) /\ Cardinality(image) <= Cardinality(T)
  BY <1>1, FS_Surjection
<1>3. S \subseteq image
  BY DEF image
<1>4. IsFiniteSet(S) /\ Cardinality(S) <= Cardinality(image)
  BY <1>2, <1>3, FS_Subset
<1> QED
  BY <1>2, <1>4, FS_CardinalityType

\* Deliveries under way, payments and deliveries made are numbers.
LEMMA CountType ==
  ASSUME GridInv, NEW t \in Tasks, Covered(t)
  PROVE  Cardinality(Custody(t)) \in Nat /\ paid[t] \in Nat /\ sent[t] \in Nat
BY FS_CardinalityType DEF Covered, GridInv, TypeInv, ServiceTypeOK

\* The four things a step can do to the deliveries of a task: lose some, move them, pay for
\* one, send one.
LEMMA SomeLost ==
  ASSUME GridInv, GridInv', NEW t \in Tasks, Covered(t), Custody(t)' \subseteq Custody(t),
         paid'[t] = paid[t], sent'[t] >= sent[t]
  PROVE  Covered(t)'
<1>1. IsFiniteSet(Custody(t)') /\ Cardinality(Custody(t)') <= Cardinality(Custody(t))
  BY FS_Subset DEF Covered
<1>2. Cardinality(Custody(t)') \in Nat /\ sent'[t] \in Nat
  BY <1>1, FS_CardinalityType DEF GridInv, TypeInv, ServiceTypeOK
<1> QED
  BY <1>1, <1>2, CountType DEF Covered

\* Deliveries that only change places stay covered.
LEMMA Moved ==
  ASSUME GridInv, NEW t \in Tasks, Covered(t), NEW f, f = [y \in Custody(t) |-> f[y]],
         \A x \in Custody(t)' : \E y \in Custody(t) : f[y] = x,
         paid'[t] = paid[t], sent'[t] = sent[t]
  PROVE  Covered(t)'
<1>1. IsFiniteSet(Custody(t)') /\ Cardinality(Custody(t)') <= Cardinality(Custody(t))
  <2> DEFINE old == Custody(t)
             new == Custody(t)'
  <2>1. IsFiniteSet(old) /\ f = [y \in old |-> f[y]] /\ \A x \in new : \E y \in old : f[y] = x
    BY DEF Covered
  <2> HIDE DEF old, new
  <2>2. IsFiniteSet(new) /\ Cardinality(new) <= Cardinality(old)
    BY <2>1, NoLarger, Zenon
  <2> QED
    BY <2>2 DEF old, new
<1>2. Cardinality(Custody(t)') \in Nat
  BY <1>1, FS_CardinalityType
<1> QED
  BY <1>1, <1>2, CountType DEF Covered

\* A delivery traded for a payment stays covered.
LEMMA PaidOne ==
  ASSUME GridInv, NEW t \in Tasks, Covered(t), NEW x \in Custody(t), Custody(t)' \subseteq Custody(t) \ {x},
         paid'[t] = paid[t] + 1, sent'[t] = sent[t]
  PROVE  Covered(t)'
<1>1. IsFiniteSet(Custody(t) \ {x}) /\ Cardinality(Custody(t) \ {x}) = Cardinality(Custody(t)) - 1
  BY FS_RemoveElement DEF Covered
<1>2. IsFiniteSet(Custody(t)') /\ Cardinality(Custody(t)') <= Cardinality(Custody(t) \ {x})
  BY <1>1, FS_Subset
<1>3. Cardinality(Custody(t)') \in Nat
  BY <1>2, FS_CardinalityType
<1> QED
  BY <1>1, <1>2, <1>3, CountType DEF Covered

\* A new delivery is one more that was made.
LEMMA SentOne ==
  ASSUME GridInv, NEW t \in Tasks, Covered(t), NEW x, Custody(t)' \subseteq Custody(t) \cup {x},
         paid'[t] = paid[t], sent'[t] = sent[t] + 1
  PROVE  Covered(t)'
<1>1. IsFiniteSet(Custody(t) \cup {x}) /\ Cardinality(Custody(t) \cup {x}) <= Cardinality(Custody(t)) + 1
  <2>1. Cardinality(Custody(t)) \in Nat
    BY CountType
  <2>2. IsFiniteSet(Custody(t) \cup {x})
        /\ Cardinality(Custody(t) \cup {x}) = IF x \in Custody(t) THEN Cardinality(Custody(t)) ELSE Cardinality(Custody(t)) + 1
    BY FS_AddElement, Zenon DEF Covered
  <2> QED
    BY <2>1, <2>2
<1>2. IsFiniteSet(Custody(t)') /\ Cardinality(Custody(t)') <= Cardinality(Custody(t) \cup {x})
  BY <1>1, FS_Subset
<1>3. Cardinality(Custody(t)') \in Nat /\ Cardinality(Custody(t) \cup {x}) \in Nat
  BY <1>1, <1>2, FS_CardinalityType
<1> QED
  BY <1>1, <1>2, <1>3, CountType DEF Covered

\* No delivery of t comes up at a place it was not at before.
NoMoreDown(t) == \A s \in Sessions : \A i \in DOMAIN down'[s] :
                   Assigns(down'[s][i], t) => i \in DOMAIN down[s] /\ Assigns(down[s][i], t)
NoMoreUp(t) == \A s \in Sessions : \A i \in DOMAIN up'[s] :
                 Succeeds(up'[s][i], t) => i \in DOMAIN up[s] /\ Succeeds(up[s][i], t)
NoMoreWork(t) == \A n \in Nodes : worker'[n].job = t => worker[n].job = t
NoMoreHands(t) == \A s \in Sessions : HandPays(hand'[s], t) => HandPays(hand[s], t)
NoMoreCalls(t) == \A c \in orphans' : c.call = "pay" /\ c.task = t => c \in orphans

\* Where no part of the system has a new delivery, there is no new one.
LEMMA NoMorePlaces ==
  ASSUME NEW t, NoMoreDown(t), NoMoreUp(t), NoMoreWork(t), NoMoreHands(t), NoMoreCalls(t)
  PROVE  Custody(t)' \subseteq Custody(t)
<1> SUFFICES ASSUME NEW x, x \in InHand(t, down', up', worker', hand', orphans')
             PROVE  x \in InHand(t, down, up, worker, hand, orphans)
  BY DEF Custody
<1>1. CASE \E s \in Sessions : \E i \in DOMAIN down'[s] : x = <<"down", s, i>> /\ Assigns(down'[s][i], t)
  BY <1>1, Places, Zenon DEF NoMoreDown
<1>2. CASE \E s \in Sessions : \E i \in DOMAIN up'[s] : x = <<"up", s, i>> /\ Succeeds(up'[s][i], t)
  BY <1>2, Places, Zenon DEF NoMoreUp
<1>3. CASE \E n \in Nodes : x = <<"worker", n, 0>> /\ worker'[n].job = t
  BY <1>3, Places, Zenon DEF NoMoreWork
<1>4. CASE \E s \in Sessions : x = <<"hand", s, 0>> /\ HandPays(hand'[s], t)
  BY <1>4, Places, Zenon DEF NoMoreHands
<1>5. CASE \E c \in orphans' : x = <<"orphan", c, 0>> /\ c.call = "pay" /\ c.task = t
  BY <1>5, Places, Zenon DEF NoMoreCalls
<1> DEFINE comes == \E s \in Sessions : \E i \in DOMAIN down'[s] : x = <<"down", s, i>> /\ Assigns(down'[s][i], t)
           goes == \E s \in Sessions : \E i \in DOMAIN up'[s] : x = <<"up", s, i>> /\ Succeeds(up'[s][i], t)
           works == \E n \in Nodes : x = <<"worker", n, 0>> /\ worker'[n].job = t
           handles == \E s \in Sessions : x = <<"hand", s, 0>> /\ HandPays(hand'[s], t)
           calls == \E c \in orphans' : x = <<"orphan", c, 0>> /\ c.call = "pay" /\ c.task = t
<1>6. comes \/ goes \/ works \/ handles \/ calls
  BY Places
<1> HIDE DEF comes, goes, works, handles, calls
<1> QED
  BY <1>1, <1>2, <1>3, <1>4, <1>5, <1>6 DEF comes, goes, works, handles, calls

\* What leaves a kind of place alone, or puts nothing there that is paid.
LEMMA PlacesAlone ==
  ASSUME NEW t
  PROVE  /\ UNCHANGED down => NoMoreDown(t)
         /\ UNCHANGED up => NoMoreUp(t)
         /\ UNCHANGED worker => NoMoreWork(t)
         /\ UNCHANGED hand => NoMoreHands(t)
         /\ UNCHANGED orphans => NoMoreCalls(t)
BY DEF NoMoreDown, NoMoreUp, NoMoreWork, NoMoreHands, NoMoreCalls

\* A message that assigns nothing adds no delivery on the way to a worker.
LEMMA NoDeliveryDown ==
  ASSUME StreamTypeOK, NEW t, NEW m, m.kind # "assign",
         \A r \in Sessions : down'[r] = down[r] \/ down'[r] = <<>> \/ down'[r] = Append(down[r], m)
  PROVE  NoMoreDown(t)
<1> SUFFICES ASSUME NEW r \in Sessions, NEW i \in DOMAIN down'[r], Assigns(down'[r][i], t)
             PROVE  i \in DOMAIN down[r] /\ Assigns(down[r][i], t)
  BY DEF NoMoreDown
<1>1. down[r] \in Seq(DownMessage)
  BY DEF StreamTypeOK
<1>2. CASE down'[r] = down[r]
  BY <1>2
<1>3. CASE down'[r] = Append(down[r], m)
  <2>1. i \in 1 .. Len(down[r]) + 1 /\ DOMAIN down[r] = 1 .. Len(down[r])
    BY <1>1, <1>3
  <2>2. i # Len(down[r]) + 1
    BY <1>1, <1>3 DEF Assigns
  <2> QED
    BY <1>1, <1>3, <2>1, <2>2
<1> QED
  BY <1>2, <1>3

\* A message that reports no success adds no delivery on the way back.
LEMMA NoDeliveryUp ==
  ASSUME StreamTypeOK, NEW t, NEW m, ~Succeeds(m, t),
         \A r \in Sessions : up'[r] \in {up[r], <<>>, <<m>>} \/ up'[r] = Append(up[r], m)
  PROVE  NoMoreUp(t)
<1> SUFFICES ASSUME NEW r \in Sessions, NEW i \in DOMAIN up'[r], Succeeds(up'[r][i], t)
             PROVE  i \in DOMAIN up[r] /\ Succeeds(up[r][i], t)
  BY DEF NoMoreUp
<1>1. up[r] \in Seq(UpMessage)
  BY DEF StreamTypeOK
<1>2. CASE up'[r] = up[r]
  BY <1>2
<1>3. CASE up'[r] = <<m>>
  BY <1>3
<1>4. CASE up'[r] = Append(up[r], m)
  <2>1. i \in 1 .. Len(up[r]) + 1 /\ DOMAIN up[r] = 1 .. Len(up[r])
    BY <1>1, <1>4
  <2>2. i # Len(up[r]) + 1
    BY <1>1, <1>4
  <2> QED
    BY <1>1, <1>4, <2>1, <2>2
<1> QED
  BY <1>2, <1>3, <1>4

\* Putting a message that assigns nothing on a stream delivers nothing.
LEMMA PutNoDelivery ==
  ASSUME StreamTypeOK, NEW t, NEW s \in Sessions, NEW m, m.kind # "assign", Put(s, m)
  PROVE  NoMoreDown(t)
BY NoDeliveryDown DEF Put, StreamTypeOK

\* A handler that ends has no delivery any more.
LEMMA DoneNoHand ==
  ASSUME StreamTypeOK, NEW t \in Tasks, NEW s \in Sessions, Done(s)
  PROVE  NoMoreHands(t) /\ ~HandPays(hand'[s], t)
BY DEF StreamTypeOK, Done, NoMoreHands, HandPays, Idle

\* Where a delivery is.
LEMMA AtPlace ==
  ASSUME NEW t
  PROVE  /\ \A s \in Sessions : \A i \in DOMAIN down[s] : Assigns(down[s][i], t) => <<"down", s, i>> \in Custody(t)
         /\ \A s \in Sessions : \A i \in DOMAIN up[s] : Succeeds(up[s][i], t) => <<"up", s, i>> \in Custody(t)
         /\ \A n \in Nodes : worker[n].job = t => <<"worker", n, 0>> \in Custody(t)
         /\ \A s \in Sessions : HandPays(hand[s], t) => <<"hand", s, 0>> \in Custody(t)
         /\ \A c \in orphans : c.call = "pay" /\ c.task = t => <<"orphan", c, 0>> \in Custody(t)
BY Places DEF Custody

\* Deliveries stay covered when each new place has an old one it came from.
LEMMA Relocated ==
  ASSUME GridInv, NEW t \in Tasks, Covered(t), paid'[t] = paid[t], sent'[t] = sent[t],
         NEW f, f = [y \in Custody(t) |-> f[y]],
         \A s \in Sessions : \A i \in DOMAIN down'[s] :
           Assigns(down'[s][i], t) => \E y \in Custody(t) : f[y] = <<"down", s, i>>,
         \A s \in Sessions : \A i \in DOMAIN up'[s] :
           Succeeds(up'[s][i], t) => \E y \in Custody(t) : f[y] = <<"up", s, i>>,
         \A n \in Nodes : worker'[n].job = t => \E y \in Custody(t) : f[y] = <<"worker", n, 0>>,
         \A s \in Sessions : HandPays(hand'[s], t) => \E y \in Custody(t) : f[y] = <<"hand", s, 0>>,
         \A c \in orphans' : c.call = "pay" /\ c.task = t => \E y \in Custody(t) : f[y] = <<"orphan", c, 0>>
  PROVE  Covered(t)'
<1>1. ASSUME NEW x \in Custody(t)'
      PROVE  \E y \in Custody(t) : f[y] = x
  <2>1. x \in InHand(t, down', up', worker', hand', orphans')
    BY <1>1 DEF Custody
  <2> DEFINE comes == \E s \in Sessions : \E i \in DOMAIN down'[s] : x = <<"down", s, i>> /\ Assigns(down'[s][i], t)
             goes == \E s \in Sessions : \E i \in DOMAIN up'[s] : x = <<"up", s, i>> /\ Succeeds(up'[s][i], t)
             works == \E n \in Nodes : x = <<"worker", n, 0>> /\ worker'[n].job = t
             handles == \E s \in Sessions : x = <<"hand", s, 0>> /\ HandPays(hand'[s], t)
             calls == \E c \in orphans' : x = <<"orphan", c, 0>> /\ c.call = "pay" /\ c.task = t
  <2>2. comes \/ goes \/ works \/ handles \/ calls
    BY <2>1, Places
  <2>3. /\ comes => \E y \in Custody(t) : f[y] = x
        /\ goes => \E y \in Custody(t) : f[y] = x
        /\ works => \E y \in Custody(t) : f[y] = x
        /\ handles => \E y \in Custody(t) : f[y] = x
        /\ calls => \E y \in Custody(t) : f[y] = x
    BY Zenon
  <2> HIDE DEF comes, goes, works, handles, calls
  <2> QED
    BY <2>2, <2>3
<1> QED
  BY <1>1, Moved

\* The kinds of place a move does not concern.
LEMMA StayWork ==
  ASSUME NEW t, NEW f, NoMoreWork(t), \A n \in Nodes : <<"worker", n, 0>> \in Custody(t) => f[<<"worker", n, 0>>] = <<"worker", n, 0>>
  PROVE  \A n \in Nodes : worker'[n].job = t => \E y \in Custody(t) : f[y] = <<"worker", n, 0>>
BY AtPlace, Zenon DEF NoMoreWork

\* The handlers keep their deliveries where they were.
LEMMA StayHands ==
  ASSUME NEW t, NEW f, NoMoreHands(t), \A s \in Sessions : <<"hand", s, 0>> \in Custody(t) => f[<<"hand", s, 0>>] = <<"hand", s, 0>>
  PROVE  \A s \in Sessions : HandPays(hand'[s], t) => \E y \in Custody(t) : f[y] = <<"hand", s, 0>>
BY AtPlace, Zenon DEF NoMoreHands

\* The orphaned calls keep their deliveries where they were.
LEMMA StayCalls ==
  ASSUME NEW t, NEW f, NoMoreCalls(t), \A c : <<"orphan", c, 0>> \in Custody(t) => f[<<"orphan", c, 0>>] = <<"orphan", c, 0>>
  PROVE  \A c \in orphans' : c.call = "pay" /\ c.task = t => \E y \in Custody(t) : f[y] = <<"orphan", c, 0>>
BY AtPlace, Zenon DEF NoMoreCalls

\* What puts no delivery anywhere.
LEMMA NothingNew ==
  ASSUME GridInv, GridInv', NEW t \in Tasks, Covered(t), paid'[t] = paid[t], sent'[t] = sent[t],
         NoMoreDown(t), NoMoreUp(t), NoMoreWork(t), NoMoreHands(t), NoMoreCalls(t)
  PROVE  Covered(t)'
<1>1. sent'[t] >= sent[t]
  BY DEF GridInv, TypeInv, ServiceTypeOK
<1> QED
  BY <1>1, NoMorePlaces, SomeLost

\* A success that is read from its stream passes to the handler.
LEMMA ReceiveCustody ==
  ASSUME GridInv, GridInv', NEW t \in Tasks, Covered(t), NEW s \in Sessions, Receive(s), UNCHANGED worker
  PROVE  Covered(t)'
<1> DEFINE f == [y \in Custody(t) |-> IF y = <<"up", s, 1>> THEN <<"hand", s, 0>>
                                      ELSE IF y[1] = "up" /\ y[2] = s THEN <<"up", s, y[3] - 1>> ELSE y]
<1>1. f = [y \in Custody(t) |-> f[y]]
  OBVIOUS
<1>2. NoMoreDown(t) /\ NoMoreWork(t) /\ NoMoreCalls(t) /\ UNCHANGED <<paid, sent>>
  <2>1. Put(s, Message("ack", None, "refused")) \/ UNCHANGED down
    BY DEF Receive
  <2> QED
    BY <2>1, PutNoDelivery, PlacesAlone DEF Receive, GridInv, TypeInv, Message
<1>3. up[s] \in Seq(UpMessage) /\ up[s] # <<>> /\ Head(up[s]) = up[s][1] /\ Head(up[s]) \in UpMessage
  BY DEF Receive, GridInv, TypeInv, StreamTypeOK
<1>4. up' = [up EXCEPT ![s] = Tail(@)]
  BY DEF Receive
<1>5. ASSUME NEW r \in Sessions, NEW i \in DOMAIN up'[r], Succeeds(up'[r][i], t)
      PROVE  \E y \in Custody(t) : f[y] = <<"up", r, i>>
  <2>1. CASE r # s
    <3>1. <<"up", r, i>> \in Custody(t)
      BY <1>4, <1>5, <2>1, AtPlace DEF GridInv, TypeInv, StreamTypeOK
    <3> QED
      BY <2>1, <3>1
  <2>2. CASE r = s
    <3>1. i \in Nat /\ i + 1 \in DOMAIN up[s] /\ up'[s][i] = up[s][i + 1] /\ i > 0
      BY <1>3, <1>4, <1>5, <2>2 DEF GridInv, TypeInv, StreamTypeOK
    <3>2. <<"up", s, i + 1>> \in Custody(t)
      BY <1>5, <2>2, <3>1, AtPlace
    <3> QED
      BY <2>2, <3>1, <3>2, SMTT(30)
  <2> QED
    BY <2>1, <2>2
<1>6. ASSUME NEW r \in Sessions, HandPays(hand'[r], t)
      PROVE  \E y \in Custody(t) : f[y] = <<"hand", r, 0>>
  <2>1. CASE hand'[r] = hand[r]
    <3>1. <<"hand", r, 0>> \in Custody(t)
      BY <1>6, <2>1, AtPlace
    <3> QED
      BY <3>1
  <2>2. CASE hand'[r] # hand[r]
    <3>1. r = s /\ hand'[s].msg = Head(up[s]) /\ hand'[s].pc \in {"register", Head(up[s]).kind}
      <4>1. PICK pc \in {"register", Head(up[s]).kind} :
              hand' = hand \/ hand' = [hand EXCEPT ![s] = [Idle EXCEPT !.pc = pc, !.msg = Head(up[s])]]
        BY DEF Receive
      <4> QED
        BY <2>2, <4>1, ZenonT(40) DEF GridInv, TypeInv, StreamTypeOK, Idle
    <3>2. Succeeds(up[s][1], t) /\ 1 \in DOMAIN up[s]
      BY <1>3, <1>6, <3>1, MessageShape DEF HandPays, Succeeds
    <3>3. <<"up", s, 1>> \in Custody(t)
      BY <3>2, AtPlace
    <3> QED
      BY <3>1, <3>3
  <2> QED
    BY <2>1, <2>2
<1>7. /\ \A r \in Sessions : \A i : <<"down", r, i>> \in Custody(t) => f[<<"down", r, i>>] = <<"down", r, i>>
      /\ \A n \in Nodes : <<"worker", n, 0>> \in Custody(t) => f[<<"worker", n, 0>>] = <<"worker", n, 0>>
      /\ \A c : <<"orphan", c, 0>> \in Custody(t) => f[<<"orphan", c, 0>>] = <<"orphan", c, 0>>
  OBVIOUS
<1> HIDE DEF f
<1>8. ASSUME NEW r \in Sessions, NEW i \in DOMAIN down'[r], Assigns(down'[r][i], t)
      PROVE  \E y \in Custody(t) : f[y] = <<"down", r, i>>
  <2>1. <<"down", r, i>> \in Custody(t)
    BY <1>2, <1>8, AtPlace DEF NoMoreDown
  <2> QED
    BY <2>1, <1>7
<1>9. \A n \in Nodes : worker'[n].job = t => \E y \in Custody(t) : f[y] = <<"worker", n, 0>>
  BY <1>2, <1>7, StayWork, Zenon
<1>10. \A c \in orphans' : c.call = "pay" /\ c.task = t => \E y \in Custody(t) : f[y] = <<"orphan", c, 0>>
  BY <1>2, <1>7, StayCalls, Zenon
<1>11. paid'[t] = paid[t] /\ sent'[t] = sent[t]
  BY <1>2
<1>12. \A r \in Sessions : \A i \in DOMAIN up'[r] : Succeeds(up'[r][i], t) => \E y \in Custody(t) : f[y] = <<"up", r, i>>
  BY <1>5
<1>13. \A r \in Sessions : HandPays(hand'[r], t) => \E y \in Custody(t) : f[y] = <<"hand", r, 0>>
  BY <1>6
<1> QED
  BY <1>1, <1>8, <1>9, <1>10, <1>11, <1>12, <1>13, Relocated
\* A payment that is cut off passes to the call without its handler.
LEMMA CloseCustody ==
  ASSUME GridInv, GridInv', NEW t \in Tasks, Covered(t), NEW s \in Sessions, CloseStream(s), UNCHANGED worker
  PROVE  Covered(t)'
<1>1. NoMoreDown(t) /\ NoMoreUp(t) /\ NoMoreWork(t) /\ NoMoreHands(t) /\ ~HandPays(hand'[s], t)
  <2>1. NoMoreUp(t)
    <3>1. \A r \in Sessions : up'[r] \in {up[r], <<>>}
      BY DEF CloseStream, GridInv, TypeInv, StreamTypeOK
    <3>2. ~Succeeds(Message("register", None, "none"), t)
      BY DEF Succeeds, Message
    <3> QED
      BY <3>1, <3>2, NoDeliveryUp DEF GridInv, TypeInv
  <2> QED
    BY <2>1, PlacesAlone, DoneNoHand DEF CloseStream, GridInv, TypeInv
<1>2. paid'[t] = paid[t] /\ sent'[t] = sent[t]
  BY DEF CloseStream, countVars
<1>3. CASE NoMoreCalls(t)
  BY <1>1, <1>2, <1>3, NothingNew
<1>4. CASE ~NoMoreCalls(t)
  <2> DEFINE c == [call |-> hand[s].pc, node |-> NodeOf(s), task |-> hand[s].msg.task, what |-> hand[s].msg.what]
             f == [y \in Custody(t) |-> IF y = <<"hand", s, 0>> THEN <<"orphan", c, 0>> ELSE y]
  <2>1. orphans' = orphans \/ orphans' = orphans \cup {c}
    BY DEF CloseStream, CallOf
  <2>2. c.call = hand[s].pc /\ c.task = hand[s].msg.task
    OBVIOUS
  <2>3. c.call = "pay" /\ c.task = t /\ orphans' = orphans \cup {c}
    BY <1>4, <2>1 DEF NoMoreCalls
  <2>4. HandPays(hand[s], t)
    BY <2>2, <2>3 DEF HandPays
  <2>5. <<"hand", s, 0>> \in Custody(t)
    BY <2>4, AtPlace
  <2> HIDE DEF c
  <2>6. f = [y \in Custody(t) |-> f[y]]
    OBVIOUS
  <2>7. f[<<"hand", s, 0>>] = <<"orphan", c, 0>>
    BY <2>5
  <2>8. \A y \in Custody(t) : y # <<"hand", s, 0>> => f[y] = y
    OBVIOUS
  <2> HIDE DEF f
  <2>9. ASSUME NEW r \in Sessions, NEW i \in DOMAIN down'[r], Assigns(down'[r][i], t)
        PROVE  \E y \in Custody(t) : f[y] = <<"down", r, i>>
    <3>1. <<"down", r, i>> \in Custody(t)
      BY <1>1, <2>9, AtPlace DEF NoMoreDown
    <3> QED
      BY <3>1, <2>8
  <2>10. ASSUME NEW r \in Sessions, NEW i \in DOMAIN up'[r], Succeeds(up'[r][i], t)
         PROVE  \E y \in Custody(t) : f[y] = <<"up", r, i>>
    <3>1. <<"up", r, i>> \in Custody(t)
      BY <1>1, <2>10, AtPlace DEF NoMoreUp
    <3> QED
      BY <3>1, <2>8
  <2>11. ASSUME NEW n \in Nodes, worker'[n].job = t
         PROVE  \E y \in Custody(t) : f[y] = <<"worker", n, 0>>
    <3>1. <<"worker", n, 0>> \in Custody(t)
      BY <1>1, <2>11, AtPlace DEF NoMoreWork
    <3> QED
      BY <3>1, <2>8
  <2>12. ASSUME NEW r \in Sessions, HandPays(hand'[r], t)
         PROVE  \E y \in Custody(t) : f[y] = <<"hand", r, 0>>
    <3>1. <<"hand", r, 0>> \in Custody(t) /\ r # s
      BY <1>1, <2>12, AtPlace DEF NoMoreHands
    <3> QED
      BY <3>1, <2>8
  <2>13. ASSUME NEW d \in orphans', d.call = "pay", d.task = t
         PROVE  \E y \in Custody(t) : f[y] = <<"orphan", d, 0>>
    <3>1. CASE d = c
      BY <3>1, <2>5, <2>7
    <3>2. CASE d # c
      <4>1. <<"orphan", d, 0>> \in Custody(t)
        BY <2>3, <2>13, <3>2, AtPlace
      <4> QED
        BY <4>1, <2>8
    <3> QED
      BY <3>1, <3>2
  <2> QED
    BY <1>2, <2>6, <2>9, <2>10, <2>11, <2>12, <2>13, Relocated
<1> QED
  BY <1>3, <1>4

\* A payment takes a delivery out of custody: the handler's, or the call's.
LEMMA PayCustody ==
  ASSUME GridInv, GridInv', NEW t \in Tasks, Covered(t), NEW s \in Sessions, PayResult(s), UNCHANGED worker
  PROVE  Covered(t)'
<1>1. NoMoreDown(t) /\ NoMoreUp(t) /\ NoMoreWork(t) /\ NoMoreCalls(t) /\ sent' = sent
  BY PlacesAlone DEF PayResult
<1>2. hand[s].pc = "pay" /\ hand' = [hand EXCEPT ![s].pc = "gather"] /\ hand[s].msg.task \in Tasks
  BY DEF PayResult, At, Goto, GridInv, TypeInv, StreamTypeOK, TaskPC
<1>3. NoMoreHands(t) /\ ~HandPays(hand'[s], t)
  BY <1>2 DEF NoMoreHands, HandPays, GridInv, TypeInv, StreamTypeOK, Hand
<1>4. paid' = [paid EXCEPT ![hand[s].msg.task] = @ + 1] /\ paid \in [Tasks -> Nat] /\ sent \in [Tasks -> Nat]
  BY DEF PayResult, record_credit_earn, GridInv, TypeInv, ServiceTypeOK
<1>5. CASE hand[s].msg.task # t
  BY <1>1, <1>3, <1>4, <1>5, NothingNew
<1>6. CASE hand[s].msg.task = t
  <2>1. <<"hand", s, 0>> \in Custody(t)
    BY <1>2, <1>6, AtPlace DEF HandPays
  <2>2. Custody(t)' \subseteq Custody(t)
    BY <1>1, <1>3, NoMorePlaces
  <2>3. <<"hand", s, 0>> \notin Custody(t)'
    <3> SUFFICES <<"hand", s, 0>> \notin InHand(t, down', up', worker', hand', orphans')
      BY DEF Custody
    <3> QED
      BY <1>3, Places
  <2> QED
    BY <1>1, <1>4, <1>6, <2>1, <2>2, <2>3, PaidOne
<1> QED
  BY <1>5, <1>6

\* The calls that outlive their handler keep payments within deliveries.
LEMMA OrphanCustody ==
  ASSUME GridInv, GridInv', NEW t \in Tasks, Covered(t), NEW c \in orphans, OrphanCall(c), UNCHANGED worker
  PROVE  Covered(t)'
<1>1. NoMoreDown(t) /\ NoMoreUp(t) /\ NoMoreWork(t) /\ NoMoreHands(t) /\ sent' = sent /\ orphans' = orphans \ {c}
  BY PlacesAlone DEF OrphanCall
<1>2. NoMoreCalls(t)
  BY <1>1 DEF NoMoreCalls
<1>3. c.task \in Tasks /\ paid \in [Tasks -> Nat] /\ sent \in [Tasks -> Nat]
  BY DEF GridInv, TypeInv, StreamTypeOK, ServiceTypeOK, Call
<1>4. paid' = paid \/ (c.call = "pay" /\ paid' = [paid EXCEPT ![c.task] = @ + 1])
  <2>1. UNCHANGED paid \/ (c.call = "pay" /\ record_credit_earn(c.task))
    BY DEF OrphanCall
  <2> QED
    BY <2>1 DEF record_credit_earn
<1>5. CASE paid'[t] = paid[t]
  <2>1. sent'[t] = sent[t]
    BY <1>1
  <2> QED
    BY <1>1, <1>2, <1>5, <2>1, NothingNew
<1>6. CASE paid'[t] # paid[t]
  <2>1. c.call = "pay" /\ c.task = t /\ paid'[t] = paid[t] + 1
    BY <1>3, <1>4, <1>6
  <2>2. <<"orphan", c, 0>> \in Custody(t)
    BY <2>1, AtPlace
  <2>3. Custody(t)' \subseteq Custody(t)
    BY <1>1, <1>2, NoMorePlaces
  <2>4. <<"orphan", c, 0>> \notin Custody(t)'
    <3> SUFFICES <<"orphan", c, 0>> \notin InHand(t, down', up', worker', hand', orphans')
      BY DEF Custody
    <3> QED
      BY <1>1, Places
  <2> QED
    BY <1>1, <2>1, <2>2, <2>3, <2>4, PaidOne
<1> QED
  BY <1>5, <1>6
\* Streams keep payments within deliveries.
LEMMA StreamsCustody ==
  ASSUME GridInv, GridInv', NEW t \in Tasks, Covered(t), Streams, UNCHANGED <<worker, faked>>
  PROVE  Covered(t)'
<1>0. NoMoreWork(t)
  BY PlacesAlone
<1>1. ASSUME NEW s \in Sessions, Done(s), UNCHANGED <<up, orphans, countVars>>, NoMoreDown(t)
      PROVE  Covered(t)'
  <2>1. NoMoreHands(t) /\ NoMoreUp(t) /\ NoMoreCalls(t) /\ paid'[t] = paid[t] /\ sent'[t] = sent[t]
    BY <1>1, DoneNoHand, PlacesAlone DEF GridInv, TypeInv, countVars
  <2> QED
    BY <1>0, <1>1, <2>1, NothingNew
<1>2. ASSUME NEW s \in Sessions, HandleRegister(s)
      PROVE  Covered(t)'
  <2>1. NoMoreDown(t)
    BY <1>2, PutNoDelivery DEF HandleRegister, Message, GridInv, TypeInv
  <2> QED
    BY <1>1, <1>2, <2>1 DEF HandleRegister
<1>3. ASSUME NEW s \in Sessions, HandleHeartbeat(s) \/ HandleProgress(s)
      PROVE  Covered(t)'
  <2>1. NoMoreDown(t)
    BY <1>3, PlacesAlone DEF HandleHeartbeat, HandleProgress
  <2> QED
    BY <1>1, <1>3, <2>1 DEF HandleHeartbeat, HandleProgress
<1>4. ASSUME NEW s \in Sessions, HandleResult(s)
      PROVE  Covered(t)'
  <2>1. NoMoreDown(t) /\ NoMoreUp(t) /\ NoMoreCalls(t) /\ paid'[t] = paid[t] /\ sent'[t] = sent[t]
    BY <1>4, PlacesAlone DEF HandleResult, countVars
  <2>2. NoMoreHands(t)
    BY <1>4 DEF HandleResult, At, Goto, NoMoreHands, HandPays, GridInv, TypeInv, StreamTypeOK, Hand
  <2> QED
    BY <1>0, <2>1, <2>2, NothingNew
<1>5. ASSUME NEW s \in Sessions, GatherResults(s)
      PROVE  Covered(t)'
  <2>1. NoMoreDown(t) /\ NoMoreUp(t) /\ NoMoreCalls(t) /\ paid'[t] = paid[t] /\ sent'[t] = sent[t]
    BY <1>5, PlacesAlone DEF GatherResults, countVars
  <2>2. NoMoreHands(t)
    <3>1. CASE Done(s)
      BY <3>1, DoneNoHand DEF GridInv, TypeInv
    <3>2. CASE ~Done(s)
      <4>1. \E from : hand' = [hand EXCEPT ![s].pc = "store", ![s].snap = from]
        BY <1>5, <3>2 DEF GatherResults
      <4> QED
        BY <4>1 DEF NoMoreHands, HandPays, GridInv, TypeInv, StreamTypeOK, Hand
    <3> QED
      BY <3>1, <3>2
  <2> QED
    BY <1>0, <2>1, <2>2, NothingNew
<1>6. ASSUME NEW s \in Sessions, StoreAggregate(s)
      PROVE  Covered(t)'
  <2>1. NoMoreDown(t)
    <3> DEFINE m == Message("control", None, "bft_aggregate_ready")
    <3>1. m.kind # "assign"
      BY DEF Message
    <3>2. \A r \in Sessions : down'[r] = down[r] \/ down'[r] = Append(down[r], m)
      BY <1>6 DEF StoreAggregate
    <3> HIDE DEF m
    <3> QED
      BY <3>1, <3>2, NoDeliveryDown DEF GridInv, TypeInv
  <2> QED
    BY <1>1, <1>6, <2>1 DEF StoreAggregate
<1>7. ASSUME NEW s \in Sessions, _handle_disconnect(s)
      PROVE  Covered(t)'
  <2>1. /\ NoMoreDown(t) /\ NoMoreUp(t) /\ NoMoreHands(t) /\ NoMoreCalls(t)
        /\ paid'[t] = paid[t] /\ sent'[t] = sent[t]
    BY <1>7, PlacesAlone DEF _handle_disconnect, countVars
  <2> QED
    BY <1>0, <2>1, NothingNew
<1> QED
  BY <1>2, <1>3, <1>4, <1>5, <1>6, <1>7, ReceiveCustody, PayCustody, CloseCustody, OrphanCustody DEF Streams

\* An assignment that is sent is a delivery more, in the queue of the node's stream.
LEMMA SendCustody ==
  ASSUME GridInv, GridInv', NEW t \in Tasks, Covered(t), SendAssign, UNCHANGED worker
  PROVE  Covered(t)'
<1> DEFINE s == connected[sched.node]
           m == Message("assign", sched.task, IF sched.task \in bundle THEN "script" ELSE "builtin")
<1>1. NoMoreUp(t) /\ NoMoreWork(t) /\ NoMoreHands(t) /\ NoMoreCalls(t) /\ paid'[t] = paid[t]
  BY PlacesAlone DEF SendAssign
<1>2. \/ UNCHANGED <<down, sent>>
      \/ s \in Sessions /\ Put(s, m) /\ sent' = [sent EXCEPT ![sched.task] = @ + 1] /\ sched.task \in Tasks
  BY DEF SendAssign, GridInv, TypeInv, ServiceTypeOK
<1>3. m.kind = "assign" /\ m.task = sched.task
  BY DEF Message
<1>4. sent \in [Tasks -> Nat] /\ down \in [Sessions -> Seq(DownMessage)]
  BY DEF GridInv, TypeInv, ServiceTypeOK, StreamTypeOK
<1> HIDE DEF m
<1>5. CASE UNCHANGED <<down, sent>>
  BY <1>1, <1>5, PlacesAlone, NothingNew
<1>6. CASE s \in Sessions /\ Put(s, m) /\ sent' = [sent EXCEPT ![sched.task] = @ + 1] /\ sched.task \in Tasks
  <2> DEFINE i == Len(down[s]) + 1
  <2>1. ASSUME NEW r \in Sessions, NEW k \in DOMAIN down'[r], Assigns(down'[r][k], t), r # s \/ k # i \/ t # sched.task
        PROVE  <<"down", r, k>> \in Custody(t)
    <3>1. down[r] \in Seq(DownMessage)
      BY <1>4
    <3>2. down'[r] = down[r] \/ (r = s /\ down'[r] = Append(down[r], m))
      <4>1. down' = down \/ down' = [down EXCEPT ![s] = Append(@, m)]
        BY <1>6 DEF Put
      <4> QED
        BY <1>4, <4>1
    <3>3. CASE down'[r] = down[r]
      BY <2>1, <3>3, AtPlace
    <3>4. CASE r = s /\ down'[r] = Append(down[r], m)
      <4>1. k \in 1 .. Len(down[r]) + 1 /\ DOMAIN down[r] = 1 .. Len(down[r])
        BY <2>1, <3>1, <3>4
      <4>2. k # Len(down[r]) + 1
        BY <1>3, <2>1, <3>1, <3>4 DEF Assigns
      <4>3. k \in DOMAIN down[r] /\ down'[r][k] = down[r][k]
        BY <3>1, <3>4, <4>1, <4>2
      <4> QED
        BY <2>1, <4>3, AtPlace
    <3> QED
      BY <3>2, <3>3, <3>4
  <2>2. ASSUME NEW x \in Custody(t)'
        PROVE  x \in Custody(t) \/ (x = <<"down", s, i>> /\ t = sched.task)
    <3> DEFINE comes == \E r \in Sessions : \E k \in DOMAIN down'[r] : x = <<"down", r, k>> /\ Assigns(down'[r][k], t)
               rest == \/ \E r \in Sessions : \E k \in DOMAIN up'[r] : x = <<"up", r, k>> /\ Succeeds(up'[r][k], t)
                       \/ \E n \in Nodes : x = <<"worker", n, 0>> /\ worker'[n].job = t
                       \/ \E r \in Sessions : x = <<"hand", r, 0>> /\ HandPays(hand'[r], t)
                       \/ \E c \in orphans' : x = <<"orphan", c, 0>> /\ c.call = "pay" /\ c.task = t
    <3>1. x \in InHand(t, down', up', worker', hand', orphans')
      BY <2>2 DEF Custody
    <3>2. comes \/ rest
      BY <3>1, Places
    <3>3. ASSUME comes
          PROVE  x \in Custody(t) \/ (x = <<"down", s, i>> /\ t = sched.task)
      <4>0. PICK r \in Sessions : \E k \in DOMAIN down'[r] : x = <<"down", r, k>> /\ Assigns(down'[r][k], t)
        BY <3>3
      <4>1. PICK k \in DOMAIN down'[r] : x = <<"down", r, k>> /\ Assigns(down'[r][k], t)
        BY <4>0
      <4>2. CASE r = s /\ k = i /\ t = sched.task
        BY <4>1, <4>2
      <4>3. CASE r # s \/ k # i \/ t # sched.task
        BY <2>1, <4>1, <4>3
      <4> QED
        BY <4>2, <4>3
    <3>4. rest => x \in Custody(t)
      BY <1>1, AtPlace DEF NoMoreUp, NoMoreWork, NoMoreHands, NoMoreCalls
    <3> HIDE DEF comes, rest
    <3> QED
      BY <3>2, <3>3, <3>4
  <2>3. CASE t = sched.task
    <3>1. Custody(t)' \subseteq Custody(t) \cup {<<"down", s, i>>}
      BY <2>2
    <3>2. sent'[t] = sent[t] + 1
      BY <1>4, <1>6, <2>3
    <3> QED
      BY <1>1, <3>1, <3>2, SentOne
  <2>4. CASE t # sched.task
    <3>1. Custody(t)' \subseteq Custody(t)
      BY <2>2, <2>4
    <3>2. sent'[t] = sent[t] /\ sent[t] \in Nat
      BY <1>4, <1>6, <2>4
    <3> QED
      BY <1>1, <3>1, <3>2, SomeLost
  <2> QED
    BY <2>3, <2>4
<1> QED
  BY <1>2, <1>5, <1>6
\* The rest of the orchestrator puts no assignment anywhere.
LEMMA ServiceCustody ==
  ASSUME GridInv, GridInv', NEW t \in Tasks, Covered(t), Scheduler \/ Admin \/ ServiceFaults, UNCHANGED <<worker, faked>>
  PROVE  Covered(t)'
<1>1. ASSUME UNCHANGED streamVars, UNCHANGED <<sent, paid>>
      PROVE  Covered(t)'
  <2>1. /\ NoMoreDown(t) /\ NoMoreUp(t) /\ NoMoreWork(t) /\ NoMoreHands(t) /\ NoMoreCalls(t)
        /\ paid'[t] = paid[t] /\ sent'[t] = sent[t]
    BY <1>1, PlacesAlone DEF streamVars
  <2> QED
    BY <2>1, NothingNew
<1>2. ASSUME NEW n \in Nodes, AdminDisconnect(n)
      PROVE  Covered(t)'
  <2>1. NoMoreDown(t)
    <3>1. connected[n] \in Sessions
      BY <1>2 DEF AdminDisconnect, GridInv, TypeInv, ServiceTypeOK
    <3> QED
      BY <1>2, <3>1, PutNoDelivery DEF AdminDisconnect, Message, GridInv, TypeInv
  <2>2. /\ NoMoreUp(t) /\ NoMoreWork(t) /\ NoMoreHands(t) /\ NoMoreCalls(t)
        /\ paid'[t] = paid[t] /\ sent'[t] = sent[t]
    BY <1>2, PlacesAlone DEF AdminDisconnect
  <2> QED
    BY <2>1, <2>2, NothingNew
<1>3. ASSUME OrchestratorRestart
      PROVE  Covered(t)'
  <2>1. NoMoreDown(t) /\ NoMoreUp(t) /\ NoMoreCalls(t)
    <3>1. /\ \A s \in Sessions : up'[s] = <<>> /\ down'[s] = <<>>
          /\ orphans' = {}
      BY <1>3 DEF OrchestratorRestart
    <3>2. \A s \in Sessions : DOMAIN up'[s] = {} /\ DOMAIN down'[s] = {}
      BY <3>1
    <3> QED
      BY <3>1, <3>2 DEF NoMoreDown, NoMoreUp, NoMoreCalls
  <2>2. NoMoreHands(t)
    BY <1>3, DBAssumption DEF OrchestratorRestart, NoMoreHands, HandPays, Idle
  <2>3. NoMoreWork(t) /\ paid'[t] = paid[t] /\ sent'[t] = sent[t]
    BY <1>3, PlacesAlone DEF OrchestratorRestart
  <2> QED
    BY <2>1, <2>2, <2>3, NothingNew
<1>4. ASSUME NEW s \in Sessions, StreamBreaks(s)
      PROVE  Covered(t)'
  <2>1. NoMoreDown(t)
    <3>1. \A r \in Sessions : down'[r] = down[r] \/ down'[r] = <<>>
      BY <1>4 DEF StreamBreaks, GridInv, TypeInv, StreamTypeOK
    <3> QED
      BY <3>1 DEF NoMoreDown
  <2>2. /\ NoMoreUp(t) /\ NoMoreWork(t) /\ NoMoreHands(t) /\ NoMoreCalls(t)
        /\ paid'[t] = paid[t] /\ sent'[t] = sent[t]
    BY <1>4, PlacesAlone DEF StreamBreaks
  <2> QED
    BY <2>1, <2>2, NothingNew
<1>5. Scheduler => SendAssign \/ UNCHANGED <<streamVars, sent, paid>>
  BY DEF Scheduler, _process_stale_tasks, ListQueued, ScanNodes, AssignNext, countVars
<1>6. Admin => (\E n \in Nodes : AdminDisconnect(n)) \/ UNCHANGED <<streamVars, sent, paid>>
  BY DEF Admin, AdminCreate, AdminCancel, AdminRetryRead, AdminRetryWrite, save_bundle, SaveFails,
         AdminDisconnectRow, AdminContribute, AdminClear, countVars
<1>7. TimePasses => UNCHANGED <<streamVars, sent, paid>>
  BY DEF TimePasses
<1> QED
  BY <1>1, <1>2, <1>3, <1>4, <1>5, <1>6, <1>7, SendCustody DEF ServiceFaults

\* A delivery that reaches a worker is its job, or is gone if it has one.
LEMMA MessageCustody ==
  ASSUME GridInv, GridInv', NEW t \in Tasks, Covered(t), NEW n \in Nodes, _handle_message(n)
  PROVE  Covered(t)'
<1> DEFINE s == worker[n].sess
           m == Head(down[s])
           f == [y \in Custody(t) |-> IF y = <<"down", s, 1>> THEN <<"worker", n, 0>>
                                      ELSE IF y[1] = "down" /\ y[2] = s THEN <<"down", s, y[3] - 1>> ELSE y]
<1>1. f = [y \in Custody(t) |-> f[y]]
  OBVIOUS
<1>2. s \in Sessions /\ down[s] # <<>> /\ down' = [down EXCEPT ![s] = Tail(@)]
  BY DEF _handle_message, GridInv, TypeInv, WorkerTypeOK
<1>3. down[s] \in Seq(DownMessage) /\ m = down[s][1] /\ m \in DownMessage /\ 1 \in DOMAIN down[s]
  BY <1>2 DEF GridInv, TypeInv, StreamTypeOK
<1>4. NoMoreHands(t) /\ NoMoreCalls(t) /\ paid'[t] = paid[t] /\ sent'[t] = sent[t]
  BY PlacesAlone DEF _handle_message, ServerSame
<1>5. NoMoreUp(t)
  <2>1. UNCHANGED up \/ _send(n, Message("result", m.task, "rejected"))
    BY DEF _handle_message, _accept_job
  <2>2. ~Succeeds(Message("result", m.task, "rejected"), t)
    BY DEF Succeeds, Message
  <2>3. \A r \in Sessions : up'[r] = up[r] \/ up'[r] = Append(up[r], Message("result", m.task, "rejected"))
    BY <2>1 DEF _send, GridInv, TypeInv, StreamTypeOK
  <2> QED
    BY <2>2, <2>3, NoDeliveryUp DEF GridInv, TypeInv
<1>6. ASSUME NEW r \in Sessions, NEW i \in DOMAIN down'[r], Assigns(down'[r][i], t)
      PROVE  \E y \in Custody(t) : f[y] = <<"down", r, i>>
  <2>1. CASE r # s
    <3>1. <<"down", r, i>> \in Custody(t)
      BY <1>2, <1>6, <2>1, AtPlace DEF GridInv, TypeInv, StreamTypeOK
    <3> QED
      BY <2>1, <3>1
  <2>2. CASE r = s
    <3>1. i \in Nat /\ i + 1 \in DOMAIN down[s] /\ down'[s][i] = down[s][i + 1] /\ i > 0
      BY <1>2, <1>3, <1>6, <2>2 DEF GridInv, TypeInv, StreamTypeOK
    <3>2. <<"down", s, i + 1>> \in Custody(t)
      BY <1>2, <1>6, <2>2, <3>1, AtPlace
    <3>3. f[<<"down", s, i + 1>>] = <<"down", s, i>>
      <4> HIDE DEF s
      <4> QED
        BY <3>1, <3>2
    <3> QED
      BY <2>2, <3>2, <3>3
  <2> QED
    BY <2>1, <2>2
<1>7. ASSUME NEW k \in Nodes, worker'[k].job = t
      PROVE  \E y \in Custody(t) : f[y] = <<"worker", k, 0>>
  <2>1. CASE worker[k].job = t
    <3>1. <<"worker", k, 0>> \in Custody(t)
      BY <2>1, AtPlace
    <3> QED
      BY <3>1
  <2>2. CASE worker[k].job # t
    <3>1. k = n /\ m.kind = "assign" /\ m.task = t
      <4>1. \/ UNCHANGED worker
            \/ worker' = [worker EXCEPT ![n].stop = @ \/ m.what = "refused"]
            \/ m.kind = "assign" /\ worker' = [worker EXCEPT ![n].job = m.task, ![n].how = m.what]
        BY DEF _handle_message, _accept_job
      <4> QED
        BY <1>7, <2>2, <4>1 DEF GridInv, TypeInv, WorkerTypeOK
    <3>2. <<"down", s, 1>> \in Custody(t)
      BY <1>2, <1>3, <3>1, AtPlace DEF Assigns
    <3> QED
      BY <3>1, <3>2
  <2> QED
    BY <2>1, <2>2
<1>8. /\ \A r \in Sessions : \A i : <<"up", r, i>> \in Custody(t) => f[<<"up", r, i>>] = <<"up", r, i>>
      /\ \A r \in Sessions : <<"hand", r, 0>> \in Custody(t) => f[<<"hand", r, 0>>] = <<"hand", r, 0>>
      /\ \A c : <<"orphan", c, 0>> \in Custody(t) => f[<<"orphan", c, 0>>] = <<"orphan", c, 0>>
  OBVIOUS
<1> HIDE DEF f
<1>9. ASSUME NEW r \in Sessions, NEW i \in DOMAIN up'[r], Succeeds(up'[r][i], t)
      PROVE  \E y \in Custody(t) : f[y] = <<"up", r, i>>
  <2>1. <<"up", r, i>> \in Custody(t)
    BY <1>5, <1>9, AtPlace DEF NoMoreUp
  <2> QED
    BY <2>1, <1>8
<1>10. \A r \in Sessions : HandPays(hand'[r], t) => \E y \in Custody(t) : f[y] = <<"hand", r, 0>>
  BY <1>4, <1>8, StayHands, Zenon
<1>11. \A c \in orphans' : c.call = "pay" /\ c.task = t => \E y \in Custody(t) : f[y] = <<"orphan", c, 0>>
  BY <1>4, <1>8, StayCalls, Zenon
<1>12. \A r \in Sessions : \A i \in DOMAIN up'[r] : Succeeds(up'[r][i], t) => \E y \in Custody(t) : f[y] = <<"up", r, i>>
  BY <1>9
<1>13. \A r \in Sessions : \A i \in DOMAIN down'[r] : Assigns(down'[r][i], t) => \E y \in Custody(t) : f[y] = <<"down", r, i>>
  BY <1>6
<1>14. \A k \in Nodes : worker'[k].job = t => \E y \in Custody(t) : f[y] = <<"worker", k, 0>>
  BY <1>7
<1> QED
  BY <1>1, <1>4, <1>10, <1>11, <1>12, <1>13, <1>14, Relocated
\* The result of a worker is its job's, which it forgets.
LEMMA ResultCustody ==
  ASSUME GridInv, GridInv', NEW t \in Tasks, Covered(t), NEW n \in Nodes, NEW status \in {"success", "failed"},
         _report_result(n, status)
  PROVE  Covered(t)'
<1> DEFINE s == worker[n].sess
           m == Message("result", worker[n].job, status)
           f == [y \in Custody(t) |-> IF y = <<"worker", n, 0>> THEN <<"up", s, Len(up[s]) + 1>> ELSE y]
<1>1. NoMoreDown(t) /\ NoMoreHands(t) /\ NoMoreCalls(t) /\ paid'[t] = paid[t] /\ sent'[t] = sent[t]
  BY PlacesAlone DEF _report_result, ServerSame
<1>2. NoMoreWork(t) /\ worker'[n].job # t
  BY DBAssumption DEF _report_result, NoMoreWork, GridInv, TypeInv, WorkerTypeOK
<1>3. UNCHANGED up \/ (s \in Sessions /\ up' = [up EXCEPT ![s] = Append(@, m)])
  BY DEF _report_result, _send, GridInv, TypeInv, WorkerTypeOK
<1>4. CASE UNCHANGED up \/ ~Succeeds(m, t)
  <2>1. NoMoreUp(t)
    <3>1. CASE UNCHANGED up
      BY <3>1, PlacesAlone
    <3>2. CASE ~UNCHANGED up
      <4>1. ~Succeeds(m, t) /\ \A r \in Sessions : up'[r] = up[r] \/ up'[r] = Append(up[r], m)
        BY <1>3, <1>4, <3>2 DEF GridInv, TypeInv, StreamTypeOK
      <4> HIDE DEF m
      <4> QED
        BY <4>1, NoDeliveryUp DEF GridInv, TypeInv
    <3> QED
      BY <3>1, <3>2
  <2> QED
    BY <1>1, <1>2, <2>1, NothingNew
<1>5. CASE s \in Sessions /\ up' = [up EXCEPT ![s] = Append(@, m)] /\ Succeeds(m, t)
  <2>1. <<"worker", n, 0>> \in Custody(t)
    BY <1>5, AtPlace DEF Succeeds, Message
  <2>2. f = [y \in Custody(t) |-> f[y]]
    OBVIOUS
  <2>3. f[<<"worker", n, 0>>] = <<"up", s, Len(up[s]) + 1>>
    BY <2>1
  <2>4. \A y \in Custody(t) : y # <<"worker", n, 0>> => f[y] = y
    OBVIOUS
  <2> HIDE DEF f
  <2>5. ASSUME NEW r \in Sessions, NEW i \in DOMAIN up'[r], Succeeds(up'[r][i], t)
        PROVE  \E y \in Custody(t) : f[y] = <<"up", r, i>>
    <3>1. up[r] \in Seq(UpMessage) /\ up'[r] = IF r = s THEN Append(up[r], m) ELSE up[r]
      BY <1>5 DEF GridInv, TypeInv, StreamTypeOK
    <3>2. CASE r = s /\ i = Len(up[s]) + 1
      BY <2>1, <2>3, <3>2
    <3>3. CASE r # s \/ i # Len(up[s]) + 1
      <4> HIDE DEF m
      <4>1. i \in DOMAIN up[r] /\ up[r][i] = up'[r][i]
        BY <2>5, <3>1, <3>3
      <4>2. <<"up", r, i>> \in Custody(t)
        BY <2>5, <4>1, AtPlace
      <4> QED
        BY <2>4, <4>2
    <3> QED
      BY <3>2, <3>3
  <2>6. ASSUME NEW r \in Sessions, NEW i \in DOMAIN down'[r], Assigns(down'[r][i], t)
        PROVE  \E y \in Custody(t) : f[y] = <<"down", r, i>>
    <3>1. <<"down", r, i>> \in Custody(t)
      BY <1>1, <2>6, AtPlace DEF NoMoreDown
    <3> QED
      BY <2>4, <3>1
  <2>7. ASSUME NEW k \in Nodes, worker'[k].job = t
        PROVE  \E y \in Custody(t) : f[y] = <<"worker", k, 0>>
    <3>1. <<"worker", k, 0>> \in Custody(t) /\ k # n
      BY <1>2, <2>7, AtPlace DEF NoMoreWork
    <3> QED
      BY <2>4, <3>1
  <2>8. ASSUME NEW r \in Sessions, HandPays(hand'[r], t)
        PROVE  \E y \in Custody(t) : f[y] = <<"hand", r, 0>>
    <3>1. <<"hand", r, 0>> \in Custody(t)
      BY <1>1, <2>8, AtPlace DEF NoMoreHands
    <3> QED
      BY <2>4, <3>1
  <2>9. ASSUME NEW c \in orphans', c.call = "pay", c.task = t
        PROVE  \E y \in Custody(t) : f[y] = <<"orphan", c, 0>>
    <3>1. <<"orphan", c, 0>> \in Custody(t)
      BY <1>1, <2>9, AtPlace DEF NoMoreCalls
    <3> QED
      BY <2>4, <3>1
  <2> QED
    BY <1>1, <2>2, <2>5, <2>6, <2>7, <2>8, <2>9, Relocated
<1> QED
  BY <1>3, <1>4, <1>5

\* Workers keep payments within deliveries.
LEMMA WorkersCustody ==
  ASSUME GridInv, GridInv', NEW t \in Tasks, Covered(t), Workers
  PROVE  Covered(t)'
<1>1. ASSUME ServerSame, NoMoreDown(t), NoMoreUp(t), NoMoreWork(t)
      PROVE  Covered(t)'
  <2>1. NoMoreHands(t) /\ NoMoreCalls(t) /\ paid'[t] = paid[t] /\ sent'[t] = sent[t]
    BY <1>1, PlacesAlone DEF ServerSame
  <2> QED
    BY <1>1, <2>1, NothingNew
<1>2. ASSUME NEW n \in Nodes, Connect(n)
      PROVE  Covered(t)'
  <2>1. PICK s \in Sessions : up' = [up EXCEPT ![s] = <<Message("register", None, "none")>>] /\ worker' = [worker EXCEPT ![n].sess = s]
    BY <1>2 DEF Connect
  <2>2. NoMoreUp(t)
    <3>1. ~Succeeds(Message("register", None, "none"), t)
      BY DEF Succeeds, Message
    <3>2. \A r \in Sessions : up'[r] = up[r] \/ up'[r] = <<Message("register", None, "none")>>
      BY <2>1 DEF GridInv, TypeInv, StreamTypeOK
    <3> QED
      BY <3>1, <3>2, NoDeliveryUp DEF GridInv, TypeInv
  <2>3. NoMoreWork(t)
    BY <2>1 DEF NoMoreWork, GridInv, TypeInv, WorkerTypeOK
  <2>4. NoMoreDown(t) /\ ServerSame
    BY <1>2, PlacesAlone DEF Connect
  <2> QED
    BY <1>1, <2>2, <2>3, <2>4
<1>3. ASSUME NEW n \in Nodes, _heartbeat_loop(n) \/ _report_progress(n)
      PROVE  Covered(t)'
  <2>1. NoMoreUp(t)
    <3>1. PICK m : _send(n, m) /\ ~Succeeds(m, t)
      <4>1. \A u : ~Succeeds(Message("heartbeat", None, "none"), t) /\ ~Succeeds(Message("progress", u, "none"), t)
        BY DEF Succeeds, Message
      <4>2. _send(n, Message("heartbeat", None, "none")) \/ _send(n, Message("progress", worker[n].job, "none"))
        BY <1>3 DEF _heartbeat_loop, _report_progress
      <4> QED
        BY <4>1, <4>2
    <3>2. \A r \in Sessions : up'[r] = up[r] \/ up'[r] = Append(up[r], m)
      BY <3>1 DEF _send, GridInv, TypeInv, StreamTypeOK
    <3> QED
      BY <3>1, <3>2, NoDeliveryUp DEF GridInv, TypeInv
  <2>2. NoMoreDown(t) /\ NoMoreWork(t) /\ ServerSame
    BY <1>3, PlacesAlone DEF _heartbeat_loop, _report_progress
  <2> QED
    BY <1>1, <2>1, <2>2
<1>4. ASSUME NEW n \in Nodes, Disconnect(n) \/ WorkerCrash(n)
      PROVE  Covered(t)'
  <2>1. NoMoreDown(t)
    <3>1. \A r \in Sessions : down'[r] = down[r] \/ down'[r] = <<>>
      BY <1>4 DEF Disconnect, WorkerCrash, GridInv, TypeInv, StreamTypeOK
    <3> QED
      BY <3>1 DEF NoMoreDown
  <2>2. NoMoreWork(t)
    <3>1. \/ worker' = [worker EXCEPT ![n].sess = None]
          \/ worker' = [worker EXCEPT ![n].sess = None, ![n].job = None, ![n].how = "none"]
      BY <1>4 DEF Disconnect, WorkerCrash
    <3>2. worker \in [Nodes -> [sess: Sessions \cup {None}, job: Tasks \cup {None},
                              how: {"none", "script", "builtin"}, stop: BOOLEAN]]
      BY DEF GridInv, TypeInv, WorkerTypeOK
    <3>3. \A k \in Nodes : worker'[k].job = worker[k].job \/ worker'[k].job = None
      BY <3>1, <3>2
    <3> QED
      BY <3>3, DBAssumption DEF NoMoreWork
  <2>3. NoMoreUp(t) /\ ServerSame
    BY <1>4, PlacesAlone DEF Disconnect, WorkerCrash
  <2> QED
    BY <1>1, <2>1, <2>2, <2>3
<1> QED
  BY <1>2, <1>3, <1>4, MessageCustody, ResultCustody DEF Workers

\* Payments are within deliveries always.
LEMMA CustodyInvariant == GridSpec => []CustodyInv
<1>1. GridInit => CustodyInv
  <2> SUFFICES ASSUME GridInit, NEW t \in Tasks PROVE Covered(t)
    BY DEF CustodyInv
  <2>1. /\ \A s \in Sessions : DOMAIN down[s] = {} /\ DOMAIN up[s] = {} /\ ~HandPays(hand[s], t)
        /\ \A n \in Nodes : worker[n].job # t
        /\ orphans = {} /\ paid[t] = 0 /\ sent[t] = 0
    BY DBAssumption DEF GridInit, ServiceInit, WorkerInit, HandPays, Idle
  <2>2. Custody(t) = {}
    <3> SUFFICES ASSUME NEW x, x \in InHand(t, down, up, worker, hand, orphans) PROVE FALSE
      BY DEF Custody
    <3> QED
      BY <2>1, Places
  <2> QED
    BY <2>1, <2>2, FS_EmptySet DEF Covered
<1>2. GridInv /\ GridInv' /\ CustodyInv /\ [GridNext]_gridVars => CustodyInv'
  <2> SUFFICES ASSUME GridInv, GridInv', CustodyInv, [GridNext]_gridVars, NEW t \in Tasks PROVE Covered(t)'
    BY DEF CustodyInv
  <2>1. Covered(t)
    BY DEF CustodyInv
  <2>2. CASE UNCHANGED gridVars
    <3>1. /\ NoMoreDown(t) /\ NoMoreUp(t) /\ NoMoreWork(t) /\ NoMoreHands(t) /\ NoMoreCalls(t)
          /\ paid'[t] = paid[t] /\ sent'[t] = sent[t]
      BY <2>2, PlacesAlone DEF gridVars, orchVars, streamVars, countVars
    <3> QED
      BY <2>1, <3>1, NothingNew
  <2> QED
    BY <2>1, <2>2, StreamsCustody, ServiceCustody, WorkersCustody DEF GridNext
<1> QED
  BY <1>1, <1>2, GridInvariant, PTL DEF GridSpec

\* A task is paid for at most once per assignment sent to a worker, although results outlive
\* streams, streams outlive takeovers, and a payment goes on after its handler is cancelled
\* (SendAssign, _report_result, CloseStream, PayResult, OrphanCall).
THEOREM PaidOncePerDelivery == GridSpec => []PaidPerDelivery
<1>1. GridInv /\ CustodyInv => PaidPerDelivery
  <2> SUFFICES ASSUME GridInv, CustodyInv, NEW t \in Tasks PROVE paid[t] <= sent[t]
    BY DEF PaidPerDelivery
  <2>1. Covered(t)
    BY DEF CustodyInv
  <2> QED
    BY <2>1, CountType DEF Covered
<1> QED
  BY <1>1, GridInvariant, CustodyInvariant, PTL
=============================================================================
