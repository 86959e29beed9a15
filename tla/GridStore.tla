------------------------------ MODULE GridStore ------------------------------
(***************************************************************************)
(* The coordinator's SQLite tables and the methods of class Store          *)
(* (tools/cpp_port/grid/store.cpp).  Every method holds Store::mu_ for its  *)
(* whole body and runs its statements in one transaction, so each method   *)
(* is one atomic step: an action on the tables, or a state function when   *)
(* it only reads.                                                          *)
(*                                                                         *)
(* What the tables keep here is what some condition of the code reads.     *)
(*  - A node row is its status, with 'idle' and 'busy' merged into         *)
(*    "online" (no code tells them apart), and whether last_heartbeat_ts   *)
(*    is older than --node-ttl.                                            *)
(*  - A job row is its status and whether updated_ts is more than the      *)
(*    sweep's 30 s old; the age matters, and is kept, only for a row in    *)
(*    'finalizing'.                                                        *)
(*  - A task row is its status, its assignee and its attempt count.  Its   *)
(*    gradient_blob_url is set exactly when finish_task makes it 'done'.   *)
(*    Its deadline_ts is written by claim_task and read by no code.        *)
(*  - A ledger row is the paid node and, for the properties only, the      *)
(*    task it was paid for.                                                *)
(* "absent" is the status of a row not inserted yet.                       *)
(***************************************************************************)
EXTENDS Integers, Sequences, FiniteSets

CONSTANTS
    Nodes,        \* node ids workers register with
    NoNode,       \* the empty assignee_node_id
    NJobs,        \* how many jobs get submitted
    Replicas,     \* tasks per job (1..64 in handle_submit)
    MaxAttempts   \* tasks.max_attempts, 3 in Grid::submit

ASSUME StoreAssumption ==
    /\ NoNode \notin Nodes
    /\ NJobs \in Nat
    /\ Replicas \in Nat \ {0}
    /\ MaxAttempts \in Nat \ {0}

\* Jobs are numbered in the order of created_ts, tasks by replica: task ids
\* sort in that order inside a job.
Jobs == 1..NJobs
Tasks == Jobs \X (1..Replicas)
JobOf(t) == t[1]
TasksOf(j) == {t \in Tasks : JobOf(t) = j}

VARIABLES
    nodes,    \* active_nodes
    jobs,     \* jobs
    tasks,    \* tasks
    ledger    \* credit_ledger, in tx_id order

storeVars == <<nodes, jobs, tasks, ledger>>

NodeRow == [status : {"absent", "online", "offline"}, quiet : BOOLEAN]

JobStatus == {"absent", "queued", "running", "finalizing",
              "completed", "failed", "cancelled"}
JobRow == [status : JobStatus, aged : BOOLEAN]

TaskStatus == {"absent", "queued", "assigned", "done", "failed"}
TaskRow == [status : TaskStatus, assignee : Nodes \cup {NoNode},
            attempts : 0..MaxAttempts]

CreditRow == [node : Nodes, task : Tasks]

StoreTypeOK ==
    /\ nodes \in [Nodes -> NodeRow]
    /\ jobs \in [Jobs -> JobRow]
    /\ tasks \in [Tasks -> TaskRow]
    /\ ledger \in Seq(CreditRow)

Registered(n) == nodes[n].status # "absent"
Open(j) == jobs[j].status \in {"queued", "running"}
Closed(j) == jobs[j].status \in {"completed", "failed", "cancelled"}
Live(t) == tasks[t].status \in {"queued", "assigned"}
Submitted == {j \in Jobs : jobs[j].status # "absent"}

StoreInit ==
    /\ nodes = [n \in Nodes |-> [status |-> "absent", quiet |-> FALSE]]
    /\ jobs = [j \in Jobs |-> [status |-> "absent", aged |-> FALSE]]
    /\ tasks = [t \in Tasks |-> [status |-> "absent", assignee |-> NoNode,
                                 attempts |-> 0]]
    /\ ledger = << >>

-----------------------------------------------------------------------------
(* Nodes *)

\* A known node keeps its tasks: only its own row is reset.
upsert_node(n) ==
    /\ nodes' = [nodes EXCEPT ![n] = [status |-> "online", quiet |-> FALSE]]
    /\ UNCHANGED <<jobs, tasks, ledger>>

heartbeat(n, status) ==
    /\ nodes' = [nodes EXCEPT ![n] = [status |-> status, quiet |-> FALSE]]
    /\ UNCHANGED <<jobs, tasks, ledger>>

\* Mutants of Released: an off-by-one in the attempts left, a task put back
\* whatever it has used up, an assignee not reset.
Released_off_by_one(row) ==
    [status |-> IF row.attempts <= MaxAttempts THEN "queued" ELSE "failed",
     assignee |-> NoNode, attempts |-> row.attempts]
Released_always(row) ==
    [status |-> "queued", assignee |-> NoNode, attempts |-> row.attempts]
Released_keeps_assignee(row) ==
    [status |-> IF row.attempts < MaxAttempts THEN "queued" ELSE "failed",
     assignee |-> row.assignee, attempts |-> row.attempts]

\* What releasing a task does to its row, in expire_nodes and requeue_task.
Released(row) ==
    [status |-> IF row.attempts < MaxAttempts THEN "queued" ELSE "failed",
     assignee |-> NoNode,
     attempts |-> row.attempts]

\* Mutant of Gone: the silent nodes are not marked.
Gone_offline_only == {n \in Nodes : nodes[n].status = "offline"}

\* The nodes that are offline once expire_nodes has marked the silent ones.
Gone == {n \in Nodes : \/ nodes[n].status = "offline"
                       \/ nodes[n].status = "online" /\ nodes[n].quiet}

expire_nodes ==
    /\ nodes' = [n \in Nodes |->
                   IF n \in Gone
                   THEN [status |-> "offline", quiet |-> nodes[n].quiet]
                   ELSE nodes[n]]
    /\ tasks' = [t \in Tasks |->
                   IF tasks[t].status = "assigned" /\ tasks[t].assignee \in Gone
                   THEN Released(tasks[t])
                   ELSE tasks[t]]
    /\ UNCHANGED <<jobs, ledger>>

-----------------------------------------------------------------------------
(* Jobs *)

create_job(j) ==
    /\ jobs' = [jobs EXCEPT ![j] = [status |-> "queued", aged |-> FALSE]]
    /\ tasks' = [t \in Tasks |->
                   IF JobOf(t) = j
                   THEN [status |-> "queued", assignee |-> NoNode, attempts |-> 0]
                   ELSE tasks[t]]
    /\ UNCHANGED <<nodes, ledger>>

\* jobs(limit): the newest rows, ORDER BY created_ts DESC LIMIT limit.
NewestJobs(limit) ==
    {j \in Submitted : Cardinality({k \in Submitted : k > j}) < limit}

\* Unconditional: the row takes the caller's copy, whatever it holds now.
update_job(j, status) ==
    /\ jobs' = [jobs EXCEPT ![j] = [status |-> status, aged |-> FALSE]]
    /\ UNCHANGED <<nodes, tasks, ledger>>

\* Mutants of claim_finalization: the UPDATE without its condition on status,
\* and with one that only keeps out a second finalizer.
claim_finalization_unguarded(j) ==
    /\ jobs' = [jobs EXCEPT ![j] = [status |-> "finalizing", aged |-> FALSE]]
    /\ UNCHANGED <<nodes, tasks, ledger>>
claim_finalization_if_not_finalizing(j) ==
    /\ jobs[j].status # "finalizing"
    /\ jobs' = [jobs EXCEPT ![j] = [status |-> "finalizing", aged |-> FALSE]]
    /\ UNCHANGED <<nodes, tasks, ledger>>

\* The step of claim_finalization that changes the row; the caller learns
\* that it did not claim when the job is not open.
claim_finalization(j) ==
    /\ Open(j)
    /\ jobs' = [jobs EXCEPT ![j] = [status |-> "finalizing", aged |-> FALSE]]
    /\ UNCHANGED <<nodes, tasks, ledger>>

\* task_counts: has every replica reported, and did one succeed?
NoneLive(j) == \A t \in TasksOf(j) : ~Live(t)
SomeDone(j) == \E t \in TasksOf(j) : tasks[t].status = "done"

-----------------------------------------------------------------------------
(* Tasks *)

Before(t, u) == t[1] < u[1] \/ (t[1] = u[1] /\ t[2] < u[2])
IsFirst(t, S) == t \in S /\ \A u \in S : ~Before(u, t)

Claimable == {t \in Tasks : tasks[t].status = "queued" /\ Open(JobOf(t))}

\* Hands t, the oldest claimable task, to node n.  The node's own status is
\* not looked at.
claim_task(n, t) ==
    /\ IsFirst(t, Claimable)
    /\ tasks' = [tasks EXCEPT ![t] = [status |-> "assigned", assignee |-> n,
                                      attempts |-> tasks[t].attempts + 1]]
    /\ jobs' = [jobs EXCEPT ![JobOf(t)] = [status |-> "running", aged |-> FALSE]]
    /\ UNCHANGED <<nodes, ledger>>

\* No guard on the row's status or assignee; whoever the row names now is
\* marked idle, and so online.
finish_task(t, ok) ==
    /\ tasks' = [tasks EXCEPT ![t] = [status |-> IF ok THEN "done" ELSE "failed",
                                      assignee |-> tasks[t].assignee,
                                      attempts |-> tasks[t].attempts]]
    /\ nodes' = [n \in Nodes |->
                   IF n = tasks[t].assignee
                   THEN [status |-> "online", quiet |-> nodes[n].quiet]
                   ELSE nodes[n]]
    /\ jobs' = [jobs EXCEPT ![JobOf(t)] = [status |-> jobs[JobOf(t)].status,
                                           aged |-> FALSE]]
    /\ UNCHANGED ledger

\* No guard on the row's status or assignee either.
requeue_task(t) ==
    /\ tasks' = [tasks EXCEPT ![t] = Released(tasks[t])]
    /\ UNCHANGED <<nodes, jobs, ledger>>

-----------------------------------------------------------------------------
(* Credit ledger *)

add_credit(n, t) ==
    /\ ledger' = Append(ledger, [node |-> n, task |-> t])
    /\ UNCHANGED <<nodes, jobs, tasks>>

=============================================================================
