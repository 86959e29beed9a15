----------------------------- MODULE Coordinator -----------------------------
(***************************************************************************)
(* distribai_orch (tools/cpp_port/grid/orchestrator.cpp): one detached     *)
(* thread per HTTP request and one maintenance thread, all calling Store.  *)
(* A handler is a sequence of Store calls and file accesses with nothing   *)
(* held between them, so each call is a step of its own and any step of    *)
(* any other thread may come in between.  A thread's program counter names *)
(* the call it makes next.                                                 *)
(*                                                                         *)
(* Requests come from outside at any time, in any number and with any      *)
(* content: duplicated, late or from a node that has lost its task.  A     *)
(* request that is refused before it changes anything (a bad token, an     *)
(* unknown task, another node's task, a finished task, an unreadable       *)
(* envelope) leaves no trace, and is not an action.                        *)
(*                                                                         *)
(* The bundle, the gradients, the aggregate's value and all JSON are data  *)
(* that no condition here depends on.                                      *)
(***************************************************************************)
EXTENDS GridStore

CONSTANTS
    Threads,      \* request threads running at one time
    Reaper,       \* the maintenance thread
    SweepLimit,   \* rows a sweep reads, 200 in Grid::reap
    CanCrash,     \* the coordinator process may die and be started again
    CanStall,     \* a finalization, or a sweep, may last longer than 30 s
    FileErrors,   \* reading a bundle, writing an envelope or a result may fail
    MaxFaults     \* bound on crashes and stalls

ASSUME CoordinatorAssumption ==
    /\ Reaper \notin Threads
    /\ SweepLimit \in Nat
    /\ MaxFaults \in Nat
    /\ {CanCrash, CanStall, FileErrors} \subseteq BOOLEAN

Procs == Threads \cup {Reaper}

\* The handler, and inside it the next call.
FinalizePC == {"tasks_for_job", "write_result", "add_credit", "close_done"}
PCs == {"idle",
        "read_bundle",                                       \* handle_claim
        "open_envelope", "write_envelope", "finish_done", "finish_failed",
                                                             \* handle_result
        "job", "task_counts", "claim_done", "claim_failed", "close_failed",
                                                             \* maybe_finalize
        "cancel_tasks", "cancel_task",                       \* handle_cancel
        "jobs", "sweep"}                                     \* reap
       \cup FinalizePC                                       \* finalize

VARIABLES
    pc,         \* what each thread does next
    job,        \* the job a thread works on
    task,       \* the task a claim or result request is about
    node,       \* the node that sent it
    todo,       \* tasks a cancel still has to finish
    pay,        \* contributors a finalizer still has to pay: <<task, node>>
    sweep,      \* jobs of the reaper's snapshot it has not visited yet
    seenFin,    \* those it saw in 'finalizing'
    seenAged,   \* those of seenFin whose updated_ts is by now over 30 s old
    envelope,   \* tasks/<task_id>.env on disk, and whose it is
    published,  \* jobs with a result.json and aggregate.env
    handed,     \* <<node, task>>: the task was sent to the node's worker
    faults      \* crashes and stalls so far

localVars == <<pc, job, task, node, todo, pay>>
sweepVars == <<sweep, seenFin, seenAged>>
fileVars == <<envelope, published>>
vars == <<storeVars, localVars, sweepVars, fileVars, handed, faults>>

NoJob == 0
NoTask == <<0, 0>>

Envelope == [kind : {"none", "torn", "empty", "grads"},
             by : Nodes \cup {NoNode}]

LocalTypeOK ==
    /\ pc \in [Procs -> PCs]
    /\ job \in [Procs -> Jobs \cup {NoJob}]
    /\ task \in [Procs -> Tasks \cup {NoTask}]
    /\ node \in [Procs -> Nodes \cup {NoNode}]
    /\ todo \in [Procs -> SUBSET Tasks]
    /\ pay \in [Procs -> SUBSET (Tasks \X Nodes)]
    /\ sweep \in SUBSET Jobs
    /\ seenFin \in SUBSET Jobs
    /\ seenAged \in SUBSET Jobs

FileTypeOK ==
    /\ envelope \in [Tasks -> Envelope]
    /\ published \in SUBSET Jobs
    /\ handed \in SUBSET (Nodes \X Tasks)
    /\ faults \in 0..MaxFaults

\* What the handlers keep and what they write stays inside the columns'
\* values; in particular no task row counts more than max_attempts attempts.
TypeOK == StoreTypeOK /\ LocalTypeOK /\ FileTypeOK

Init ==
    /\ StoreInit
    /\ pc = [p \in Procs |-> "idle"]
    /\ job = [p \in Procs |-> NoJob]
    /\ task = [p \in Procs |-> NoTask]
    /\ node = [p \in Procs |-> NoNode]
    /\ todo = [p \in Procs |-> {}]
    /\ pay = [p \in Procs |-> {}]
    /\ sweep = {}
    /\ seenFin = {}
    /\ seenAged = {}
    /\ envelope = [t \in Tasks |-> [kind |-> "none", by |-> NoNode]]
    /\ published = {}
    /\ handed = {}
    /\ faults = 0

Goto(p, label) == pc' = [pc EXCEPT ![p] = label]

\* Where a thread goes when its handler, or the reaper's visit of one job,
\* is over, and the locals it forgets.
Return(p) == IF p = Reaper THEN "sweep" ELSE "idle"
Leave(p) ==
    /\ Goto(p, Return(p))
    /\ job' = [job EXCEPT ![p] = NoJob]
    /\ task' = [task EXCEPT ![p] = NoTask]
    /\ node' = [node EXCEPT ![p] = NoNode]
    /\ todo' = [todo EXCEPT ![p] = {}]
    /\ pay' = [pay EXCEPT ![p] = {}]

-----------------------------------------------------------------------------
(* Requests of one Store call *)

handle_register(n) ==
    /\ upsert_node(n)
    /\ UNCHANGED <<localVars, sweepVars, fileVars, handed, faults>>

handle_heartbeat(n) ==
    /\ Registered(n)
    /\ heartbeat(n, "online")
    /\ UNCHANGED <<localVars, sweepVars, fileVars, handed, faults>>

handle_bye(n) ==
    /\ Registered(n)
    /\ heartbeat(n, "offline")
    /\ UNCHANGED <<localVars, sweepVars, fileVars, handed, faults>>

\* The bundle is copied first, into a directory nobody else knows yet.
handle_submit(j) ==
    /\ j \notin Submitted
    /\ \A k \in Jobs : k < j => k \in Submitted
    /\ create_job(j)
    /\ UNCHANGED <<localVars, sweepVars, fileVars, handed, faults>>

-----------------------------------------------------------------------------
(* handle_claim *)

handle_claim(p, n, t) ==
    /\ pc[p] = "idle"
    /\ Registered(n)
    /\ claim_task(n, t)
    /\ Goto(p, "read_bundle")
    /\ task' = [task EXCEPT ![p] = t]
    /\ node' = [node EXCEPT ![p] = n]
    /\ UNCHANGED <<job, todo, pay, sweepVars, fileVars, handed, faults>>

\* The bundle is read and the reply sent.  It may get lost: then the worker
\* just never reports.
claim_reply(p) ==
    /\ pc[p] = "read_bundle"
    /\ handed' = handed \cup {<<node[p], task[p]>>}
    /\ Leave(p)
    /\ UNCHANGED <<storeVars, sweepVars, fileVars, faults>>

\* The bundle is unreadable or over the size cap.
claim_requeue(p) ==
    /\ FileErrors
    /\ pc[p] = "read_bundle"
    /\ requeue_task(task[p])
    /\ Leave(p)
    /\ UNCHANGED <<sweepVars, fileVars, handed, faults>>

-----------------------------------------------------------------------------
(* handle_result *)

\* A worker reports a task it was sent, any number of times.  The checks on
\* the task row; ok is the outcome the worker claims, an envelope that
\* decodes included.
handle_result(p, n, t, ok) ==
    /\ pc[p] = "idle"
    /\ Registered(n)
    /\ <<n, t>> \in handed
    /\ tasks[t].assignee = n
    /\ Live(t)
    /\ Goto(p, IF ok THEN "open_envelope" ELSE "finish_failed")
    /\ task' = [task EXCEPT ![p] = t]
    /\ node' = [node EXCEPT ![p] = n]
    /\ UNCHANGED <<storeVars, job, todo, pay, sweepVars, fileVars, handed, faults>>

\* write_file opens with ios::trunc: until the last byte is out a reader
\* finds no readable envelope.
open_envelope(p) ==
    /\ pc[p] = "open_envelope"
    /\ envelope' = [envelope EXCEPT ![task[p]] = [kind |-> "torn", by |-> NoNode]]
    /\ Goto(p, "write_envelope")
    /\ UNCHANGED <<storeVars, job, task, node, todo, pay, sweepVars, published, handed, faults>>

\* While a second request writes the same file it is not whole yet.
write_envelope(p, kind) ==
    /\ pc[p] = "write_envelope"
    /\ envelope' = [envelope EXCEPT ![task[p]] =
                      IF \E q \in Procs \ {p} : /\ pc[q] = "write_envelope"
                                                /\ task[q] = task[p]
                      THEN [kind |-> "torn", by |-> NoNode]
                      ELSE [kind |-> kind, by |-> node[p]]]
    /\ Goto(p, "finish_done")
    /\ UNCHANGED <<storeVars, job, task, node, todo, pay, sweepVars, published, handed, faults>>

\* The directory or the file cannot be written: 500, and the row stays.
write_envelope_fails(p) ==
    /\ FileErrors
    /\ pc[p] \in {"open_envelope", "write_envelope"}
    /\ Leave(p)
    /\ UNCHANGED <<storeVars, sweepVars, fileVars, handed, faults>>

finish_result(p) ==
    /\ pc[p] \in {"finish_done", "finish_failed"}
    /\ finish_task(task[p], pc[p] = "finish_done")
    /\ Goto(p, "job")
    /\ job' = [job EXCEPT ![p] = JobOf(task[p])]
    /\ task' = [task EXCEPT ![p] = NoTask]
    /\ node' = [node EXCEPT ![p] = NoNode]
    /\ UNCHANGED <<todo, pay, sweepVars, fileVars, handed, faults>>

-----------------------------------------------------------------------------
(* Grid::maybe_finalize *)

read_job(p) ==
    /\ pc[p] = "job"
    /\ \/ /\ Open(job[p])
          /\ Goto(p, "task_counts")
          /\ UNCHANGED <<job, task, node, todo, pay>>
       \/ /\ ~Open(job[p])
          /\ Leave(p)
    /\ UNCHANGED <<storeVars, sweepVars, fileVars, handed, faults>>

\* Mutant of task_counts: goes on as soon as one replica is done.
task_counts_any_done(p) ==
    /\ pc[p] = "task_counts"
    /\ \/ /\ SomeDone(job[p])
          /\ Goto(p, "claim_done")
          /\ UNCHANGED <<job, task, node, todo, pay>>
       \/ /\ ~SomeDone(job[p])
          /\ Leave(p)
    /\ UNCHANGED <<storeVars, sweepVars, fileVars, handed, faults>>

\* counts.done is remembered for after the claim.
task_counts(p) ==
    /\ pc[p] = "task_counts"
    /\ \/ /\ NoneLive(job[p])
          /\ Goto(p, IF SomeDone(job[p]) THEN "claim_done" ELSE "claim_failed")
          /\ UNCHANGED <<job, task, node, todo, pay>>
       \/ /\ ~NoneLive(job[p])
          /\ Leave(p)
    /\ UNCHANGED <<storeVars, sweepVars, fileVars, handed, faults>>

\* Mutant of claim: `claimed` is not looked at.
claim_unread(p) ==
    /\ pc[p] \in {"claim_done", "claim_failed"}
    /\ \/ claim_finalization(job[p])
       \/ ~Open(job[p]) /\ UNCHANGED storeVars
    /\ Goto(p, IF pc[p] = "claim_done" THEN "tasks_for_job" ELSE "close_failed")
    /\ UNCHANGED <<job, task, node, todo, pay, sweepVars, fileVars, handed, faults>>

claim(p) ==
    /\ pc[p] \in {"claim_done", "claim_failed"}
    /\ \/ /\ claim_finalization(job[p])
          /\ Goto(p, IF pc[p] = "claim_done" THEN "tasks_for_job" ELSE "close_failed")
          /\ UNCHANGED <<job, task, node, todo, pay>>
       \/ /\ ~Open(job[p])
          /\ Leave(p)
          /\ UNCHANGED storeVars
    /\ UNCHANGED <<sweepVars, fileVars, handed, faults>>

close_failed(p) ==
    /\ pc[p] = "close_failed"
    /\ update_job(job[p], "failed")
    /\ Leave(p)
    /\ UNCHANGED <<sweepVars, fileVars, handed, faults>>

-----------------------------------------------------------------------------
(* Grid::finalize *)

\* The snapshot of the job's tasks; kept of it is who may be paid for what.
finalize_tasks(p) ==
    /\ pc[p] = "tasks_for_job"
    /\ pay' = [pay EXCEPT ![p] =
                 {<<t, tasks[t].assignee>> :
                    t \in {u \in TasksOf(job[p]) :
                             /\ tasks[u].status = "done"
                             /\ tasks[u].assignee # NoNode}}]
    /\ Goto(p, "write_result")
    /\ UNCHANGED <<storeVars, job, task, node, todo, sweepVars, fileVars, handed, faults>>

\* Mutant of finalize_write: no contributor, no result.
finalize_write_if_any(p) ==
    /\ pc[p] = "write_result"
    /\ pay' = [pay EXCEPT ![p] = {c \in pay[p] : envelope[c[1]].kind = "grads"}]
    /\ published' = IF pay'[p] = {} THEN published ELSE published \cup {job[p]}
    /\ Goto(p, "add_credit")
    /\ UNCHANGED <<storeVars, job, task, node, todo, sweepVars, envelope, handed, faults>>

\* The envelopes are read, a replica without readable gradients is dropped,
\* and aggregate.env and result.json are written.
\* When the disk refuses them the code goes on all the same.
finalize_write(p) ==
    /\ pc[p] = "write_result"
    /\ pay' = [pay EXCEPT ![p] = {c \in pay[p] : envelope[c[1]].kind = "grads"}]
    /\ \/ published' = published \cup {job[p]}
       \/ FileErrors /\ UNCHANGED published
    /\ Goto(p, "add_credit")
    /\ UNCHANGED <<storeVars, job, task, node, todo, sweepVars, envelope, handed, faults>>

\* One contributor, in task order.
finalize_pay(p, c) ==
    /\ pc[p] = "add_credit"
    /\ c \in pay[p]
    /\ \A d \in pay[p] : ~Before(d[1], c[1])
    /\ add_credit(c[2], c[1])
    /\ pay' = [pay EXCEPT ![p] = pay[p] \ {c}]
    /\ UNCHANGED <<pc, job, task, node, todo, sweepVars, fileVars, handed, faults>>

finalize_paid(p) ==
    /\ pc[p] = "add_credit"
    /\ pay[p] = {}
    /\ Goto(p, "close_done")
    /\ UNCHANGED <<storeVars, job, task, node, todo, pay, sweepVars, fileVars, handed, faults>>

finalize_close(p) ==
    /\ pc[p] = "close_done"
    /\ update_job(job[p], "completed")
    /\ Leave(p)
    /\ UNCHANGED <<sweepVars, fileVars, handed, faults>>

-----------------------------------------------------------------------------
(* handle_cancel *)

handle_cancel(p, j) ==
    /\ pc[p] = "idle"
    /\ Open(j)
    /\ Goto(p, "cancel_tasks")
    /\ job' = [job EXCEPT ![p] = j]
    /\ UNCHANGED <<storeVars, task, node, todo, pay, sweepVars, fileVars, handed, faults>>

\* Mutant of cancel_tasks: the snapshot takes the queued tasks only.
cancel_tasks_queued_only(p) ==
    /\ pc[p] = "cancel_tasks"
    /\ todo' = [todo EXCEPT ![p] = {t \in TasksOf(job[p]) : tasks[t].status = "queued"}]
    /\ Goto(p, "cancel_task")
    /\ UNCHANGED <<storeVars, job, task, node, pay, sweepVars, fileVars, handed, faults>>

cancel_tasks(p) ==
    /\ pc[p] = "cancel_tasks"
    /\ todo' = [todo EXCEPT ![p] = {t \in TasksOf(job[p]) : Live(t)}]
    /\ Goto(p, "cancel_task")
    /\ UNCHANGED <<storeVars, job, task, node, pay, sweepVars, fileVars, handed, faults>>

cancel_task(p, t) ==
    /\ pc[p] = "cancel_task"
    /\ IsFirst(t, todo[p])
    /\ finish_task(t, FALSE)
    /\ todo' = [todo EXCEPT ![p] = todo[p] \ {t}]
    /\ UNCHANGED <<pc, job, task, node, pay, sweepVars, fileVars, handed, faults>>

\* The job row may have changed since handle_cancel read it.
cancel_close(p) ==
    /\ pc[p] = "cancel_task"
    /\ todo[p] = {}
    /\ update_job(job[p], "cancelled")
    /\ Leave(p)
    /\ UNCHANGED <<sweepVars, fileVars, handed, faults>>

-----------------------------------------------------------------------------
(* Grid::reap, on the maintenance thread *)

reap_expire ==
    /\ pc[Reaper] = "idle"
    /\ expire_nodes
    /\ Goto(Reaper, "jobs")
    /\ UNCHANGED <<job, task, node, todo, pay, sweepVars, fileVars, handed, faults>>

reap_jobs ==
    /\ pc[Reaper] = "jobs"
    /\ sweep' = NewestJobs(SweepLimit)
    /\ seenFin' = {j \in sweep' : jobs[j].status = "finalizing"}
    /\ seenAged' = {j \in seenFin' : jobs[j].aged}
    /\ Goto(Reaper, "sweep")
    /\ UNCHANGED <<storeVars, job, task, node, todo, pay, fileVars, handed, faults>>

\* Mutants of reap_visit: the age of a 'finalizing' row is not looked at; such
\* a row is always passed over.
reap_visit_any_age(j) ==
    /\ pc[Reaper] = "sweep"
    /\ j \in sweep
    /\ \A k \in sweep : k <= j
    /\ sweep' = sweep \ {j}
    /\ seenFin' = seenFin \ {j}
    /\ seenAged' = seenAged \ {j}
    /\ \/ /\ j \in seenFin
          /\ update_job(j, "running")
          /\ UNCHANGED localVars
       \/ /\ j \notin seenFin
          /\ Goto(Reaper, "job")
          /\ job' = [job EXCEPT ![Reaper] = j]
          /\ UNCHANGED <<storeVars, task, node, todo, pay>>
    /\ UNCHANGED <<fileVars, handed, faults>>
reap_visit_no_retry(j) ==
    /\ pc[Reaper] = "sweep"
    /\ j \in sweep
    /\ \A k \in sweep : k <= j
    /\ sweep' = sweep \ {j}
    /\ seenFin' = seenFin \ {j}
    /\ seenAged' = seenAged \ {j}
    /\ \/ /\ j \in seenFin
          /\ UNCHANGED <<storeVars, localVars>>
       \/ /\ j \notin seenFin
          /\ Goto(Reaper, "job")
          /\ job' = [job EXCEPT ![Reaper] = j]
          /\ UNCHANGED <<storeVars, task, node, todo, pay>>
    /\ UNCHANGED <<fileVars, handed, faults>>

\* The next job of the snapshot, newest first.  A job seen in 'finalizing'
\* is put back to 'running' when its updated_ts, as read, is over 30 s old;
\* any other job goes through maybe_finalize.
reap_visit(j) ==
    /\ pc[Reaper] = "sweep"
    /\ j \in sweep
    /\ \A k \in sweep : k <= j
    /\ sweep' = sweep \ {j}
    /\ seenFin' = seenFin \ {j}
    /\ seenAged' = seenAged \ {j}
    /\ \/ /\ j \in seenAged
          /\ update_job(j, "running")
          /\ UNCHANGED localVars
       \/ /\ j \in seenFin \ seenAged
          /\ UNCHANGED <<storeVars, localVars>>
       \/ /\ j \notin seenFin
          /\ Goto(Reaper, "job")
          /\ job' = [job EXCEPT ![Reaper] = j]
          /\ UNCHANGED <<storeVars, task, node, todo, pay>>
    /\ UNCHANGED <<fileVars, handed, faults>>

reap_done ==
    /\ pc[Reaper] = "sweep"
    /\ sweep = {}
    /\ Goto(Reaper, "idle")
    /\ UNCHANGED <<storeVars, job, task, node, todo, pay, sweepVars, fileVars, handed, faults>>

-----------------------------------------------------------------------------
(* Time and faults *)

\* last_heartbeat_ts falls behind the node-ttl cutoff.
node_goes_quiet(n) ==
    /\ Registered(n)
    /\ ~nodes[n].quiet
    /\ nodes' = [nodes EXCEPT ![n] = [status |-> nodes[n].status, quiet |-> TRUE]]
    /\ UNCHANGED <<jobs, tasks, ledger, localVars, sweepVars, fileVars, handed, faults>>

\* p owns the aggregate of job j: it made the claim and has not closed it.
Owns(p, j) == pc[p] \in FinalizePC \cup {"close_failed"} /\ job[p] = j

\* A row has been in 'finalizing' for over 30 s.  With its owner alive that
\* takes a stall.  The reaper's copy of the row is no younger.
job_ages(j) ==
    /\ jobs[j].status = "finalizing"
    /\ ~jobs[j].aged
    /\ \/ /\ \A p \in Procs : ~Owns(p, j)
          /\ UNCHANGED faults
       \/ /\ \E p \in Procs : Owns(p, j)
          /\ CanStall
          /\ faults < MaxFaults
          /\ faults' = faults + 1
    /\ jobs' = [jobs EXCEPT ![j] = [status |-> "finalizing", aged |-> TRUE]]
    /\ seenAged' = seenAged \cup ({j} \cap seenFin)
    /\ UNCHANGED <<nodes, tasks, ledger, localVars, sweep, seenFin, fileVars, handed>>

\* The sweep has been busy with other jobs for over 30 s since it read j.
sweep_ages(j) ==
    /\ CanStall
    /\ faults < MaxFaults
    /\ j \in seenFin \ seenAged
    /\ seenAged' = seenAged \cup {j}
    /\ faults' = faults + 1
    /\ UNCHANGED <<storeVars, localVars, sweep, seenFin, fileVars, handed>>

\* The process dies and is started again: the tables and the files stay,
\* the threads are gone.  Store::open repairs nothing.
crash ==
    /\ CanCrash
    /\ faults < MaxFaults
    /\ faults' = faults + 1
    /\ pc' = [p \in Procs |-> "idle"]
    /\ job' = [p \in Procs |-> NoJob]
    /\ task' = [p \in Procs |-> NoTask]
    /\ node' = [p \in Procs |-> NoNode]
    /\ todo' = [p \in Procs |-> {}]
    /\ pay' = [p \in Procs |-> {}]
    /\ sweep' = {}
    /\ seenFin' = {}
    /\ seenAged' = {}
    /\ UNCHANGED <<storeVars, fileVars, handed>>

-----------------------------------------------------------------------------

Request(p) ==
    \/ \E n \in Nodes, t \in Tasks :
          \/ handle_claim(p, n, t)
          \/ \E ok \in BOOLEAN : handle_result(p, n, t, ok)
    \/ \E j \in Jobs : handle_cancel(p, j)

Step(p) ==
    \/ claim_reply(p) \/ claim_requeue(p)
    \/ open_envelope(p) \/ write_envelope_fails(p) \/ finish_result(p)
    \/ \E kind \in {"empty", "grads"} : write_envelope(p, kind)
    \/ read_job(p) \/ task_counts(p) \/ claim(p) \/ close_failed(p)
    \/ finalize_tasks(p) \/ finalize_write(p) \/ finalize_paid(p) \/ finalize_close(p)
    \/ \E c \in pay[p] : finalize_pay(p, c)
    \/ cancel_tasks(p) \/ cancel_close(p)
    \/ \E t \in todo[p] : cancel_task(p, t)

Reap ==
    \/ reap_expire \/ reap_jobs \/ reap_done
    \/ \E j \in Jobs : reap_visit(j)

Environment ==
    \/ \E n \in Nodes : \/ handle_register(n) \/ handle_heartbeat(n)
                        \/ handle_bye(n) \/ node_goes_quiet(n)
    \/ \E j \in Jobs : handle_submit(j) \/ job_ages(j) \/ sweep_ages(j)
    \/ crash

Next ==
    \/ \E p \in Threads : Request(p)
    \/ \E p \in Procs : Step(p)
    \/ Reap
    \/ Environment

Spec == Init /\ [][Next]_vars

\* A thread that runs is scheduled, the maintenance loop goes on, and time
\* passes.  No request ever has to come.
Fairness ==
    /\ \A p \in Procs : WF_vars(Step(p))
    /\ WF_vars(Reap)
    /\ \A j \in Jobs : WF_vars(job_ages(j))

FairSpec == Spec /\ Fairness

-----------------------------------------------------------------------------
(* Properties *)

\* A queued row is free and still has an attempt left; an assigned row names
\* a registered node and counts the attempt it is in.  claim_task,
\* expire_nodes and the unguarded requeue_task and finish_task all write
\* these columns, from threads that read the row earlier.
TaskRowsConsistent ==
    \A t \in Tasks :
      LET row == tasks[t] IN
      /\ row.status = "queued" => row.assignee = NoNode /\ row.attempts < MaxAttempts
      /\ row.status = "assigned" => /\ row.assignee \in Nodes
                                    /\ Registered(row.assignee)
                                    /\ row.attempts \in 1..MaxAttempts

\* Once a job is closed none of its tasks is queued or assigned any more: no
\* worker trains for a closed job, and no row is left that nobody will ever
\* claim.  It rests on maybe_finalize's counts still being true when it
\* claims, and on handle_cancel's snapshot missing no task.  Only while the
\* job's bundle stays readable, for handle_claim requeues a task whatever has
\* become of it meanwhile.
ClosedJobHasNoLiveTask == \A j \in Jobs : Closed(j) => NoneLive(j)

\* At most one thread owns the aggregate and the payments of a job, as the
\* comment on claim_finalization says, if no finalization lasts 30 s.
OneOwner ==
    \A j \in Jobs : \A p, q \in Procs : Owns(p, j) /\ Owns(q, j) => p = q

\* A replica is paid for at most once, if the coordinator neither dies nor
\* stalls while it finalizes.
PaidOnce ==
    \A i, k \in 1..Len(ledger) : ledger[i].task = ledger[k].task => i = k

\* A crash, or a finalization that outlasts the sweep's patience, costs at most
\* one more payment of a replica: whoever pays has made a claim, and a job is
\* claimed again only after such a fault.
PaidPerFault ==
    \A t \in Tasks :
      Cardinality({i \in 1..Len(ledger) : ledger[i].task = t}) <= 1 + faults

\* Credits and 'completed' come after the result is on disk, so that a crash
\* in between leaves a job that is finalized again, never one that claims a
\* result it does not have.  Only while the disk takes the result: finalize
\* does not look at what write_file returns.
ResultComesFirst ==
    /\ \A j \in Jobs : jobs[j].status = "completed" => j \in published
    /\ \A i \in 1..Len(ledger) : JobOf(ledger[i].task) \in published

\* A closed job is never put back into queued, running or finalizing: not by
\* the sweep's copy of an old row, not by a claim, not by a late result.
ClosedStaysClosed ==
    [][\A j \in Jobs : Closed(j) => Closed(j)']_vars

\* A job whose replicas have all reported gets closed, even when the thread
\* that was finalizing it died with the process.
ExhaustedJobCloses ==
    \A j \in Jobs : j \in Submitted /\ NoneLive(j) ~> Closed(j) \/ ~NoneLive(j)

\* A node that stays silent past the ttl does not keep its task.
SilentNodeLosesTask ==
    \A n \in Nodes, t \in Tasks :
      (tasks[t].status = "assigned" /\ tasks[t].assignee = n /\ nodes[n].quiet)
        ~> (tasks[t].status # "assigned" \/ tasks[t].assignee # n \/ ~nodes[n].quiet)

\* docs/architecture.md: "a cancelled job never reopens and never writes a
\* result".
CancelIsFinal ==
    [][\A j \in Jobs : jobs[j].status = "cancelled" =>
          /\ jobs'[j].status = "cancelled"
          /\ j \in published' => j \in published]_vars

\* The comment in Grid::finalize: "A worker that trained a replica is paid
\* even when a different replica crashed".
TrainedReplicaIsPaid ==
    \A t \in Tasks :
      /\ jobs[JobOf(t)].status = "completed"
      /\ tasks[t].status = "done"
      /\ envelope[t].kind = "grads"
      => \E i \in 1..Len(ledger) :
           ledger[i] = [node |-> envelope[t].by, task |-> t]

=============================================================================
