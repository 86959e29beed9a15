-------------------------- MODULE CoordinatorProofs --------------------------
(***************************************************************************)
(* What holds of Coordinator for any number of nodes, threads, jobs,       *)
(* replicas, attempts and faults.                                          *)
(*                                                                         *)
(* TypeInv, the types and the consistency of the task rows, and            *)
(* SubmittedInv, that no thread works on a job that does not exist yet,    *)
(* are inductive without any assumption.  Each of the other properties has *)
(* an inductive invariant of its own on top of these two:                  *)
(*   LiveInv       once task_counts has found no live task of a job there  *)
(*                 never is one again, so what a finalizer counted before  *)
(*                 its claim still holds after it;                         *)
(*   OwnerInv      an owned job is 'finalizing' or was cancelled behind    *)
(*                 its owner's back, and only a 'finalizing' row nobody    *)
(*                 owns grows old enough for the sweep to reopen;          *)
(*   PayInv        a finalizer's list holds each replica of its job once;  *)
(*   PublishedInv  a finalizer that pays or closes has written its result; *)
(*   PaymentInv    a paid replica's job is past claiming, and whoever owns *)
(*                 it has that replica no longer on its list;              *)
(*   BudgetInv     the payments of a replica, the threads that may still   *)
(*                 pay it, and one if its job can be claimed once more     *)
(*                 without a fault, are at most one more than the faults.  *)
(* The first section shows that the methods of Store keep the tables       *)
(* consistent; then every invariant has one lemma per part of Next.        *)
(***************************************************************************)
EXTENDS Coordinator, FiniteSetTheorems, TLAPS

USE DEF Procs

StoreInv == StoreTypeOK /\ TaskRowsConsistent

\* Which thread-local arguments are set at which call.
TaskPC == {"read_bundle", "open_envelope", "write_envelope", "finish_done", "finish_failed"}
JobPC == {"job", "task_counts", "claim_done", "claim_failed", "close_failed",
          "cancel_tasks", "cancel_task"} \cup FinalizePC

ArgsOK ==
    \A p \in Procs :
      /\ pc[p] \in TaskPC => task[p] \in Tasks /\ node[p] \in Nodes
      /\ pc[p] \in JobPC => job[p] \in Jobs

\* A task id names the job it belongs to.
LEMMA TaskShape ==
    ASSUME NEW t \in Tasks
    PROVE  JobOf(t) \in Jobs
BY DEF Tasks, JobOf

\* What expire_nodes and requeue_task write back is a legal row: free, and
\* queued again only while an attempt is left.
LEMMA ReleasedRow ==
    ASSUME NEW row \in TaskRow
    PROVE  /\ Released(row) \in TaskRow
           /\ Released(row).assignee = NoNode
           /\ Released(row).status \in {"queued", "failed"}
           /\ Released(row).status = "queued" => row.attempts < MaxAttempts
           /\ Released(row).attempts = row.attempts
BY DEF Released, TaskRow, TaskStatus

\* upsert_node (a registration) keeps the tables consistent.
LEMMA UpsertNode ==
    ASSUME NEW n \in Nodes, StoreInv, upsert_node(n)
    PROVE  StoreInv'
BY DEF StoreInv, StoreTypeOK, TaskRowsConsistent, Registered, upsert_node, NodeRow

\* heartbeat keeps the tables consistent, whatever status it reports.
LEMMA Heartbeat ==
    ASSUME NEW n \in Nodes, NEW s \in {"online", "offline"}, StoreInv, heartbeat(n, s)
    PROVE  StoreInv'
BY DEF StoreInv, StoreTypeOK, TaskRowsConsistent, Registered, heartbeat, NodeRow

\* expire_nodes keeps the tables consistent: what it releases is a ReleasedRow.
LEMMA ExpireNodes ==
    ASSUME StoreInv, expire_nodes
    PROVE  StoreInv'
<1>1. nodes' \in [Nodes -> NodeRow] /\ \A n \in Nodes : Registered(n) => Registered(n)'
  BY DEF StoreInv, StoreTypeOK, expire_nodes, NodeRow, Registered
<1>2. tasks' \in [Tasks -> TaskRow]
  BY ReleasedRow DEF StoreInv, StoreTypeOK, expire_nodes
<1>3. TaskRowsConsistent'
  BY <1>1, ReleasedRow DEF StoreInv, StoreTypeOK, expire_nodes, TaskRowsConsistent
<1> QED
  BY <1>1, <1>2, <1>3 DEF StoreInv, StoreTypeOK, expire_nodes

\* create_job keeps the tables consistent: its tasks start free and unattempted.
LEMMA CreateJob ==
    ASSUME NEW j \in Jobs, StoreInv, create_job(j)
    PROVE  StoreInv'
<1>1. jobs' \in [Jobs -> JobRow]
  BY DEF StoreInv, StoreTypeOK, create_job, JobRow, JobStatus
<1>2. tasks' \in [Tasks -> TaskRow]
  BY StoreAssumption DEF StoreInv, StoreTypeOK, create_job, TaskRow, TaskStatus
<1>3. TaskRowsConsistent'
  BY StoreAssumption DEF StoreInv, StoreTypeOK, create_job, TaskRowsConsistent, Registered
<1> QED
  BY <1>1, <1>2, <1>3 DEF StoreInv, StoreTypeOK, create_job

\* update_job keeps the tables consistent whatever status it overwrites.
LEMMA UpdateJob ==
    ASSUME NEW j \in Jobs, NEW s \in JobStatus, StoreInv, update_job(j, s)
    PROVE  StoreInv'
BY DEF StoreInv, StoreTypeOK, TaskRowsConsistent, Registered, update_job, JobRow, JobStatus

\* claim_finalization keeps the tables consistent.
LEMMA ClaimFinalization ==
    ASSUME NEW j \in Jobs, StoreInv, claim_finalization(j)
    PROVE  StoreInv'
BY DEF StoreInv, StoreTypeOK, TaskRowsConsistent, Registered, claim_finalization, JobRow, JobStatus

\* claim_task keeps the tables consistent: the row it takes was queued, so it
\* had an attempt left to count.
LEMMA ClaimTask ==
    ASSUME NEW n \in Nodes, NEW t \in Tasks, Registered(n), StoreInv, claim_task(n, t)
    PROVE  StoreInv'
<1>1. tasks[t] \in TaskRow /\ tasks[t].status = "queued" /\ tasks[t].attempts < MaxAttempts
  BY DEF claim_task, IsFirst, Claimable, StoreInv, StoreTypeOK, TaskRowsConsistent
<1>2. tasks[t].attempts + 1 \in 1..MaxAttempts
  BY <1>1, StoreAssumption DEF TaskRow
<1>3. tasks' \in [Tasks -> TaskRow]
  BY <1>2, StoreAssumption DEF StoreInv, StoreTypeOK, claim_task, TaskRow, TaskStatus
<1>4. jobs' \in [Jobs -> JobRow]
  BY TaskShape DEF StoreInv, StoreTypeOK, claim_task, JobRow, JobStatus
<1>5. TaskRowsConsistent'
  BY <1>2 DEF StoreInv, StoreTypeOK, claim_task, TaskRowsConsistent, Registered
<1> QED
  BY <1>3, <1>4, <1>5 DEF StoreInv, StoreTypeOK, claim_task

\* finish_task keeps the tables consistent although it does not look at the
\* row it overwrites.
LEMMA FinishTask ==
    ASSUME NEW t \in Tasks, NEW ok \in BOOLEAN, StoreInv, finish_task(t, ok)
    PROVE  StoreInv'
<1>1. nodes' \in [Nodes -> NodeRow] /\ \A n \in Nodes : Registered(n) => Registered(n)'
  BY DEF StoreInv, StoreTypeOK, finish_task, NodeRow, Registered
<1>2. tasks' \in [Tasks -> TaskRow]
  BY DEF StoreInv, StoreTypeOK, finish_task, TaskRow, TaskStatus
<1>3. jobs' \in [Jobs -> JobRow]
  BY TaskShape DEF StoreInv, StoreTypeOK, finish_task, JobRow, JobStatus
<1>4. TaskRowsConsistent'
  BY <1>1 DEF StoreInv, StoreTypeOK, finish_task, TaskRowsConsistent
<1> QED
  BY <1>1, <1>2, <1>3, <1>4 DEF StoreInv, StoreTypeOK, finish_task

\* requeue_task keeps the tables consistent although it does not look at the
\* row it overwrites.
LEMMA RequeueTask ==
    ASSUME NEW t \in Tasks, StoreInv, requeue_task(t)
    PROVE  StoreInv'
<1>1. tasks' \in [Tasks -> TaskRow]
  BY ReleasedRow DEF StoreInv, StoreTypeOK, requeue_task
<1>2. TaskRowsConsistent'
  BY ReleasedRow DEF StoreInv, StoreTypeOK, requeue_task, TaskRowsConsistent, Registered
<1> QED
  BY <1>1, <1>2 DEF StoreInv, StoreTypeOK, requeue_task

\* add_credit keeps the tables consistent.
LEMMA AddCredit ==
    ASSUME NEW n \in Nodes, NEW t \in Tasks, StoreInv, add_credit(n, t)
    PROVE  StoreInv'
<1>1. [node |-> n, task |-> t] \in CreditRow
  BY DEF CreditRow
<1> QED
  BY <1>1 DEF StoreInv, StoreTypeOK, TaskRowsConsistent, Registered, add_credit

-----------------------------------------------------------------------------
(* The threads' side of the type invariant *)

LocalInv == LocalTypeOK /\ FileTypeOK /\ ArgsOK

TypeInv == StoreInv /\ LocalInv

\* A handler that ends, and forgets its arguments, keeps the threads in type.
LEMMA LeaveLocals ==
    ASSUME NEW p \in Procs, LocalInv, Leave(p),
           UNCHANGED <<sweepVars, fileVars, faults>>,
           handed' \in SUBSET (Nodes \X Tasks)
    PROVE  LocalInv'
<1>1. LocalTypeOK'
  BY DEF LocalInv, LocalTypeOK, Leave, Goto, Return, PCs, sweepVars
<1>2. FileTypeOK'
  BY DEF LocalInv, FileTypeOK, fileVars
<1>3. ArgsOK'
  BY DEF LocalInv, LocalTypeOK, ArgsOK, Leave, Goto, Return, PCs, TaskPC, JobPC, FinalizePC
<1> QED
  BY <1>1, <1>2, <1>3 DEF LocalInv

\* The type invariant holds when the coordinator starts on an empty database.
THEOREM TypeInit == Init => TypeInv
<1> SUFFICES ASSUME Init PROVE TypeInv
  OBVIOUS
<1>1. StoreTypeOK
  BY StoreAssumption DEF Init, StoreInit, StoreTypeOK, NodeRow, JobRow, JobStatus, TaskRow, TaskStatus
<1>2. TaskRowsConsistent
  BY DEF Init, StoreInit, TaskRowsConsistent
<1>3. LocalTypeOK
  BY DEF Init, LocalTypeOK, PCs
<1>4. FileTypeOK
  BY CoordinatorAssumption DEF Init, FileTypeOK, Envelope
<1>5. ArgsOK
  BY DEF Init, ArgsOK, TaskPC, JobPC, FinalizePC
<1> QED
  BY <1>1, <1>2, <1>3, <1>4, <1>5 DEF TypeInv, StoreInv, LocalInv

\* Steps that do not touch the tables keep them consistent.
LEMMA StoreStutter ==
    ASSUME StoreInv, UNCHANGED storeVars
    PROVE  StoreInv'
BY DEF StoreInv, StoreTypeOK, TaskRowsConsistent, Registered, storeVars

\* The first call of a request (claim, result, cancel) keeps the type invariant.
LEMMA TypeRequest ==
    ASSUME NEW p \in Threads, TypeInv, Request(p)
    PROVE  TypeInv'
<1> USE DEF TypeInv, LocalInv, LocalTypeOK, FileTypeOK, ArgsOK, Goto, PCs,
            TaskPC, JobPC, FinalizePC, localVars, sweepVars, fileVars
<1>1. ASSUME NEW n \in Nodes, NEW t \in Tasks, handle_claim(p, n, t)
      PROVE  TypeInv'
  <2>1. StoreInv'
    BY <1>1, ClaimTask DEF handle_claim
  <2>2. LocalInv'
    BY <1>1 DEF handle_claim
  <2> QED BY <2>1, <2>2
<1>2. ASSUME NEW n \in Nodes, NEW t \in Tasks, NEW ok \in BOOLEAN, handle_result(p, n, t, ok)
      PROVE  TypeInv'
  <2>1. StoreInv'
    BY <1>2, StoreStutter DEF handle_result
  <2>2. LocalInv'
    BY <1>2 DEF handle_result
  <2> QED BY <2>1, <2>2
<1>3. ASSUME NEW j \in Jobs, handle_cancel(p, j)
      PROVE  TypeInv'
  <2>1. StoreInv'
    BY <1>3, StoreStutter DEF handle_cancel
  <2>2. LocalInv'
    BY <1>3 DEF handle_cancel
  <2> QED BY <2>1, <2>2
<1> QED
  BY <1>1, <1>2, <1>3 DEF Request

\* Every later call of a handler keeps the type invariant.
LEMMA TypeStep ==
    ASSUME NEW p \in Procs, TypeInv, Step(p)
    PROVE  TypeInv'
<1> USE DEF TypeInv, LocalInv, LocalTypeOK, FileTypeOK, ArgsOK, Goto, PCs,
            TaskPC, JobPC, FinalizePC, localVars, sweepVars, fileVars
<1>1. ASSUME claim_reply(p)
      PROVE  TypeInv'
  <2>1. StoreInv'
    BY <1>1, StoreStutter DEF claim_reply
  <2>2. LocalInv'
    BY <1>1, LeaveLocals DEF claim_reply
  <2> QED BY <2>1, <2>2
<1>2. ASSUME claim_requeue(p)
      PROVE  TypeInv'
  <2>1. StoreInv'
    BY <1>2, RequeueTask DEF claim_requeue
  <2>2. LocalInv'
    BY <1>2, LeaveLocals DEF claim_requeue
  <2> QED BY <2>1, <2>2
<1>3. ASSUME open_envelope(p)
      PROVE  TypeInv'
  <2>1. StoreInv'
    BY <1>3, StoreStutter DEF open_envelope, Envelope
  <2>2. LocalInv'
    BY <1>3 DEF open_envelope, Envelope
  <2> QED BY <2>1, <2>2
<1>4. ASSUME write_envelope_fails(p)
      PROVE  TypeInv'
  <2>1. StoreInv'
    BY <1>4, StoreStutter DEF write_envelope_fails
  <2>2. LocalInv'
    BY <1>4, LeaveLocals DEF write_envelope_fails
  <2> QED BY <2>1, <2>2
<1>5. ASSUME finish_result(p)
      PROVE  TypeInv'
  <2>1. StoreInv'
    BY <1>5, FinishTask DEF finish_result
  <2>2. LocalInv'
    BY <1>5, TaskShape DEF finish_result
  <2> QED BY <2>1, <2>2
<1>6. ASSUME NEW kind \in {"empty", "grads"}, write_envelope(p, kind)
      PROVE  TypeInv'
  <2>1. StoreInv'
    BY <1>6, StoreStutter DEF write_envelope
  <2>2. LocalInv'
    BY <1>6 DEF write_envelope, Envelope
  <2> QED BY <2>1, <2>2
<1>7. ASSUME read_job(p)
      PROVE  TypeInv'
  <2>1. StoreInv'
    BY <1>7, StoreStutter DEF read_job
  <2>2. CASE Leave(p)
    BY <1>7, <2>1, <2>2, LeaveLocals DEF read_job
  <2>3. CASE ~Leave(p)
    BY <1>7, <2>1, <2>3 DEF read_job
  <2> QED BY <2>1, <2>2, <2>3
<1>8. ASSUME task_counts(p)
      PROVE  TypeInv'
  <2>1. StoreInv'
    BY <1>8, StoreStutter DEF task_counts
  <2>2. CASE Leave(p)
    BY <1>8, <2>1, <2>2, LeaveLocals DEF task_counts
  <2>3. CASE ~Leave(p)
    BY <1>8, <2>1, <2>3 DEF task_counts
  <2> QED BY <2>1, <2>2, <2>3
<1>9. ASSUME claim(p)
      PROVE  TypeInv'
  <2>1. StoreInv'
    BY <1>9, StoreStutter, ClaimFinalization DEF claim
  <2>2. CASE Leave(p)
    BY <1>9, <2>1, <2>2, LeaveLocals DEF claim
  <2>3. CASE ~Leave(p)
    BY <1>9, <2>1, <2>3 DEF claim
  <2> QED BY <2>1, <2>2, <2>3
<1>10. ASSUME close_failed(p)
      PROVE  TypeInv'
  <2>1. StoreInv'
    BY <1>10, UpdateJob DEF close_failed, JobStatus
  <2>2. LocalInv'
    BY <1>10, LeaveLocals DEF close_failed
  <2> QED BY <2>1, <2>2
<1>11. ASSUME finalize_tasks(p)
      PROVE  TypeInv'
  <2>1. StoreInv'
    BY <1>11, StoreStutter DEF finalize_tasks
  <2>2. pay' \in [Procs -> SUBSET (Tasks \X Nodes)]
    BY <1>11 DEF finalize_tasks, StoreInv, StoreTypeOK, TaskRow, TasksOf
  <2>3. LocalInv'
    BY <1>11, <2>2 DEF finalize_tasks
  <2> QED BY <2>1, <2>3
<1>12. ASSUME finalize_write(p)
      PROVE  TypeInv'
  <2>1. StoreInv'
    BY <1>12, StoreStutter DEF finalize_write
  <2>2. LocalInv'
    BY <1>12 DEF finalize_write
  <2> QED BY <2>1, <2>2
<1>13. ASSUME finalize_paid(p)
      PROVE  TypeInv'
  <2>1. StoreInv'
    BY <1>13, StoreStutter DEF finalize_paid
  <2>2. LocalInv'
    BY <1>13 DEF finalize_paid
  <2> QED BY <2>1, <2>2
<1>14. ASSUME finalize_close(p)
      PROVE  TypeInv'
  <2>1. StoreInv'
    BY <1>14, UpdateJob DEF finalize_close, JobStatus
  <2>2. LocalInv'
    BY <1>14, LeaveLocals DEF finalize_close
  <2> QED BY <2>1, <2>2
<1>15. ASSUME NEW c \in pay[p], finalize_pay(p, c)
      PROVE  TypeInv'
  <2>1. StoreInv'
    BY <1>15, AddCredit DEF finalize_pay
  <2>2. LocalInv'
    BY <1>15 DEF finalize_pay
  <2> QED BY <2>1, <2>2
<1>16. ASSUME cancel_tasks(p)
      PROVE  TypeInv'
  <2>1. StoreInv'
    BY <1>16, StoreStutter DEF cancel_tasks
  <2>2. LocalInv'
    BY <1>16 DEF cancel_tasks, TasksOf
  <2> QED BY <2>1, <2>2
<1>17. ASSUME cancel_close(p)
      PROVE  TypeInv'
  <2>1. StoreInv'
    BY <1>17, UpdateJob DEF cancel_close, JobStatus
  <2>2. LocalInv'
    BY <1>17, LeaveLocals DEF cancel_close
  <2> QED BY <2>1, <2>2
<1>18. ASSUME NEW t \in todo[p], cancel_task(p, t)
      PROVE  TypeInv'
  <2>1. StoreInv'
    BY <1>18, FinishTask DEF cancel_task
  <2>2. LocalInv'
    BY <1>18 DEF cancel_task
  <2> QED BY <2>1, <2>2
<1> QED
  BY <1>1, <1>2, <1>3, <1>4, <1>5, <1>6, <1>7, <1>8, <1>9, <1>10, <1>11, <1>12, <1>13, <1>14, <1>15, <1>16, <1>17, <1>18 DEF Step

\* The calls of the maintenance thread keep the type invariant.
LEMMA TypeReap ==
    ASSUME TypeInv, Reap
    PROVE  TypeInv'
<1> USE DEF TypeInv, LocalInv, LocalTypeOK, FileTypeOK, ArgsOK, Goto, PCs,
            TaskPC, JobPC, FinalizePC, localVars, sweepVars, fileVars
<1>1. ASSUME reap_expire
      PROVE  TypeInv'
  <2>1. StoreInv'
    BY <1>1, ExpireNodes DEF reap_expire
  <2>2. LocalInv'
    BY <1>1 DEF reap_expire
  <2> QED BY <2>1, <2>2
<1>2. ASSUME reap_jobs
      PROVE  TypeInv'
  <2>1. StoreInv'
    BY <1>2, StoreStutter DEF reap_jobs
  <2>2. LocalInv'
    BY <1>2 DEF reap_jobs, NewestJobs, Submitted
  <2> QED BY <2>1, <2>2
<1>3. ASSUME reap_done
      PROVE  TypeInv'
  <2>1. StoreInv'
    BY <1>3, StoreStutter DEF reap_done
  <2>2. LocalInv'
    BY <1>3 DEF reap_done
  <2> QED BY <2>1, <2>2
<1>4. ASSUME NEW j \in Jobs, reap_visit(j)
      PROVE  TypeInv'
  <2>1. StoreInv'
    BY <1>4, StoreStutter, UpdateJob DEF reap_visit, JobStatus
  <2>2. LocalInv'
    BY <1>4 DEF reap_visit
  <2> QED BY <2>1, <2>2
<1> QED
  BY <1>1, <1>2, <1>3, <1>4 DEF Reap

\* One-call requests, time, stalls and crashes keep the type invariant.
LEMMA TypeEnvironment ==
    ASSUME TypeInv, Environment
    PROVE  TypeInv'
<1> USE DEF TypeInv, LocalInv, LocalTypeOK, FileTypeOK, ArgsOK, Goto, PCs,
            TaskPC, JobPC, FinalizePC, localVars, sweepVars, fileVars
<1>1. ASSUME NEW n \in Nodes, handle_register(n)
      PROVE  TypeInv'
  <2>1. StoreInv'
    BY <1>1, UpsertNode DEF handle_register
  <2>2. LocalInv'
    BY <1>1 DEF handle_register
  <2> QED BY <2>1, <2>2
<1>2. ASSUME NEW n \in Nodes, handle_heartbeat(n)
      PROVE  TypeInv'
  <2>1. StoreInv'
    BY <1>2, Heartbeat DEF handle_heartbeat
  <2>2. LocalInv'
    BY <1>2 DEF handle_heartbeat
  <2> QED BY <2>1, <2>2
<1>3. ASSUME NEW n \in Nodes, handle_bye(n)
      PROVE  TypeInv'
  <2>1. StoreInv'
    BY <1>3, Heartbeat DEF handle_bye
  <2>2. LocalInv'
    BY <1>3 DEF handle_bye
  <2> QED BY <2>1, <2>2
<1>4. ASSUME NEW n \in Nodes, node_goes_quiet(n)
      PROVE  TypeInv'
  <2>1. StoreInv'
    BY <1>4 DEF node_goes_quiet, StoreInv, StoreTypeOK, NodeRow, TaskRowsConsistent, Registered
  <2>2. LocalInv'
    BY <1>4 DEF node_goes_quiet
  <2> QED BY <2>1, <2>2
<1>5. ASSUME NEW j \in Jobs, handle_submit(j)
      PROVE  TypeInv'
  <2>1. StoreInv'
    BY <1>5, CreateJob DEF handle_submit
  <2>2. LocalInv'
    BY <1>5 DEF handle_submit
  <2> QED BY <2>1, <2>2
<1>6. ASSUME NEW j \in Jobs, job_ages(j)
      PROVE  TypeInv'
  <2>1. StoreInv'
    BY <1>6 DEF job_ages, StoreInv, StoreTypeOK, JobRow, JobStatus, TaskRowsConsistent, Registered
  <2>2. LocalInv'
    BY <1>6, CoordinatorAssumption DEF job_ages
  <2> QED BY <2>1, <2>2
<1>7. ASSUME NEW j \in Jobs, sweep_ages(j)
      PROVE  TypeInv'
  <2>1. StoreInv'
    BY <1>7, StoreStutter DEF sweep_ages
  <2>2. LocalInv'
    BY <1>7, CoordinatorAssumption DEF sweep_ages
  <2> QED BY <2>1, <2>2
<1>8. ASSUME crash
      PROVE  TypeInv'
  <2>1. StoreInv'
    BY <1>8, StoreStutter DEF crash
  <2>2. LocalInv'
    BY <1>8, CoordinatorAssumption DEF crash
  <2> QED BY <2>1, <2>2
<1> QED
  BY <1>1, <1>2, <1>3, <1>4, <1>5, <1>6, <1>7, <1>8 DEF Environment

\* Every step of the coordinator keeps the type invariant.
LEMMA TypeNext == TypeInv /\ [Next]_vars => TypeInv'
<1> SUFFICES ASSUME TypeInv, [Next]_vars PROVE TypeInv'
  OBVIOUS
<1>1. CASE Next
  BY <1>1, TypeRequest, TypeStep, TypeReap, TypeEnvironment DEF Next
<1>2. CASE UNCHANGED vars
  <2>1. StoreInv'
    BY <1>2, StoreStutter DEF vars, TypeInv
  <2>2. LocalInv'
    BY <1>2 DEF vars, localVars, sweepVars, fileVars, TypeInv, LocalInv,
                LocalTypeOK, FileTypeOK, ArgsOK
  <2> QED BY <2>1, <2>2 DEF TypeInv
<1> QED
  BY <1>1, <1>2

-----------------------------------------------------------------------------
(* Rows that exist *)

\* Whatever a thread still works on has been submitted, so that create_job,
\* the only step that makes tasks live, never touches it.
SubmittedInv ==
    /\ \A t \in Tasks : tasks[t].status # "absent" => JobOf(t) \in Submitted
    /\ \A p \in Procs :
         /\ pc[p] \in TaskPC => JobOf(task[p]) \in Submitted
         /\ pc[p] \in JobPC => job[p] \in Submitted
         /\ \A t \in todo[p] : JobOf(t) \in Submitted
    /\ sweep \subseteq Submitted
    /\ seenFin \subseteq sweep
    /\ seenAged \subseteq seenFin

(* No live task in a closed job *)

\* The calls made on the strength of task_counts having found nothing live.
CountedPC == {"claim_done", "claim_failed", "close_failed"} \cup FinalizePC

LiveInv ==
    /\ \A j \in Jobs : Closed(j) \/ jobs[j].status = "finalizing" => NoneLive(j)
    /\ \A p \in Procs :
         /\ pc[p] \in CountedPC => NoneLive(job[p])
         /\ pc[p] = "cancel_task" =>
               \A t \in TasksOf(job[p]) : Live(t) => t \in todo[p]

(* One owner per finalization *)

Cancelling(p, j) == pc[p] \in {"cancel_tasks", "cancel_task"} /\ job[p] = j
Orphan(j) == jobs[j].status = "finalizing" /\ \A p \in Procs : ~Owns(p, j)

OwnerRow(j) ==
    /\ \A p \in Procs : Owns(p, j) => jobs[j].status \in {"finalizing", "cancelled"}
    /\ Orphan(j) => \A p \in Procs : ~Cancelling(p, j)
    /\ jobs[j].aged => Orphan(j)
    /\ j \in seenAged => Orphan(j)

OwnerInv == OneOwner /\ \A j \in Jobs : OwnerRow(j)

(* Who is still to be paid *)

PayInv ==
    \A p \in Procs :
      /\ pc[p] \notin FinalizePC => pay[p] = {}
      /\ \A c \in pay[p] : JobOf(c[1]) = job[p]
      /\ \A c, d \in pay[p] : c[1] = d[1] => c = d

(* The result comes before the credit *)

PublishedInv ==
    /\ ResultComesFirst
    /\ \A p \in Procs : pc[p] \in {"add_credit", "close_done"} => job[p] \in published

(* One payment per replica *)

Settled == {"finalizing", "completed", "failed", "cancelled"}
OwnerPC == FinalizePC \cup {"close_failed"}

PaidRow(i) ==
    LET t == ledger[i].task IN
      /\ jobs[JobOf(t)].status \in Settled
      /\ \A p \in Procs : Owns(p, JobOf(t)) =>
           /\ pc[p] \in {"add_credit", "close_done"}
           /\ \A c \in pay[p] : c[1] # t

PaymentInv ==
    /\ PaidOnce
    /\ \A j \in Jobs : ~Orphan(j)
    /\ \A i \in 1..Len(ledger) : PaidRow(i)

(* Payments per fault *)

\* Only a 'finalizing' row ages, and what a sweep has seen in 'finalizing' is open
\* again only by that sweep's own doing.
SeenInv ==
    \A j \in Jobs : /\ jobs[j].aged => jobs[j].status = "finalizing"
                    /\ j \in seenFin => jobs[j].status \in Settled

\* The rows that name t in the ledger, and the threads that still may add one.
Paid(t) == {i \in 1..Len(ledger) : ledger[i].task = t}
Payers(t) == {p \in Procs : \/ pc[p] = "tasks_for_job" /\ job[p] = JobOf(t)
                            \/ \E c \in pay[p] : c[1] = t}

\* The job can be claimed once more without another fault.
Claims(j) == \/ jobs[j].status \in {"absent", "queued", "running"}
             \/ jobs[j].aged \/ j \in seenAged
             \/ Orphan(j)

Spent(t) == Cardinality(Paid(t)) + Cardinality(Payers(t)) + (IF Claims(JobOf(t)) THEN 1 ELSE 0)
Within(t) == IsFiniteSet(Payers(t)) /\ Spent(t) <= 1 + faults
BudgetInv == \A t \in Tasks : Within(t)

-----------------------------------------------------------------------------
(* What a thread works on has been submitted *)

\* The first call of a request (claim, result, cancel) keeps SubmittedInv.
LEMMA SubmittedInvRequest ==
    ASSUME NEW p \in Threads, TypeInv, SubmittedInv, Request(p)
    PROVE  SubmittedInv'
<1> USE DEF TypeInv, StoreInv, StoreTypeOK, LocalInv, LocalTypeOK, ArgsOK,
            SubmittedInv, Submitted, TaskPC, JobPC, FinalizePC, PCs, Goto, Return,
            storeVars, localVars, sweepVars, fileVars
<1>1. ASSUME NEW n \in Nodes, NEW t \in Tasks, handle_claim(p, n, t)
      PROVE  SubmittedInv'
  BY <1>1 DEF handle_claim, claim_task, IsFirst, Claimable
<1>2. ASSUME NEW n \in Nodes, NEW t \in Tasks, NEW ok \in BOOLEAN, handle_result(p, n, t, ok)
      PROVE  SubmittedInv'
  BY <1>2 DEF handle_result, Live
<1>3. ASSUME NEW j \in Jobs, handle_cancel(p, j)
      PROVE  SubmittedInv'
  BY <1>3 DEF handle_cancel, Open
<1> QED
  BY <1>1, <1>2, <1>3 DEF Request

\* Every later call of a handler keeps SubmittedInv.
LEMMA SubmittedInvStep ==
    ASSUME NEW p \in Procs, TypeInv, SubmittedInv, Step(p)
    PROVE  SubmittedInv'
<1> USE DEF TypeInv, StoreInv, StoreTypeOK, LocalInv, LocalTypeOK, ArgsOK,
            SubmittedInv, Submitted, TaskPC, JobPC, FinalizePC, PCs, Goto, Return,
            storeVars, localVars, sweepVars, fileVars
<1>1. ASSUME claim_reply(p)
      PROVE  SubmittedInv'
  BY <1>1 DEF claim_reply, Leave
<1>2. ASSUME claim_requeue(p)
      PROVE  SubmittedInv'
  BY <1>2 DEF claim_requeue, requeue_task, Released, Leave
<1>3. ASSUME open_envelope(p)
      PROVE  SubmittedInv'
  BY <1>3 DEF open_envelope
<1>4. ASSUME write_envelope_fails(p)
      PROVE  SubmittedInv'
  BY <1>4 DEF write_envelope_fails, Leave
<1>5. ASSUME finish_result(p)
      PROVE  SubmittedInv'
  BY <1>5, SMTT(30) DEF finish_result, finish_task
<1>6. ASSUME NEW kind \in {"empty", "grads"}, write_envelope(p, kind)
      PROVE  SubmittedInv'
  BY <1>6 DEF write_envelope
<1>7. ASSUME read_job(p)
      PROVE  SubmittedInv'
  BY <1>7 DEF read_job, Leave
<1>8. ASSUME task_counts(p)
      PROVE  SubmittedInv'
  BY <1>8 DEF task_counts, Leave
<1>9. ASSUME claim(p)
      PROVE  SubmittedInv'
  <2>1. CASE claim_finalization(job[p])
    <3>1. Submitted' = Submitted
      BY <1>9, <2>1 DEF claim, claim_finalization, Open
    <3> QED
      BY <1>9, <2>1, <3>1 DEF claim, claim_finalization, Leave
  <2>2. CASE Leave(p) /\ UNCHANGED storeVars
    BY <1>9, <2>2 DEF claim, Leave
  <2> QED BY <1>9, <2>1, <2>2 DEF claim
<1>10. ASSUME close_failed(p)
      PROVE  SubmittedInv'
  BY <1>10 DEF close_failed, update_job, Leave
<1>11. ASSUME finalize_tasks(p)
      PROVE  SubmittedInv'
  BY <1>11 DEF finalize_tasks
<1>12. ASSUME finalize_write(p)
      PROVE  SubmittedInv'
  BY <1>12 DEF finalize_write
<1>13. ASSUME finalize_paid(p)
      PROVE  SubmittedInv'
  BY <1>13 DEF finalize_paid
<1>14. ASSUME finalize_close(p)
      PROVE  SubmittedInv'
  BY <1>14 DEF finalize_close, update_job, Leave
<1>15. ASSUME NEW c \in pay[p], finalize_pay(p, c)
      PROVE  SubmittedInv'
  BY <1>15 DEF finalize_pay, add_credit
<1>16. ASSUME cancel_tasks(p)
      PROVE  SubmittedInv'
  BY <1>16 DEF cancel_tasks, TasksOf
<1>17. ASSUME cancel_close(p)
      PROVE  SubmittedInv'
  BY <1>17 DEF cancel_close, update_job, Leave
<1>18. ASSUME NEW t \in todo[p], cancel_task(p, t)
      PROVE  SubmittedInv'
  <2>1. Submitted' = Submitted
    BY <1>18, TaskShape DEF cancel_task, finish_task
  <2>2. \A u \in Tasks : tasks[u].status # "absent" \/ u = t => JobOf(u) \in Submitted
    BY <1>18 DEF cancel_task
  <2>3. \A u \in Tasks : tasks'[u].status # "absent" => JobOf(u) \in Submitted
    BY <1>18, <2>2 DEF cancel_task, finish_task
  <2> QED
    BY <1>18, <2>1, <2>3 DEF cancel_task
<1> QED
  BY <1>1, <1>2, <1>3, <1>4, <1>5, <1>6, <1>7, <1>8, <1>9, <1>10, <1>11, <1>12, <1>13, <1>14, <1>15, <1>16, <1>17, <1>18 DEF Step

\* The calls of the maintenance thread keep SubmittedInv.
LEMMA SubmittedInvReap ==
    ASSUME TypeInv, SubmittedInv, Reap
    PROVE  SubmittedInv'
<1> USE DEF TypeInv, StoreInv, StoreTypeOK, LocalInv, LocalTypeOK, ArgsOK,
            SubmittedInv, Submitted, TaskPC, JobPC, FinalizePC, PCs, Goto, Return,
            storeVars, localVars, sweepVars, fileVars
<1>1. ASSUME reap_expire
      PROVE  SubmittedInv'
  BY <1>1 DEF reap_expire, expire_nodes, Released
<1>2. ASSUME reap_jobs
      PROVE  SubmittedInv'
  BY <1>2 DEF reap_jobs, NewestJobs
<1>3. ASSUME reap_done
      PROVE  SubmittedInv'
  BY <1>3 DEF reap_done
<1>4. ASSUME NEW j \in Jobs, reap_visit(j)
      PROVE  SubmittedInv'
  <2>1. Submitted' = Submitted
    BY <1>4 DEF reap_visit, update_job
  <2>2. tasks' = tasks
    BY <1>4 DEF reap_visit, update_job
  <2>3. CASE UNCHANGED localVars
    BY <1>4, <2>1, <2>2, <2>3 DEF reap_visit
  <2>4. CASE Goto(Reaper, "job") /\ job' = [job EXCEPT ![Reaper] = j] /\ UNCHANGED task
    BY <1>4, <2>1, <2>2, <2>4 DEF reap_visit
  <2> QED BY <1>4, <2>3, <2>4 DEF reap_visit
<1> QED
  BY <1>1, <1>2, <1>3, <1>4 DEF Reap

\* One-call requests, time, stalls and crashes keep SubmittedInv.
LEMMA SubmittedInvEnvironment ==
    ASSUME TypeInv, SubmittedInv, Environment
    PROVE  SubmittedInv'
<1> USE DEF TypeInv, StoreInv, StoreTypeOK, LocalInv, LocalTypeOK, ArgsOK,
            SubmittedInv, Submitted, TaskPC, JobPC, FinalizePC, PCs, Goto, Return,
            storeVars, localVars, sweepVars, fileVars
<1>1. ASSUME NEW n \in Nodes, handle_register(n)
      PROVE  SubmittedInv'
  BY <1>1 DEF handle_register, upsert_node
<1>2. ASSUME NEW n \in Nodes, handle_heartbeat(n)
      PROVE  SubmittedInv'
  BY <1>2 DEF handle_heartbeat, heartbeat
<1>3. ASSUME NEW n \in Nodes, handle_bye(n)
      PROVE  SubmittedInv'
  BY <1>3 DEF handle_bye, heartbeat
<1>4. ASSUME NEW n \in Nodes, node_goes_quiet(n)
      PROVE  SubmittedInv'
  BY <1>4 DEF node_goes_quiet
<1>5. ASSUME NEW j \in Jobs, handle_submit(j)
      PROVE  SubmittedInv'
  BY <1>5 DEF handle_submit, create_job
<1>6. ASSUME NEW j \in Jobs, job_ages(j)
      PROVE  SubmittedInv'
  BY <1>6 DEF job_ages
<1>7. ASSUME NEW j \in Jobs, sweep_ages(j)
      PROVE  SubmittedInv'
  BY <1>7 DEF sweep_ages
<1>8. ASSUME crash
      PROVE  SubmittedInv'
  BY <1>8 DEF crash
<1> QED
  BY <1>1, <1>2, <1>3, <1>4, <1>5, <1>6, <1>7, <1>8 DEF Environment

\* Every step, and a stutter, keeps SubmittedInv.
LEMMA SubmittedInvNext ==
    ASSUME TypeInv, SubmittedInv, [Next]_vars
    PROVE  SubmittedInv'
<1>1. CASE Next
  BY <1>1, SubmittedInvRequest, SubmittedInvStep, SubmittedInvReap, SubmittedInvEnvironment DEF Next
<1>2. CASE UNCHANGED vars
  BY <1>2 DEF TypeInv, StoreInv, StoreTypeOK, LocalInv, LocalTypeOK, ArgsOK,
            SubmittedInv, Submitted, TaskPC, JobPC, FinalizePC, PCs, Goto, Return,
            storeVars, localVars, sweepVars, fileVars, vars
<1> QED
  BY <1>1, <1>2

-----------------------------------------------------------------------------
(* No live task in a closed job, while bundles stay readable *)

\* The first call of a request (claim, result, cancel) keeps LiveInv while bundles stay readable.
LEMMA LiveInvRequest ==
    ASSUME NEW p \in Threads, ~FileErrors, TypeInv, SubmittedInv, LiveInv, Request(p)
    PROVE  LiveInv'
<1> USE DEF TypeInv, StoreInv, StoreTypeOK, LocalInv, LocalTypeOK, ArgsOK, LiveInv,
            NoneLive, TasksOf, Live, Closed, CountedPC, FinalizePC, JobPC, TaskPC, PCs,
            Goto, Return, storeVars, localVars, sweepVars, fileVars
<1>1. ASSUME NEW n \in Nodes, NEW t \in Tasks, handle_claim(p, n, t)
      PROVE  LiveInv'
  BY <1>1 DEF handle_claim, claim_task, IsFirst, Claimable
<1>2. ASSUME NEW n \in Nodes, NEW t \in Tasks, NEW ok \in BOOLEAN, handle_result(p, n, t, ok)
      PROVE  LiveInv'
  BY <1>2 DEF handle_result
<1>3. ASSUME NEW j \in Jobs, handle_cancel(p, j)
      PROVE  LiveInv'
  BY <1>3 DEF handle_cancel
<1> QED
  BY <1>1, <1>2, <1>3 DEF Request

\* Every later call of a handler keeps LiveInv while bundles stay readable.
LEMMA LiveInvStep ==
    ASSUME NEW p \in Procs, ~FileErrors, TypeInv, SubmittedInv, LiveInv, Step(p)
    PROVE  LiveInv'
<1> USE DEF TypeInv, StoreInv, StoreTypeOK, LocalInv, LocalTypeOK, ArgsOK, LiveInv,
            NoneLive, TasksOf, Live, Closed, CountedPC, FinalizePC, JobPC, TaskPC, PCs,
            Goto, Return, storeVars, localVars, sweepVars, fileVars
<1>1. ASSUME claim_reply(p)
      PROVE  LiveInv'
  BY <1>1 DEF claim_reply, Leave
<1>2. ASSUME claim_requeue(p)
      PROVE  LiveInv'
  BY <1>2 DEF claim_requeue, requeue_task, Released, Leave
<1>3. ASSUME open_envelope(p)
      PROVE  LiveInv'
  BY <1>3 DEF open_envelope
<1>4. ASSUME write_envelope_fails(p)
      PROVE  LiveInv'
  BY <1>4 DEF write_envelope_fails, Leave
<1>5. ASSUME finish_result(p)
      PROVE  LiveInv'
  BY <1>5 DEF finish_result, finish_task
<1>6. ASSUME NEW kind \in {"empty", "grads"}, write_envelope(p, kind)
      PROVE  LiveInv'
  BY <1>6 DEF write_envelope
<1>7. ASSUME read_job(p)
      PROVE  LiveInv'
  BY <1>7 DEF read_job, Leave
<1>8. ASSUME task_counts(p)
      PROVE  LiveInv'
  BY <1>8 DEF task_counts, Leave
<1>9. ASSUME claim(p)
      PROVE  LiveInv'
  <2>1. CASE claim_finalization(job[p])
    <3>1. NoneLive(job[p])
      BY <1>9, <2>1 DEF claim
    <3>2. tasks' = tasks
      BY <2>1 DEF claim_finalization
    <3>3. \A j \in Jobs : Closed(j)' \/ jobs'[j].status = "finalizing" =>
            j = job[p] \/ Closed(j) \/ jobs[j].status = "finalizing"
      BY <2>1 DEF claim_finalization
    <3>4. job' = job /\ todo' = todo
      BY <1>9, <2>1 DEF claim, claim_finalization, Leave
    <3>5. /\ \A q \in Procs : q # p => pc'[q] = pc[q]
          /\ pc'[p] # "cancel_task"
      BY <1>9, <2>1 DEF claim, claim_finalization, Leave
    <3>6. \A j \in Jobs : Closed(j)' \/ jobs'[j].status = "finalizing" => NoneLive(j)
      BY <3>1, <3>3
    <3>7. \A q \in Procs : pc'[q] \in CountedPC => NoneLive(job[q])
      BY <3>1, <3>5
    <3>8. \A q \in Procs : pc'[q] = "cancel_task" => pc[q] = "cancel_task"
      BY <3>5
    <3> QED
      BY <3>2, <3>4, <3>6, <3>7, <3>8 DEF LiveInv
  <2>2. CASE Leave(p) /\ UNCHANGED storeVars
    BY <1>9, <2>2 DEF claim, Leave
  <2> QED BY <1>9, <2>1, <2>2 DEF claim
<1>10. ASSUME close_failed(p)
      PROVE  LiveInv'
  BY <1>10 DEF close_failed, update_job, Leave
<1>11. ASSUME finalize_tasks(p)
      PROVE  LiveInv'
  BY <1>11 DEF finalize_tasks
<1>12. ASSUME finalize_write(p)
      PROVE  LiveInv'
  BY <1>12 DEF finalize_write
<1>13. ASSUME finalize_paid(p)
      PROVE  LiveInv'
  BY <1>13 DEF finalize_paid
<1>14. ASSUME finalize_close(p)
      PROVE  LiveInv'
  BY <1>14 DEF finalize_close, update_job, Leave
<1>15. ASSUME NEW c \in pay[p], finalize_pay(p, c)
      PROVE  LiveInv'
  BY <1>15 DEF finalize_pay, add_credit
<1>16. ASSUME cancel_tasks(p)
      PROVE  LiveInv'
  BY <1>16 DEF cancel_tasks
<1>17. ASSUME cancel_close(p)
      PROVE  LiveInv'
  BY <1>17 DEF cancel_close, update_job, Leave
<1>18. ASSUME NEW t \in todo[p], cancel_task(p, t)
      PROVE  LiveInv'
  BY <1>18 DEF cancel_task, finish_task, IsFirst
<1> QED
  BY <1>1, <1>2, <1>3, <1>4, <1>5, <1>6, <1>7, <1>8, <1>9, <1>10, <1>11, <1>12, <1>13, <1>14, <1>15, <1>16, <1>17, <1>18 DEF Step

\* The calls of the maintenance thread keep LiveInv while bundles stay readable.
LEMMA LiveInvReap ==
    ASSUME ~FileErrors, TypeInv, SubmittedInv, LiveInv, Reap
    PROVE  LiveInv'
<1> USE DEF TypeInv, StoreInv, StoreTypeOK, LocalInv, LocalTypeOK, ArgsOK, LiveInv,
            NoneLive, TasksOf, Live, Closed, CountedPC, FinalizePC, JobPC, TaskPC, PCs,
            Goto, Return, storeVars, localVars, sweepVars, fileVars
<1>1. ASSUME reap_expire
      PROVE  LiveInv'
  BY <1>1 DEF reap_expire, expire_nodes, Released
<1>2. ASSUME reap_jobs
      PROVE  LiveInv'
  BY <1>2 DEF reap_jobs, NewestJobs
<1>3. ASSUME reap_done
      PROVE  LiveInv'
  BY <1>3 DEF reap_done
<1>4. ASSUME NEW j \in Jobs, reap_visit(j)
      PROVE  LiveInv'
  BY <1>4 DEF reap_visit, update_job
<1> QED
  BY <1>1, <1>2, <1>3, <1>4 DEF Reap

\* One-call requests, time, stalls and crashes keep LiveInv while bundles stay readable.
LEMMA LiveInvEnvironment ==
    ASSUME ~FileErrors, TypeInv, SubmittedInv, LiveInv, Environment
    PROVE  LiveInv'
<1> USE DEF TypeInv, StoreInv, StoreTypeOK, LocalInv, LocalTypeOK, ArgsOK, LiveInv,
            NoneLive, TasksOf, Live, Closed, CountedPC, FinalizePC, JobPC, TaskPC, PCs,
            Goto, Return, storeVars, localVars, sweepVars, fileVars
<1>1. ASSUME NEW n \in Nodes, handle_register(n)
      PROVE  LiveInv'
  BY <1>1 DEF handle_register, upsert_node
<1>2. ASSUME NEW n \in Nodes, handle_heartbeat(n)
      PROVE  LiveInv'
  BY <1>2 DEF handle_heartbeat, heartbeat
<1>3. ASSUME NEW n \in Nodes, handle_bye(n)
      PROVE  LiveInv'
  BY <1>3 DEF handle_bye, heartbeat
<1>4. ASSUME NEW n \in Nodes, node_goes_quiet(n)
      PROVE  LiveInv'
  BY <1>4 DEF node_goes_quiet
<1>5. ASSUME NEW j \in Jobs, handle_submit(j)
      PROVE  LiveInv'
  <2>1. \A k \in Jobs : Closed(k)' \/ jobs'[k].status = "finalizing" =>
          k # j /\ (Closed(k) \/ jobs[k].status = "finalizing")
    BY <1>5 DEF handle_submit, create_job
  <2>2. \A t \in Tasks : JobOf(t) # j => tasks'[t] = tasks[t]
    BY <1>5 DEF handle_submit, create_job
  <2>3. \A p \in Procs : pc[p] \in JobPC => job[p] # j
    BY <1>5 DEF handle_submit, SubmittedInv
  <2>4. UNCHANGED localVars
    BY <1>5 DEF handle_submit
  <2>5. \A k \in Jobs : k # j /\ NoneLive(k) => NoneLive(k)'
    BY <2>2
  <2> QED
    BY <2>1, <2>2, <2>3, <2>4, <2>5
<1>6. ASSUME NEW j \in Jobs, job_ages(j)
      PROVE  LiveInv'
  BY <1>6 DEF job_ages
<1>7. ASSUME NEW j \in Jobs, sweep_ages(j)
      PROVE  LiveInv'
  BY <1>7 DEF sweep_ages
<1>8. ASSUME crash
      PROVE  LiveInv'
  BY <1>8 DEF crash
<1> QED
  BY <1>1, <1>2, <1>3, <1>4, <1>5, <1>6, <1>7, <1>8 DEF Environment

\* Every step, and a stutter, keeps LiveInv while bundles stay readable.
LEMMA LiveInvNext ==
    ASSUME ~FileErrors, TypeInv, SubmittedInv, LiveInv, [Next]_vars
    PROVE  LiveInv'
<1>1. CASE Next
  BY <1>1, LiveInvRequest, LiveInvStep, LiveInvReap, LiveInvEnvironment DEF Next
<1>2. CASE UNCHANGED vars
  BY <1>2 DEF TypeInv, StoreInv, StoreTypeOK, LocalInv, LocalTypeOK, ArgsOK, LiveInv,
            NoneLive, TasksOf, Live, Closed, CountedPC, FinalizePC, JobPC, TaskPC, PCs,
            Goto, Return, storeVars, localVars, sweepVars, fileVars, vars
<1> QED
  BY <1>1, <1>2

-----------------------------------------------------------------------------
(* One owner per finalization, while none of them stalls *)

\* The first call of a request (claim, result, cancel) keeps OwnerInv while no finalization stalls.
LEMMA OwnerInvRequest ==
    ASSUME NEW p \in Threads, ~CanStall, TypeInv, SubmittedInv, OwnerInv, Request(p)
    PROVE  OwnerInv'
<1> USE DEF TypeInv, StoreInv, StoreTypeOK, LocalInv, LocalTypeOK, ArgsOK, OwnerInv,
            OneOwner, OwnerRow, Owns, Orphan, Cancelling, FinalizePC, JobPC, TaskPC, PCs,
            Goto, Return, storeVars, localVars, sweepVars, fileVars
<1>1. ASSUME NEW n \in Nodes, NEW t \in Tasks, handle_claim(p, n, t)
      PROVE  OwnerInv'
  <2>1. Open(JobOf(t)) /\ JobOf(t) \in Jobs
    BY <1>1, TaskShape DEF handle_claim, claim_task, IsFirst, Claimable
  <2>2. \A q \in Procs, j \in Jobs : (Owns(q, j)' <=> Owns(q, j)) /\ (Cancelling(q, j)' => Cancelling(q, j))
    BY <1>1 DEF handle_claim, claim_task
  <2>3. \A j \in Jobs : j # JobOf(t) => jobs'[j] = jobs[j]
    BY <1>1 DEF handle_claim, claim_task
  <2>4. jobs'[JobOf(t)] = [status |-> "running", aged |-> FALSE]
    BY <1>1, <2>1 DEF handle_claim, claim_task
  <2>5. ~Orphan(JobOf(t)) /\ ~Orphan(JobOf(t))' /\ \A q \in Procs : ~Owns(q, JobOf(t))
    BY <2>1, <2>4 DEF Open
  <2>6. seenAged' = seenAged
    BY <1>1 DEF handle_claim
  <2>7. OneOwner'
    BY <2>2
  <2>8. ASSUME NEW j \in Jobs
        PROVE  OwnerRow(j)'
    <3>1. CASE j = JobOf(t)
      BY <2>1, <2>2, <2>4, <2>5, <2>6, <3>1
    <3>2. CASE j # JobOf(t)
      BY <2>2, <2>3, <2>6, <3>2
    <3> QED BY <3>1, <3>2
  <2> QED
    BY <2>7, <2>8
<1>2. ASSUME NEW n \in Nodes, NEW t \in Tasks, NEW ok \in BOOLEAN, handle_result(p, n, t, ok)
      PROVE  OwnerInv'
  BY <1>2 DEF handle_result
<1>3. ASSUME NEW j \in Jobs, handle_cancel(p, j)
      PROVE  OwnerInv'
  BY <1>3 DEF handle_cancel, Open
<1> QED
  BY <1>1, <1>2, <1>3 DEF Request

\* Every later call of a handler keeps OwnerInv while no finalization stalls.
LEMMA OwnerInvStep ==
    ASSUME NEW p \in Procs, ~CanStall, TypeInv, SubmittedInv, OwnerInv, Step(p)
    PROVE  OwnerInv'
<1> USE DEF TypeInv, StoreInv, StoreTypeOK, LocalInv, LocalTypeOK, ArgsOK, OwnerInv,
            OneOwner, OwnerRow, Owns, Orphan, Cancelling, FinalizePC, JobPC, TaskPC, PCs,
            Goto, Return, storeVars, localVars, sweepVars, fileVars
<1>1. ASSUME claim_reply(p)
      PROVE  OwnerInv'
  BY <1>1 DEF claim_reply, Leave
<1>2. ASSUME claim_requeue(p)
      PROVE  OwnerInv'
  BY <1>2 DEF claim_requeue, requeue_task, Released, Leave
<1>3. ASSUME open_envelope(p)
      PROVE  OwnerInv'
  BY <1>3 DEF open_envelope
<1>4. ASSUME write_envelope_fails(p)
      PROVE  OwnerInv'
  BY <1>4 DEF write_envelope_fails, Leave
<1>5. ASSUME finish_result(p)
      PROVE  OwnerInv'
  BY <1>5 DEF finish_result, finish_task
<1>6. ASSUME NEW kind \in {"empty", "grads"}, write_envelope(p, kind)
      PROVE  OwnerInv'
  BY <1>6 DEF write_envelope
<1>7. ASSUME read_job(p)
      PROVE  OwnerInv'
  <2>1. CASE Leave(p) /\ UNCHANGED storeVars
    BY <1>7, <2>1 DEF read_job, Leave
  <2>2. CASE Goto(p, "task_counts") /\ UNCHANGED job
    BY <1>7, <2>2 DEF read_job
  <2> QED BY <1>7, <2>1, <2>2 DEF read_job
<1>8. ASSUME task_counts(p)
      PROVE  OwnerInv'
  <2>1. CASE Leave(p) /\ UNCHANGED storeVars
    <3>1. UNCHANGED <<jobs, seenAged>>
      BY <1>8, <2>1 DEF task_counts
    <3>2. \A q \in Procs, j \in Jobs : Owns(q, j)' <=> Owns(q, j)
      BY <1>8, <2>1 DEF task_counts, Leave
    <3>3. \A q \in Procs, j \in Jobs : Cancelling(q, j)' => Cancelling(q, j)
      BY <1>8, <2>1 DEF task_counts, Leave
    <3> HIDE DEF Owns, Cancelling
    <3> QED
      BY <3>1, <3>2, <3>3
  <2>2. CASE pc' \in {[pc EXCEPT ![p] = "claim_done"], [pc EXCEPT ![p] = "claim_failed"]} /\ UNCHANGED job
    BY <1>8, <2>2 DEF task_counts
  <2> QED BY <1>8, <2>1, <2>2 DEF task_counts
<1>9. ASSUME claim(p)
      PROVE  OwnerInv'
  <2>1. CASE Leave(p) /\ UNCHANGED storeVars
    BY <1>9, <2>1 DEF claim, Leave
  <2>2. CASE claim_finalization(job[p]) /\ UNCHANGED job
    <3>1. pc' = [pc EXCEPT ![p] = IF pc[p] = "claim_done" THEN "tasks_for_job" ELSE "close_failed"]
      BY <1>9, <2>2 DEF claim, claim_finalization, Open, Leave
    <3>2. Open(job[p]) /\ job[p] \in Jobs
      BY <1>9, <2>2 DEF claim, claim_finalization
    <3>3. PICK k \in Jobs : k = job[p]
      BY <3>2
    <3>4. \A q \in Procs : ~Owns(q, k)
      BY <3>2, <3>3 DEF Open
    <3>5. \A q \in Procs, j \in Jobs : Owns(q, j)' <=> Owns(q, j) \/ (q = p /\ j = k)
      BY <1>9, <2>2, <3>1, <3>3
    <3>6. \A q \in Procs, j \in Jobs : Cancelling(q, j)' => Cancelling(q, j)
      BY <1>9, <2>2, <3>1
    <3>7. /\ \A j \in Jobs : j # k => jobs'[j] = jobs[j]
          /\ jobs'[k] = [status |-> "finalizing", aged |-> FALSE]
      BY <2>2, <3>3 DEF claim_finalization
    <3>8. ~Orphan(k) /\ k \notin seenAged
      BY <3>2, <3>3 DEF Open
    <3>9. seenAged' = seenAged
      BY <1>9 DEF claim
    <3>10. OneOwner'
      BY <3>4, <3>5
    <3>11. \A j \in Jobs : j # k => (Orphan(j)' <=> Orphan(j))
      BY <3>5, <3>7
    <3>12. ASSUME NEW j \in Jobs, j # k
           PROVE  OwnerRow(j)'
      <4>1. jobs'[j] = jobs[j] /\ seenAged' = seenAged
        BY <3>7, <3>9, <3>12
      <4>2. \A q \in Procs : (Owns(q, j)' <=> Owns(q, j)) /\ (Cancelling(q, j)' => Cancelling(q, j))
        BY <3>5, <3>6, <3>12
      <4> QED BY <4>1, <4>2
    <3>13. OwnerRow(k)'
      BY <3>3, <3>5, <3>7, <3>8, <3>9
    <3> QED
      BY <3>10, <3>12, <3>13
  <2> QED BY <1>9, <2>1, <2>2 DEF claim
<1>10. ASSUME close_failed(p)
      PROVE  OwnerInv'
  BY <1>10 DEF close_failed, update_job, Leave
<1>11. ASSUME finalize_tasks(p)
      PROVE  OwnerInv'
  BY <1>11 DEF finalize_tasks
<1>12. ASSUME finalize_write(p)
      PROVE  OwnerInv'
  BY <1>12 DEF finalize_write
<1>13. ASSUME finalize_paid(p)
      PROVE  OwnerInv'
  BY <1>13 DEF finalize_paid
<1>14. ASSUME finalize_close(p)
      PROVE  OwnerInv'
  BY <1>14 DEF finalize_close, update_job, Leave
<1>15. ASSUME NEW c \in pay[p], finalize_pay(p, c)
      PROVE  OwnerInv'
  BY <1>15 DEF finalize_pay, add_credit
<1>16. ASSUME cancel_tasks(p)
      PROVE  OwnerInv'
  BY <1>16 DEF cancel_tasks
<1>17. ASSUME cancel_close(p)
      PROVE  OwnerInv'
  BY <1>17 DEF cancel_close, update_job, Leave
<1>18. ASSUME NEW t \in todo[p], cancel_task(p, t)
      PROVE  OwnerInv'
  BY <1>18 DEF cancel_task, finish_task, IsFirst
<1> QED
  BY <1>1, <1>2, <1>3, <1>4, <1>5, <1>6, <1>7, <1>8, <1>9, <1>10, <1>11, <1>12, <1>13, <1>14, <1>15, <1>16, <1>17, <1>18 DEF Step

\* The calls of the maintenance thread keep OwnerInv while no finalization stalls.
LEMMA OwnerInvReap ==
    ASSUME ~CanStall, TypeInv, SubmittedInv, OwnerInv, Reap
    PROVE  OwnerInv'
<1> USE DEF TypeInv, StoreInv, StoreTypeOK, LocalInv, LocalTypeOK, ArgsOK, OwnerInv,
            OneOwner, OwnerRow, Owns, Orphan, Cancelling, FinalizePC, JobPC, TaskPC, PCs,
            Goto, Return, storeVars, localVars, sweepVars, fileVars
<1>1. ASSUME reap_expire
      PROVE  OwnerInv'
  BY <1>1 DEF reap_expire, expire_nodes, Released
<1>2. ASSUME reap_jobs
      PROVE  OwnerInv'
  BY <1>2 DEF reap_jobs, NewestJobs
<1>3. ASSUME reap_done
      PROVE  OwnerInv'
  BY <1>3 DEF reap_done
<1>4. ASSUME NEW j \in Jobs, reap_visit(j)
      PROVE  OwnerInv'
  BY <1>4 DEF reap_visit, update_job
<1> QED
  BY <1>1, <1>2, <1>3, <1>4 DEF Reap

\* One-call requests, time, stalls and crashes keep OwnerInv while no finalization stalls.
LEMMA OwnerInvEnvironment ==
    ASSUME ~CanStall, TypeInv, SubmittedInv, OwnerInv, Environment
    PROVE  OwnerInv'
<1> USE DEF TypeInv, StoreInv, StoreTypeOK, LocalInv, LocalTypeOK, ArgsOK, OwnerInv,
            OneOwner, OwnerRow, Owns, Orphan, Cancelling, FinalizePC, JobPC, TaskPC, PCs,
            Goto, Return, storeVars, localVars, sweepVars, fileVars
<1>1. ASSUME NEW n \in Nodes, handle_register(n)
      PROVE  OwnerInv'
  BY <1>1 DEF handle_register, upsert_node
<1>2. ASSUME NEW n \in Nodes, handle_heartbeat(n)
      PROVE  OwnerInv'
  BY <1>2 DEF handle_heartbeat, heartbeat
<1>3. ASSUME NEW n \in Nodes, handle_bye(n)
      PROVE  OwnerInv'
  BY <1>3 DEF handle_bye, heartbeat
<1>4. ASSUME NEW n \in Nodes, node_goes_quiet(n)
      PROVE  OwnerInv'
  BY <1>4 DEF node_goes_quiet
<1>5. ASSUME NEW j \in Jobs, handle_submit(j)
      PROVE  OwnerInv'
  <2>1. \A p \in Procs : ~Owns(p, j) /\ ~Cancelling(p, j)
    BY <1>5 DEF handle_submit, SubmittedInv
  <2>2. \A k \in Jobs : k # j => jobs'[k] = jobs[k]
    BY <1>5 DEF handle_submit, create_job
  <2>3. jobs'[j] = [status |-> "queued", aged |-> FALSE] /\ j \notin seenAged
    BY <1>5 DEF handle_submit, create_job, Submitted
  <2>4. UNCHANGED <<pc, job, seenAged>>
    BY <1>5 DEF handle_submit
  <2> QED
    BY <2>1, <2>2, <2>3, <2>4
<1>6. ASSUME NEW j \in Jobs, job_ages(j)
      PROVE  OwnerInv'
  BY <1>6 DEF job_ages
<1>7. ASSUME NEW j \in Jobs, sweep_ages(j)
      PROVE  OwnerInv'
  BY <1>7 DEF sweep_ages
<1>8. ASSUME crash
      PROVE  OwnerInv'
  BY <1>8 DEF crash
<1> QED
  BY <1>1, <1>2, <1>3, <1>4, <1>5, <1>6, <1>7, <1>8 DEF Environment

\* Every step, and a stutter, keeps OwnerInv while no finalization stalls.
LEMMA OwnerInvNext ==
    ASSUME ~CanStall, TypeInv, SubmittedInv, OwnerInv, [Next]_vars
    PROVE  OwnerInv'
<1>1. CASE Next
  BY <1>1, OwnerInvRequest, OwnerInvStep, OwnerInvReap, OwnerInvEnvironment DEF Next
<1>2. CASE UNCHANGED vars
  BY <1>2 DEF TypeInv, StoreInv, StoreTypeOK, LocalInv, LocalTypeOK, ArgsOK, OwnerInv,
            OneOwner, OwnerRow, Owns, Orphan, Cancelling, FinalizePC, JobPC, TaskPC, PCs,
            Goto, Return, storeVars, localVars, sweepVars, fileVars, vars
<1> QED
  BY <1>1, <1>2

-----------------------------------------------------------------------------
(* Who is still to be paid *)

\* The first call of a request (claim, result, cancel) keeps PayInv.
LEMMA PayInvRequest ==
    ASSUME NEW p \in Threads, TypeInv, PayInv, Request(p)
    PROVE  PayInv'
<1> USE DEF TypeInv, StoreInv, StoreTypeOK, LocalInv, LocalTypeOK, ArgsOK, PayInv, FinalizePC, PCs, Goto, Return,
            storeVars, localVars, sweepVars, fileVars
<1>1. ASSUME NEW n \in Nodes, NEW t \in Tasks, handle_claim(p, n, t)
      PROVE  PayInv'
  BY <1>1 DEF handle_claim, claim_task, IsFirst, Claimable
<1>2. ASSUME NEW n \in Nodes, NEW t \in Tasks, NEW ok \in BOOLEAN, handle_result(p, n, t, ok)
      PROVE  PayInv'
  BY <1>2 DEF handle_result
<1>3. ASSUME NEW j \in Jobs, handle_cancel(p, j)
      PROVE  PayInv'
  BY <1>3 DEF handle_cancel
<1> QED
  BY <1>1, <1>2, <1>3 DEF Request

\* Every later call of a handler keeps PayInv.
LEMMA PayInvStep ==
    ASSUME NEW p \in Procs, TypeInv, PayInv, Step(p)
    PROVE  PayInv'
<1> USE DEF TypeInv, StoreInv, StoreTypeOK, LocalInv, LocalTypeOK, ArgsOK, PayInv, FinalizePC, PCs, Goto, Return,
            storeVars, localVars, sweepVars, fileVars
<1>1. ASSUME claim_reply(p)
      PROVE  PayInv'
  BY <1>1 DEF claim_reply, Leave
<1>2. ASSUME claim_requeue(p)
      PROVE  PayInv'
  BY <1>2 DEF claim_requeue, requeue_task, Released, Leave
<1>3. ASSUME open_envelope(p)
      PROVE  PayInv'
  BY <1>3 DEF open_envelope
<1>4. ASSUME write_envelope_fails(p)
      PROVE  PayInv'
  BY <1>4 DEF write_envelope_fails, Leave
<1>5. ASSUME finish_result(p)
      PROVE  PayInv'
  BY <1>5 DEF finish_result, finish_task
<1>6. ASSUME NEW kind \in {"empty", "grads"}, write_envelope(p, kind)
      PROVE  PayInv'
  BY <1>6 DEF write_envelope
<1>7. ASSUME read_job(p)
      PROVE  PayInv'
  BY <1>7 DEF read_job, Leave
<1>8. ASSUME task_counts(p)
      PROVE  PayInv'
  BY <1>8, SMTT(30) DEF task_counts, Leave
<1>9. ASSUME claim(p)
      PROVE  PayInv'
  BY <1>9, ZenonT(40) DEF claim, claim_finalization, Leave
<1>10. ASSUME close_failed(p)
      PROVE  PayInv'
  BY <1>10 DEF close_failed, update_job, Leave
<1>11. ASSUME finalize_tasks(p)
      PROVE  PayInv'
  BY <1>11 DEF finalize_tasks, TasksOf
<1>12. ASSUME finalize_write(p)
      PROVE  PayInv'
  BY <1>12 DEF finalize_write
<1>13. ASSUME finalize_paid(p)
      PROVE  PayInv'
  BY <1>13 DEF finalize_paid
<1>14. ASSUME finalize_close(p)
      PROVE  PayInv'
  BY <1>14 DEF finalize_close, update_job, Leave
<1>15. ASSUME NEW c \in pay[p], finalize_pay(p, c)
      PROVE  PayInv'
  BY <1>15 DEF finalize_pay, add_credit
<1>16. ASSUME cancel_tasks(p)
      PROVE  PayInv'
  BY <1>16 DEF cancel_tasks
<1>17. ASSUME cancel_close(p)
      PROVE  PayInv'
  BY <1>17 DEF cancel_close, update_job, Leave
<1>18. ASSUME NEW t \in todo[p], cancel_task(p, t)
      PROVE  PayInv'
  BY <1>18 DEF cancel_task, finish_task, IsFirst
<1> QED
  BY <1>1, <1>2, <1>3, <1>4, <1>5, <1>6, <1>7, <1>8, <1>9, <1>10, <1>11, <1>12, <1>13, <1>14, <1>15, <1>16, <1>17, <1>18 DEF Step

\* The calls of the maintenance thread keep PayInv.
LEMMA PayInvReap ==
    ASSUME TypeInv, PayInv, Reap
    PROVE  PayInv'
<1> USE DEF TypeInv, StoreInv, StoreTypeOK, LocalInv, LocalTypeOK, ArgsOK, PayInv, FinalizePC, PCs, Goto, Return,
            storeVars, localVars, sweepVars, fileVars
<1>1. ASSUME reap_expire
      PROVE  PayInv'
  BY <1>1 DEF reap_expire, expire_nodes, Released
<1>2. ASSUME reap_jobs
      PROVE  PayInv'
  BY <1>2 DEF reap_jobs, NewestJobs
<1>3. ASSUME reap_done
      PROVE  PayInv'
  BY <1>3 DEF reap_done
<1>4. ASSUME NEW j \in Jobs, reap_visit(j)
      PROVE  PayInv'
  BY <1>4 DEF reap_visit, update_job
<1> QED
  BY <1>1, <1>2, <1>3, <1>4 DEF Reap

\* One-call requests, time, stalls and crashes keep PayInv.
LEMMA PayInvEnvironment ==
    ASSUME TypeInv, PayInv, Environment
    PROVE  PayInv'
<1> USE DEF TypeInv, StoreInv, StoreTypeOK, LocalInv, LocalTypeOK, ArgsOK, PayInv, FinalizePC, PCs, Goto, Return,
            storeVars, localVars, sweepVars, fileVars
<1>1. ASSUME NEW n \in Nodes, handle_register(n)
      PROVE  PayInv'
  BY <1>1 DEF handle_register, upsert_node
<1>2. ASSUME NEW n \in Nodes, handle_heartbeat(n)
      PROVE  PayInv'
  BY <1>2 DEF handle_heartbeat, heartbeat
<1>3. ASSUME NEW n \in Nodes, handle_bye(n)
      PROVE  PayInv'
  BY <1>3 DEF handle_bye, heartbeat
<1>4. ASSUME NEW n \in Nodes, node_goes_quiet(n)
      PROVE  PayInv'
  BY <1>4 DEF node_goes_quiet
<1>5. ASSUME NEW j \in Jobs, handle_submit(j)
      PROVE  PayInv'
  BY <1>5 DEF handle_submit, create_job
<1>6. ASSUME NEW j \in Jobs, job_ages(j)
      PROVE  PayInv'
  BY <1>6 DEF job_ages
<1>7. ASSUME NEW j \in Jobs, sweep_ages(j)
      PROVE  PayInv'
  BY <1>7 DEF sweep_ages
<1>8. ASSUME crash
      PROVE  PayInv'
  BY <1>8 DEF crash
<1> QED
  BY <1>1, <1>2, <1>3, <1>4, <1>5, <1>6, <1>7, <1>8 DEF Environment

\* Every step, and a stutter, keeps PayInv.
LEMMA PayInvNext ==
    ASSUME TypeInv, PayInv, [Next]_vars
    PROVE  PayInv'
<1>1. CASE Next
  BY <1>1, PayInvRequest, PayInvStep, PayInvReap, PayInvEnvironment DEF Next
<1>2. CASE UNCHANGED vars
  BY <1>2 DEF TypeInv, StoreInv, StoreTypeOK, LocalInv, LocalTypeOK, ArgsOK, PayInv, FinalizePC, PCs, Goto, Return,
            storeVars, localVars, sweepVars, fileVars, vars
<1> QED
  BY <1>1, <1>2

-----------------------------------------------------------------------------
(* The result comes first, while the disk takes it *)

\* The first call of a request (claim, result, cancel) keeps PublishedInv while the disk takes the files.
LEMMA PublishedInvRequest ==
    ASSUME NEW p \in Threads, ~FileErrors, TypeInv, PayInv, PublishedInv, Request(p)
    PROVE  PublishedInv'
<1> USE DEF TypeInv, StoreInv, StoreTypeOK, LocalInv, LocalTypeOK, ArgsOK, PayInv, PublishedInv,
            ResultComesFirst, FinalizePC, PCs, Goto, Return,
            storeVars, localVars, sweepVars, fileVars
<1>1. ASSUME NEW n \in Nodes, NEW t \in Tasks, handle_claim(p, n, t)
      PROVE  PublishedInv'
  BY <1>1 DEF handle_claim, claim_task, IsFirst, Claimable
<1>2. ASSUME NEW n \in Nodes, NEW t \in Tasks, NEW ok \in BOOLEAN, handle_result(p, n, t, ok)
      PROVE  PublishedInv'
  BY <1>2 DEF handle_result
<1>3. ASSUME NEW j \in Jobs, handle_cancel(p, j)
      PROVE  PublishedInv'
  BY <1>3 DEF handle_cancel
<1> QED
  BY <1>1, <1>2, <1>3 DEF Request

\* Every later call of a handler keeps PublishedInv while the disk takes the files.
LEMMA PublishedInvStep ==
    ASSUME NEW p \in Procs, ~FileErrors, TypeInv, PayInv, PublishedInv, Step(p)
    PROVE  PublishedInv'
<1> USE DEF TypeInv, StoreInv, StoreTypeOK, LocalInv, LocalTypeOK, ArgsOK, PayInv, PublishedInv,
            ResultComesFirst, FinalizePC, PCs, Goto, Return,
            storeVars, localVars, sweepVars, fileVars
<1>1. ASSUME claim_reply(p)
      PROVE  PublishedInv'
  BY <1>1 DEF claim_reply, Leave
<1>2. ASSUME claim_requeue(p)
      PROVE  PublishedInv'
  BY <1>2 DEF claim_requeue, requeue_task, Released, Leave
<1>3. ASSUME open_envelope(p)
      PROVE  PublishedInv'
  BY <1>3 DEF open_envelope
<1>4. ASSUME write_envelope_fails(p)
      PROVE  PublishedInv'
  BY <1>4 DEF write_envelope_fails, Leave
<1>5. ASSUME finish_result(p)
      PROVE  PublishedInv'
  BY <1>5 DEF finish_result, finish_task
<1>6. ASSUME NEW kind \in {"empty", "grads"}, write_envelope(p, kind)
      PROVE  PublishedInv'
  BY <1>6 DEF write_envelope
<1>7. ASSUME read_job(p)
      PROVE  PublishedInv'
  BY <1>7 DEF read_job, Leave
<1>8. ASSUME task_counts(p)
      PROVE  PublishedInv'
  BY <1>8 DEF task_counts, Leave
<1>9. ASSUME claim(p)
      PROVE  PublishedInv'
  <2>1. CASE Leave(p) /\ UNCHANGED storeVars
    BY <1>9, <2>1 DEF claim, Leave
  <2>2. CASE claim_finalization(job[p])
    <3>1. /\ pc' \in {[pc EXCEPT ![p] = "tasks_for_job"], [pc EXCEPT ![p] = "close_failed"]}
          /\ UNCHANGED <<job, pay, ledger, published>>
      BY <1>9, <2>2 DEF claim, claim_finalization, Open, Leave
    <3>2. \A j \in Jobs : jobs'[j].status = "completed" => jobs[j].status = "completed"
      BY <2>2 DEF claim_finalization
    <3>3. pay[p] = {}
      BY <1>9 DEF claim
    <3> QED
      BY <3>1, <3>2, <3>3
  <2> QED BY <1>9, <2>1, <2>2 DEF claim
<1>10. ASSUME close_failed(p)
      PROVE  PublishedInv'
  BY <1>10 DEF close_failed, update_job, Leave
<1>11. ASSUME finalize_tasks(p)
      PROVE  PublishedInv'
  BY <1>11 DEF finalize_tasks
<1>12. ASSUME finalize_write(p)
      PROVE  PublishedInv'
  BY <1>12 DEF finalize_write
<1>13. ASSUME finalize_paid(p)
      PROVE  PublishedInv'
  BY <1>13 DEF finalize_paid
<1>14. ASSUME finalize_close(p)
      PROVE  PublishedInv'
  BY <1>14 DEF finalize_close, update_job, Leave
<1>15. ASSUME NEW c \in pay[p], finalize_pay(p, c)
      PROVE  PublishedInv'
  BY <1>15 DEF finalize_pay, add_credit
<1>16. ASSUME cancel_tasks(p)
      PROVE  PublishedInv'
  BY <1>16 DEF cancel_tasks
<1>17. ASSUME cancel_close(p)
      PROVE  PublishedInv'
  BY <1>17 DEF cancel_close, update_job, Leave
<1>18. ASSUME NEW t \in todo[p], cancel_task(p, t)
      PROVE  PublishedInv'
  BY <1>18 DEF cancel_task, finish_task, IsFirst
<1> QED
  BY <1>1, <1>2, <1>3, <1>4, <1>5, <1>6, <1>7, <1>8, <1>9, <1>10, <1>11, <1>12, <1>13, <1>14, <1>15, <1>16, <1>17, <1>18 DEF Step

\* The calls of the maintenance thread keep PublishedInv while the disk takes the files.
LEMMA PublishedInvReap ==
    ASSUME ~FileErrors, TypeInv, PayInv, PublishedInv, Reap
    PROVE  PublishedInv'
<1> USE DEF TypeInv, StoreInv, StoreTypeOK, LocalInv, LocalTypeOK, ArgsOK, PayInv, PublishedInv,
            ResultComesFirst, FinalizePC, PCs, Goto, Return,
            storeVars, localVars, sweepVars, fileVars
<1>1. ASSUME reap_expire
      PROVE  PublishedInv'
  BY <1>1 DEF reap_expire, expire_nodes, Released
<1>2. ASSUME reap_jobs
      PROVE  PublishedInv'
  BY <1>2 DEF reap_jobs, NewestJobs
<1>3. ASSUME reap_done
      PROVE  PublishedInv'
  BY <1>3 DEF reap_done
<1>4. ASSUME NEW j \in Jobs, reap_visit(j)
      PROVE  PublishedInv'
  BY <1>4 DEF reap_visit, update_job
<1> QED
  BY <1>1, <1>2, <1>3, <1>4 DEF Reap

\* One-call requests, time, stalls and crashes keep PublishedInv while the disk takes the files.
LEMMA PublishedInvEnvironment ==
    ASSUME ~FileErrors, TypeInv, PayInv, PublishedInv, Environment
    PROVE  PublishedInv'
<1> USE DEF TypeInv, StoreInv, StoreTypeOK, LocalInv, LocalTypeOK, ArgsOK, PayInv, PublishedInv,
            ResultComesFirst, FinalizePC, PCs, Goto, Return,
            storeVars, localVars, sweepVars, fileVars
<1>1. ASSUME NEW n \in Nodes, handle_register(n)
      PROVE  PublishedInv'
  BY <1>1 DEF handle_register, upsert_node
<1>2. ASSUME NEW n \in Nodes, handle_heartbeat(n)
      PROVE  PublishedInv'
  BY <1>2 DEF handle_heartbeat, heartbeat
<1>3. ASSUME NEW n \in Nodes, handle_bye(n)
      PROVE  PublishedInv'
  BY <1>3 DEF handle_bye, heartbeat
<1>4. ASSUME NEW n \in Nodes, node_goes_quiet(n)
      PROVE  PublishedInv'
  BY <1>4 DEF node_goes_quiet
<1>5. ASSUME NEW j \in Jobs, handle_submit(j)
      PROVE  PublishedInv'
  BY <1>5 DEF handle_submit, create_job
<1>6. ASSUME NEW j \in Jobs, job_ages(j)
      PROVE  PublishedInv'
  BY <1>6 DEF job_ages
<1>7. ASSUME NEW j \in Jobs, sweep_ages(j)
      PROVE  PublishedInv'
  BY <1>7 DEF sweep_ages
<1>8. ASSUME crash
      PROVE  PublishedInv'
  BY <1>8 DEF crash
<1> QED
  BY <1>1, <1>2, <1>3, <1>4, <1>5, <1>6, <1>7, <1>8 DEF Environment

\* Every step, and a stutter, keeps PublishedInv while the disk takes the files.
LEMMA PublishedInvNext ==
    ASSUME ~FileErrors, TypeInv, PayInv, PublishedInv, [Next]_vars
    PROVE  PublishedInv'
<1>1. CASE Next
  BY <1>1, PublishedInvRequest, PublishedInvStep, PublishedInvReap, PublishedInvEnvironment DEF Next
<1>2. CASE UNCHANGED vars
  BY <1>2 DEF TypeInv, StoreInv, StoreTypeOK, LocalInv, LocalTypeOK, ArgsOK, PayInv, PublishedInv,
            ResultComesFirst, FinalizePC, PCs, Goto, Return,
            storeVars, localVars, sweepVars, fileVars, vars
<1> QED
  BY <1>1, <1>2

-----------------------------------------------------------------------------
(* One payment per replica, while no finalization dies or stalls *)

\* A step that pays nobody, settles no job behind an owner's back and leaves
\* every owner's list of contributors alone keeps PaymentInv.
LEMMA PaymentKept ==
    ASSUME LocalTypeOK, StoreTypeOK, PaymentInv,
           ledger' = ledger,
           \A j \in Jobs :
             jobs'[j].status # jobs[j].status =>
               jobs[j].status \notin Settled /\ jobs'[j].status # "finalizing",
           \A q \in Procs :
             pc[q] \in OwnerPC \/ pc'[q] \in OwnerPC =>
               pc'[q] = pc[q] /\ job'[q] = job[q] /\ pay'[q] = pay[q]
    PROVE  PaymentInv'
<1>1. \A q \in Procs : \A j : Owns(q, j)' <=> Owns(q, j)
  BY DEF Owns, OwnerPC
<1>2. \A j \in Jobs : ~Orphan(j)'
  <2> SUFFICES ASSUME NEW j \in Jobs, jobs'[j].status = "finalizing"
               PROVE  \E q \in Procs : Owns(q, j)'
    BY DEF Orphan
  <2>1. jobs[j].status = "finalizing"
    BY DEF Settled
  <2>2. PICK q \in Procs : Owns(q, j)
    BY <2>1 DEF PaymentInv, Orphan
  <2> QED
    BY <1>1, <2>2
<1>3. PaidOnce'
  BY DEF PaymentInv, PaidOnce
<1>4. ASSUME NEW i \in 1..Len(ledger')
      PROVE  PaidRow(i)'
  <2> DEFINE t == ledger[i].task
  <2>1. PaidRow(i) /\ ledger' = ledger
    BY <1>4 DEF PaymentInv
  <2>2. JobOf(t) \in Jobs
    <3>1. ledger[i] \in CreditRow
      BY <1>4 DEF StoreTypeOK
    <3> QED BY <3>1, TaskShape DEF CreditRow
  <2>4. jobs'[JobOf(t)].status = jobs[JobOf(t)].status
    BY <2>1, <2>2 DEF PaidRow
  <2>3. ASSUME NEW q \in Procs, Owns(q, JobOf(t))'
        PROVE  /\ pc'[q] \in {"add_credit", "close_done"}
               /\ \A c \in pay'[q] : c[1] # t
    BY <1>1, <2>1, <2>3 DEF PaidRow, Owns, OwnerPC
  <2> QED
    BY <2>1, <2>3, <2>4 DEF PaidRow
<1> QED
  BY <1>2, <1>3, <1>4 DEF PaymentInv

\* The first call of a request (claim, result, cancel) keeps PaymentInv without crashes and stalls.
LEMMA PaymentInvRequest ==
    ASSUME NEW p \in Threads, ~CanCrash, ~CanStall, TypeInv, SubmittedInv, OwnerInv, PayInv, PaymentInv, Request(p)
    PROVE  PaymentInv'
<1> USE DEF TypeInv, StoreInv, StoreTypeOK, LocalInv, LocalTypeOK, ArgsOK, OwnerInv, OwnerRow,
            PayInv, PaymentInv, PaidOnce, PaidRow, Settled, Owns, Orphan, FinalizePC, PCs,
            Goto, Return, storeVars, localVars, sweepVars, fileVars
<1>1. ASSUME NEW n \in Nodes, NEW t \in Tasks, handle_claim(p, n, t)
      PROVE  PaymentInv'
  <2>1. Open(JobOf(t)) /\ JobOf(t) \in Jobs
    BY <1>1, TaskShape DEF handle_claim, claim_task, IsFirst, Claimable
  <2>2. \A j \in Jobs :
             jobs'[j].status # jobs[j].status =>
               jobs[j].status \notin Settled /\ jobs'[j].status # "finalizing"
    <3>1. jobs' = [jobs EXCEPT ![JobOf(t)] = [status |-> "running", aged |-> FALSE]]
      BY <1>1 DEF handle_claim, claim_task
    <3>2. jobs \in [Jobs -> JobRow]
      OBVIOUS
    <3> HIDE DEF OwnerInv, PayInv, PaymentInv, LocalTypeOK, ArgsOK
    <3> QED
      BY <2>1, <3>1, <3>2 DEF Open
  <2>3. ledger' = ledger
    BY <1>1 DEF handle_claim, claim_task
  <2> QED
    BY <1>1, <2>2, <2>3, PaymentKept DEF handle_claim, OwnerPC
<1>2. ASSUME NEW n \in Nodes, NEW t \in Tasks, NEW ok \in BOOLEAN, handle_result(p, n, t, ok)
      PROVE  PaymentInv'
  BY <1>2 DEF handle_result
<1>3. ASSUME NEW j \in Jobs, handle_cancel(p, j)
      PROVE  PaymentInv'
  BY <1>3 DEF handle_cancel
<1> QED
  BY <1>1, <1>2, <1>3 DEF Request

\* Every later call of a handler keeps PaymentInv without crashes and stalls.
LEMMA PaymentInvStep ==
    ASSUME NEW p \in Procs, ~CanCrash, ~CanStall, TypeInv, SubmittedInv, OwnerInv, PayInv, PaymentInv, Step(p)
    PROVE  PaymentInv'
<1> USE DEF TypeInv, StoreInv, StoreTypeOK, LocalInv, LocalTypeOK, ArgsOK, OwnerInv, OwnerRow,
            PayInv, PaymentInv, PaidOnce, PaidRow, Settled, Owns, Orphan, FinalizePC, PCs,
            Goto, Return, storeVars, localVars, sweepVars, fileVars
<1>1. ASSUME claim_reply(p)
      PROVE  PaymentInv'
  BY <1>1, PaymentKept DEF claim_reply, Leave, OwnerPC
<1>2. ASSUME claim_requeue(p)
      PROVE  PaymentInv'
  BY <1>2 DEF claim_requeue, requeue_task, Released, Leave
<1>3. ASSUME open_envelope(p)
      PROVE  PaymentInv'
  BY <1>3, SMTT(30) DEF open_envelope
<1>4. ASSUME write_envelope_fails(p)
      PROVE  PaymentInv'
  <2>1. jobs' = jobs /\ ledger' = ledger
    BY <1>4 DEF write_envelope_fails
  <2>2. /\ pc[p] \notin OwnerPC /\ pc'[p] \notin OwnerPC
        /\ \A q \in Procs : q # p =>
             pc'[q] = pc[q] /\ job'[q] = job[q] /\ pay'[q] = pay[q]
    BY <1>4 DEF write_envelope_fails, Leave, OwnerPC
  <2>3. \A q \in Procs :
             pc[q] \in OwnerPC \/ pc'[q] \in OwnerPC =>
               pc'[q] = pc[q] /\ job'[q] = job[q] /\ pay'[q] = pay[q]
    BY <2>2
  <2>4. LocalTypeOK /\ StoreTypeOK /\ PaymentInv
    OBVIOUS
  <2> HIDE DEF OwnerInv, PayInv, PaymentInv, LocalTypeOK, StoreTypeOK, ArgsOK
  <2> QED
    BY <2>1, <2>3, <2>4, PaymentKept
<1>5. ASSUME finish_result(p)
      PROVE  PaymentInv'
  BY <1>5 DEF finish_result, finish_task
<1>6. ASSUME NEW kind \in {"empty", "grads"}, write_envelope(p, kind)
      PROVE  PaymentInv'
  BY <1>6, PaymentKept DEF write_envelope, OwnerPC
<1>7. ASSUME read_job(p)
      PROVE  PaymentInv'
  BY <1>7 DEF read_job, Leave
<1>8. ASSUME task_counts(p)
      PROVE  PaymentInv'
  BY <1>8 DEF task_counts, Leave
<1>9. ASSUME claim(p)
      PROVE  PaymentInv'
  <2>1. CASE Leave(p) /\ UNCHANGED storeVars
    BY <1>9, <2>1, PaymentKept, ZenonT(40) DEF claim, Leave, OwnerPC
  <2>2. CASE claim_finalization(job[p])
    <3>1. PICK k \in Jobs : k = job[p] /\ Open(k)
      BY <2>2, <1>9 DEF claim, claim_finalization, JobPC
    <3>2. /\ pc' \in {[pc EXCEPT ![p] = "tasks_for_job"], [pc EXCEPT ![p] = "close_failed"]}
          /\ UNCHANGED <<job, pay, ledger>>
      BY <1>9, <2>2 DEF claim, claim_finalization, Open, Leave
    <3>3. /\ jobs'[k].status = "finalizing"
          /\ \A j \in Jobs : j # k => jobs'[j] = jobs[j]
      BY <2>2, <3>1 DEF claim_finalization
    <3>4. \A j \in Jobs : ~Orphan(j)'
      <4>1. Owns(p, k)'
        BY <3>1, <3>2
      <4>2. \A q \in Procs, j \in Jobs : Owns(q, j) => Owns(q, j)'
        BY <3>2, <1>9 DEF claim
      <4> QED BY <3>3, <4>1, <4>2
    <3>5. ASSUME NEW i \in 1..Len(ledger)
          PROVE  PaidRow(i)'
      <4>1. PaidRow(i) /\ JobOf(ledger[i].task) # k /\ JobOf(ledger[i].task) \in Jobs
        <5>1. ledger[i] \in CreditRow
          OBVIOUS
        <5>2. JobOf(ledger[i].task) \in Jobs
          BY <5>1, TaskShape DEF CreditRow
        <5> QED BY <3>1, <5>2 DEF Open
      <4>2. jobs'[JobOf(ledger[i].task)] = jobs[JobOf(ledger[i].task)]
        BY <3>3, <4>1
      <4>3. \A q \in Procs : q = p \/ pc'[q] = pc[q]
        BY <3>2
      <4> QED
        BY <3>1, <3>2, <4>1, <4>2, <4>3
    <3>6. PaidOnce'
      BY <3>2
    <3> QED
      BY <3>2, <3>4, <3>5, <3>6
  <2> QED BY <1>9, <2>1, <2>2 DEF claim
<1>10. ASSUME close_failed(p)
      PROVE  PaymentInv'
  BY <1>10, SMTT(30) DEF close_failed, update_job, Leave
<1>11. ASSUME finalize_tasks(p)
      PROVE  PaymentInv'
  BY <1>11 DEF finalize_tasks, TasksOf
<1>12. ASSUME finalize_write(p)
      PROVE  PaymentInv'
  BY <1>12 DEF finalize_write
<1>13. ASSUME finalize_paid(p)
      PROVE  PaymentInv'
  BY <1>13 DEF finalize_paid
<1>14. ASSUME finalize_close(p)
      PROVE  PaymentInv'
  BY <1>14, SMTT(30) DEF finalize_close, update_job, Leave
<1>15. ASSUME NEW c \in pay[p], finalize_pay(p, c)
      PROVE  PaymentInv'
  <2>1. PICK n \in Nodes, t \in Tasks : c = <<t, n>>
    BY <1>15
  <2>2. /\ ledger' = Append(ledger, [node |-> n, task |-> t])
        /\ pay' = [pay EXCEPT ![p] = pay[p] \ {c}]
        /\ UNCHANGED <<pc, job, jobs>>
    BY <1>15, <2>1 DEF finalize_pay, add_credit
  <2>3. pc[p] = "add_credit" /\ c \in pay[p] /\ JobOf(t) = job[p] /\ Owns(p, JobOf(t))
    BY <1>15, <2>1 DEF finalize_pay
  <2>4. \A i \in 1..Len(ledger) : ledger[i].task # t
    BY <2>1, <2>3, TaskShape DEF CreditRow
  <2>5. /\ Len(ledger') = Len(ledger) + 1
        /\ \A i \in 1..Len(ledger) : ledger'[i] = ledger[i]
        /\ ledger'[Len(ledger) + 1].task = t
    BY <2>2
  <2>6. PaidOnce'
    BY <2>4, <2>5
  <2>7. \A j \in Jobs : ~Orphan(j)'
    BY <2>2
  <2>8. \A i \in 1..Len(ledger) : PaidRow(i)'
    BY <2>2, <2>5
  <2>9. ASSUME NEW i, i = Len(ledger) + 1
        PROVE  PaidRow(i)'
    <3>1. JobOf(t) \in Jobs
      BY TaskShape
    <3>2. jobs[JobOf(t)].status \in {"finalizing", "cancelled"}
      BY <2>3, <3>1
    <3>3. ASSUME NEW q \in Procs, Owns(q, JobOf(t))
          PROVE  q = p
      BY <2>3, <3>1, <3>3 DEF OneOwner
    <3>4. \A d \in pay'[p] : d[1] # t
      BY <2>1, <2>2, <2>3
    <3> QED
      BY <2>2, <2>3, <2>5, <2>9, <3>2, <3>3, <3>4
  <2>10. \A i \in 1..Len(ledger') : i \in 1..Len(ledger) \/ i = Len(ledger) + 1
    BY <2>5
  <2> HIDE DEF PaidRow, PaidOnce, Orphan
  <2> QED
    BY <2>6, <2>7, <2>8, <2>9, <2>10
<1>16. ASSUME cancel_tasks(p)
      PROVE  PaymentInv'
  BY <1>16 DEF cancel_tasks
<1>17. ASSUME cancel_close(p)
      PROVE  PaymentInv'
  BY <1>17 DEF cancel_close, update_job, Leave
<1>18. ASSUME NEW t \in todo[p], cancel_task(p, t)
      PROVE  PaymentInv'
  BY <1>18 DEF cancel_task, finish_task, IsFirst
<1> QED
  BY <1>1, <1>2, <1>3, <1>4, <1>5, <1>6, <1>7, <1>8, <1>9, <1>10, <1>11, <1>12, <1>13, <1>14, <1>15, <1>16, <1>17, <1>18, ZenonT(40) DEF Step

\* The calls of the maintenance thread keep PaymentInv without crashes and stalls.
LEMMA PaymentInvReap ==
    ASSUME ~CanCrash, ~CanStall, TypeInv, SubmittedInv, OwnerInv, PayInv, PaymentInv, Reap
    PROVE  PaymentInv'
<1> USE DEF TypeInv, StoreInv, StoreTypeOK, LocalInv, LocalTypeOK, ArgsOK, OwnerInv, OwnerRow,
            PayInv, PaymentInv, PaidOnce, PaidRow, Settled, Owns, Orphan, FinalizePC, PCs,
            Goto, Return, storeVars, localVars, sweepVars, fileVars
<1>1. ASSUME reap_expire
      PROVE  PaymentInv'
  BY <1>1 DEF reap_expire, expire_nodes, Released
<1>2. ASSUME reap_jobs
      PROVE  PaymentInv'
  BY <1>2 DEF reap_jobs, NewestJobs
<1>3. ASSUME reap_done
      PROVE  PaymentInv'
  BY <1>3 DEF reap_done
<1>4. ASSUME NEW j \in Jobs, reap_visit(j)
      PROVE  PaymentInv'
  BY <1>4, SMTT(30) DEF reap_visit, update_job
<1> QED
  BY <1>1, <1>2, <1>3, <1>4 DEF Reap

\* One-call requests, time, stalls and crashes keep PaymentInv without crashes and stalls.
LEMMA PaymentInvEnvironment ==
    ASSUME ~CanCrash, ~CanStall, TypeInv, SubmittedInv, OwnerInv, PayInv, PaymentInv, Environment
    PROVE  PaymentInv'
<1> USE DEF TypeInv, StoreInv, StoreTypeOK, LocalInv, LocalTypeOK, ArgsOK, OwnerInv, OwnerRow,
            PayInv, PaymentInv, PaidOnce, PaidRow, Settled, Owns, Orphan, FinalizePC, PCs,
            Goto, Return, storeVars, localVars, sweepVars, fileVars
<1>1. ASSUME NEW n \in Nodes, handle_register(n)
      PROVE  PaymentInv'
  BY <1>1 DEF handle_register, upsert_node
<1>2. ASSUME NEW n \in Nodes, handle_heartbeat(n)
      PROVE  PaymentInv'
  BY <1>2 DEF handle_heartbeat, heartbeat
<1>3. ASSUME NEW n \in Nodes, handle_bye(n)
      PROVE  PaymentInv'
  BY <1>3 DEF handle_bye, heartbeat
<1>4. ASSUME NEW n \in Nodes, node_goes_quiet(n)
      PROVE  PaymentInv'
  BY <1>4 DEF node_goes_quiet
<1>5. ASSUME NEW j \in Jobs, handle_submit(j)
      PROVE  PaymentInv'
  BY <1>5, PaymentKept, SMTT(30) DEF handle_submit, create_job, Submitted, Settled, OwnerPC
<1>6. ASSUME NEW j \in Jobs, job_ages(j)
      PROVE  PaymentInv'
  BY <1>6 DEF job_ages
<1>7. ASSUME NEW j \in Jobs, sweep_ages(j)
      PROVE  PaymentInv'
  BY <1>7 DEF sweep_ages
<1>8. ASSUME crash
      PROVE  PaymentInv'
  BY <1>8 DEF crash
<1> QED
  BY <1>1, <1>2, <1>3, <1>4, <1>5, <1>6, <1>7, <1>8 DEF Environment

\* Every step, and a stutter, keeps PaymentInv without crashes and stalls.
LEMMA PaymentInvNext ==
    ASSUME ~CanCrash, ~CanStall, TypeInv, SubmittedInv, OwnerInv, PayInv, PaymentInv, [Next]_vars
    PROVE  PaymentInv'
<1>1. CASE Next
  BY <1>1, PaymentInvRequest, PaymentInvStep, PaymentInvReap, PaymentInvEnvironment DEF Next
<1>2. CASE UNCHANGED vars
  BY <1>2 DEF TypeInv, StoreInv, StoreTypeOK, LocalInv, LocalTypeOK, ArgsOK, OwnerInv, OwnerRow,
            PayInv, PaymentInv, PaidOnce, PaidRow, Settled, Owns, Orphan, FinalizePC, PCs,
            Goto, Return, storeVars, localVars, sweepVars, fileVars, vars
<1> QED
  BY <1>1, <1>2

-----------------------------------------------------------------------------
(* A closed job stays closed, while no finalization stalls *)

\* No step takes a job out of completed, failed or cancelled: update_job with
\* 'running' comes only from the sweep, and then the row is still 'finalizing'.
LEMMA ClosedStep ==
    ASSUME TypeInv, SubmittedInv, ~CanStall, OwnerInv, Next
    PROVE  \A j \in Jobs : Closed(j) => Closed(j)'
<1> SUFFICES ASSUME NEW j \in Jobs, Closed(j)
             PROVE  Closed(j)'
  OBVIOUS
<1>1. jobs \in [Jobs -> JobRow]
  BY DEF TypeInv, StoreInv, StoreTypeOK
<1>2. ASSUME NEW p \in Threads, Request(p) PROVE Closed(j)'
  <2>1. CASE jobs' = jobs
    BY <2>1 DEF Closed
  <2>2. ASSUME NEW n \in Nodes, NEW t \in Tasks, handle_claim(p, n, t) PROVE Closed(j)'
    <3>1. JobOf(t) # j
      BY <2>2 DEF handle_claim, claim_task, IsFirst, Claimable, Open, Closed
    <3> QED
      BY <1>1, <2>2, <3>1 DEF handle_claim, claim_task, Closed
  <2> QED
    BY <1>2, <2>1, <2>2 DEF Request, handle_result, handle_cancel, storeVars
<1>3. ASSUME NEW p \in Procs, Step(p) PROVE Closed(j)'
  <2>1. CASE jobs' = jobs
    BY <2>1 DEF Closed
  <2>2. ASSUME NEW k, NEW s \in {"completed", "failed", "cancelled"}, update_job(k, s)
        PROVE  Closed(j)'
    BY <1>1, <2>2 DEF update_job, Closed
  <2>3. ASSUME NEW t, NEW ok, finish_task(t, ok) PROVE Closed(j)'
    BY <1>1, <2>3 DEF finish_task, Closed
  <2>4. ASSUME NEW k, claim_finalization(k) PROVE Closed(j)'
    <3>1. k # j
      BY <2>4 DEF claim_finalization, Open, Closed
    <3> QED
      BY <1>1, <2>4, <3>1 DEF claim_finalization, Closed
  <2>5. CASE finish_result(p)
    BY <2>3, <2>5 DEF finish_result
  <2>6. CASE claim(p)
    BY <2>1, <2>4, <2>6 DEF claim, storeVars
  <2>7. CASE close_failed(p) \/ finalize_close(p) \/ cancel_close(p)
    BY <2>2, <2>7 DEF close_failed, finalize_close, cancel_close
  <2>8. ASSUME NEW t \in todo[p], cancel_task(p, t) PROVE Closed(j)'
    BY <2>3, <2>8 DEF cancel_task
  <2>9. ASSUME NEW c \in pay[p], finalize_pay(p, c) PROVE Closed(j)'
    BY <2>1, <2>9 DEF finalize_pay, add_credit
  <2>10. CASE claim_reply(p) \/ claim_requeue(p) \/ open_envelope(p) \/ write_envelope_fails(p)
    BY <2>1, <2>10 DEF claim_reply, claim_requeue, requeue_task, open_envelope,
                       write_envelope_fails, storeVars
  <2>11. ASSUME NEW kind \in {"empty", "grads"}, write_envelope(p, kind) PROVE Closed(j)'
    BY <2>1, <2>11 DEF write_envelope, storeVars
  <2>12. CASE read_job(p) \/ task_counts(p) \/ cancel_tasks(p)
    BY <2>1, <2>12 DEF read_job, task_counts, cancel_tasks, storeVars
  <2>13. CASE finalize_tasks(p) \/ finalize_write(p) \/ finalize_paid(p)
    BY <2>1, <2>13 DEF finalize_tasks, finalize_write, finalize_paid, storeVars
  <2> QED
    BY <1>3, <2>5, <2>6, <2>7, <2>8, <2>9, <2>10, <2>11, <2>12, <2>13 DEF Step
<1>4. ASSUME Reap PROVE Closed(j)'
  <2>1. CASE jobs' = jobs
    BY <2>1 DEF Closed
  <2>2. ASSUME NEW k \in Jobs, reap_visit(k) PROVE Closed(j)'
    <3>1. CASE k \in seenAged /\ update_job(k, "running")
      <4>1. jobs[k].status = "finalizing"
        BY <3>1 DEF OwnerInv, OwnerRow, Orphan
      <4>2. k # j
        BY <4>1 DEF Closed
      <4> QED
        BY <1>1, <3>1, <4>2 DEF update_job, Closed
    <3> QED
      BY <2>1, <2>2, <3>1 DEF reap_visit, storeVars
  <2> QED
    BY <1>4, <2>1, <2>2 DEF Reap, reap_expire, expire_nodes, reap_jobs, reap_done, storeVars
<1>5. ASSUME Environment PROVE Closed(j)'
  <2>1. CASE jobs' = jobs
    BY <2>1 DEF Closed
  <2>2. ASSUME NEW k \in Jobs, handle_submit(k) PROVE Closed(j)'
    <3>1. k # j
      BY <2>2 DEF handle_submit, Submitted, Closed
    <3> QED
      BY <1>1, <2>2, <3>1 DEF handle_submit, create_job, Closed
  <2>3. ASSUME NEW k \in Jobs, job_ages(k) PROVE Closed(j)'
    <3>1. k # j
      BY <2>3 DEF job_ages, Closed
    <3> QED
      BY <1>1, <2>3, <3>1 DEF job_ages, Closed
  <2> QED
    BY <1>5, <2>1, <2>2, <2>3 DEF Environment, handle_register, upsert_node, handle_heartbeat,
       handle_bye, heartbeat, node_goes_quiet, sweep_ages, crash, storeVars
<1> QED
  BY <1>2, <1>3, <1>4, <1>5 DEF Next

-----------------------------------------------------------------------------
(* Payments per fault *)

\* Nobody is paid in this step.
Unpaid == ledger' = ledger

\* A ledger has finitely many rows.
LEMMA PaidCount ==
    ASSUME TypeInv, NEW t
    PROVE  IsFiniteSet(Paid(t)) /\ Cardinality(Paid(t)) \in Nat
<1>1. Len(ledger) \in Nat
  BY DEF TypeInv, StoreInv, StoreTypeOK
<1>2. IsFiniteSet(1..Len(ledger)) /\ Paid(t) \subseteq 1..Len(ledger)
  BY <1>1, FS_Interval DEF Paid
<1> QED
  BY <1>2, FS_Subset, FS_CardinalityType

\* Without a payment and with no new payer or claim, what is spent does not grow.
LEMMA NothingSpent ==
    ASSUME TypeInv, TypeInv', NEW t \in Tasks, Within(t), Unpaid, Payers(t)' \subseteq Payers(t)
    PROVE  /\ IsFiniteSet(Payers(t)') /\ Spent(t) \in Nat /\ Spent(t)' \in Nat
           /\ (Claims(JobOf(t))' => Claims(JobOf(t))) => Spent(t)' <= Spent(t)
           /\ Spent(t)' <= Spent(t) + 1
<1>1. IsFiniteSet(Payers(t)') /\ Cardinality(Payers(t)') <= Cardinality(Payers(t))
  BY FS_Subset DEF Within
<1>2. /\ Cardinality(Payers(t)') \in Nat /\ Cardinality(Payers(t)) \in Nat
      /\ Cardinality(Paid(t)) \in Nat
  BY <1>1, PaidCount, FS_CardinalityType DEF Within
<1>3. Paid(t)' = Paid(t)
  BY DEF Paid, Unpaid
<1>4. PICK paid \in Nat, old \in Nat, new \in Nat :
        /\ paid = Cardinality(Paid(t)) /\ paid = Cardinality(Paid(t)')
        /\ old = Cardinality(Payers(t)) /\ new = Cardinality(Payers(t)') /\ new <= old
  BY <1>1, <1>2, <1>3
<1>5. PICK before \in {0, 1}, after \in {0, 1} :
        /\ before = (IF Claims(JobOf(t)) THEN 1 ELSE 0) /\ after = (IF Claims(JobOf(t))' THEN 1 ELSE 0)
        /\ (Claims(JobOf(t))' => Claims(JobOf(t))) => after <= before
  OBVIOUS
<1>6. Spent(t) = paid + old + before /\ Spent(t)' = paid + new + after
  BY <1>4, <1>5 DEF Spent
<1> QED
  BY <1>1, <1>4, <1>5, <1>6

\* A step that pays nobody and gives no thread a new chance keeps the budget.
LEMMA QuietStep ==
    ASSUME TypeInv, TypeInv', BudgetInv, Unpaid, faults' = faults,
           \A t \in Tasks : Payers(t)' \subseteq Payers(t),
           \A j \in Jobs : Claims(j)' => Claims(j)
    PROVE  BudgetInv'
<1> SUFFICES ASSUME NEW t \in Tasks PROVE Within(t)'
  BY DEF BudgetInv
<1>1. Within(t) /\ (Claims(JobOf(t))' => Claims(JobOf(t)))
  BY TaskShape DEF BudgetInv
<1>2. IsFiniteSet(Payers(t)') /\ Spent(t) \in Nat /\ Spent(t)' \in Nat /\ Spent(t)' <= Spent(t)
  BY <1>1, NothingSpent
<1>3. faults \in Nat
  BY CoordinatorAssumption DEF TypeInv, LocalInv, FileTypeOK
<1> QED
  BY <1>1, <1>2, <1>3 DEF Within

\* So does a crash or a stall, which adds one to the budget.
LEMMA FaultStep ==
    ASSUME TypeInv, TypeInv', BudgetInv, Unpaid, faults' = faults + 1,
           \A t \in Tasks : Payers(t)' \subseteq Payers(t)
    PROVE  BudgetInv'
<1> SUFFICES ASSUME NEW t \in Tasks PROVE Within(t)'
  BY DEF BudgetInv
<1>1. Within(t)
  BY DEF BudgetInv
<1>2. IsFiniteSet(Payers(t)') /\ Spent(t) \in Nat /\ Spent(t)' \in Nat /\ Spent(t)' <= Spent(t) + 1
  BY <1>1, NothingSpent
<1>3. faults \in Nat
  BY CoordinatorAssumption DEF TypeInv, LocalInv, FileTypeOK
<1> QED
  BY <1>1, <1>2, <1>3 DEF Within

\* An element more makes a finite set larger by one at most.
LEMMA OneMore ==
    ASSUME NEW S, NEW x, IsFiniteSet(S)
    PROVE  IsFiniteSet(S \cup {x}) /\ Cardinality(S \cup {x}) <= Cardinality(S) + 1
<1>1. Cardinality(S) \in Nat
  BY FS_CardinalityType
<1>2. CASE x \in S
  <2>1. PICK T : T = S \cup {x}
    OBVIOUS
  <2>2. T = S
    BY <1>2, <2>1
  <2>3. IsFiniteSet(T) /\ Cardinality(T) <= Cardinality(S) + 1
    BY <1>1, <2>2
  <2> QED
    BY <2>1, <2>3
<1>3. CASE x \notin S
  BY <1>1, <1>3, FS_AddElement
<1> QED
  BY <1>2, <1>3

\* A claim trades the chance to claim the job for one more payer of its tasks.
LEMMA ClaimSpends ==
    ASSUME TypeInv, TypeInv', BudgetInv, Unpaid, faults' = faults, NEW p \in Procs, NEW k \in Jobs,
           Claims(k), ~Claims(k)',
           \A t \in Tasks : Payers(t)' \subseteq Payers(t) \cup (IF JobOf(t) = k THEN {p} ELSE {}),
           \A j \in Jobs : Claims(j)' => Claims(j)
    PROVE  BudgetInv'
<1> SUFFICES ASSUME NEW t \in Tasks PROVE Within(t)'
  BY DEF BudgetInv
<1>1. Within(t) /\ faults \in Nat
  BY CoordinatorAssumption DEF BudgetInv, TypeInv, LocalInv, FileTypeOK
<1>2. CASE JobOf(t) # k
  <2>1. Payers(t)' \subseteq Payers(t) /\ (Claims(JobOf(t))' => Claims(JobOf(t)))
    BY <1>2, TaskShape
  <2>2. IsFiniteSet(Payers(t)') /\ Spent(t) \in Nat /\ Spent(t)' \in Nat /\ Spent(t)' <= Spent(t)
    BY <1>1, <2>1, NothingSpent
  <2> QED
    BY <1>1, <2>2 DEF Within
<1>3. CASE JobOf(t) = k
  <2>1. Payers(t)' \subseteq Payers(t) \cup {p} /\ IsFiniteSet(Payers(t))
    BY <1>1, <1>3 DEF Within
  <2>2. /\ IsFiniteSet(Payers(t) \cup {p})
        /\ Cardinality(Payers(t) \cup {p}) <= Cardinality(Payers(t)) + 1
    BY <2>1, OneMore
  <2>3. /\ IsFiniteSet(Payers(t)') /\ Cardinality(Payers(t)') <= Cardinality(Payers(t) \cup {p})
    BY <2>1, <2>2, FS_Subset
  <2>4. /\ Cardinality(Payers(t)') \in Nat /\ Cardinality(Payers(t)) \in Nat /\ Cardinality(Paid(t)) \in Nat
        /\ Cardinality(Payers(t) \cup {p}) \in Nat
    BY <2>1, <2>2, <2>3, PaidCount, FS_CardinalityType
  <2>5. Paid(t)' = Paid(t)
    BY DEF Paid, Unpaid
  <2>6. Spent(t) = Cardinality(Paid(t)) + Cardinality(Payers(t)) + 1
    BY <1>3 DEF Spent
  <2>7. Spent(t)' = Cardinality(Paid(t)) + Cardinality(Payers(t)') + 0
    BY <1>3, <2>5 DEF Spent
  <2> QED
    BY <1>1, <2>2, <2>3, <2>4, <2>6, <2>7 DEF Within
<1> QED
  BY <1>2, <1>3

\* A payment turns a payer into a ledger row.
LEMMA PaymentSpends ==
    ASSUME TypeInv, TypeInv', BudgetInv, faults' = faults, NEW p \in Procs, NEW c \in Tasks \X Nodes,
           add_credit(c[2], c[1]), p \in Payers(c[1]), Payers(c[1])' = Payers(c[1]) \ {p},
           \A t \in Tasks : Payers(t)' \subseteq Payers(t),
           \A j \in Jobs : Claims(j)' => Claims(j)
    PROVE  BudgetInv'
<1> SUFFICES ASSUME NEW t \in Tasks PROVE Within(t)'
  BY DEF BudgetInv
<1>1. Within(t) /\ faults \in Nat
  BY CoordinatorAssumption DEF BudgetInv, TypeInv, LocalInv, FileTypeOK
<1>2. PICK n \in Nat : n = Len(ledger) /\ Len(ledger') = n + 1 /\ ledger'[n + 1].task = c[1]
                       /\ \A i \in 1..n : ledger'[i] = ledger[i]
  BY DEF TypeInv, StoreInv, StoreTypeOK, add_credit
<1>3. Paid(t)' = Paid(t) \cup (IF t = c[1] THEN {n + 1} ELSE {}) /\ n + 1 \notin Paid(t)
  BY <1>2 DEF Paid
<1>4. /\ IsFiniteSet(Payers(t)) /\ IsFiniteSet(Payers(t)') /\ IsFiniteSet(Paid(t))
      /\ Cardinality(Payers(t)) \in Nat /\ Cardinality(Paid(t)) \in Nat /\ Cardinality(Payers(t)') \in Nat
      /\ Cardinality(Payers(t)') <= Cardinality(Payers(t))
  BY <1>1, PaidCount, FS_Subset, FS_CardinalityType DEF Within
<1>5. Claims(JobOf(t))' => Claims(JobOf(t))
  BY TaskShape
<1>6. Spent(t) \in Nat /\ Spent(t)' <= Spent(t) /\ Spent(t)' \in Nat
  <2>1. CASE t # c[1]
    <3>1. Paid(t)' = Paid(t)
      BY <1>3, <2>1
    <3> QED
      BY <1>4, <1>5, <3>1 DEF Spent
  <2>2. CASE t = c[1]
    <3>1. Cardinality(Paid(t)') = Cardinality(Paid(t)) + 1
      <4>1. Paid(t)' = Paid(t) \cup {n + 1} /\ n + 1 \notin Paid(t)
        BY <1>3, <2>2
      <4>2. PICK P : P = Paid(t) /\ IsFiniteSet(P)
        BY <1>4
      <4>3. Cardinality(P \cup {n + 1}) = Cardinality(P) + 1
        BY <4>1, <4>2, FS_AddElement
      <4> QED
        BY <4>1, <4>2, <4>3
    <3>2. Cardinality(Payers(t)') = Cardinality(Payers(t)) - 1
      BY <1>4, <2>2, FS_RemoveElement
    <3> QED
      BY <1>4, <1>5, <3>1, <3>2 DEF Spent
  <2> QED
    BY <2>1, <2>2
<1> QED
  BY <1>1, <1>4, <1>6 DEF Within

\* Only a sweep puts a row back, and then it has seen the row no longer.
LEMMA SeenInvNext ==
    ASSUME TypeInv, SubmittedInv, SeenInv, [Next]_vars
    PROVE  SeenInv'
<1> USE DEF TypeInv, StoreInv, StoreTypeOK, LocalInv, LocalTypeOK, ArgsOK, SeenInv, Settled,
            storeVars, localVars, sweepVars, fileVars
<1>1. ASSUME jobs' = jobs, seenFin' \subseteq seenFin
      PROVE  SeenInv'
  BY <1>1
<1>2. ASSUME NEW j \in Jobs, NEW s \in {"completed", "failed", "cancelled"}, update_job(j, s), seenFin' = seenFin
      PROVE  SeenInv'
  BY <1>2 DEF update_job
<1>3. ASSUME NEW t \in Tasks, NEW ok, finish_task(t, ok), seenFin' = seenFin
      PROVE  SeenInv'
  BY <1>3, TaskShape DEF finish_task
<1>4. ASSUME NEW p \in Threads, Request(p)
      PROVE  SeenInv'
  <2>1. ASSUME NEW n \in Nodes, NEW t \in Tasks, handle_claim(p, n, t)
        PROVE  SeenInv'
    BY <2>1, TaskShape DEF handle_claim, claim_task, IsFirst, Claimable, Open
  <2> QED
    BY <1>1, <1>4, <2>1 DEF Request, handle_result, handle_cancel
<1>5. ASSUME NEW p \in Procs, Step(p)
      PROVE  SeenInv'
  <2>1. CASE finish_result(p)
    BY <1>3, <2>1 DEF finish_result, TaskPC
  <2>2. CASE claim(p)
    <3>1. CASE claim_finalization(job[p])
      BY <2>2, <3>1 DEF claim, claim_finalization, Open, JobPC
    <3> QED
      BY <1>1, <2>2, <3>1 DEF claim
  <2>3. CASE close_failed(p) \/ finalize_close(p) \/ cancel_close(p)
    BY <1>2, <2>3 DEF close_failed, finalize_close, cancel_close, JobPC, FinalizePC
  <2>4. ASSUME NEW t \in todo[p], cancel_task(p, t)
        PROVE  SeenInv'
    BY <1>3, <2>4 DEF cancel_task
  <2>5. ASSUME NEW c \in pay[p], finalize_pay(p, c)
        PROVE  SeenInv'
    BY <1>1, <2>5 DEF finalize_pay, add_credit
  <2>6. CASE claim_reply(p) \/ claim_requeue(p) \/ open_envelope(p) \/ write_envelope_fails(p)
    BY <1>1, <2>6 DEF claim_reply, claim_requeue, requeue_task, open_envelope, write_envelope_fails
  <2>7. ASSUME NEW kind \in {"empty", "grads"}, write_envelope(p, kind)
        PROVE  SeenInv'
    BY <1>1, <2>7 DEF write_envelope
  <2>8. CASE read_job(p) \/ task_counts(p) \/ cancel_tasks(p)
    BY <1>1, <2>8 DEF read_job, task_counts, cancel_tasks
  <2>9. CASE finalize_tasks(p) \/ finalize_write(p) \/ finalize_paid(p)
    BY <1>1, <2>9 DEF finalize_tasks, finalize_write, finalize_paid
  <2> QED
    BY <1>5, <2>1, <2>2, <2>3, <2>4, <2>5, <2>6, <2>7, <2>8, <2>9 DEF Step
<1>6. CASE Reap
  <2>1. CASE reap_jobs
    BY <2>1 DEF reap_jobs
  <2>2. ASSUME NEW j \in Jobs, reap_visit(j)
        PROVE  SeenInv'
    BY <2>2 DEF reap_visit, update_job
  <2> QED
    BY <1>1, <1>6, <2>1, <2>2 DEF Reap, reap_expire, expire_nodes, reap_done
<1>7. CASE Environment
  <2>1. ASSUME NEW j \in Jobs, handle_submit(j)
        PROVE  SeenInv'
    BY <2>1 DEF handle_submit, create_job, Submitted, SubmittedInv
  <2>2. ASSUME NEW j \in Jobs, job_ages(j)
        PROVE  SeenInv'
    BY <2>2 DEF job_ages
  <2> QED
    BY <1>1, <1>7, <2>1, <2>2 DEF Environment, handle_register, upsert_node, handle_heartbeat,
       handle_bye, heartbeat, node_goes_quiet, sweep_ages, crash
<1>8. CASE UNCHANGED vars
  BY <1>1, <1>8 DEF vars
<1> QED
  BY <1>4, <1>5, <1>6, <1>7, <1>8 DEF Next

\* A thread whose list does not grow and which does not come to list a job's tasks
\* is no new payer.
LEMMA NoNewPayer ==
    ASSUME \A q \in Procs : /\ pay'[q] \subseteq pay[q]
                            /\ pc'[q] = "tasks_for_job" => pc[q] = "tasks_for_job" /\ job'[q] = job[q]
    PROVE  \A t \in Tasks : Payers(t)' \subseteq Payers(t)
BY DEF Payers

\* No new chance to claim, when no row is opened or left by its owner.
LEMMA NoNewClaim ==
    ASSUME seenAged' \subseteq seenAged,
           \A j \in Jobs :
             /\ jobs'[j].status \in {"absent", "queued", "running"} =>
                  jobs[j].status \in {"absent", "queued", "running"} \/ jobs[j].aged \/ j \in seenAged
             /\ jobs'[j].status = "finalizing" =>
                  jobs[j].status = "finalizing" /\ \A q \in Procs : Owns(q, j) => Owns(q, j)'
             /\ jobs'[j].aged => jobs[j].aged
    PROVE  \A j \in Jobs : Claims(j)' => Claims(j)
BY DEF Claims, Orphan

\* A thread that is not finalizing goes on to anything but listing tasks.
LEMMA OtherStep ==
    ASSUME TypeInv, TypeInv', PayInv, BudgetInv, NEW p \in Procs, pc[p] \notin OwnerPC, Unpaid, faults' = faults,
           seenAged' = seenAged,
           \A j \in Jobs : jobs'[j].status = jobs[j].status /\ (jobs'[j].aged => jobs[j].aged),
           pc' \in [Procs -> PCs], pc'[p] # "tasks_for_job", pay'[p] \subseteq pay[p],
           \A q \in Procs \ {p} : pc'[q] = pc[q] /\ job'[q] = job[q] /\ pay'[q] = pay[q]
    PROVE  BudgetInv'
<1>1. \A t \in Tasks : Payers(t)' \subseteq Payers(t)
  BY NoNewPayer
<1>2. \A j \in Jobs, q \in Procs : Owns(q, j) => Owns(q, j)'
  BY DEF Owns, OwnerPC
<1>3. \A j \in Jobs : Claims(j)' => Claims(j)
  BY <1>2, NoNewClaim
<1> QED
  BY <1>1, <1>3, QuietStep

\* Requests start with no payment.
LEMMA BudgetRequest ==
    ASSUME NEW p \in Threads, TypeInv, TypeInv', PayInv, BudgetInv, Request(p)
    PROVE  BudgetInv'
<1> USE DEF TypeInv, StoreInv, StoreTypeOK, LocalInv, LocalTypeOK, Goto, Unpaid,
            storeVars, localVars, sweepVars, fileVars
<1>1. ASSUME NEW n \in Nodes, NEW t \in Tasks, handle_claim(p, n, t)
      PROVE  BudgetInv'
  <2>1. /\ pc[p] = "idle" /\ pc'[p] = "read_bundle" /\ UNCHANGED <<ledger, faults, seenAged, job, pay>>
        /\ \A q \in Procs \ {p} : pc'[q] = pc[q]
    BY <1>1 DEF handle_claim, claim_task
  <2>2. /\ Open(JobOf(t)) /\ JobOf(t) \in Jobs
        /\ jobs' = [jobs EXCEPT ![JobOf(t)] = [status |-> "running", aged |-> FALSE]]
    BY <1>1, TaskShape DEF handle_claim, claim_task, IsFirst, Claimable
  <2>3. \A t1 \in Tasks : Payers(t1)' \subseteq Payers(t1)
    BY <2>1, NoNewPayer
  <2>4. \A j \in Jobs, q \in Procs : Owns(q, j) => Owns(q, j)'
    BY <2>1 DEF Owns, FinalizePC
  <2>5. \A j \in Jobs : Claims(j)' => Claims(j)
    BY <2>1, <2>2, <2>4, NoNewClaim DEF Open
  <2> QED
    BY <2>1, <2>3, <2>5, QuietStep
<1>2. ASSUME NEW n \in Nodes, NEW t \in Tasks, NEW ok \in BOOLEAN, handle_result(p, n, t, ok)
      PROVE  BudgetInv'
  BY <1>2, OtherStep DEF handle_result, OwnerPC, FinalizePC
<1>3. ASSUME NEW j \in Jobs, handle_cancel(p, j)
      PROVE  BudgetInv'
  BY <1>3, OtherStep DEF handle_cancel, OwnerPC, FinalizePC
<1> QED
  BY <1>1, <1>2, <1>3 DEF Request

\* Closing a job leaves nothing to claim, and takes the chances of its own thread only.
LEMMA ClosingStep ==
    ASSUME TypeInv, TypeInv', BudgetInv, NEW p \in Procs, job[p] \in Jobs,
           NEW s \in {"completed", "failed", "cancelled"},
           update_job(job[p], s), Leave(p), faults' = faults, seenAged' = seenAged
    PROVE  BudgetInv'
<1> USE DEF TypeInv, StoreInv, StoreTypeOK, LocalInv, LocalTypeOK
<1>1. /\ jobs' = [jobs EXCEPT ![job[p]] = [status |-> s, aged |-> FALSE]]
      /\ ledger' = ledger
  BY DEF update_job
<1>2. pc'[p] \in {"sweep", "idle"} /\ pay'[p] = {} /\ \A q \in Procs \ {p} : pc'[q] = pc[q] /\ job'[q] = job[q] /\ pay'[q] = pay[q]
  BY DEF Leave, Goto, Return
<1>3. \A t \in Tasks : Payers(t)' \subseteq Payers(t)
  BY <1>2, NoNewPayer
<1>4. \A j \in Jobs \ {job[p]}, q \in Procs : Owns(q, j) => Owns(q, j)'
  BY <1>2 DEF Owns
<1>5. \A j \in Jobs : Claims(j)' => Claims(j)
  BY <1>1, <1>4, NoNewClaim
<1> QED
  BY <1>1, <1>3, <1>5, QuietStep DEF Unpaid

\* The calls of a handler spend no more than there is.
LEMMA BudgetStep ==
    ASSUME NEW p \in Procs, TypeInv, TypeInv', SubmittedInv, PayInv, SeenInv, BudgetInv, Step(p)
    PROVE  BudgetInv'
<1> USE DEF TypeInv, StoreInv, StoreTypeOK, LocalInv, LocalTypeOK, ArgsOK, Goto, Unpaid,
            storeVars, localVars, sweepVars, fileVars
<1>1. CASE claim_reply(p) \/ claim_requeue(p) \/ open_envelope(p) \/ write_envelope_fails(p)
  BY <1>1, OtherStep DEF claim_reply, claim_requeue, requeue_task, open_envelope, write_envelope_fails,
                         Leave, Return, OwnerPC, FinalizePC
<1>2. ASSUME NEW kind \in {"empty", "grads"}, write_envelope(p, kind)
      PROVE  BudgetInv'
  BY <1>2, OtherStep DEF write_envelope, OwnerPC, FinalizePC
<1>3. CASE finish_result(p)
  <2>1. \A j \in Jobs : jobs'[j].status = jobs[j].status /\ (jobs'[j].aged => jobs[j].aged)
    BY <1>3, TaskShape DEF finish_result, finish_task, TaskPC
  <2> QED
    BY <1>3, <2>1, OtherStep DEF finish_result, finish_task, OwnerPC, FinalizePC
<1>4. CASE read_job(p) \/ task_counts(p) \/ cancel_tasks(p)
  BY <1>4, OtherStep DEF read_job, task_counts, cancel_tasks, Leave, Return, OwnerPC, FinalizePC
<1>5. CASE claim(p)
  <2>1. CASE claim_finalization(job[p])
    <3>1. /\ Open(job[p]) /\ job[p] \in Jobs
          /\ jobs' = [jobs EXCEPT ![job[p]] = [status |-> "finalizing", aged |-> FALSE]]
          /\ UNCHANGED <<ledger, faults, seenAged, job, pay>>
          /\ pc'[p] \in {"tasks_for_job", "close_failed"} /\ \A q \in Procs \ {p} : pc'[q] = pc[q]
          /\ pc[p] \in {"claim_done", "claim_failed"}
      BY <1>5, <2>1 DEF claim, claim_finalization, Open, JobPC
    <3>2. \A j \in Jobs : \A q \in Procs : Owns(q, j) => Owns(q, j)'
      BY <3>1 DEF Owns, FinalizePC
    <3>3. Owns(p, job[p])' /\ job[p] \notin seenAged
      BY <3>1 DEF Owns, FinalizePC, SeenInv, Settled, Open, SubmittedInv
    <3>4. Claims(job[p]) /\ ~Claims(job[p])'
      BY <3>1, <3>3 DEF Claims, Orphan, Open
    <3>5. \A j \in Jobs : Claims(j)' => Claims(j)
      BY <3>1, <3>2, <3>4 DEF Claims, Orphan
    <3>6. \A t \in Tasks : Payers(t)' \subseteq Payers(t) \cup (IF JobOf(t) = job[p] THEN {p} ELSE {})
      BY <3>1 DEF Payers
    <3>7. PICK k \in Jobs : k = job[p]
      BY <3>1
    <3> QED
      BY <3>1, <3>4, <3>5, <3>6, <3>7, ClaimSpends
  <2>2. CASE Leave(p) /\ UNCHANGED storeVars
    BY <1>5, <2>2, OtherStep DEF claim, Leave, Return, OwnerPC, FinalizePC
  <2> QED
    BY <1>5, <2>1, <2>2 DEF claim
<1>6. CASE close_failed(p) \/ finalize_close(p) \/ cancel_close(p)
  BY <1>6, ClosingStep DEF close_failed, finalize_close, cancel_close, JobPC, FinalizePC
<1>7. CASE finalize_tasks(p) \/ finalize_write(p) \/ finalize_paid(p)
  <2>1. /\ pc[p] \in FinalizePC /\ pc'[p] \in FinalizePC \ {"tasks_for_job"}
        /\ UNCHANGED <<ledger, faults, jobs, seenAged, job>>
        /\ \A q \in Procs \ {p} : pc'[q] = pc[q] /\ pay'[q] = pay[q]
    BY <1>7 DEF finalize_tasks, finalize_write, finalize_paid, FinalizePC
  <2>2. \/ pay'[p] \subseteq pay[p]
        \/ pc[p] = "tasks_for_job" /\ \A c \in pay'[p] : JobOf(c[1]) = job[p]
    BY <1>7 DEF finalize_tasks, finalize_write, finalize_paid, TasksOf
  <2>3. \A t \in Tasks : Payers(t)' \subseteq Payers(t)
    BY <2>1, <2>2 DEF Payers
  <2>4. \A j \in Jobs : \A q \in Procs : Owns(q, j) => Owns(q, j)'
    BY <2>1 DEF Owns
  <2>5. \A j \in Jobs : Claims(j)' => Claims(j)
    BY <2>1, <2>4, NoNewClaim
  <2> QED
    BY <2>1, <2>3, <2>5, QuietStep
<1>8. ASSUME NEW c \in pay[p], finalize_pay(p, c)
      PROVE  BudgetInv'
  <2>1. /\ c \in Tasks \X Nodes /\ pc[p] = "add_credit" /\ add_credit(c[2], c[1])
        /\ pay' = [pay EXCEPT ![p] = pay[p] \ {c}]
        /\ UNCHANGED <<pc, faults, jobs, seenAged, job>>
    BY <1>8 DEF finalize_pay, add_credit
  <2>2. \A d \in pay'[p] : d[1] # c[1]
    BY <1>8, <2>1 DEF PayInv
  <2>3. p \in Payers(c[1]) /\ Payers(c[1])' = Payers(c[1]) \ {p}
    BY <2>1, <2>2 DEF Payers
  <2>4. \A t \in Tasks : Payers(t)' \subseteq Payers(t)
    BY <2>1, NoNewPayer
  <2>5. \A j \in Jobs : Claims(j)' => Claims(j)
    BY <2>1, NoNewClaim DEF Owns
  <2> QED
    BY <2>1, <2>3, <2>4, <2>5, PaymentSpends
<1>9. ASSUME NEW t \in todo[p], cancel_task(p, t)
      PROVE  BudgetInv'
  <2>1. \A j \in Jobs : jobs'[j].status = jobs[j].status /\ (jobs'[j].aged => jobs[j].aged)
    BY <1>9, TaskShape DEF cancel_task, finish_task
  <2> QED
    BY <1>9, <2>1, OtherStep DEF cancel_task, finish_task, OwnerPC, FinalizePC
<1> QED
  BY <1>1, <1>2, <1>3, <1>4, <1>5, <1>6, <1>7, <1>8, <1>9 DEF Step

\* What touches neither the threads nor the job rows leaves the budget alone.
LEMMA StillStep ==
    ASSUME TypeInv, TypeInv', BudgetInv, UNCHANGED <<ledger, faults, jobs, job, pay>>, seenAged' \subseteq seenAged,
           pc' = pc \/ \E label \in PCs \ {"tasks_for_job"} : pc' = [pc EXCEPT ![Reaper] = label],
           pc[Reaper] \in OwnerPC => pc' = pc
    PROVE  BudgetInv'
<1>1. \A t \in Tasks : Payers(t)' \subseteq Payers(t)
  BY NoNewPayer DEF TypeInv, LocalInv, LocalTypeOK
<1>2. \A j \in Jobs, q \in Procs : Owns(q, j) => Owns(q, j)'
  BY DEF Owns, OwnerPC, TypeInv, LocalInv, LocalTypeOK
<1>3. \A j \in Jobs : Claims(j)' => Claims(j)
  BY <1>2, NoNewClaim
<1> QED
  BY <1>1, <1>3, QuietStep DEF Unpaid

\* A sweep reopens only what could be reopened before.
LEMMA BudgetReap ==
    ASSUME TypeInv, TypeInv', SubmittedInv, SeenInv, PayInv, BudgetInv, Reap
    PROVE  BudgetInv'
<1> USE DEF TypeInv, StoreInv, StoreTypeOK, LocalInv, LocalTypeOK, Goto, Unpaid,
            storeVars, localVars, sweepVars, fileVars
<1>1. CASE reap_expire
  BY <1>1, StillStep DEF reap_expire, expire_nodes, OwnerPC, FinalizePC, PCs
<1>2. CASE reap_done
  BY <1>2, StillStep DEF reap_done, OwnerPC, FinalizePC, PCs
<1>3. CASE reap_jobs
  <2>1. /\ UNCHANGED <<ledger, faults, jobs, job, pay>> /\ pc[Reaper] = "jobs" /\ pc' = [pc EXCEPT ![Reaper] = "sweep"]
        /\ \A j \in seenAged' : jobs[j].aged
    BY <1>3 DEF reap_jobs
  <2>2. \A t \in Tasks : Payers(t)' \subseteq Payers(t)
    BY <2>1, NoNewPayer
  <2>3. \A j \in Jobs, q \in Procs : Owns(q, j) => Owns(q, j)'
    BY <2>1 DEF Owns, FinalizePC
  <2>4. \A j \in Jobs : Claims(j)' => Claims(j)
    BY <2>1, <2>3 DEF Claims, Orphan
  <2> QED
    BY <2>1, <2>2, <2>4, QuietStep
<1>4. ASSUME NEW j \in Jobs, reap_visit(j)
      PROVE  BudgetInv'
  <2>1. UNCHANGED <<ledger, faults, pay>> /\ seenAged' = seenAged \ {j} /\ pc[Reaper] = "sweep"
    BY <1>4 DEF reap_visit, update_job
  <2>2. CASE j \in seenAged /\ update_job(j, "running") /\ UNCHANGED localVars
    <3>1. jobs' = [jobs EXCEPT ![j] = [status |-> "running", aged |-> FALSE]]
      BY <2>2 DEF update_job
    <3>2. \A t \in Tasks : Payers(t)' \subseteq Payers(t)
      BY <2>2, NoNewPayer
    <3>3. \A k \in Jobs : Claims(k)' => Claims(k)
      BY <2>1, <2>2, <3>1, NoNewClaim DEF Owns
    <3> QED
      BY <2>1, <3>2, <3>3, QuietStep
  <2>3. CASE UNCHANGED <<storeVars, localVars>>
    BY <2>1, <2>3, StillStep
  <2>4. CASE Goto(Reaper, "job") /\ job' = [job EXCEPT ![Reaper] = j] /\ UNCHANGED <<storeVars, task, node, todo, pay>>
    <3>1. \A t \in Tasks : Payers(t)' \subseteq Payers(t)
      BY <2>4, NoNewPayer
    <3>2. \A k \in Jobs, q \in Procs : Owns(q, k) => Owns(q, k)'
      BY <2>1, <2>4 DEF Owns, FinalizePC
    <3>3. \A k \in Jobs : Claims(k)' => Claims(k)
      BY <2>1, <2>4, <3>2, NoNewClaim
    <3> QED
      BY <2>1, <2>4, <3>1, <3>3, QuietStep
  <2> QED
    BY <1>4, <2>2, <2>3, <2>4 DEF reap_visit
<1> QED
  BY <1>1, <1>2, <1>3, <1>4 DEF Reap

\* A crash or a stall may give back one chance to each task, and adds one to the budget.
LEMMA BudgetEnvironment ==
    ASSUME TypeInv, TypeInv', SeenInv, BudgetInv, Environment
    PROVE  BudgetInv'
<1> USE DEF TypeInv, StoreInv, StoreTypeOK, LocalInv, LocalTypeOK, Unpaid,
            storeVars, localVars, sweepVars, fileVars
<1>1. ASSUME NEW n \in Nodes, handle_register(n) \/ handle_heartbeat(n) \/ handle_bye(n) \/ node_goes_quiet(n)
      PROVE  BudgetInv'
  BY <1>1, StillStep DEF handle_register, upsert_node, handle_heartbeat, handle_bye, heartbeat, node_goes_quiet
<1>2. ASSUME NEW j \in Jobs, handle_submit(j)
      PROVE  BudgetInv'
  <2>1. /\ jobs[j].status = "absent" /\ jobs' = [jobs EXCEPT ![j] = [status |-> "queued", aged |-> FALSE]]
        /\ UNCHANGED <<ledger, faults, pc, job, pay, seenAged>>
    BY <1>2 DEF handle_submit, create_job, Submitted
  <2>2. \A t \in Tasks : Payers(t)' \subseteq Payers(t)
    BY <2>1, NoNewPayer
  <2>3. \A k \in Jobs : Claims(k)' => Claims(k)
    BY <2>1, NoNewClaim DEF Owns
  <2> QED
    BY <2>1, <2>2, <2>3, QuietStep
<1>3. ASSUME NEW j \in Jobs, job_ages(j)
      PROVE  BudgetInv'
  <2>1. /\ UNCHANGED <<ledger, pc, job, pay>> /\ seenAged' \subseteq seenAged \cup {j} /\ jobs[j].status = "finalizing"
        /\ jobs' = [jobs EXCEPT ![j] = [status |-> "finalizing", aged |-> TRUE]]
    BY <1>3 DEF job_ages
  <2>2. \A t \in Tasks : Payers(t)' \subseteq Payers(t)
    BY <2>1, NoNewPayer
  <2>3. CASE (\A p \in Procs : ~Owns(p, j)) /\ faults' = faults
    <3>1. Claims(j)
      BY <2>1, <2>3 DEF Claims, Orphan
    <3>2. \A k \in Jobs : Claims(k)' => Claims(k)
      BY <2>1, <3>1 DEF Claims, Orphan, Owns
    <3> QED
      BY <2>1, <2>2, <2>3, <3>2, QuietStep
  <2>4. CASE faults' = faults + 1
    BY <2>1, <2>2, <2>4, FaultStep
  <2> QED
    BY <1>3, <2>3, <2>4 DEF job_ages
<1>4. ASSUME NEW j \in Jobs, sweep_ages(j)
      PROVE  BudgetInv'
  <2>1. UNCHANGED <<ledger, pc, job, pay>> /\ faults' = faults + 1
    BY <1>4 DEF sweep_ages
  <2>2. \A t \in Tasks : Payers(t)' \subseteq Payers(t)
    BY <2>1, NoNewPayer
  <2> QED
    BY <2>1, <2>2, FaultStep
<1>5. CASE crash
  <2>1. /\ ledger' = ledger /\ faults' = faults + 1
        /\ \A q \in Procs : pay'[q] = {} /\ pc'[q] = "idle"
    BY <1>5 DEF crash
  <2>2. \A t \in Tasks : Payers(t)' \subseteq Payers(t)
    BY <2>1, NoNewPayer
  <2> QED
    BY <2>1, <2>2, FaultStep
<1> QED
  BY <1>1, <1>2, <1>3, <1>4, <1>5 DEF Environment

\* At first nothing is paid, nobody pays, and every job can be claimed.
LEMMA BudgetInit == Init => SeenInv /\ BudgetInv
<1> SUFFICES ASSUME Init PROVE SeenInv /\ BudgetInv
  OBVIOUS
<1>1. SeenInv
  BY DEF Init, StoreInit, SeenInv
<1>2. ASSUME NEW t \in Tasks PROVE Within(t)
  <2>1. Paid(t) = {} /\ Payers(t) = {}
    BY DEF Init, StoreInit, Paid, Payers
  <2>2. Cardinality(Paid(t)) = 0 /\ Cardinality(Payers(t)) = 0 /\ IsFiniteSet(Payers(t))
    BY <2>1, FS_EmptySet
  <2>3. faults = 0
    BY DEF Init
  <2>4. Spent(t) \in {0, 1}
    BY <2>2 DEF Spent
  <2> QED
    BY <2>2, <2>3, <2>4 DEF Within
<1> QED
  BY <1>1, <1>2 DEF BudgetInv

\* Every step, and a stutter, keeps BudgetInv.
LEMMA BudgetNext ==
    ASSUME TypeInv, SubmittedInv, PayInv, SeenInv, BudgetInv, [Next]_vars
    PROVE  BudgetInv'
<1>1. TypeInv'
  BY TypeNext
<1>2. CASE Next
  BY <1>1, <1>2, BudgetRequest, BudgetStep, BudgetReap, BudgetEnvironment DEF Next
<1>3. CASE UNCHANGED vars
  BY <1>1, <1>3, StillStep DEF vars, storeVars, localVars, sweepVars
<1> QED
  BY <1>2, <1>3

-----------------------------------------------------------------------------
(* The theorems *)

\* Every inductive invariant of this module holds initially.
LEMMA InitInvs == Init => SubmittedInv /\ LiveInv /\ OwnerInv /\ PayInv /\ PublishedInv /\ PaymentInv
<1> SUFFICES ASSUME Init
             PROVE  SubmittedInv /\ LiveInv /\ OwnerInv /\ PayInv /\ PublishedInv /\ PaymentInv
  OBVIOUS
<1> USE DEF Init, StoreInit
<1>1. SubmittedInv
  BY DEF SubmittedInv, TaskPC, JobPC, FinalizePC
<1>2. LiveInv
  BY DEF LiveInv, Closed, CountedPC, FinalizePC
<1>3. OwnerInv
  BY DEF OwnerInv, OneOwner, OwnerRow, Owns, Orphan, FinalizePC
<1>4. PayInv
  BY DEF PayInv
<1>5. PublishedInv
  BY DEF PublishedInv, ResultComesFirst
<1>6. PaymentInv
  BY DEF PaymentInv, PaidOnce, Orphan
<1> QED
  BY <1>1, <1>2, <1>3, <1>4, <1>5, <1>6

\* The first two invariants need no assumption on faults and carry all others.
LEMMA AlwaysSubmitted == Spec => [](TypeInv /\ SubmittedInv)
<1>1. Init => TypeInv /\ SubmittedInv
  BY TypeInit, InitInvs
<1>2. TypeInv /\ SubmittedInv /\ [Next]_vars => TypeInv' /\ SubmittedInv'
  BY TypeNext, SubmittedInvNext
<1> QED
  BY <1>1, <1>2, PTL DEF Spec

\* No task row leaves its type, whatever fails, stalls or crashes; in
\* particular attempt_count never passes max_attempts.
THEOREM TypeCorrect == Spec => []TypeOK
<1>1. TypeInv => TypeOK
  BY DEF TypeInv, StoreInv, LocalInv, TypeOK
<1> QED
  BY <1>1, AlwaysSubmitted, PTL

\* A queued row is free with an attempt left and an assigned row names a
\* registered node, although requeue_task and finish_task do not look at the
\* row they overwrite.
THEOREM RowsConsistent == Spec => []TaskRowsConsistent
<1>1. TypeInv => TaskRowsConsistent
  BY DEF TypeInv, StoreInv
<1> QED
  BY <1>1, AlwaysSubmitted, PTL

\* As long as bundles stay readable, a closed job has no queued and no
\* assigned task: maybe_finalize's counts are not outdated by the time it
\* claims the job, and handle_cancel overlooks no task.
THEOREM NoLiveTaskLeft ==
    ASSUME ~FileErrors
    PROVE  Spec => []ClosedJobHasNoLiveTask
<1>1. Init => LiveInv
  BY InitInvs
<1>2. TypeInv /\ SubmittedInv /\ LiveInv /\ [Next]_vars => LiveInv'
  BY LiveInvNext
<1>3. LiveInv => ClosedJobHasNoLiveTask
  BY DEF LiveInv, ClosedJobHasNoLiveTask
<1> QED
  BY <1>1, <1>2, <1>3, AlwaysSubmitted, PTL DEF Spec

\* While no finalization stalls, only an orphaned 'finalizing' row grows old.
LEMMA AlwaysOwner ==
    ASSUME ~CanStall
    PROVE  Spec => []OwnerInv
<1>1. Init => OwnerInv
  BY InitInvs
<1>2. TypeInv /\ SubmittedInv /\ OwnerInv /\ [Next]_vars => OwnerInv'
  BY OwnerInvNext
<1> QED
  BY <1>1, <1>2, AlwaysSubmitted, PTL DEF Spec

\* claim_finalization's promise of one owner: as long as no finalization
\* outlasts the 30 s of the sweep, no two threads ever aggregate and pay the
\* same job, crashes and cancellations included.
THEOREM OneOwnerAtATime ==
    ASSUME ~CanStall
    PROVE  Spec => []OneOwner
<1>1. OwnerInv => OneOwner
  BY DEF OwnerInv
<1> QED
  BY <1>1, AlwaysOwner, PTL

\* Under the same condition a closed job is never reopened: not by the
\* sweep's write-back of an old row, and not by claim_task.
THEOREM ClosedForGood ==
    ASSUME ~CanStall
    PROVE  Spec => ClosedStaysClosed
<1>1. TypeInv /\ SubmittedInv /\ OwnerInv /\ [Next]_vars =>
        [\A j \in Jobs : Closed(j) => Closed(j)']_vars
  BY ClosedStep
<1> QED
  BY <1>1, AlwaysSubmitted, AlwaysOwner, PTL DEF Spec, ClosedStaysClosed

\* As long as the disk takes the files, a job is 'completed', and a replica
\* of it paid, only once its result is written.
THEOREM PublishedFirst ==
    ASSUME ~FileErrors
    PROVE  Spec => []ResultComesFirst
<1>1. Init => PayInv /\ PublishedInv
  BY InitInvs
<1>2. TypeInv /\ PayInv /\ PublishedInv /\ [Next]_vars => PayInv' /\ PublishedInv'
  BY PayInvNext, PublishedInvNext
<1>3. PublishedInv => ResultComesFirst
  BY DEF PublishedInv
<1> QED
  BY <1>1, <1>2, <1>3, AlwaysSubmitted, PTL DEF Spec

\* If besides the coordinator does not die, each replica is paid for at most
\* once, whatever is cancelled, expires or is reported twice.
THEOREM PaidAtMostOnce ==
    ASSUME ~CanCrash, ~CanStall
    PROVE  Spec => []PaidOnce
<1>1. Init => PayInv /\ PaymentInv
  BY InitInvs
<1>2. TypeInv /\ SubmittedInv /\ OwnerInv /\ PayInv /\ PaymentInv /\ [Next]_vars
        => PayInv' /\ PaymentInv'
  BY PayInvNext, PaymentInvNext
<1>3. PaymentInv => PaidOnce
  BY DEF PaymentInv
<1> QED
  BY <1>1, <1>2, <1>3, AlwaysSubmitted, AlwaysOwner, PTL DEF Spec

\* A replica is paid at most once more than there were crashes and stalls, whatever
\* else fails, is cancelled, expires or is reported twice.
THEOREM PaidPerFaultHolds == Spec => []PaidPerFault
<1>1. Init => PayInv /\ SeenInv /\ BudgetInv
  BY InitInvs, BudgetInit
<1>2. TypeInv /\ SubmittedInv /\ PayInv /\ SeenInv /\ BudgetInv /\ [Next]_vars
        => PayInv' /\ SeenInv' /\ BudgetInv'
  BY PayInvNext, SeenInvNext, BudgetNext
<1>3. TypeInv /\ BudgetInv => PaidPerFault
  <2> SUFFICES ASSUME TypeInv, BudgetInv, NEW t \in Tasks PROVE Cardinality(Paid(t)) <= 1 + faults
    BY DEF PaidPerFault, Paid
  <2>1. Within(t) /\ faults \in Nat
    BY CoordinatorAssumption DEF BudgetInv, TypeInv, LocalInv, FileTypeOK
  <2>2. Cardinality(Paid(t)) \in Nat /\ Cardinality(Payers(t)) \in Nat
    BY <2>1, PaidCount, FS_CardinalityType DEF Within
  <2> QED
    BY <2>1, <2>2 DEF Within, Spent
<1> QED
  BY <1>1, <1>2, <1>3, AlwaysSubmitted, PTL DEF Spec

=============================================================================
