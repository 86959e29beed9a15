------------------------------- MODULE Callbacks -------------------------------
(* Callbacks on the end of a job (webhook_delivery.py, called by complete_task*)
(* and cancel_job). The calls run in worker threads: each commits its rows,   *)
(* and then reads the job again, when other calls may have committed. One job *)
(* with a callback URL; its tasks are abstracted to the status they give it.  *)
EXTENDS Naturals, Sequences, Functions

CONSTANT MaxCommits   \* bounds the calls that change the job

VARIABLES job_status,   \* the row, or "cleared"
          notifying,    \* calls that committed and have yet to look whom to tell
          told,         \* statuses scheduled for delivery since job_status was entered
          swept,        \* job_status was set by a sweep, which tells nobody
          lapsed,       \* a call that should have told job_status failed or died before it did
          threads,      \* deliveries on their way
          delivered,    \* statuses that arrived, in that order
          commits
callbacksVars == <<job_status, notifying, told, swept, lapsed, threads, delivered, commits>>

TERMINAL_STATUSES == {"success", "failed", "cancelled"}
is_terminal_status(status) == status \in TERMINAL_STATUSES

CallbacksInit ==
  /\ job_status = "queued" /\ notifying = << >> /\ told = {} /\ swept = FALSE /\ lapsed = FALSE
  /\ threads = << >> /\ delivered = << >> /\ commits = 0

Commit(status, call, bySweep) ==
  /\ job_status # "cleared" /\ commits < MaxCommits /\ commits' = commits + 1
  /\ job_status' = status /\ notifying' = notifying \o call
  /\ told' = IF status = job_status THEN told ELSE {}
  /\ swept' = IF status = job_status THEN swept ELSE bySweep
  /\ lapsed' = (lapsed /\ status = job_status)
  /\ UNCHANGED <<threads, delivered>>

\* A result is recorded, and the job's status follows from its tasks.
complete_task == \E status \in {"queued", "running", "success", "failed"} : Commit(status, <<"result">>, FALSE)
cancel_job == Commit("cancelled", <<"cancel">>, FALSE)
\* requeue_stale_tasks and requeue_tasks_for_node fail a job without telling anyone.
_recycle_task_rows == \E status \in {"queued", "running", "failed"} : Commit(status, << >>, TRUE)
operator_retry_job == \E status \in {"queued", "running"} : Commit(status, << >>, FALSE)
clear_completed_jobs == is_terminal_status(job_status) /\ Commit("cleared", << >>, FALSE)

\* What a call tells: the status the job has by now, or that it was cancelled. A cleared job
\* has no callback URL any more. (OnlyResults forgets cancellations.)
OnlyResults(call) == IF call = "cancel" \/ job_status = "cleared" THEN {} ELSE {job_status} \cap {"success", "failed"}
Told(call) ==
  IF job_status = "cleared" THEN {}
  ELSE IF call = "cancel" THEN {"cancelled"} ELSE {job_status} \cap TERMINAL_STATUSES
notify_job_terminal(i) ==
  /\ told' = told \cup Told(notifying[i])
  /\ threads' = threads \o [j \in 1 .. (IF Told(notifying[i]) = {} THEN 0 ELSE 1) |-> CHOOSE s \in Told(notifying[i]) : TRUE]
  /\ notifying' = SubSeq(notifying, 1, i - 1) \o SubSeq(notifying, i + 1, Len(notifying))
  /\ UNCHANGED <<job_status, swept, lapsed, delivered, commits>>

\* Nothing makes up for a call that committed and never gets to tell: cancel_job raises when the
\* queue positions cannot be refreshed, an error while the job is read or the delivery scheduled
\* is only logged, and the process can die with any of its calls.
CallFails(i) ==
  /\ lapsed' = (lapsed \/ job_status \in Told(notifying[i]))
  /\ notifying' = SubSeq(notifying, 1, i - 1) \o SubSeq(notifying, i + 1, Len(notifying))
  /\ UNCHANGED <<job_status, told, swept, threads, delivered, commits>>

\* Each delivery has a thread and one attempt: it arrives, in any order, or is lost, which it is
\* too when the process dies.
deliver_webhook(i) ==
  /\ threads' = SubSeq(threads, 1, i - 1) \o SubSeq(threads, i + 1, Len(threads))
  /\ delivered' = Append(delivered, threads[i]) \/ UNCHANGED delivered
  /\ UNCHANGED <<job_status, notifying, told, swept, lapsed, commits>>

CallbacksNext ==
  \/ complete_task \/ cancel_job \/ _recycle_task_rows \/ operator_retry_job \/ clear_completed_jobs
  \/ \E i \in DOMAIN notifying : notify_job_terminal(i) \/ CallFails(i)
  \/ \E i \in DOMAIN threads : deliver_webhook(i)

-----------------------------------------------------------------------------
\* With results, cancellations and retries racing for the job, and every call reading it after
\* its commit: when no call is left to run, the status a job ended in has been told since it
\* got it, unless a sweep gave it, or the very call that should tell it failed or died; that an
\* earlier or a later call failed excuses nothing (complete_task, cancel_job,
\* notify_job_terminal).
EndIsTold == notifying = << >> /\ is_terminal_status(job_status) => swept \/ lapsed \/ job_status \in told
=============================================================================
