----------------------------- MODULE WorkerDaemon -----------------------------
(* The Python worker daemon (legacy/worker/src/daemon/daemon.py) composed     *)
(* with the orchestrator: it connects, registers, takes assignments, reports, *)
(* and keeps its job across a lost connection. Messages it sends while it is  *)
(* not connected are dropped.                                                 *)
EXTENDS NodeService

CONSTANT MaxQueue       \* messages of one stream under way to the server
ASSUME QueueAssumption == MaxQueue \in Nat \ {0}

VARIABLES
  worker,   \* per node: its stream, the task it runs and how, has it been told to stop
  faked     \* tasks of scripted jobs reported as trained without their script

gridVars == <<orchVars, worker, faked>>

WorkerInit ==
  /\ worker = [n \in Nodes |-> [sess |-> None, job |-> None, how |-> "none", stop |-> FALSE]]
  /\ faked = {}

\* What the worker leaves alone of the orchestrator.
ServerSame == UNCHANGED <<dbVars, memVars, hand, leaving, orphans, sched, adminVars, sent, paid>>

SendTwice(n, m) ==
  LET s == worker[n].sess IN
  IF s = None THEN UNCHANGED up
  ELSE Len(up[s]) < MaxQueue /\ up' = [up EXCEPT ![s] = @ \o <<m, m>>]

\* _send drops a message while the daemon is not connected.
_send(n, m) ==
  LET s == worker[n].sess IN
  IF s = None THEN UNCHANGED up
  ELSE Len(up[s]) < MaxQueue /\ up' = [up EXCEPT ![s] = Append(@, m)]

\* _connect_and_run opens a stream and _register sends its first message. RECONNECT_DELAY
\* outlasts the database calls of a forced disconnect. Streams are numbered as they are opened.
Connect(n) ==
  LET free == {s \in Sessions : sess[s].server = "free"}
      s == CHOOSE r \in free : TRUE IN
  /\ n \notin kicked
  /\ worker[n].sess = None /\ ~worker[n].stop
  /\ free # {}
  /\ sess' = [sess EXCEPT ![s] = [node |-> n, server |-> "open", bound |-> FALSE, alive |-> TRUE]]
  /\ up' = [up EXCEPT ![s] = <<Message("register", None, "none")>>]
  /\ worker' = [worker EXCEPT ![n].sess = s]
  /\ ServerSame /\ UNCHANGED <<down, trouble, faked>>

\* A heartbeat is left out while the row is fresh: it would change nothing.
_heartbeat_loop(n) ==
  LET s == worker[n].sess IN
  /\ ~node[n].fresh
  /\ s # None /\ sess[s].bound /\ ~worker[n].stop
  /\ ~\E i \in DOMAIN up[s] : up[s][i].kind = "heartbeat"
  /\ _send(n, Message("heartbeat", None, "none"))
  /\ ServerSame /\ UNCHANGED <<sess, down, worker, trouble, faked>>

\* _accept_job: a busy worker rejects, which the orchestrator does not retry.
_accept_job(n, m) ==
  IF worker[n].job # None
  THEN _send(n, Message("result", m.task, "rejected")) /\ UNCHANGED worker
  ELSE UNCHANGED up /\ worker' = [worker EXCEPT ![n].job = m.task, ![n].how = m.what]

\* _handle_message: an empty token stops the daemon, an assignment is taken or rejected;
\* the control messages that reach it change nothing here.
_handle_message(n) ==
  LET s == worker[n].sess IN
  /\ s # None /\ down[s] # <<>> /\ sess[s].alive
  /\ down' = [down EXCEPT ![s] = Tail(@)]
  /\ LET m == Head(down[s]) IN
     \/ /\ m.kind = "ack" /\ UNCHANGED up
        /\ worker' = [worker EXCEPT ![n].stop = @ \/ m.what = "refused"]
     \/ m.kind = "assign" /\ _accept_job(n, m)
     \/ m.kind = "control" /\ UNCHANGED <<up, worker>>
  /\ ServerSame /\ UNCHANGED <<sess, trouble, faked>>

\* The stream is broken, or ended by the server, which happens after its teardown, or left by
\* a stopped daemon without a job; the job, if there is one, goes on.
Disconnect(n) ==
  LET s == worker[n].sess IN
  /\ s # None
  /\ \/ ~sess[s].alive
     \/ down[s] # <<>> /\ Head(down[s]).kind = "end" /\ sess[s].server = "closed" /\ s \notin leaving
     \/ worker[n].stop /\ worker[n].job = None
  /\ worker' = [worker EXCEPT ![n].sess = None]
  /\ sess' = [sess EXCEPT ![s].alive = FALSE] /\ down' = [down EXCEPT ![s] = <<>>]
  /\ ServerSame /\ UNCHANGED <<up, trouble, faked>>

\* Progress is left out while the job's row says running: it would change nothing.
_report_progress(n) ==
  LET t == worker[n].job IN
  /\ t # None /\ job[JobOf[t]].st # "running"
  /\ worker[n].sess # None /\ up[worker[n].sess] = <<>>
  /\ _send(n, Message("progress", t, "none"))
  /\ ServerSame /\ UNCHANGED <<sess, down, worker, trouble, faked>>

\* _report_result forgets the job first and sends only if it is connected.
_report_result(n, status) ==
  LET t == worker[n].job IN
  /\ t # None
  /\ worker' = [worker EXCEPT ![n].job = None, ![n].how = "none"]
  /\ _send(n, Message("result", t, status))
  /\ faked' = IF status = "success" /\ JobOf[t] \in Scripted /\ worker[n].how = "builtin"
              THEN faked \cup {t} ELSE faked
  /\ ServerSame /\ UNCHANGED <<sess, down, trouble>>

WorkerCrash(n) ==
  LET s == worker[n].sess IN
  /\ Trouble
  /\ worker[n].job # None
  /\ worker' = [worker EXCEPT ![n].sess = None, ![n].job = None, ![n].how = "none"]
  /\ IF s = None THEN UNCHANGED <<sess, down>>
     ELSE sess' = [sess EXCEPT ![s].alive = FALSE] /\ down' = [down EXCEPT ![s] = <<>>]
  /\ ServerSame /\ UNCHANGED <<up, faked>>

Workers ==
  \E n \in Nodes :
    \/ Connect(n) \/ _heartbeat_loop(n) \/ _handle_message(n) \/ Disconnect(n) \/ _report_progress(n)
    \/ \E status \in {"success", "failed"} : _report_result(n, status)
    \/ WorkerCrash(n)

-----------------------------------------------------------------------------
GridInit == ServiceInit /\ WorkerInit
GridNext == \/ (Streams \/ Scheduler \/ Admin \/ ServiceFaults) /\ UNCHANGED <<worker, faked>>
            \/ Workers
\* The event loop runs the scheduler, the threads finish their calls, and time goes on.
GridFairness ==
  /\ WF_gridVars(Scheduler /\ UNCHANGED <<worker, faked>>)
  /\ WF_gridVars((\E t \in Tasks : DeadlinePasses(t)) /\ TimePasses /\ UNCHANGED <<worker, faked>>)
GridSpec == GridInit /\ [][GridNext]_gridVars /\ GridFairness

-----------------------------------------------------------------------------
GridTypeOK ==
  /\ DBTypeOK
  /\ connected \in [Nodes -> Sessions \cup {None}] /\ pending \in [Nodes -> Tasks \cup {None}]
  /\ aggregate \in [Jobs -> SUBSET (Nodes \cup {None})]
  /\ bundle \subseteq Tasks /\ saving \subseteq Tasks /\ leaving \subseteq Sessions
  /\ \A s \in Sessions : Len(up[s]) <= MaxQueue
  /\ \A n \in Nodes : worker[n].job \in Tasks \cup {None} /\ worker[n].sess \in Sessions \cup {None}

\* What the job row says follows its tasks, through results, requeues, retries and late
\* database calls: a successful job has only successful tasks, a failed one has no task
\* that is queued or running (_refresh_job_state).
JobRowAgreesWithTasks ==
  \A j \in Jobs :
    /\ job[j].st = "success" => \A t \in TasksOf(j) : task[t].st = "success"
    /\ job[j].st = "failed" => \A t \in TasksOf(j) : task[t].st \notin {"queued", "running"}

\* However often a task is lost, recycled, failed or retried, it is assigned at most
\* max_attempts times plus once per operator retry (complete_task, _recycle_task_rows).
AttemptBudget == \A t \in Tasks : task[t].tries <= MaxAttempts[t] + retried

\* Each delivery of a task is paid at most once, whatever breaks, reconnects or repeats
\* (_handle_result, _report_result).
PaidPerDelivery == \A t \in Tasks : paid[t] <= sent[t]

\* Nothing runs for ever: although a worker may be gone, hang or never have been sent its
\* task, every task is in the end finished, failed, cancelled or waiting (requeue_stale_tasks,
\* its deadline and the attempts it counts).
RunningEnds == <>[](\A t \in Tasks : task[t].st # "running")

\* "The scheduler loads from memory or disk before gRPC assign": a task of a scripted job is
\* trained by its script, never by the built-in trainer.
ScriptedJobRunsItsScript == faked = {}
=============================================================================
