----------------------------- MODULE NodeService -----------------------------
(* The Python orchestrator around DBManager (legacy/services_python): the     *)
(* gRPC stream handlers, the scheduler loop and the admin handlers. All run   *)
(* on one event loop; every database call runs in a thread and is awaited, so *)
(* anything may happen between two steps of a handler. A stream that ends     *)
(* cancels its handler wherever it waits: the call it waits for is dropped or *)
(* runs later on its own ("orphan").                                          *)
EXTENDS DBManager

CONSTANTS Sessions,       \* one element per StreamSession that may be opened
          Submissions,    \* the sets of jobs an execution may submit
          Scripted,       \* the jobs submitted with a script package
          MinResults,     \* distinct gradients before an aggregation
          MaxTrouble      \* broken streams, stalls, crashes, full disks and operator commands in one run

VARIABLES
  connected,  \* connected_nodes: the session whose queue a node has
  pending,    \* pending_assignments
  bundle,     \* the tasks whose script package is on disk
  aggregate,  \* jobs.aggregate_json: the nodes whose gradients it averages
  sess,       \* per stream: its node, the server's end, is it registered, is it intact
  hand,       \* per stream: where the incoming handler waits, and with which message
  leaving,    \* streams whose teardown has not requeued yet
  up, down,   \* messages to and from the server, out_queue included
  orphans,    \* database calls whose handler is gone
  sched,      \* the scheduler loop
  saving,     \* tasks whose package the create handler has still to save
  kicked,     \* forced disconnects that have not reached the database
  retrying,   \* retries that have read the job and not yet queued it
  created, retried, trouble,  \* jobs created (or never to be); retries, and all troubles, so far
  sent, paid  \* how often a task was sent to a node, and paid for

memVars == <<connected, pending, aggregate>>
streamVars == <<sess, hand, leaving, up, down, orphans>>
adminVars == <<bundle, saving, kicked, retrying, created, retried>>
countVars == <<trouble, sent, paid>>
orchVars == <<dbVars, memVars, streamVars, sched, adminVars, countVars>>

Trouble == trouble < MaxTrouble /\ trouble' = trouble + 1

Message(kind, t, what) == [kind |-> kind, task |-> t, what |-> what]
Idle == [pc |-> "recv", msg |-> Message("none", None, "none"), snap |-> {}]
SchedIdle == [pc |-> "stale", todo |-> {}, idle |-> {}, node |-> None, task |-> None]

ServiceInit ==
  /\ DBInit
  /\ connected = [n \in Nodes |-> None] /\ pending = [n \in Nodes |-> None]
  /\ aggregate = [j \in Jobs |-> {}]
  /\ sess = [s \in Sessions |-> [node |-> None, server |-> "free", bound |-> FALSE, alive |-> TRUE]]
  /\ hand = [s \in Sessions |-> Idle] /\ leaving = {}
  /\ up = [s \in Sessions |-> <<>>] /\ down = [s \in Sessions |-> <<>>]
  /\ orphans = {} /\ sched = SchedIdle
  /\ bundle = {} /\ saving = {} /\ kicked = {} /\ retrying = {} /\ created \in {Jobs \ js : js \in Submissions}
  /\ retried = 0 /\ trouble = 0
  /\ sent = [t \in Tasks |-> 0] /\ paid = [t \in Tasks |-> 0]

-----------------------------------------------------------------------------
(* incoming_handler: one message of a stream is handled to its end before the next.              *)
At(s, pc) == sess[s].server = "open" /\ hand[s].pc = pc
Goto(s, pc) == hand' = [hand EXCEPT ![s].pc = pc]
Done(s) == hand' = [hand EXCEPT ![s] = Idle]
\* What is put on the queue of a broken stream arrives nowhere.
Put(s, m) == down' = IF sess[s].alive THEN [down EXCEPT ![s] = Append(@, m)] ELSE down
NodeOf(s) == sess[s].node

\* A registration takes over the node's queue before the row is written, or is refused with
\* an empty acknowledgement (an expired token). Other messages need a registered stream.
Receive(s) ==
  /\ At(s, "recv") /\ up[s] # <<>>
  /\ up' = [up EXCEPT ![s] = Tail(@)]
  /\ LET m == Head(up[s]) IN
     \/ /\ m.kind = "register" /\ UNCHANGED trouble
        /\ connected' = [connected EXCEPT ![NodeOf(s)] = s]
        /\ sess' = [sess EXCEPT ![s].bound = TRUE]
        /\ hand' = [hand EXCEPT ![s] = [Idle EXCEPT !.pc = "register", !.msg = m]]
        /\ UNCHANGED down
     \/ /\ m.kind = "register" /\ Trouble
        /\ Put(s, Message("ack", None, "refused"))
        /\ UNCHANGED <<connected, sess, hand>>
     \/ /\ m.kind # "register" /\ UNCHANGED trouble
        /\ IF sess[s].bound THEN hand' = [hand EXCEPT ![s] = [Idle EXCEPT !.pc = m.kind, !.msg = m]]
           ELSE UNCHANGED hand
        /\ UNCHANGED <<connected, sess, down>>
  /\ UNCHANGED <<dbVars, pending, aggregate, leaving, orphans, sched, adminVars, sent, paid>>

\* _handle_register: create_node (and the columns it does not branch on), then the acknowledgement.
HandleRegister(s) ==
  /\ At(s, "register") /\ register_node(NodeOf(s)) /\ Done(s)
  /\ Put(s, Message("ack", None, "token"))
  /\ UNCHANGED <<memVars, sess, leaving, up, orphans, sched, adminVars, countVars>>

HandleHeartbeat(s) ==
  /\ At(s, "heartbeat") /\ update_heartbeat(NodeOf(s)) /\ Done(s)
  /\ UNCHANGED <<memVars, sess, leaving, up, down, orphans, sched, adminVars, countVars>>

HandleProgress(s) ==
  /\ At(s, "progress") /\ record_task_progress(hand[s].msg.task) /\ Done(s)
  /\ UNCHANGED <<memVars, sess, leaving, up, down, orphans, sched, adminVars, countVars>>

\* _handle_result: the row, the payment of a success, the aggregation, the pending entry.
HandleResult(s) ==
  LET m == hand[s].msg IN
  /\ At(s, "result") /\ update_task_result(m.task, NodeOf(s), m.what)
  /\ Goto(s, IF m.what = "success" THEN "pay" ELSE "gather")
  /\ UNCHANGED <<memVars, sess, leaving, up, down, orphans, sched, adminVars, countVars>>

EarnTwice(t) == paid' = [paid EXCEPT ![t] = @ + 2]
record_credit_earn(t) == paid' = [paid EXCEPT ![t] = @ + 1]

PayResult(s) ==
  /\ At(s, "pay") /\ record_credit_earn(hand[s].msg.task) /\ Goto(s, "gather")
  /\ UNCHANGED <<dbVars, memVars, sess, leaving, up, down, orphans, sched, adminVars, trouble, sent>>

PopPending(s, t) ==
  pending' = IF pending[NodeOf(s)] = t THEN [pending EXCEPT ![NodeOf(s)] = None] ELSE pending

\* _check_and_aggregate: the results are read, one gradient per node, and averaged if there are enough.
GatherResults(s) ==
  LET t == hand[s].msg.task
      from == {task[u].on : u \in Successes(JobOf[t])} IN
  /\ At(s, "gather")
  /\ IF Cardinality(from) >= MinResults
     THEN hand' = [hand EXCEPT ![s].pc = "store", ![s].snap = from] /\ UNCHANGED pending
     ELSE Done(s) /\ PopPending(s, t)
  /\ UNCHANGED <<dbVars, connected, aggregate, sess, leaving, up, down, orphans, sched, adminVars, countVars>>

\* ... written long after they were read, and announced to the nodes whose gradients were used.
StoreAggregate(s) ==
  LET t == hand[s].msg.task
      queues == {connected[n] : n \in hand[s].snap \ {None}} \ {None} IN
  /\ At(s, "store")
  /\ aggregate' = IF job[JobOf[t]].st = "none" THEN aggregate
                  ELSE [aggregate EXCEPT ![JobOf[t]] = hand[s].snap]
  /\ down' = [r \in Sessions |-> IF r \in queues /\ sess[r].alive
                THEN Append(down[r], Message("control", None, "bft_aggregate_ready")) ELSE down[r]]
  /\ PopPending(s, t) /\ Done(s)
  /\ UNCHANGED <<dbVars, connected, sess, leaving, up, orphans, sched, adminVars, countVars>>

\* The call a cancelled handler was waiting for, if it leaves more than a flag behind.
CallOf(s) ==
  IF hand[s].pc \in {"result", "pay"}
  THEN {[call |-> hand[s].pc, node |-> NodeOf(s), task |-> hand[s].msg.task, what |-> hand[s].msg.what]}
  ELSE {}

\* The end of StreamSession, by a broken stream or by the None of a forced disconnect: the
\* handler is cancelled, and _handle_disconnect drops the node's queue and pending entry.
CloseStream(s) ==
  /\ sess[s].server = "open"
  /\ ~sess[s].alive \/ \E i \in DOMAIN down[s] : down[s][i].kind = "end"
  /\ sess' = [sess EXCEPT ![s].server = "closed"]
  /\ up' = [up EXCEPT ![s] = <<>>] /\ Done(s)
  /\ \/ UNCHANGED orphans
     \/ CallOf(s) # {} /\ orphans' = orphans \cup CallOf(s)
  /\ IF sess[s].bound
     THEN /\ connected' = [connected EXCEPT ![NodeOf(s)] = None]
          /\ pending' = [pending EXCEPT ![NodeOf(s)] = None]
          /\ leaving' = leaving \cup {s}
     ELSE UNCHANGED <<connected, pending, leaving>>
  /\ UNCHANGED <<dbVars, aggregate, down, sched, adminVars, countVars>>

\* ... and then its running tasks, whoever has the node's queue by now.
_handle_disconnect(s) ==
  /\ s \in leaving /\ leaving' = leaving \ {s}
  /\ requeue_tasks_for_node(NodeOf(s))
  /\ UNCHANGED <<memVars, sess, hand, up, down, orphans, sched, adminVars, countVars>>

OrphanCall(c) ==
  /\ c \in orphans /\ orphans' = orphans \ {c}
  /\ \/ c.call = "result" /\ update_task_result(c.task, c.node, c.what) /\ UNCHANGED paid
     \/ c.call = "pay" /\ record_credit_earn(c.task) /\ UNCHANGED dbVars
  /\ UNCHANGED <<memVars, sess, hand, leaving, up, down, sched, adminVars, trouble, sent>>

-----------------------------------------------------------------------------
(* TaskScheduler._loop: recycle stale tasks, list the queued ones, find idle nodes, assign.      *)
_process_stale_tasks ==
  /\ sched.pc = "stale" /\ requeue_stale_tasks
  /\ sched' = [sched EXCEPT !.pc = "list"]
  /\ UNCHANGED <<memVars, streamVars, adminVars, countVars>>

ListQueued ==
  /\ sched.pc = "list"
  /\ sched' = IF get_queued_tasks = {} THEN SchedIdle
              ELSE [sched EXCEPT !.pc = "scan", !.todo = get_queued_tasks]
  /\ UNCHANGED <<dbVars, memVars, streamVars, adminVars, countVars>>

\* Read in a thread: the dictionary may change under the loop over it, which ends the pass.
_idle_candidates ==
  {n \in Nodes : /\ connected[n] # None /\ pending[n] = None
                 /\ node[n].known /\ node[n].contributing}

ScanNodes ==
  /\ sched.pc = "scan"
  /\ \/ sched' = IF _idle_candidates = {} THEN SchedIdle
                 ELSE [sched EXCEPT !.pc = "assign", !.idle = _idle_candidates]
     \/ sched' = SchedIdle
  /\ UNCHANGED <<dbVars, memVars, streamVars, adminVars, countVars>>

\* The best node for the next task of the list: scores are data, so any candidate.
AssignNext ==
  /\ sched.pc = "assign"
  /\ \E t \in sched.todo, n \in sched.idle :
       /\ IsFirst(t, sched.todo) /\ assign_task(t, n)
       /\ sched' = [sched EXCEPT !.pc = "send", !.todo = @ \ {t}, !.idle = @ \ {n}, !.node = n, !.task = t]
  /\ UNCHANGED <<memVars, streamVars, adminVars, countVars>>

\* The script package is looked up after the assignment (load_bundle); without one the task goes
\* out as a built-in one, and without a queue by now to nobody: its row stays running.
SendAssign ==
  LET t == sched.task  n == sched.node  s == connected[n] IN
  /\ sched.pc = "send"
  /\ IF s = None THEN UNCHANGED <<down, pending, sent>>
     ELSE /\ Put(s, Message("assign", t, IF t \in bundle THEN "script" ELSE "builtin"))
          /\ pending' = [pending EXCEPT ![n] = t]
          /\ sent' = [sent EXCEPT ![t] = @ + 1]
  /\ sched' = IF sched.todo = {} \/ sched.idle = {} THEN SchedIdle
              ELSE [sched EXCEPT !.pc = "assign", !.node = None, !.task = None]
  /\ UNCHANGED <<dbVars, connected, aggregate, sess, hand, leaving, up, orphans, adminVars, trouble, paid>>

Scheduler == _process_stale_tasks \/ ListQueued \/ ScanNodes \/ AssignNext \/ SendAssign

-----------------------------------------------------------------------------
(* Admin handlers, each a sequence of awaited database or file calls.                            *)
\* JobsHandler.create: the rows are queued first, the packages saved one by one afterwards.
AdminCreate(j) ==
  /\ j \notin created /\ created' = created \cup {j}
  /\ CreateJob(j)
  /\ saving' = IF j \in Scripted THEN saving \cup TasksOf(j) ELSE saving
  /\ UNCHANGED <<memVars, streamVars, sched, bundle, kicked, retrying, retried, countVars>>

save_bundle(t) ==
  /\ t \in saving /\ bundle' = bundle \cup {t} /\ saving' = saving \ {t}
  /\ UNCHANGED <<dbVars, memVars, streamVars, sched, kicked, retrying, created, retried, countVars>>

\* An OSError ends the handler with 500; the job stays queued.
SaveFails(t) ==
  /\ t \in saving /\ Trouble
  /\ saving' = saving \ TasksOf(JobOf[t])
  /\ UNCHANGED <<dbVars, memVars, streamVars, sched, bundle, kicked, retrying, created, retried, sent, paid>>

AdminCancel(j) ==
  /\ Trouble /\ cancel_job(j)
  /\ UNCHANGED <<memVars, streamVars, sched, bundle, saving, kicked, retrying, created, retried, sent, paid>>

AdminClear ==
  /\ Trouble /\ clear_completed_jobs
  /\ aggregate' = [j \in Jobs |-> IF job[j].st \in {"success", "failed", "cancelled"} THEN {} ELSE aggregate[j]]
  /\ UNCHANGED <<connected, pending, streamVars, sched, bundle, saving, kicked, retrying, created, retried, sent, paid>>

\* JobsHandler.retry reads the job's status, and queues its latest task afterwards.
AdminRetryRead(j) ==
  /\ Trouble /\ retried' = retried + 1
  /\ job[j].st \in {"success", "failed", "cancelled"} /\ retrying' = retrying \cup {j}
  /\ UNCHANGED <<dbVars, memVars, streamVars, sched, bundle, saving, kicked, created, sent, paid>>
AdminRetryWrite(j) ==
  /\ j \in retrying /\ retrying' = retrying \ {j}
  /\ operator_retry_job(j)
  /\ UNCHANGED <<memVars, streamVars, sched, bundle, saving, kicked, created, retried, countVars>>

\* NodesHandler.disconnect: the queue is ended and dropped at once, the row changed later;
\* the update_heartbeat of its last call also counts as a sign of life.
AdminDisconnect(n) ==
  /\ Trouble
  /\ connected[n] # None
  /\ Put(connected[n], Message("end", None, "none"))
  /\ connected' = [connected EXCEPT ![n] = None] /\ pending' = [pending EXCEPT ![n] = None]
  /\ kicked' = kicked \cup {n}
  /\ UNCHANGED <<dbVars, aggregate, sess, hand, leaving, up, orphans, sched, bundle, saving, retrying, created, retried, sent, paid>>
AdminDisconnectRow(n) ==
  /\ n \in kicked /\ kicked' = kicked \ {n}
  /\ node' = [node EXCEPT ![n].contributing = FALSE, ![n].fresh = node[n].known]
  /\ UNCHANGED <<task, job, memVars, streamVars, sched, bundle, saving, retrying, created, retried, countVars>>
AdminContribute(n, yes) ==
  /\ Trouble /\ set_node_contributing(n, yes)
  /\ UNCHANGED <<memVars, streamVars, sched, bundle, saving, kicked, retrying, created, retried, sent, paid>>

Admin == \/ \E j \in Jobs : AdminCreate(j) \/ AdminCancel(j) \/ AdminRetryRead(j) \/ AdminRetryWrite(j)
         \/ \E t \in Tasks : save_bundle(t) \/ SaveFails(t)
         \/ \E n \in Nodes : AdminDisconnect(n) \/ AdminDisconnectRow(n) \/ AdminContribute(n, FALSE) \/ AdminContribute(n, TRUE)
         \/ AdminClear

-----------------------------------------------------------------------------
\* The orchestrator dies and comes back: memory, streams and handlers are gone, the database stays.
OrchestratorRestart ==
  /\ Trouble
  /\ connected' = [n \in Nodes |-> None] /\ pending' = [n \in Nodes |-> None]
  /\ sess' = [s \in Sessions |-> IF sess[s].server = "open"
                THEN [sess[s] EXCEPT !.server = "closed", !.alive = FALSE] ELSE sess[s]]
  /\ hand' = [s \in Sessions |-> Idle] /\ leaving' = {} /\ orphans' = {}
  /\ up' = [s \in Sessions |-> <<>>] /\ down' = up' /\ sched' = SchedIdle
  /\ saving' = {} /\ kicked' = {} /\ retrying' = {}
  /\ UNCHANGED <<dbVars, aggregate, bundle, created, retried, sent, paid>>

StreamBreaks(s) ==
  /\ Trouble
  /\ sess[s].server = "open" /\ sess[s].alive
  /\ sess' = [sess EXCEPT ![s].alive = FALSE] /\ down' = [down EXCEPT ![s] = <<>>]
  /\ UNCHANGED <<dbVars, memVars, hand, leaving, up, orphans, sched, adminVars, sent, paid>>

\* A deadline passes, or no heartbeat arrives for 30 s: always possible without a stream, else a stall.
TimePasses ==
  /\ \/ \E t \in Tasks : DeadlinePasses(t) /\ UNCHANGED trouble
     \/ \E n \in Nodes : /\ HeartbeatExpires(n)
                         /\ IF connected[n] = None THEN UNCHANGED trouble
                            ELSE Trouble
  /\ UNCHANGED <<memVars, streamVars, sched, adminVars, sent, paid>>

Streams == \/ \E s \in Sessions :
                \/ Receive(s) \/ HandleRegister(s) \/ HandleHeartbeat(s) \/ HandleProgress(s)
                \/ HandleResult(s) \/ PayResult(s) \/ GatherResults(s) \/ StoreAggregate(s)
                \/ CloseStream(s) \/ _handle_disconnect(s)
           \/ \E c \in orphans : OrphanCall(c)
ServiceFaults == OrchestratorRestart \/ TimePasses \/ \E s \in Sessions : StreamBreaks(s)
=============================================================================
