----------------------------- MODULE WorkerSession -----------------------------
(* The session of the worker daemon around its jobs: connecting, registering, *)
(* the tokens and status in its state file (worker/src/daemon/state.py), and  *)
(* benchmarks, which wait for the worker to be idle; on the server the        *)
(* RebenchmarkTriggerManager (rebenchmark_triggers.py) and its handlers. A    *)
(* node token is there or not; a benchmark is its driver version or none.     *)
EXTENDS Naturals

CONSTANTS MaxTriggers, MaxJobs, MaxBreaks   \* bounds: operator triggers, jobs, broken or refused connections

VARIABLES link,         \* down, connecting, registered: the stream and its handshake
          state_file,   \* the auth on disk, the auth in _state, saved benchmark results
          bench_task,   \* none, startup, created, requested: _benchmark_task and how far it is
          benchmark_requested, stopping,
          current_job,  \* none, a job that will report, or one that will not (silent)
          rebench,      \* server: the recorded benchmark and whether a new one is pending
          control,      \* benchmark messages on their way to the worker
          owed,         \* a request reached the worker and no benchmark has started since
          budget        \* what is left of the bounds
workerSessionVars == <<link, state_file, bench_task, benchmark_requested, current_job, stopping, rebench, control, owed, budget>>

WorkerSessionInit ==
  /\ link = "down" /\ bench_task = "none"
  /\ benchmark_requested = FALSE /\ current_job = "none" /\ stopping = FALSE /\ control = 0 /\ owed = FALSE
  /\ state_file = [auth |-> FALSE, memory |-> FALSE, results |-> FALSE]
  /\ rebench = [current |-> "none", pending |-> FALSE]
  /\ budget = [triggers |-> MaxTriggers, jobs |-> MaxJobs, breaks |-> MaxBreaks]

\* Every status change flushes _state, which has the auth it had when the process started:
\* tokens saved in between are lost and tokens cleared in between come back.
_flush(file) == [file EXCEPT !.auth = file.memory]
save_auth_tokens(file) == [file EXCEPT !.auth = TRUE]
clear_auth_tokens(file) == [file EXCEPT !.auth = FALSE]
set_status(file) == _flush(file)

\* A stored token is used, else the node registers, which may fail; then the channel is opened.
_connect_and_run ==
  /\ link = "down" /\ ~stopping /\ link' = "connecting" /\ state_file' = set_status(state_file)
  /\ UNCHANGED <<bench_task, benchmark_requested, current_job, stopping, rebench, control, owed, budget>>

\* _register: without saved results the startup benchmark begins, unless one is on; then a
\* token is had, which may mean to register (again).
_register ==
  /\ link = "connecting" /\ link' = "registering"
  /\ state_file' = save_auth_tokens(state_file)
  /\ IF state_file.results \/ bench_task # "none" THEN UNCHANGED bench_task ELSE bench_task' = "startup"
  /\ owed' = (owed /\ bench_task' # "startup")
  /\ UNCHANGED <<benchmark_requested, current_job, stopping, rebench, control, budget>>

\* A deferred benchmark starts when the worker is connected and idle. The task is created here
\* and runs later. (ForgetsTheRequest drops a request that meets a job.)
CanStart(requested, task, job) == requested /\ link # "down" /\ job = "none" /\ task = "none" /\ ~stopping
_maybe_start_deferred_benchmark(requested, task, job) ==
  /\ benchmark_requested' = (requested /\ ~CanStart(requested, task, job))
  /\ bench_task' = IF CanStart(requested, task, job) THEN "created" ELSE task
ForgetsTheRequest == benchmark_requested
StillRequested == benchmark_requested \/ current_job # "none"

register_ack ==
  /\ link = "registering" /\ ~stopping /\ link' = "registered"
  /\ state_file' = set_status(save_auth_tokens(state_file))
  /\ _maybe_start_deferred_benchmark(benchmark_requested, bench_task, current_job)
  /\ UNCHANGED <<current_job, stopping, rebench, control, owed, budget>>

\* The stream ends, and what is queued on it is lost; or the handshake is refused as
\* unauthenticated, which clears the tokens.
StreamEnds ==
  /\ link # "down" /\ budget.breaks > 0 /\ link' = "down" /\ control' = 0
  /\ budget' = [budget EXCEPT !.breaks = @ - 1]
  /\ \E unauthenticated \in BOOLEAN :
       state_file' = set_status(IF unauthenticated THEN clear_auth_tokens(state_file) ELSE state_file)
  /\ UNCHANGED <<bench_task, benchmark_requested, current_job, stopping, rebench, owed>>

schedule_rebenchmark == rebench' = [rebench EXCEPT !.pending = TRUE]
\* Without a record always; else when it is old, of another driver, or the tasks take too long.
check_rebenchmark_needed == IF rebench.current = "none" THEN {TRUE} ELSE BOOLEAN
\* POST /admin/rebenchmark/trigger marks the connected node and queues a control message for it.
rebenchmark_trigger ==
  /\ link \in {"registering", "registered"} /\ budget.triggers > 0
  /\ budget' = [budget EXCEPT !.triggers = @ - 1]
  /\ schedule_rebenchmark /\ control' = control + 1
  /\ UNCHANGED <<link, state_file, bench_task, benchmark_requested, current_job, stopping, owed>>
_handle_control ==
  /\ control > 0 /\ control' = control - 1 /\ owed' = TRUE
  /\ _maybe_start_deferred_benchmark(TRUE, bench_task, current_job)
  /\ UNCHANGED <<link, state_file, current_job, stopping, rebench, budget>>

\* A job is taken whether or not a benchmark is created or on; its report ends it.
_accept_job ==
  /\ link = "registered" /\ current_job = "none" /\ ~stopping /\ budget.jobs > 0
  /\ current_job' = "job" /\ budget' = [budget EXCEPT !.jobs = @ - 1] /\ state_file' = set_status(state_file)
  /\ UNCHANGED <<link, bench_task, benchmark_requested, stopping, rebench, control, owed>>
JobIsOver ==
  /\ current_job' = "none" /\ state_file' = set_status(state_file)
  /\ _maybe_start_deferred_benchmark(benchmark_requested, bench_task, "none")
  /\ UNCHANGED <<link, stopping, rebench, control, owed, budget>>
_report_result == current_job = "job" /\ JobIsOver

\* A script that is cancelled, and one whose run raises, never reports.
_run_script_assign ==
  /\ current_job = "job" /\ current_job' = "silent"
  /\ UNCHANGED <<link, state_file, bench_task, benchmark_requested, stopping, rebench, control, owed, budget>>
\* A GRPO round takes the place of whatever job is on. Only its completion ends it, which may
\* never be sent or may be lost, or the report of the job it replaced.
_handle_grpo_round_start ==
  /\ link = "registered" /\ budget.jobs > 0 /\ budget' = [budget EXCEPT !.jobs = @ - 1]
  /\ current_job' = "silent" /\ state_file' = set_status(state_file)
  /\ UNCHANGED <<link, bench_task, benchmark_requested, stopping, rebench, control, owed>>
_handle_grpo_round_complete == current_job = "silent" /\ JobIsOver

\* The created task begins: with a job on by now it asks again and returns.
_run_requested_benchmark ==
  /\ bench_task = "created" /\ ~stopping
  /\ bench_task' = IF current_job # "none" THEN "none" ELSE "requested"
  /\ benchmark_requested' = StillRequested
  /\ owed' = (owed /\ current_job # "none")
  /\ state_file' = IF current_job # "none" THEN state_file ELSE set_status(state_file)
  /\ UNCHANGED <<link, current_job, stopping, rebench, control, budget>>

submit_benchmark(driver) == [current |-> driver, pending |-> FALSE]
\* The suite ends, empty or failed or with a report; sending the report may fail too. The
\* server records it: no longer pending. Results are saved for the next connection or not.
BenchmarkEnds ==
  /\ bench_task \in {"startup", "requested"} /\ ~stopping
  /\ \E submitted \in BOOLEAN, driver \in {"old", "new"} :
       rebench' = IF submitted THEN submit_benchmark(driver) ELSE rebench
  /\ \E saved \in BOOLEAN :
       state_file' = [(IF current_job # "none" THEN state_file ELSE set_status(state_file)) EXCEPT !.results = @ \/ saved]
  /\ _maybe_start_deferred_benchmark(benchmark_requested, "none", current_job)
  /\ UNCHANGED <<link, current_job, stopping, control, owed, budget>>

\* GET /v1/nodes/benchmark/status: with a record that is stale or of another driver the node is
\* marked; without any record the answer has no is_pending and the handler raises.
get_benchmark_status ==
  /\ rebench.current # "none" /\ ~rebench.pending /\ TRUE \in check_rebenchmark_needed /\ schedule_rebenchmark
  /\ UNCHANGED <<link, state_file, bench_task, benchmark_requested, current_job, stopping, control, owed, budget>>

\* A drain message or a signal: the loop ends with the stream. What a benchmark does that a
\* draining worker lets run is left out; a signal cancels it.
stop ==
  /\ ~stopping /\ stopping' = TRUE /\ bench_task' = "none" /\ state_file' = set_status(state_file)
  /\ UNCHANGED <<link, benchmark_requested, current_job, rebench, control, owed, budget>>
Restart ==
  /\ stopping /\ link = "down" /\ budget.breaks > 0
  /\ budget' = [budget EXCEPT !.breaks = @ - 1]
  /\ stopping' = FALSE /\ bench_task' = "none" /\ benchmark_requested' = FALSE /\ current_job' = "none" /\ owed' = FALSE
  /\ state_file' = [state_file EXCEPT !.memory = state_file.auth]
  /\ UNCHANGED <<link, rebench, control>>

WorkerSessionNext ==
  \/ _connect_and_run \/ _register \/ register_ack \/ StreamEnds \/ rebenchmark_trigger \/ _handle_control
  \/ _accept_job \/ _report_result \/ _run_script_assign \/ _handle_grpo_round_start \/ _handle_grpo_round_complete
  \/ _run_requested_benchmark \/ BenchmarkEnds
  \/ get_benchmark_status \/ stop \/ Restart

\* The worker keeps reconnecting and runs its tasks; the executor reports every job it was not
\* kept from reporting, and benchmarks end. Nothing makes a silent job end.
WorkerSessionFairness ==
  /\ WF_workerSessionVars(_connect_and_run) /\ WF_workerSessionVars(_register) /\ WF_workerSessionVars(register_ack)
  /\ WF_workerSessionVars(_report_result) /\ WF_workerSessionVars(_run_requested_benchmark) /\ WF_workerSessionVars(BenchmarkEnds)

-----------------------------------------------------------------------------
\* A request for a benchmark that reached the worker is served, whatever jobs, GRPO rounds,
\* benchmarks, lost connections and reconnects come between, unless the worker stops or stays for
\* ever on a job that never reports: the request waits for the worker to be idle and connected,
\* and a created task that finds a job asks again (_handle_control,
\* _maybe_start_deferred_benchmark, _run_requested_benchmark, _report_result, register_ack).
RequestedBenchmarkRuns == []<>(current_job # "silent") => (owed ~> (~owed \/ stopping))
=============================================================================
