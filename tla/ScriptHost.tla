------------------------------- MODULE ScriptHost -------------------------------
(* A worker running script tasks: script_runner.py, the notebook mount, the   *)
(* sandbox backends it chooses from, and the daemon's _run_script_assign and  *)
(* cancel_job control. Everything before run_script is one coroutine without  *)
(* an await; a script's process is followed until it really ends. Contents    *)
(* of packages and limits are abstracted to what the runner decides by them.  *)
EXTENDS Naturals, Sequences

CONSTANTS Hosts,         \* what probing for docker, nsjail and the native trainer may find
          UnpackTries,   \* SCRIPT_UNPACK_MAX_RETRIES
          MaxScripts     \* bounds the assignments

VARIABLES host,              \* docker, nsjail, native trainer
          task,              \* the task being executed, or NoTask
          script_busy,       \* _current_job is a script
          scripts,           \* every process started: backend, alive, deaf to SIGTERM, how its task ended
          active_processes,  \* the runs cancel_task can reach
          task_dir,          \* the run that last wrote results.json into the task's directory
          script_reports,    \* the outcome reported last, and the run whose results.json it carries
          assigns
scriptHostVars == <<host, task, script_busy, scripts, active_processes, task_dir, script_reports, assigns>>

NoTask == [at |-> "none"]
Current == Len(scripts)

ASSUME HostsAssumption ==
  Hosts \subseteq [docker : {"missing", "down", "up"}, nsjail : {"missing", "broken", "works"}, native : BOOLEAN]
ASSUME UnpackAssumption == UnpackTries \in Nat

ScriptHostInit ==
  /\ host \in Hosts
  /\ task = NoTask /\ script_busy = FALSE /\ scripts = << >> /\ active_processes = {}
  /\ task_dir = 0 /\ script_reports = [status |-> "none", results_of |-> 0] /\ assigns = 0

-----------------------------------------------------------------------------
\* An explicit policy comes before the denial of egress, whoever set either.
_network_policy(policy, denied) == IF policy # "unset" THEN policy ELSE IF denied THEN "none" ELSE "open"

detect_backend == IF host.docker # "missing" THEN "docker" ELSE IF host.nsjail # "missing" THEN "nsjail" ELSE "subprocess"
is_available == host.docker = "up"
\* A docker daemon that is down degrades to an nsjail that is not probed again.
build_sandbox(override) ==
  LET name == IF override = "unset" THEN detect_backend ELSE override
  IN CASE name = "docker" /\ is_available -> "docker"
       [] name = "docker" /\ ~is_available /\ host.nsjail # "missing" -> "nsjail"
       [] name = "nsjail" /\ host.nsjail = "works" -> "nsjail"
       [] name = "native-cpp" /\ host.native -> "native-cpp"
       [] OTHER -> "subprocess"
\* Docker and nsjail take the network away where the policy is none.
_build_argv(backend, network) == backend = "docker" /\ network = "none"
_render_config(backend, network) == backend = "nsjail" /\ network = "none"

\* A native backend starts the trainer only when the payload opts in, and the script otherwise.
NativeCppSandbox(backend, native_train) == IF backend = "native-cpp" /\ ~native_train THEN "subprocess" ELSE backend

-----------------------------------------------------------------------------
_report_script(status, results) ==
  /\ script_reports' = [status |-> status, results_of |-> results]
  /\ task' = NoTask /\ script_busy' = FALSE /\ UNCHANGED task_dir
RunUnchanged == UNCHANGED <<host, scripts, active_processes, assigns>>

\* A busy worker rejects an assignment, and so does one given an unusable id.
_accept_script ==
  /\ ~script_busy /\ assigns < MaxScripts /\ assigns' = assigns + 1 /\ script_busy' = TRUE
  /\ \E denied \in BOOLEAN, override \in {"unset", "subprocess", "native-cpp"} :
       task' = [at |-> "assigned", tries |-> UnpackTries, denied |-> denied, override |-> override]
  /\ UNCHANGED <<host, scripts, active_processes, task_dir, script_reports>>

\* The checksum, the write, or a member of the archive is refused.
execute_task_refuses == task.at = "assigned" /\ _report_script("failed", 0) /\ RunUnchanged
unpack ==
  /\ task.at = "assigned"
  /\ \/ task' = [task EXCEPT !.at = "unpacked"] /\ UNCHANGED <<script_busy, task_dir, script_reports>>
     \/ task.tries > 1 /\ task' = [task EXCEPT !.tries = @ - 1] /\ UNCHANGED <<script_busy, task_dir, script_reports>>
     \/ task.tries = 1 /\ _report_script("failed", 0)
  /\ RunUnchanged
\* No run.py and no notebook that converts to one.
ensure_run_py_fails == task.at = "unpacked" /\ _report_script("failed", 0) /\ RunUnchanged
\* Requirements are refused where egress is denied; pip may fail or time out.
install_fails == task.at = "unpacked" /\ _report_script("failed", 0) /\ RunUnchanged
install ==
  /\ task.at = "unpacked" /\ ~task.denied /\ task' = [task EXCEPT !.at = "installed"]
  /\ UNCHANGED <<script_busy, task_dir, script_reports>> /\ RunUnchanged

Started(backend, network, deaf) ==
  [backend |-> backend, alive |-> TRUE, deaf |-> deaf, ended |-> "no",
   isolated |-> _build_argv(backend, network) \/ _render_config(backend, network)]
\* Only the subprocess backend hands its process to on_process_started. A backend whose
\* program cannot be executed reports a failure.
run_script ==
  /\ task.at \in {"unpacked", "installed"}
  /\ \E policy \in {"unset", "open"}, native_train, deaf \in BOOLEAN :
       LET backend == NativeCppSandbox(build_sandbox(task.override), native_train)
       IN /\ scripts' = Append(scripts, Started(backend, _network_policy(policy, task.denied), deaf))
          /\ active_processes' = IF backend = "subprocess" THEN {Current + 1} ELSE {}
  /\ task' = [task EXCEPT !.at = "running"]
  /\ UNCHANGED <<host, script_busy, task_dir, script_reports, assigns>>
run_script_missing ==
  /\ task.at \in {"unpacked", "installed"} /\ build_sandbox(task.override) = "nsjail" /\ host.nsjail = "broken"
  /\ _report_script("failed", 0) /\ RunUnchanged

\* A process ends by itself or at a limit of its backend; it may have written results. Inside
\* docker the task's directory is read-only.
ScriptExits(r) ==
  /\ scripts[r].alive /\ scripts' = [scripts EXCEPT ![r].alive = FALSE]
  /\ \/ scripts[r].backend # "docker" /\ task_dir' = r
     \/ UNCHANGED task_dir
  /\ UNCHANGED <<host, task, script_busy, active_processes, script_reports, assigns>>
\* run_script returns; the results are those that are in the directory now.
execute_task_returns ==
  /\ task.at = "running" /\ ~scripts[Current].alive
  /\ (_report_script("success", task_dir) \/ _report_script("failed", task_dir))
  /\ active_processes' = {} /\ scripts' = [scripts EXCEPT ![Current].ended = "returned"]
  /\ UNCHANGED <<host, assigns>>
\* The time limit: subprocess, nsjail and the trainer are killed and waited for; `docker kill`
\* is tried once, for ten seconds.
_docker_kill(backend) == IF backend = "docker" THEN BOOLEAN ELSE {FALSE}
run_script_times_out ==
  /\ task.at = "running" /\ scripts[Current].alive
  /\ \E alive \in _docker_kill(scripts[Current].backend) :
       scripts' = [scripts EXCEPT ![Current].alive = alive, ![Current].ended = "timed out"]
  /\ active_processes' = {} /\ _report_script("failed", 0)
  /\ UNCHANGED <<host, assigns>>

\* cancel_task terminates a process it knows. (NotWhileRunning leaves that to the handler in
\* _run_script_assign, which comes after execute_task has forgotten the process.)
NotWhileRunning(r) == r = 0
cancel_task(r) == r \in active_processes
AtAnAwait == task.at = "running" \/ (task.at = "assigned" /\ task.tries = UnpackTries)
CancelScript(how) ==
  /\ AtAnAwait /\ task' = NoTask /\ active_processes' = {}
  /\ scripts' = IF task.at # "running" THEN scripts
                ELSE [scripts EXCEPT ![Current].ended = how,
                        ![Current].alive = @ /\ (how = "exit" \/ ~cancel_task(Current) \/ scripts[Current].deaf)]
  /\ UNCHANGED <<host, task_dir, script_reports, assigns>>
\* The coroutine is cancelled and reports nothing: _current_job stays as it was.
cancel_script_job == CancelScript("cancelled") /\ UNCHANGED script_busy
\* The daemon's loop is left with the task running: the coroutine is cancelled, its process is
\* no longer known when the handler asks for it.
daemon_exits == CancelScript("exit") /\ script_busy' = FALSE

ScriptHostNext ==
  \/ _accept_script \/ execute_task_refuses \/ unpack \/ ensure_run_py_fails \/ install_fails \/ install
  \/ run_script \/ run_script_missing \/ (\E r \in DOMAIN scripts : ScriptExits(r)) \/ execute_task_returns
  \/ run_script_times_out \/ cancel_script_job \/ daemon_exits

-----------------------------------------------------------------------------
\* A process that outlives its task is one nobody had a handle on: a cancelled container, jail
\* or trainer, a cancelled script that ignores SIGTERM, a container `docker kill` did not reach,
\* or what the daemon left on exit. No task that returned leaves one (execute_task, cancel_task,
\* the backends' run_script; docs/runbooks/beta-preprod-checklist.md:51).
OutlivesOnlyWithoutAHandle ==
  \A r \in DOMAIN scripts : scripts[r].alive =>
    \/ scripts[r].ended \in {"no", "exit"}
    \/ scripts[r].ended = "timed out" /\ scripts[r].backend = "docker"
    \/ scripts[r].ended = "cancelled" /\ (scripts[r].backend # "subprocess" \/ scripts[r].deaf)
=============================================================================
