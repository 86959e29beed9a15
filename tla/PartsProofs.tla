------------------------------ MODULE PartsProofs ------------------------------
(***************************************************************************)
(* The safety properties of nine components that share no state with one   *)
(* another, each for any values of its constants:                          *)
(*                                                                         *)
(*   Callbacks, ScriptHost   who still has a call to make, or a handle     *)
(*   Executor                where a run is between two saves              *)
(*   Diloco                  where every pseudo-gradient is                *)
(*   Schedule, TrainingData  the arithmetic of a slot and of a window      *)
(*   Schema                  what a migration has left when it dies        *)
(*   Admission               tokens, buckets and challenges                *)
(*   Voting                  the forest of delegations                     *)
(*                                                                         *)
(* In every section an invariant strengthens the property until each       *)
(* action preserves it; one lemma for each group of actions shows that.    *)
(***************************************************************************)
EXTENDS Voting, Callbacks, ScriptHost, Executor, Diloco, Schema, Admission, Schedule, TrainingData, FiniteSetTheorems, TLAPS

\* What FiniteSetsExt's choices give for two numbers.
LEMMA MaxOfTwo == \A a, b \in Int : Max({a, b}) = IF a >= b THEN a ELSE b
<1> SUFFICES ASSUME NEW a \in Int, NEW b \in Int PROVE Max({a, b}) = IF a >= b THEN a ELSE b
  OBVIOUS
<1> DEFINE Top(x) == x \in {a, b} /\ \A y \in {a, b} : x >= y
<1>1. \E x : Top(x)
  <2>1. CASE a >= b
    BY <2>1
  <2>2. CASE ~(a >= b)
    BY <2>2
  <2> QED
    BY <2>1, <2>2
<1>2. Max({a, b}) = CHOOSE x : Top(x)
  BY DEF Max
<1>3. Top(Max({a, b}))
  BY <1>1, <1>2, Zenon
<1> QED
  BY <1>3

\* The lesser of two numbers.
LEMMA MinOfTwo == \A a, b \in Int : Min({a, b}) = IF a <= b THEN a ELSE b
<1> SUFFICES ASSUME NEW a \in Int, NEW b \in Int PROVE Min({a, b}) = IF a <= b THEN a ELSE b
  OBVIOUS
<1> DEFINE Bottom(x) == x \in {a, b} /\ \A y \in {a, b} : x <= y
<1>1. \E x : Bottom(x)
  <2>1. CASE a <= b
    BY <2>1
  <2>2. CASE ~(a <= b)
    BY <2>2
  <2> QED
    BY <2>1, <2>2
<1>2. Min({a, b}) = CHOOSE x : Bottom(x)
  BY DEF Min
<1>3. Bottom(Min({a, b}))
  BY <1>1, <1>2, Zenon
<1> QED
  BY <1>3

\* A sequence without its i-th element.
Without(s, i) == SubSeq(s, 1, i - 1) \o SubSeq(s, i + 1, Len(s))
\* A sequence without one of its elements.
LEMMA WithoutOne ==
  ASSUME NEW S, NEW s \in Seq(S), NEW i \in 1 .. Len(s)
  PROVE  /\ Without(s, i) \in Seq(S) /\ Len(Without(s, i)) = Len(s) - 1
         /\ \A k \in 1 .. i - 1 : Without(s, i)[k] = s[k]
         /\ \A k \in i .. Len(s) - 1 : Without(s, i)[k] = s[k + 1]
<1> DEFINE a == SubSeq(s, 1, i - 1)
           b == SubSeq(s, i + 1, Len(s))
<1>1. a \in Seq(S) /\ Len(a) = i - 1
  OBVIOUS
<1>2. b \in Seq(S) /\ Len(b) = Len(s) - i
  OBVIOUS
<1>3. \A k \in 1 .. i - 1 : a[k] = s[k]
  OBVIOUS
<1>4. \A k \in 1 .. Len(s) - i : b[k] = s[i + k]
  OBVIOUS
<1>5. Without(s, i) = a \o b
  BY DEF Without
<1> HIDE DEF a, b
<1>6. a \o b \in Seq(S) /\ Len(a \o b) = Len(s) - 1
  BY <1>1, <1>2
<1>7. \A k \in 1 .. i - 1 : (a \o b)[k] = s[k]
  BY <1>1, <1>2, <1>3
<1>8. ASSUME NEW k \in i .. Len(s) - 1 PROVE (a \o b)[k] = s[k + 1]
  <2>1. (a \o b)[k] = b[k - (i - 1)]
    BY <1>1, <1>2
  <2>2. k - (i - 1) \in 1 .. Len(s) - i /\ i + (k - (i - 1)) = k + 1
    OBVIOUS
  <2> QED
    BY <2>1, <2>2, <1>4
<1> QED
  BY <1>5, <1>6, <1>7, <1>8

-----------------------------------------------------------------------------
(* Callbacks: the end of a job is told.                                      *)

CallbacksSpec == CallbacksInit /\ [][CallbacksNext]_callbacksVars

\* A call that has committed and not looked yet will tell the job's status.
Tells(call, status) == call = "result" \/ (call = "cancel" /\ status = "cancelled")
CallbacksInv ==
  /\ notifying \in Seq({"result", "cancel"})
  /\ is_terminal_status(job_status) /\ ~swept /\ ~lapsed =>
       job_status \in told \/ \E i \in DOMAIN notifying : Tells(notifying[i], job_status)

\* The invariant of Callbacks holds at first.
LEMMA CallbacksStart == CallbacksInit => CallbacksInv
BY DEF CallbacksInit, CallbacksInv, is_terminal_status, TERMINAL_STATUSES

\* Every step of Callbacks keeps its invariant.
LEMMA CallbacksStep == CallbacksInv /\ [CallbacksNext]_callbacksVars => CallbacksInv'
<1> SUFFICES ASSUME CallbacksInv, [CallbacksNext]_callbacksVars PROVE CallbacksInv'
  OBVIOUS
<1> USE DEF is_terminal_status, TERMINAL_STATUSES
<1>1. ASSUME NEW call \in {"result", "cancel"}, NEW status, Commit(status, <<call>>, FALSE), Tells(call, status)
      PROVE  CallbacksInv'
  <2>1. notifying' = notifying \o <<call>> /\ job_status' = status
    BY <1>1 DEF Commit
  <2>2. notifying' \in Seq({"result", "cancel"}) /\ Len(notifying') \in DOMAIN notifying' /\ notifying'[Len(notifying')] = call
    BY <1>1, <2>1 DEF CallbacksInv
  <2> QED
    BY <1>1, <2>1, <2>2 DEF CallbacksInv
<1>2. ASSUME NEW status, NEW bySweep \in BOOLEAN, Commit(status, << >>, bySweep), bySweep \/ ~is_terminal_status(status)
      PROVE  CallbacksInv'
  <2>1. notifying' = notifying
    BY <1>2 DEF Commit, CallbacksInv
  <2> QED
    BY <1>2, <2>1 DEF Commit, CallbacksInv
<1>3. ASSUME NEW i \in DOMAIN notifying, notify_job_terminal(i) \/ CallFails(i)
      PROVE  CallbacksInv'
  <2>1. /\ notifying' = SubSeq(notifying, 1, i - 1) \o SubSeq(notifying, i + 1, Len(notifying))
        /\ told \subseteq told' /\ UNCHANGED <<job_status, swept>>
        /\ \/ told' = told \cup Told(notifying[i]) /\ lapsed' = lapsed
           \/ lapsed' = (lapsed \/ job_status \in Told(notifying[i]))
    BY <1>3 DEF notify_job_terminal, CallFails
  <2>2. i \in 1 .. Len(notifying) /\ notifying' = Without(notifying, i)
    BY <2>1 DEF CallbacksInv, Without
  <2>6. /\ notifying' \in Seq({"result", "cancel"}) /\ Len(notifying') = Len(notifying) - 1
        /\ \A k \in 1 .. i - 1 : notifying'[k] = notifying[k]
        /\ \A k \in i .. Len(notifying) - 1 : notifying'[k] = notifying[k + 1]
    BY <2>2, WithoutOne DEF CallbacksInv
  <2>3. SUFFICES ASSUME is_terminal_status(job_status), ~swept, ~lapsed'
                 PROVE  job_status \in told' \/ \E k \in DOMAIN notifying' : Tells(notifying'[k], job_status)
    BY <2>1, <2>6 DEF CallbacksInv
  <2>7. ~lapsed
    BY <2>1, <2>3
  <2>4. CASE job_status \in told
    BY <2>1, <2>4
  <2>5. ASSUME NEW k \in DOMAIN notifying, Tells(notifying[k], job_status)
        PROVE  job_status \in told' \/ \E j \in DOMAIN notifying' : Tells(notifying'[j], job_status)
    <3>1. CASE k = i
      BY <2>1, <2>3, <2>5, <3>1 DEF Told, Tells
    <3>2. CASE k < i
      <4>1. k \in DOMAIN notifying' /\ notifying'[k] = notifying[k]
        BY <2>2, <2>6, <3>2 DEF CallbacksInv
      <4> QED
        BY <2>5, <4>1
    <3>3. CASE k > i
      <4>1. k - 1 \in i .. Len(notifying) - 1 /\ (k - 1) + 1 = k
        BY <2>2, <2>5, <3>3 DEF CallbacksInv
      <4>2. k - 1 \in DOMAIN notifying' /\ notifying'[k - 1] = notifying[k]
        BY <2>2, <2>6, <4>1 DEF CallbacksInv
      <4> QED
        BY <2>5, <4>2
    <3>4. k \in Nat /\ i \in Nat
      BY DEF CallbacksInv
    <3> QED
      BY <3>1, <3>2, <3>3, <3>4
  <2> QED
    BY <2>3, <2>7, <2>4, <2>5 DEF CallbacksInv
<1>4. ASSUME NEW i \in DOMAIN threads, deliver_webhook(i)
      PROVE  CallbacksInv'
  BY <1>4 DEF deliver_webhook, CallbacksInv
<1>5. CASE UNCHANGED callbacksVars
  BY <1>5 DEF callbacksVars, CallbacksInv
<1>6. CASE complete_task
  BY <1>1, <1>6 DEF complete_task, Tells
<1>7. CASE cancel_job
  BY <1>1, <1>7 DEF cancel_job, Tells
<1>8. CASE _recycle_task_rows
  BY <1>2, <1>8 DEF _recycle_task_rows
<1>9. CASE operator_retry_job \/ clear_completed_jobs
  BY <1>2, <1>9 DEF operator_retry_job, clear_completed_jobs
<1> QED
  BY <1>3, <1>4, <1>5, <1>6, <1>7, <1>8, <1>9 DEF CallbacksNext

\* However results, cancellations, retries and sweeps race, and however late a call looks at the
\* job it changed: once none is left to look, the end of the job has been told, unless a sweep
\* gave it, or the call that should tell it failed or died with the process
\* (complete_task, cancel_job, _recycle_task_rows, notify_job_terminal).
THEOREM CallbacksTellTheEnd == CallbacksSpec => []EndIsTold
<1>1. CallbacksInv => EndIsTold
  BY DEF CallbacksInv, EndIsTold
<1> QED
  BY <1>1, CallbacksStart, CallbacksStep, PTL DEF CallbacksSpec
-----------------------------------------------------------------------------
(* ScriptHost: what outlives its task.                                       *)

ScriptHostSpec == ScriptHostInit /\ [][ScriptHostNext]_scriptHostVars

Backend == {"docker", "nsjail", "native-cpp", "subprocess"}
Script == [backend : Backend, alive : BOOLEAN, deaf : BOOLEAN,
           ended : {"no", "returned", "timed out", "cancelled", "exit"}, isolated : BOOLEAN]
TaskAt == [at : {"assigned", "unpacked", "installed", "running"}, tries : Nat,
           denied : BOOLEAN, override : {"unset", "subprocess", "native-cpp"}]
Owned(s) ==
  s.alive => \/ s.ended \in {"no", "exit"}
             \/ s.ended = "timed out" /\ s.backend = "docker"
             \/ s.ended = "cancelled" /\ (s.backend # "subprocess" \/ s.deaf)
\* A running task's script is the one started last, and cancel_task knows it if it can know it.
ScriptHostInv ==
  /\ scripts \in Seq(Script) /\ task \in {NoTask} \cup TaskAt
  /\ task.at = "running" => Len(scripts) > 0 /\ (scripts[Current].backend = "subprocess" => Current \in active_processes)
  /\ \A r \in DOMAIN scripts : Owned(scripts[r])

\* Whatever is configured, the host ends up with a backend of the list.
LEMMA BackendIsOne ==
  ASSUME NEW override, NEW native_train
  PROVE  NativeCppSandbox(build_sandbox(override), native_train) \in Backend
BY DEF NativeCppSandbox, build_sandbox, Backend

\* The invariant of ScriptHost holds at first.
LEMMA ScriptHostStart == ScriptHostInit => ScriptHostInv
BY DEF ScriptHostInit, ScriptHostInv, NoTask

\* Every step of ScriptHost keeps its invariant.
LEMMA ScriptHostStep == ScriptHostInv /\ [ScriptHostNext]_scriptHostVars => ScriptHostInv'
<1> SUFFICES ASSUME ScriptHostInv, [ScriptHostNext]_scriptHostVars PROVE ScriptHostInv'
  OBVIOUS
<1> USE DEF Current
<1>i. /\ scripts \in Seq(Script) /\ task \in {NoTask} \cup TaskAt
      /\ task.at = "running" => Len(scripts) > 0 /\ (scripts[Current].backend = "subprocess" => Current \in active_processes)
      /\ \A r \in DOMAIN scripts : Owned(scripts[r])
  BY DEF ScriptHostInv
<1>t. NoTask.at # "running"
  BY DEF NoTask
\* Before its script starts, and after its end, a task leaves the processes alone.
<1>1. ASSUME UNCHANGED <<scripts, active_processes>>, task' \in {NoTask} \cup TaskAt, task'.at = "running" => task.at = "running"
      PROVE  ScriptHostInv'
  BY <1>i, <1>1 DEF ScriptHostInv
\* One script changes; the task it belongs to is over, or goes on with the same backend.
<1>2. ASSUME NEW r \in DOMAIN scripts, NEW s \in Script, scripts' = [scripts EXCEPT ![r] = s], Owned(s),
             \/ task' = NoTask
             \/ UNCHANGED <<task, active_processes>> /\ s.backend = scripts[r].backend
      PROVE  ScriptHostInv'
  <2>1. /\ scripts' \in Seq(Script) /\ Len(scripts') = Len(scripts) /\ DOMAIN scripts' = DOMAIN scripts
        /\ \A k \in DOMAIN scripts : scripts'[k] = IF k = r THEN s ELSE scripts[k]
    BY <1>i, <1>2
  <2>2. \A k \in DOMAIN scripts' : Owned(scripts'[k])
    BY <1>i, <1>2, <2>1
  <2>3. CASE task' = NoTask
    BY <2>1, <2>2, <2>3, <1>t DEF ScriptHostInv
  <2>4. CASE UNCHANGED <<task, active_processes>> /\ s.backend = scripts[r].backend
    <3>1. ASSUME task'.at = "running"
          PROVE  Len(scripts') > 0 /\ (scripts'[Len(scripts')].backend = "subprocess" => Len(scripts') \in active_processes')
      <4>1. Len(scripts) \in DOMAIN scripts
        BY <1>i, <2>4, <3>1
      <4>2. scripts'[Len(scripts')].backend = scripts[Len(scripts)].backend
        BY <2>1, <2>4, <4>1
      <4> QED
        BY <1>i, <2>1, <2>4, <3>1, <4>2
    <3> QED
      BY <1>i, <2>1, <2>2, <2>4, <3>1 DEF ScriptHostInv
  <2> QED
    BY <1>2, <2>3, <2>4
<1>3. ASSUME _accept_script PROVE ScriptHostInv'
  <2>1. task' \in TaskAt /\ task'.at = "assigned"
    BY <1>3, UnpackAssumption DEF _accept_script, TaskAt
  <2> QED
    BY <1>1, <1>3, <2>1 DEF _accept_script
<1>4. ASSUME NEW status, _report_script(status, 0), RunUnchanged PROVE ScriptHostInv'
  BY <1>1, <1>4, <1>t DEF _report_script, RunUnchanged
<1>5. ASSUME unpack PROVE ScriptHostInv'
  <2>1. task \in TaskAt
    BY <1>i, <1>5 DEF unpack, NoTask
  <2>2. CASE task' = [task EXCEPT !.at = "unpacked"]
    BY <1>1, <1>5, <2>1, <2>2 DEF unpack, RunUnchanged, TaskAt
  <2>3. CASE task.tries > 1 /\ task' = [task EXCEPT !.tries = @ - 1]
    BY <1>1, <1>5, <2>1, <2>3 DEF unpack, RunUnchanged, TaskAt
  <2>4. CASE _report_script("failed", 0)
    BY <1>4, <1>5, <2>4 DEF unpack
  <2> QED
    BY <1>5, <2>2, <2>3, <2>4 DEF unpack
<1>6. ASSUME install PROVE ScriptHostInv'
  <2>1. task \in TaskAt
    BY <1>i, <1>6 DEF install, NoTask
  <2> QED
    BY <1>1, <1>6, <2>1 DEF install, RunUnchanged, TaskAt
<1>7. ASSUME run_script PROVE ScriptHostInv'
  <2>1. PICK policy \in {"unset", "open"}, native_train \in BOOLEAN, deaf \in BOOLEAN :
          LET backend == NativeCppSandbox(build_sandbox(task.override), native_train)
          IN /\ scripts' = Append(scripts, Started(backend, _network_policy(policy, task.denied), deaf))
             /\ active_processes' = IF backend = "subprocess" THEN {Len(scripts) + 1} ELSE {}
    BY <1>7 DEF run_script
  <2>2. PICK backend \in Backend :
          /\ scripts' = Append(scripts, Started(backend, _network_policy(policy, task.denied), deaf))
          /\ active_processes' = IF backend = "subprocess" THEN {Len(scripts) + 1} ELSE {}
    BY <2>1, BackendIsOne
  <2> DEFINE s == Started(backend, _network_policy(policy, task.denied), deaf)
  <2>3. s \in Script /\ s.backend = backend /\ Owned(s)
    BY DEF Started, Script, Owned, _build_argv, _render_config
  <2> HIDE DEF s
  <2>4. /\ scripts' \in Seq(Script) /\ Len(scripts') = Len(scripts) + 1 /\ scripts'[Len(scripts) + 1] = s
        /\ \A k \in DOMAIN scripts : scripts'[k] = scripts[k]
    BY <1>i, <2>2, <2>3 DEF s
  <2>5. \A k \in DOMAIN scripts' : Owned(scripts'[k])
    <3>1. \A k \in DOMAIN scripts' : k \in DOMAIN scripts \/ k = Len(scripts) + 1
      BY <1>i, <2>4
    <3> QED
      BY <1>i, <2>3, <2>4, <3>1
  <2>6. task' \in TaskAt
    <3>1. task \in TaskAt
      BY <1>i, <1>7 DEF run_script, NoTask
    <3> QED
      BY <1>7, <3>1 DEF run_script, TaskAt
  <2> QED
    BY <1>i, <2>2, <2>3, <2>4, <2>5, <2>6 DEF ScriptHostInv
<1>8. ASSUME NEW r \in DOMAIN scripts, ScriptExits(r) PROVE ScriptHostInv'
  <2> DEFINE s == [scripts[r] EXCEPT !.alive = FALSE]
  <2>1. scripts[r] \in Script
    BY <1>i
  <2>2. s \in Script /\ Owned(s) /\ s.backend = scripts[r].backend /\ scripts' = [scripts EXCEPT ![r] = s]
    BY <1>8, <2>1 DEF ScriptExits, Script, Owned
  <2> QED
    BY <1>2, <1>8, <2>2 DEF ScriptExits
\* A task that ends with its script running.
<1>9. ASSUME task.at = "running", NEW s, s \in Script /\ Owned(s), scripts' = [scripts EXCEPT ![Len(scripts)] = s], task' = NoTask
      PROVE  ScriptHostInv'
  <2>1. Len(scripts) \in DOMAIN scripts
    BY <1>i, <1>9
  <2> QED
    BY <1>2, <1>9, <2>1
<1>c. task.at = "running" => Len(scripts) \in DOMAIN scripts /\ scripts[Len(scripts)] \in Script
  BY <1>i
<1>10. ASSUME execute_task_returns PROVE ScriptHostInv'
  <2> DEFINE s == [scripts[Len(scripts)] EXCEPT !.ended = "returned"]
  <2>1. s \in Script /\ Owned(s)
    BY <1>c, <1>10 DEF execute_task_returns, Script, Owned
  <2>2. scripts' = [scripts EXCEPT ![Len(scripts)] = s] /\ task' = NoTask /\ task.at = "running"
    BY <1>10 DEF execute_task_returns, _report_script
  <2> QED
    BY <1>9, <2>1, <2>2
<1>11. ASSUME run_script_times_out PROVE ScriptHostInv'
  <2>1. PICK alive \in _docker_kill(scripts[Len(scripts)].backend) :
          scripts' = [scripts EXCEPT ![Len(scripts)].alive = alive, ![Len(scripts)].ended = "timed out"]
    BY <1>11 DEF run_script_times_out
  <2> DEFINE s == [scripts[Len(scripts)] EXCEPT !.alive = alive, !.ended = "timed out"]
  <2>2. s \in Script /\ Owned(s)
    BY <1>c, <1>11 DEF run_script_times_out, Script, Owned, _docker_kill
  <2>3. scripts' = [scripts EXCEPT ![Len(scripts)] = s] /\ task' = NoTask /\ task.at = "running"
    BY <1>c, <1>i, <1>11, <2>1 DEF run_script_times_out, _report_script
  <2> QED
    BY <1>9, <2>2, <2>3
<1>12. ASSUME NEW how \in {"cancelled", "exit"}, CancelScript(how) PROVE ScriptHostInv'
  <2>1. CASE task.at # "running"
    BY <1>1, <1>12, <1>i, <1>t, <2>1 DEF CancelScript, ScriptHostInv
  <2>2. CASE task.at = "running"
    <3> DEFINE was == scripts[Len(scripts)]
               s == [was EXCEPT !.ended = how, !.alive = @ /\ (how = "exit" \/ ~cancel_task(Len(scripts)) \/ was.deaf)]
    <3>1. scripts' = [scripts EXCEPT ![Len(scripts)] = s] /\ task' = NoTask
      BY <1>c, <1>i, <1>12, <2>2 DEF CancelScript
    <3>2. s \in Script
      BY <1>c, <2>2 DEF Script
    <3>3. Owned(s)
      BY <1>c, <1>i, <2>2, <1>12 DEF Script, Owned, cancel_task
    <3> QED
      BY <1>9, <2>2, <3>1, <3>2, <3>3
  <2> QED
    BY <2>1, <2>2
<1>13. CASE UNCHANGED scriptHostVars
  BY <1>1, <1>i, <1>13 DEF scriptHostVars
<1> QED
  BY <1>3, <1>4, <1>5, <1>6, <1>7, <1>8, <1>10, <1>11, <1>12, <1>13
     DEF ScriptHostNext, execute_task_refuses, ensure_run_py_fails, install_fails, run_script_missing,
         cancel_script_job, daemon_exits

\* Whatever the host has to run scripts with, and whenever tasks are cancelled, time out, or the
\* daemon leaves: a process that outlives its task is one that nobody had a handle on
\* (execute_task, cancel_task, the backends' run_script).
THEOREM ProcessesAreEnded == ScriptHostSpec => []OutlivesOnlyWithoutAHandle
<1>1. ScriptHostInv => OutlivesOnlyWithoutAHandle
  BY DEF ScriptHostInv, Owned, OutlivesOnlyWithoutAHandle
<1> QED
  BY <1>1, ScriptHostStart, ScriptHostStep, PTL DEF ScriptHostSpec
-----------------------------------------------------------------------------
(* Executor: what a reported success was trained on.                         *)

ExecutorSpec == ExecutorInit /\ [][ExecutorNext]_executorVars

Weights == [taken : Nat, skipped : Nat, torn : Nat]
Run == [at : {"idle", "preparing", "training", "reporting"}, step : Nat, trained : Weights, batch : Nat, oom_budget : Nat]
ExecutorTypes ==
  /\ run \in Run
  /\ settings.checkpoint_every \in Nat /\ settings.warmup_steps \in Nat
  /\ saved \in [step : Nat, trained : Weights] /\ restoredHalf \in BOOLEAN /\ runs \in Nat
\* The weights have been through this many steps, each once.
Through(weights, steps) ==
  /\ weights.taken + weights.skipped = steps
  /\ weights.skipped > 0 => settings.mixed_precision = "fp16"
\* The broken updates are within the retries of the runs before this one.
WithinRetries(weights, left) == weights.torn + left <= OomRetries * runs
\* The weights have been through the steps before the one to do, in memory as on disk; what is
\* left of the budget of retries was not spent on either.
ExecutorInv ==
  /\ ExecutorTypes
  /\ saved.step < Steps /\ (restoredHalf \/ Through(saved.trained, saved.step))
  /\ WithinRetries(saved.trained, run.oom_budget)
  /\ run.at \in {"training", "reporting"} => WithinRetries(run.trained, run.oom_budget)
  /\ run.at = "training" => run.step \in 1 .. Steps + 1 /\ (restoredHalf \/ Through(run.trained, run.step - 1))
  /\ run.at = "reporting" => restoredHalf \/ Through(run.trained, Steps)
  /\ SuccessWentThroughEachStepOnce

\* A clamped setting is a natural number.
LEMMA ClampsAreNatural ==
  ASSUME NEW raw PROVE _clamped_int(raw, 0, 0, 100000) \in Nat
BY DEF _clamped_int

\* No step of the run has a learning rate of zero.
LEMMA RateIsPositive ==
  ASSUME settings.warmup_steps \in Nat, NEW step \in 0 .. Steps - 1
  PROVE  build_lr_lambda(step)[1] > 0
<1> DEFINE warmup == Min({settings.warmup_steps, Steps - 1})
           decay_span == Max({1, Steps - warmup})
           passed == Min({decay_span, step - warmup})
<1>1. warmup \in 0 .. Steps - 1
  <2>1. settings.warmup_steps \in Int /\ Steps - 1 \in Int
    BY StepsAssumption
  <2> QED
    BY <2>1, MinOfTwo, StepsAssumption
<1> HIDE DEF warmup
<1>2. decay_span = Steps - warmup
  <2>1. 1 \in Int /\ Steps - warmup \in Int
    BY <1>1, StepsAssumption
  <2> QED
    BY <1>1, <2>1, MaxOfTwo, StepsAssumption
<1> HIDE DEF decay_span
<1>3. passed \in Int /\ passed < decay_span
  <2>1. decay_span \in Int /\ step - warmup \in Int
    BY <1>1, <1>2, StepsAssumption
  <2> QED
    BY <1>1, <1>2, <2>1, MinOfTwo, StepsAssumption
<1> HIDE DEF passed
<1>5. build_lr_lambda(step) =
        IF step < warmup THEN <<step + 1, warmup>>
        ELSE IF settings.lr_schedule = "cosine" THEN <<decay_span - passed, decay_span>> ELSE <<1, 1>>
  BY DEF build_lr_lambda, warmup, decay_span, passed
<1> QED
  BY <1>1, <1>2, <1>3, <1>5, StepsAssumption

\* One more run has its retries on top of those before.
LEMMA OneMoreRun ==
  ASSUME NEW n \in Nat PROVE OomRetries * (n + 1) = OomRetries * n + OomRetries /\ OomRetries * n \in Nat
BY StepsAssumption

\* The weights a step leaves have been through that step, too.
LEMMA StepIsGoneThrough ==
  ASSUME settings.warmup_steps \in Nat, run.step \in Nat, run.step - 1 \in 0 .. Steps - 1, NEW weights \in Weights,
         NEW left \in Stepped(weights)
  PROVE  /\ left \in Weights /\ left.torn = weights.torn
         /\ Through(weights, run.step - 1) => Through(left, run.step)
<1>1. build_lr_lambda(run.step - 1)[1] > 0
  BY RateIsPositive
<1> DEFINE rate == build_lr_lambda(run.step - 1)[1]
<1>2. \/ left = [weights EXCEPT !.taken = @ + 1]
      \/ left = [weights EXCEPT !.skipped = @ + 1] /\ settings.mixed_precision = "fp16"
  <2>1. rate # 0
    <3>1. rate > 0
      BY <1>1
    <3> HIDE DEF rate
    <3> QED
      BY <3>1
  <2> QED
    BY <2>1 DEF Stepped
<1>3. CASE left = [weights EXCEPT !.taken = @ + 1]
  BY <1>3 DEF Weights, Through
<1>4. CASE left = [weights EXCEPT !.skipped = @ + 1] /\ settings.mixed_precision = "fp16"
  BY <1>4 DEF Weights, Through
<1> QED
  BY <1>2, <1>3, <1>4

\* The invariant of Executor holds at first.
LEMMA ExecutorStart == ExecutorInit => ExecutorInv
<1> SUFFICES ASSUME ExecutorInit PROVE ExecutorInv
  OBVIOUS
<1>1. run = Idle /\ saved = NoState /\ results = {} /\ restoredHalf = FALSE /\ runs = 0
  BY DEF ExecutorInit
<1>2. settings.checkpoint_every \in Nat /\ settings.warmup_steps \in Nat
  BY ClampsAreNatural DEF ExecutorInit, resolve_training_settings
<1>3. run \in Run /\ run.at = "idle" /\ run.oom_budget = 0
  BY <1>1 DEF Run, Idle, Fresh, Weights
<1>4. saved \in [step : Nat, trained : Weights] /\ saved.step < Steps /\ Through(saved.trained, saved.step)
  BY <1>1, StepsAssumption DEF NoState, Fresh, Weights, Through
<1>5. SuccessWentThroughEachStepOnce
  BY <1>1 DEF SuccessWentThroughEachStepOnce
<1>6. WithinRetries(saved.trained, run.oom_budget)
  BY <1>1, <1>3, StepsAssumption DEF WithinRetries, NoState, Fresh
<1> QED
  BY <1>1, <1>2, <1>3, <1>4, <1>5, <1>6 DEF ExecutorInv, ExecutorTypes

\* Every step of Executor keeps its invariant.
LEMMA ExecutorStep == ExecutorInv /\ [ExecutorNext]_executorVars => ExecutorInv'
<1> SUFFICES ASSUME ExecutorInv, [ExecutorNext]_executorVars PROVE ExecutorInv'
  OBVIOUS
<1> USE StepsAssumption
<1>i. /\ run \in Run /\ settings.checkpoint_every \in Nat /\ settings.warmup_steps \in Nat
      /\ saved \in [step : Nat, trained : Weights] /\ restoredHalf \in BOOLEAN /\ runs \in Nat
      /\ saved.step < Steps /\ (restoredHalf \/ Through(saved.trained, saved.step))
      /\ WithinRetries(saved.trained, run.oom_budget)
      /\ run.at \in {"training", "reporting"} => WithinRetries(run.trained, run.oom_budget)
      /\ run.at = "training" => run.step \in 1 .. Steps + 1 /\ (restoredHalf \/ Through(run.trained, run.step - 1))
      /\ run.at = "reporting" => restoredHalf \/ Through(run.trained, Steps)
      /\ SuccessWentThroughEachStepOnce
  BY DEF ExecutorInv, ExecutorTypes
<1>m. OomRetries * runs \in Nat /\ OomRetries * (runs + 1) = OomRetries * runs + OomRetries
  BY <1>i, OneMoreRun
\* A run ends, reporting no success unless it was reporting one.
<1>1. ASSUME RunEnds, UNCHANGED <<settings, saved, runs, restoredHalf>>,
             \/ UNCHANGED results
             \/ \E status : Report(status) /\ (status = "success" => run.at = "reporting")
      PROVE  ExecutorInv'
  <2>1. SuccessWentThroughEachStepOnce'
    <3>1. CASE UNCHANGED results
      BY <1>i, <1>1, <3>1 DEF SuccessWentThroughEachStepOnce
    <3>2. ASSUME NEW status, Report(status), status = "success" => run.at = "reporting"
          PROVE  SuccessWentThroughEachStepOnce'
      <4>1. CASE status = "success"
        <5>1. restoredHalf \/ Through(run.trained, Steps)
          BY <1>i, <3>2, <4>1
        <5>2. run.trained.torn <= OomRetries * runs
          <6>1. run.trained.torn + run.oom_budget <= OomRetries * runs
            BY <1>i, <3>2, <4>1 DEF WithinRetries
          <6>2. run.trained.torn \in Nat /\ run.oom_budget \in Nat
            BY <1>i DEF Run, Weights
          <6> QED
            BY <6>1, <6>2, <1>m
        <5>3. results' = results \cup {[run |-> runs, status |-> status, trained |-> run.trained]}
          BY <3>2, <4>1 DEF Report
        <5> QED
          BY <1>i, <1>1, <5>1, <5>2, <5>3 DEF SuccessWentThroughEachStepOnce, Through
      <4>2. CASE status # "success"
        BY <1>i, <1>1, <3>2, <4>2 DEF SuccessWentThroughEachStepOnce, Report
      <4> QED
        BY <4>1, <4>2
    <3> QED
      BY <1>1, <3>1, <3>2
  <2>2. run' = Idle
    BY <1>1 DEF RunEnds
  <2>3. run' \in Run /\ run'.at = "idle" /\ run'.oom_budget = 0
    BY <2>2 DEF Run, Idle, Fresh, Weights
  <2>4. WithinRetries(saved.trained, run.oom_budget)'
    <3>1. saved.trained.torn + run.oom_budget <= OomRetries * runs
      BY <1>i DEF WithinRetries
    <3>2. saved.trained.torn \in Nat /\ run.oom_budget \in Nat
      BY <1>i DEF Run, Weights
    <3> QED
      BY <1>1, <1>m, <2>3, <3>1, <3>2 DEF WithinRetries
  <2>5. (restoredHalf \/ Through(saved.trained, saved.step))'
    BY <1>i, <1>1 DEF Through
  <2> QED
    BY <1>i, <1>1, <2>1, <2>3, <2>4, <2>5 DEF ExecutorInv, ExecutorTypes
\* A run goes on, with what is left of its budget in memory and on disk.
<1>2. ASSUME UNCHANGED <<settings, results, runs>>, saved' \in {saved, NoState}, run' \in Run, restoredHalf' \in BOOLEAN, restoredHalf => restoredHalf',
             run'.oom_budget <= run.oom_budget,
             run'.at \in {"training", "reporting"} => run'.trained.torn + run'.oom_budget <= OomRetries * runs,
             run'.at = "training" => run'.step \in 1 .. Steps + 1 /\ (restoredHalf' \/ Through(run'.trained, run'.step - 1)),
             run'.at = "reporting" => restoredHalf' \/ Through(run'.trained, Steps)
      PROVE  ExecutorInv'
  <2>1. SuccessWentThroughEachStepOnce'
    BY <1>i, <1>2 DEF SuccessWentThroughEachStepOnce
  <2>2. saved' \in [step : Nat, trained : Weights] /\ saved'.step < Steps /\ (restoredHalf \/ Through(saved.trained, saved.step))'
    BY <1>i, <1>2 DEF NoState, Fresh, Weights, Through
  <2>3. WithinRetries(saved.trained, run.oom_budget)'
    <3>1. saved.trained.torn + run.oom_budget <= OomRetries * runs
      BY <1>i DEF WithinRetries
    <3>2. saved.trained.torn \in Nat /\ run.oom_budget \in Nat /\ run'.oom_budget \in Nat
      BY <1>i, <1>2 DEF Run, Weights
    <3>3. saved'.trained.torn \in Nat /\ saved'.trained.torn <= saved.trained.torn
      BY <1>2, <3>2 DEF NoState, Fresh
    <3> QED
      BY <1>2, <1>m, <3>1, <3>2, <3>3 DEF WithinRetries
  <2>4. /\ (run.at \in {"training", "reporting"} => WithinRetries(run.trained, run.oom_budget))'
        /\ (run.at = "training" => run.step \in 1 .. Steps + 1 /\ (restoredHalf \/ Through(run.trained, run.step - 1)))'
        /\ (run.at = "reporting" => restoredHalf \/ Through(run.trained, Steps))'
    BY <1>2 DEF WithinRetries, Through
  <2> QED
    BY <1>i, <1>2, <2>1, <2>2, <2>3, <2>4 DEF ExecutorInv, ExecutorTypes
<1>3. ASSUME execute PROVE ExecutorInv'
  <2>1. run' = [at |-> "preparing", step |-> 1, trained |-> Fresh, batch |-> FullBatch, oom_budget |-> OomRetries]
        /\ run = Idle /\ runs' = runs + 1 /\ UNCHANGED <<settings, saved, results, restoredHalf>>
    BY <1>3 DEF execute
  <2>2. run' \in Run /\ run'.at = "preparing" /\ run'.oom_budget = OomRetries
    BY <2>1 DEF Run, Fresh, Weights
  <2>3. WithinRetries(saved.trained, run.oom_budget)'
    <3>1. saved.trained.torn + 0 <= OomRetries * runs
      BY <1>i, <2>1 DEF WithinRetries, Idle
    <3>2. saved.trained.torn \in Nat
      BY <1>i DEF Weights
    <3> QED
      BY <1>m, <2>1, <2>2, <3>1, <3>2 DEF WithinRetries
  <2>4. SuccessWentThroughEachStepOnce'
    BY <1>i, <2>1 DEF SuccessWentThroughEachStepOnce
  <2>5. (restoredHalf \/ Through(saved.trained, saved.step))' /\ (runs \in Nat)'
    BY <1>i, <2>1 DEF Through
  <2> QED
    BY <1>i, <2>1, <2>2, <2>3, <2>4, <2>5 DEF ExecutorInv, ExecutorTypes
<1>4. ASSUME _load_training_state PROVE ExecutorInv'
  <2>1. UNCHANGED <<settings, results, runs, saved>>
    BY <1>4 DEF _load_training_state
  <2>2. ASSUME NEW was \in [step : Nat, trained : Weights], was.step < Steps, run' = Resumed(was), restoredHalf' \in BOOLEAN,
               was.trained.torn <= saved.trained.torn,
               restoredHalf => restoredHalf', restoredHalf' \/ Through(was.trained, was.step)
        PROVE  ExecutorInv'
    <3>1. /\ run' \in Run /\ run'.at = "training" /\ run'.step = was.step + 1 /\ run'.trained = was.trained
          /\ run'.oom_budget = run.oom_budget
      <4>1. run' = [at |-> "training", step |-> was.step + 1, trained |-> was.trained, batch |-> run.batch, oom_budget |-> run.oom_budget]
        BY <1>i, <2>2 DEF Resumed, Run
      <4>2. was.step + 1 \in Nat /\ was.trained \in Weights /\ run.batch \in Nat /\ run.oom_budget \in Nat
        BY <1>i, <2>2 DEF Run
      <4> QED
        BY <4>1, <4>2 DEF Run
    <3>2. run'.trained.torn + run'.oom_budget <= OomRetries * runs
      <4>1. saved.trained.torn + run.oom_budget <= OomRetries * runs
        BY <1>i DEF WithinRetries
      <4>2. saved.trained.torn \in Nat /\ run.oom_budget \in Nat /\ was.trained.torn \in Nat
        BY <1>i, <2>2 DEF Run, Weights
      <4> QED
        BY <1>m, <2>2, <3>1, <4>1, <4>2
    <3>3. run'.step \in 1 .. Steps + 1 /\ run'.step - 1 = was.step /\ run'.oom_budget <= run.oom_budget
      BY <1>i, <2>2, <3>1 DEF Run
    <3> QED
      BY <1>2, <2>1, <2>2, <3>1, <3>2, <3>3
  <2>3. CASE run' = Resumed(saved) /\ UNCHANGED restoredHalf
    <3>1. saved.trained.torn <= saved.trained.torn
      BY <1>i DEF Weights
    <3> QED
      BY <1>i, <2>2, <2>3, <3>1
  <2>4. CASE run' = Resumed(NoState) /\ UNCHANGED restoredHalf
    <3>1. /\ NoState \in [step : Nat, trained : Weights] /\ NoState.step < Steps
          /\ NoState.trained.torn <= saved.trained.torn /\ Through(NoState.trained, NoState.step)
      BY <1>i DEF NoState, Fresh, Weights, Through
    <3> QED
      BY <1>i, <2>2, <2>4, <3>1
  <2>5. CASE run' = Resumed([saved EXCEPT !.step = 0]) /\ restoredHalf' = TRUE
    <3>1. /\ [saved EXCEPT !.step = 0] \in [step : Nat, trained : Weights] /\ [saved EXCEPT !.step = 0].step < Steps
          /\ [saved EXCEPT !.step = 0].trained.torn <= saved.trained.torn
      BY <1>i DEF Weights
    <3> QED
      BY <2>2, <2>5, <3>1
  <2> QED
    BY <1>4, <2>3, <2>4, <2>5 DEF _load_training_state
<1>5. ASSUME TrainStep PROVE ExecutorInv'
  <2>0. PICK weights \in Stepped(run.trained) :
             /\ InLoop /\ run' = [run EXCEPT !.step = @ + 1, !.trained = weights]
             /\ _save_training_state(weights)
             /\ UNCHANGED <<settings, results, runs, restoredHalf>>
    BY <1>5 DEF TrainStep
  <2>1. /\ run.at = "training" /\ run.step <= Steps
        /\ UNCHANGED saved \/ (run.step < Steps /\ saved' = [step |-> run.step, trained |-> weights])
    BY <2>0 DEF InLoop, _save_training_state
  <2>a. run.trained \in Weights /\ run.step \in Nat /\ run.batch \in Nat /\ run.oom_budget \in Nat
    BY <1>i DEF Run
  <2>2. weights \in Weights /\ weights.torn = run.trained.torn /\ (restoredHalf \/ Through(weights, run.step))
    <3>1. run.step - 1 \in 0 .. Steps - 1
      BY <1>i, <2>1, <2>a
    <3>2. \A was \in Weights : \A left \in Stepped(was) :
            left \in Weights /\ left.torn = was.torn /\ (Through(was, run.step - 1) => Through(left, run.step))
      BY <1>i, <2>a, <3>1, StepIsGoneThrough
    <3> QED
      BY <1>i, <2>0, <2>1, <2>a, <3>2
  <2>4. /\ run' \in Run /\ run'.at = "training" /\ run'.step = run.step + 1 /\ run'.trained = weights
        /\ run'.oom_budget = run.oom_budget
    <3>1. run' = [at |-> run.at, step |-> run.step + 1, trained |-> weights, batch |-> run.batch, oom_budget |-> run.oom_budget]
      BY <1>i, <2>0 DEF Run
    <3>2. run.step + 1 \in Nat
      BY <2>a
    <3> QED
      BY <2>1, <2>2, <2>a, <3>1, <3>2 DEF Run
  <2>5. saved' \in [step : Nat, trained : Weights] /\ saved'.step < Steps /\ (restoredHalf \/ Through(saved.trained, saved.step))'
    BY <1>i, <2>0, <2>1, <2>2, <2>a DEF Through
  <2>6. run'.step \in 1 .. Steps + 1 /\ run'.step - 1 = run.step
    BY <2>1, <2>4, <2>a
  <2>7. SuccessWentThroughEachStepOnce'
    BY <1>i, <2>0 DEF SuccessWentThroughEachStepOnce
  <2>8. WithinRetries(saved.trained, run.oom_budget)' /\ WithinRetries(run.trained, run.oom_budget)'
    BY <1>i, <2>0, <2>1, <2>2, <2>4 DEF WithinRetries
  <2>9. (restoredHalf \/ Through(run.trained, run.step - 1))'
    BY <2>0, <2>2, <2>4, <2>6 DEF Through
  <2> QED
    BY <1>i, <2>0, <2>4, <2>5, <2>6, <2>7, <2>8, <2>9 DEF ExecutorInv, ExecutorTypes
<1>6. ASSUME OutOfMemory PROVE ExecutorInv'
  <2>1. CASE Report("error") /\ RunEnds
    BY <1>1, <1>6, <2>1 DEF OutOfMemory
  <2>2. ASSUME NEW part_of_it \in {0, 1}, run.batch > 1, run.oom_budget > 0, UNCHANGED results,
               run' = [run EXCEPT !.batch = Max({1, @ \div 2}), !.oom_budget = @ - 1, !.trained.torn = @ + part_of_it]
        PROVE  ExecutorInv'
    <3>1. run.at = "training" /\ UNCHANGED <<settings, saved, runs, restoredHalf>>
      BY <1>6 DEF OutOfMemory, InLoop
    <3>2. Max({1, run.batch \div 2}) \in Nat
      <4>1. 1 \in Int /\ run.batch \div 2 \in Int
        BY <1>i DEF Run
      <4> QED
        BY <4>1, MaxOfTwo
    <3> DEFINE weights == [run.trained EXCEPT !.torn = @ + part_of_it]
    <3>a. run.trained \in Weights /\ run.step \in Nat /\ run.oom_budget \in Nat
      BY <1>i DEF Run
    <3>b. weights \in Weights /\ weights.torn = run.trained.torn + part_of_it
          /\ (\A n \in Int : Through(run.trained, n) => Through(weights, n))
      BY <3>a DEF Weights, Through
    <3>3. run' = [at |-> run.at, step |-> run.step, trained |-> weights, batch |-> Max({1, run.batch \div 2}), oom_budget |-> run.oom_budget - 1]
      BY <1>i, <2>2 DEF Run
    <3> HIDE DEF weights
    <3>4. /\ run' \in Run /\ run'.at = "training" /\ run'.step = run.step /\ run'.trained = weights
          /\ run'.oom_budget = run.oom_budget - 1
      <4>1. run.oom_budget - 1 \in Nat
        BY <2>2, <3>a
      <4> QED
        BY <3>1, <3>2, <3>3, <3>a, <3>b, <4>1 DEF Run
    <3>5. run'.trained.torn + run'.oom_budget <= OomRetries * runs
      <4>1. run.trained.torn + run.oom_budget <= OomRetries * runs
        BY <1>i, <3>1 DEF WithinRetries
      <4>2. run.trained.torn \in Nat
        BY <3>a DEF Weights
      <4> QED
        BY <1>m, <3>4, <3>a, <3>b, <4>1, <4>2
    <3>6. run'.oom_budget <= run.oom_budget
      BY <3>4, <3>a
    <3>7. run'.step \in 1 .. Steps + 1 /\ (restoredHalf' \/ Through(run'.trained, run'.step - 1))
      BY <1>i, <3>1, <3>4, <3>a, <3>b
    <3> QED
      BY <1>2, <1>i, <2>2, <3>1, <3>4, <3>5, <3>6, <3>7
  <2> QED
    BY <1>6, <2>1, <2>2 DEF OutOfMemory
<1>7. ASSUME Finish PROVE ExecutorInv'
  <2>1. CASE Report("error") /\ RunEnds /\ UNCHANGED saved
    BY <1>1, <1>7, <2>1 DEF Finish
  <2>2. CASE saved' = NoState /\ run' = [run EXCEPT !.at = "reporting"] /\ UNCHANGED results
    <3>1. run.at = "training" /\ run.step > Steps /\ UNCHANGED <<settings, results, runs, restoredHalf>>
      BY <1>7, <2>2 DEF Finish
    <3>2. run' \in Run /\ run'.at = "reporting" /\ run'.trained = run.trained /\ run'.oom_budget = run.oom_budget
      BY <1>i, <2>2 DEF Run
    <3>3. restoredHalf \/ Through(run.trained, Steps)
      <4>1. run.step - 1 = Steps
        BY <1>i, <3>1 DEF Run
      <4> QED
        BY <1>i, <3>1, <4>1
    <3>4. run'.trained.torn + run'.oom_budget <= OomRetries * runs
      BY <1>i, <3>1, <3>2 DEF WithinRetries
    <3>5. run'.oom_budget <= run.oom_budget
      BY <1>i, <3>2 DEF Run
    <3> QED
      BY <1>2, <1>i, <2>2, <3>1, <3>2, <3>3, <3>4, <3>5
  <2> QED
    BY <1>7, <2>1, <2>2 DEF Finish
\* The events and the pressure monitor touch neither the run nor what is kept of it.
<1>8. ASSUME UNCHANGED <<run, settings, saved, results, runs, restoredHalf>> PROVE ExecutorInv'
  BY <1>i, <1>8 DEF ExecutorInv, ExecutorTypes, SuccessWentThroughEachStepOnce, Through, WithinRetries
<1>9. ASSUME PreparationFails \/ DeadlineExceeded \/ ReportSuccess \/ Cancelled \/ ExecutorCrash PROVE ExecutorInv'
  BY <1>1, <1>9 DEF PreparationFails, DeadlineExceeded, ReportSuccess, Cancelled, ExecutorCrash
<1>10. ASSUME pause \/ resume \/ cancel \/ _monitor \/ UNCHANGED executorVars PROVE ExecutorInv'
  BY <1>8, <1>10 DEF pause, resume, cancel, _monitor, executorVars
<1> QED
  BY <1>3, <1>4, <1>5, <1>6, <1>7, <1>9, <1>10 DEF ExecutorNext

\* For any number of steps, learning-rate schedule, warmup and budget of retries, and whatever
\* crashed, was cancelled, timed out or ran out of memory: the weights behind a reported success
\* went through every step exactly once, taken or, under fp16 only, skipped by the scaler, and at
\* most as many updates were broken off halfway as the runs so far had retries; unless a state was
\* restored without its optimizer (_save_training_state, _load_training_state, build_lr_lambda,
\* the loop of execute).
THEOREM SuccessIsTrained == ExecutorSpec => []SuccessWentThroughEachStepOnce
<1>1. ExecutorInv => SuccessWentThroughEachStepOnce
  BY DEF ExecutorInv
<1> QED
  BY <1>1, ExecutorStart, ExecutorStep, PTL DEF ExecutorSpec
-----------------------------------------------------------------------------
(* Diloco: which pseudo-gradients an outer step averages.                    *)

DilocoSpec == DilocoInit /\ [][DilocoNext]_dilocoVars

PseudoGradient == [by : Workers, nth : Nat, from : Nat]
Buffers == UNION {[W -> PseudoGradient] : W \in SUBSET Workers}
Runner == [weights : Nat, started : BOOLEAN, sent : Nat]
DilocoTypes ==
  /\ job \in [round : Nat, weights : Nat, pending : Buffers, on : BOOLEAN]
  /\ stepped \in Seq(SUBSET PseudoGradient) /\ sending \subseteq PseudoGradient
  /\ writing \subseteq Nat /\ announced \subseteq Nat /\ runner \in [Workers -> Runner]
\* What is still to be averaged, and what has been: nothing is in two places, nor numbered
\* beyond what its worker has sent.
Waiting == sending \cup Range(job.pending)
Numbered(P) == \A p \in P : p.nth <= runner[p.by].sent
Keyed(buffer) == IsFiniteSet(DOMAIN buffer) /\ \A w \in DOMAIN buffer : buffer[w].by = w
OuterStep(s) ==
  /\ IsFiniteSet(s) /\ Cardinality(s) >= MinWorkers /\ \A p, q \in s : p.by = q.by => p = q
  /\ s \cap Waiting = {} /\ Numbered(s)
DilocoInv ==
  /\ DilocoTypes /\ Keyed(job.pending) /\ Numbered(Waiting) /\ sending \cap Range(job.pending) = {}
  /\ \A i \in DOMAIN stepped : OuterStep(stepped[i])
  /\ \A i, j \in DOMAIN stepped : i # j => stepped[i] \cap stepped[j] = {}

\* Elements of different workers are as many as their workers.
LEMMA OnePerWorker ==
  ASSUME NEW s, IsFiniteSet(s), \A p, q \in s : p.by = q.by => p = q
  PROVE  Cardinality({p.by : p \in s}) = Cardinality(s)
<1> DEFINE senders == {p.by : p \in s}
           f == [p \in s |-> p.by]
<1>1. f \in Injection(s, senders)
  BY DEF Injection, IsInjective
<1>2. f \in Surjection(s, senders)
  BY DEF Surjection
<1>3. ExistsBijection(s, senders)
  BY <1>1, <1>2 DEF ExistsBijection, Bijection
<1> QED
  BY <1>3, FS_Bijection

\* A buffer has as many pseudo-gradients as workers.
LEMMA BufferCounts ==
  ASSUME NEW buffer, Keyed(buffer)
  PROVE  /\ IsFiniteSet(Range(buffer)) /\ Cardinality(Range(buffer)) = Cardinality(DOMAIN buffer)
         /\ \A p, q \in Range(buffer) : p.by = q.by => p = q
<1> DEFINE f == [w \in DOMAIN buffer |-> buffer[w]]
<1>1. f \in Injection(DOMAIN buffer, Range(buffer))
  BY DEF Injection, IsInjective, Keyed, Range
<1>2. f \in Surjection(DOMAIN buffer, Range(buffer))
  BY DEF Surjection, Range
<1>3. ExistsBijection(DOMAIN buffer, Range(buffer))
  BY <1>1, <1>2 DEF ExistsBijection, Bijection
<1>4. \A p, q \in Range(buffer) : p.by = q.by => p = q
  BY DEF Keyed, Range
<1> QED
  BY <1>3, <1>4, FS_Bijection DEF Keyed

\* A buffer with one more pseudo-gradient still has one for each worker.
LEMMA BufferedOne ==
  ASSUME DilocoInv, NEW p \in sending
  PROVE  /\ Buffered(p) \in Buffers /\ Keyed(Buffered(p))
         /\ p \in Range(Buffered(p)) /\ Range(Buffered(p)) \subseteq Range(job.pending) \cup {p}
<1>1. job.pending \in Buffers /\ Keyed(job.pending) /\ p \in PseudoGradient
  BY DEF DilocoInv, DilocoTypes
<1>2. PICK W \in SUBSET Workers : job.pending \in [W -> PseudoGradient]
  BY <1>1 DEF Buffers
<1> DEFINE new == Buffered(p)
<1>3. /\ new = [w \in {p.by} \cup W |-> IF w = p.by THEN p ELSE job.pending[w]]
      /\ DOMAIN new = {p.by} \cup W
  BY <1>2 DEF Buffered
<1> HIDE DEF new
<1>4. {p.by} \cup W \subseteq Workers /\ new \in [{p.by} \cup W -> PseudoGradient]
  BY <1>1, <1>2, <1>3 DEF PseudoGradient
<1>5. IsFiniteSet({p.by} \cup W)
  BY <1>1, <1>2, FS_AddElement DEF Keyed
<1>6. Keyed(new)
  BY <1>1, <1>2, <1>3, <1>5 DEF Keyed
<1>7. p \in Range(new) /\ Range(new) \subseteq Range(job.pending) \cup {p}
  BY <1>2, <1>3 DEF Range
<1> QED
  BY <1>4, <1>6, <1>7 DEF Buffers, new

\* The empty buffer.
LEMMA NoBuffer == << >> \in Buffers /\ Keyed(<< >>) /\ Range(<< >>) = {}
<1>1. << >> = [w \in {} |-> 0] /\ DOMAIN << >> = {}
  OBVIOUS
<1>2. << >> \in [{} -> PseudoGradient]
  BY <1>1
<1> QED
  BY <1>1, <1>2, FS_EmptySet DEF Buffers, Range, Keyed

\* The invariant of Diloco holds at first.
LEMMA DilocoStart == DilocoInit => DilocoInv
<1> SUFFICES ASSUME DilocoInit PROVE DilocoInv
  OBVIOUS
<1>1. job = Unregistered /\ stepped = << >> /\ writing = {} /\ announced = {} /\ sending = {}
  BY DEF DilocoInit
<1>2. << >> \in Buffers /\ Keyed(<< >>) /\ Range(<< >>) = {}
  BY NoBuffer
<1>3. DilocoTypes
  <2>1. runner \in [Workers -> Runner]
    BY DEF DilocoInit, NewRunner, Runner
  <2> QED
    BY <1>1, <1>2, <2>1 DEF DilocoTypes, Unregistered
<1>4. Keyed(job.pending) /\ Waiting = {} /\ Range(job.pending) = {}
  BY <1>1, <1>2 DEF Waiting, Unregistered
<1> QED
  BY <1>1, <1>3, <1>4 DEF DilocoInv, Numbered

\* A submission is numbered beyond all others of its worker.
LEMMA SentOneMore == \A w \in Workers : DilocoInv /\ run_inner_loop(w) => DilocoInv'
<1> SUFFICES ASSUME NEW w \in Workers, DilocoInv, run_inner_loop(w) PROVE DilocoInv'
  OBVIOUS
<1> DEFINE p == [by |-> w, nth |-> runner[w].sent + 1, from |-> runner[w].weights]
<1>1. /\ runner' = [runner EXCEPT ![w].sent = @ + 1] /\ sending' = sending \cup {p}
      /\ UNCHANGED <<job, stepped, writing, announced>>
  BY DEF run_inner_loop
<1>2. runner[w] \in Runner /\ runner \in [Workers -> Runner]
  BY DEF DilocoInv, DilocoTypes
<1>3. p \in PseudoGradient /\ p.by = w /\ p.nth = runner[w].sent + 1
  BY <1>2 DEF PseudoGradient, Runner
<1> HIDE DEF p
<1>4. /\ runner' \in [Workers -> Runner] /\ runner'[w].sent = runner[w].sent + 1
      /\ \A x \in Workers : runner'[x].sent = runner[x].sent \/ x = w
  BY <1>1, <1>2 DEF Runner
<1>5. \A x \in Workers : runner[x].sent \in Nat /\ runner[x].sent <= runner'[x].sent
  BY <1>2, <1>4 DEF Runner
<1>6. Waiting \subseteq PseudoGradient /\ \A i \in DOMAIN stepped : stepped[i] \subseteq PseudoGradient
  BY DEF DilocoInv, DilocoTypes, Waiting, Buffers, Range
<1>7. ASSUME NEW P, P \subseteq PseudoGradient, Numbered(P)
      PROVE  p \notin P /\ \A q \in P : q.nth <= runner'[q.by].sent
  <2>1. p \notin P
    BY <1>2, <1>3, <1>7 DEF Numbered, Runner
  <2>2. ASSUME NEW q \in P PROVE q.nth <= runner'[q.by].sent
    <3>1. q.by \in Workers /\ q.nth \in Nat /\ q.nth <= runner[q.by].sent
      BY <1>7 DEF Numbered, PseudoGradient
    <3>2. runner'[q.by].sent \in Nat
      BY <1>4, <3>1 DEF Runner
    <3> QED
      BY <1>5, <3>1, <3>2
  <2> QED
    BY <2>1, <2>2
<1>8. Waiting' = Waiting \cup {p}
  BY <1>1 DEF Waiting
<1>9. DilocoTypes'
  BY <1>1, <1>3, <1>4 DEF DilocoInv, DilocoTypes
<1>10. Numbered(Waiting)'
  <2>1. \A q \in Waiting : q.nth <= runner'[q.by].sent
    BY <1>6, <1>7 DEF DilocoInv
  <2>2. p.nth <= runner'[p.by].sent
    BY <1>2, <1>3, <1>4 DEF Runner
  <2> QED
    BY <1>8, <2>1, <2>2 DEF Numbered
<1>11. ASSUME NEW i \in DOMAIN stepped PROVE OuterStep(stepped[i])'
  <2>1. OuterStep(stepped[i])
    BY DEF DilocoInv
  <2>2. p \notin stepped[i] /\ \A q \in stepped[i] : q.nth <= runner'[q.by].sent
    BY <1>6, <1>7, <2>1 DEF OuterStep
  <2> QED
    BY <1>1, <1>8, <2>1, <2>2 DEF OuterStep, Numbered
<1>12. p \notin Waiting
  BY <1>6, <1>7 DEF DilocoInv
<1> QED
  BY <1>1, <1>9, <1>10, <1>11, <1>12 DEF DilocoInv, Waiting

\* A pseudo-gradient moves from its worker to the buffer, and with a full buffer into a step.
LEMMA OneArrives == \A p \in sending : DilocoInv /\ _handle_diloco_pseudo_gradient(p) => DilocoInv'
<1> SUFFICES ASSUME NEW p \in sending, DilocoInv, _handle_diloco_pseudo_gradient(p) PROVE DilocoInv'
  OBVIOUS
<1> DEFINE new == Buffered(p)
<1>1. /\ new \in Buffers /\ Keyed(new)
      /\ p \in Range(new) /\ Range(new) \subseteq Range(job.pending) \cup {p}
  BY BufferedOne
<1>2. /\ sending' = sending \ {p} /\ UNCHANGED <<announced, runner>>
      /\ \/ /\ ready_to_aggregate(new) /\ job' = Claimed(new) /\ writing' = writing \cup {job.round}
            /\ stepped' = Append(stepped, Range(new))
         \/ job' = [job EXCEPT !.pending = new] /\ UNCHANGED <<writing, stepped>>
  BY DEF _handle_diloco_pseudo_gradient
<1> HIDE DEF new
<1>3. /\ job \in [round : Nat, weights : Nat, pending : Buffers, on : BOOLEAN]
      /\ stepped \in Seq(SUBSET PseudoGradient) /\ sending \subseteq PseudoGradient
      /\ writing \subseteq Nat /\ announced \subseteq Nat /\ runner \in [Workers -> Runner]
  BY DEF DilocoInv, DilocoTypes
<1>4. Range(new) \subseteq Waiting /\ p \in Waiting /\ sending' \cap Range(new) = {}
  BY <1>1, <1>2 DEF DilocoInv, Waiting
<1>5. Range(new) \subseteq PseudoGradient
  BY <1>1 DEF Buffers, Range
<1>6. ASSUME NEW P, Numbered(P) PROVE Numbered(P)'
  BY <1>2, <1>6 DEF Numbered
<1>7. CASE job' = [job EXCEPT !.pending = new] /\ UNCHANGED <<writing, stepped>>
  <2>1. job'.pending = new /\ job' \in [round : Nat, weights : Nat, pending : Buffers, on : BOOLEAN]
    BY <1>1, <1>3, <1>7
  <2>2. DilocoTypes'
    BY <1>2, <1>3, <1>7, <2>1 DEF DilocoTypes
  <2>3. Waiting' \subseteq Waiting /\ sending' \cap Range(job'.pending) = {}
    BY <1>2, <1>4, <2>1 DEF Waiting
  <2>4. Numbered(Waiting)'
    BY <1>2, <2>3 DEF Numbered, DilocoInv
  <2>5. \A i \in DOMAIN stepped : OuterStep(stepped[i])'
    BY <1>2, <1>7, <2>3 DEF DilocoInv, OuterStep, Numbered
  <2> QED
    BY <1>1, <1>7, <2>1, <2>2, <2>3, <2>4, <2>5 DEF DilocoInv
<1>8. CASE /\ ready_to_aggregate(new) /\ job' = Claimed(new) /\ writing' = writing \cup {job.round}
           /\ stepped' = Append(stepped, Range(new))
  <2>1. /\ job'.pending = << >> /\ job' \in [round : Nat, weights : Nat, pending : Buffers, on : BOOLEAN]
    <3>1. job' = [round |-> job.round + 1, weights |-> job.weights + 1, pending |-> << >>, on |-> job.on]
      BY <1>3, <1>8 DEF Claimed
    <3> QED
      BY <1>3, <3>1, NoBuffer
  <2>n. PICK n : n = Len(stepped) + 1
    OBVIOUS
  <2>2. /\ stepped' \in Seq(SUBSET PseudoGradient) /\ DOMAIN stepped' = DOMAIN stepped \cup {n}
        /\ stepped'[n] = Range(new) /\ \A i \in DOMAIN stepped : stepped'[i] = stepped[i] /\ i # n
    BY <1>3, <1>5, <1>8, <2>n
  <2>3. DilocoTypes'
    BY <1>2, <1>3, <1>8, <2>1, <2>2 DEF DilocoTypes
  <2>4. Waiting' = sending' /\ Waiting' \subseteq Waiting
    BY <1>2, <2>1, NoBuffer DEF Waiting
  <2>5. Numbered(Waiting)'
    BY <1>2, <2>4 DEF Numbered, DilocoInv
  <2>6. ASSUME NEW i \in DOMAIN stepped PROVE OuterStep(stepped[i])'
    <3>1. OuterStep(stepped[i]) /\ stepped'[i] = stepped[i]
      BY <2>2 DEF DilocoInv
    <3> QED
      BY <1>2, <2>4, <3>1 DEF OuterStep, Numbered
  <2>7. Cardinality(Range(new)) >= MinWorkers /\ IsFiniteSet(Range(new)) /\ \A q, r \in Range(new) : q.by = r.by => q = r
    BY <1>1, <1>8, BufferCounts DEF ready_to_aggregate
  <2>8. Range(new) \cap Waiting' = {} /\ \A q \in Range(new) : q.nth <= runner'[q.by].sent
    BY <1>2, <1>4, <2>4 DEF DilocoInv, Numbered
  <2>9. OuterStep(stepped[n])'
    BY <1>2, <2>2, <2>7, <2>8 DEF OuterStep, Numbered
  <2> QED
    <3>1. Keyed(job'.pending) /\ sending' \cap Range(job'.pending) = {}
      BY <2>1, NoBuffer
    <3>2. \A i \in DOMAIN stepped' : OuterStep(stepped[i])'
      BY <2>2, <2>6, <2>9
    <3>3. \A i \in DOMAIN stepped : stepped[i] \cap Range(new) = {}
      BY <1>4 DEF DilocoInv, OuterStep
    <3>4. \A i, j \in DOMAIN stepped' : i # j => stepped'[i] \cap stepped'[j] = {}
      BY <2>2, <3>3 DEF DilocoInv
    <3> QED
      BY <2>3, <2>5, <3>1, <3>2, <3>4 DEF DilocoInv
<1> QED
  BY <1>2, <1>7, <1>8

\* Every step of Diloco keeps its invariant.
LEMMA DilocoStep == DilocoInv /\ [DilocoNext]_dilocoVars => DilocoInv'
<1> SUFFICES ASSUME DilocoInv, [DilocoNext]_dilocoVars PROVE DilocoInv'
  OBVIOUS
<1> USE DilocoAssumption
<1>i. /\ DilocoTypes /\ Keyed(job.pending) /\ Numbered(Waiting) /\ sending \cap Range(job.pending) = {}
      /\ \A i \in DOMAIN stepped : OuterStep(stepped[i])
      /\ \A i, j \in DOMAIN stepped : i # j => stepped[i] \cap stepped[j] = {}
  BY DEF DilocoInv
\* Nothing new is sent, and nothing is averaged.
<1>1. ASSUME UNCHANGED stepped, DilocoTypes', Keyed(job'.pending), sending' \cap Range(job'.pending) = {},
             Waiting' \subseteq Waiting, \A w \in Workers : runner'[w].sent = runner[w].sent
      PROVE  DilocoInv'
  <2>1. ASSUME NEW P, P \subseteq PseudoGradient, Numbered(P) PROVE Numbered(P)'
    BY <1>1, <2>1 DEF Numbered, PseudoGradient
  <2>2. Waiting \subseteq PseudoGradient /\ \A i \in DOMAIN stepped : stepped[i] \subseteq PseudoGradient
    BY <1>i DEF DilocoTypes, Waiting, Buffers, Range
  <2>3. Numbered(Waiting)'
    BY <1>i, <1>1, <2>1, <2>2 DEF Numbered
  <2>4. \A i \in DOMAIN stepped : OuterStep(stepped[i])'
    BY <1>i, <1>1, <2>1, <2>2 DEF OuterStep
  <2> QED
    BY <1>i, <1>1, <2>3, <2>4 DEF DilocoInv
<1>t. /\ job \in [round : Nat, weights : Nat, pending : Buffers, on : BOOLEAN]
      /\ stepped \in Seq(SUBSET PseudoGradient) /\ sending \subseteq PseudoGradient
      /\ writing \subseteq Nat /\ announced \subseteq Nat /\ runner \in [Workers -> Runner]
  BY <1>i DEF DilocoTypes
<1>2. << >> \in Buffers /\ Keyed(<< >>) /\ Range(<< >>) = {}
  BY NoBuffer
<1>3. ASSUME register_job PROVE DilocoInv'
  <2>1. job' = [round |-> 0, weights |-> 0, pending |-> << >>, on |-> TRUE]
        /\ UNCHANGED <<stepped, writing, announced, runner, sending>>
    BY <1>3 DEF register_job, Registered, Unregistered
  <2>2. DilocoTypes'
    BY <1>t, <1>2, <2>1 DEF DilocoTypes
  <2>3. Waiting' \subseteq Waiting
    BY <1>2, <2>1 DEF Waiting
  <2> QED
    BY <1>1, <1>2, <2>1, <2>2, <2>3
\* The runner's weights and its start do not matter here.
<1>4. ASSUME NEW w \in Workers, NEW weights \in Nat, NEW started \in BOOLEAN,
             runner' = [runner EXCEPT ![w].weights = weights, ![w].started = started],
             UNCHANGED <<job, stepped, writing, announced, sending>>
      PROVE  DilocoInv'
  <2>1. runner' \in [Workers -> Runner] /\ \A x \in Workers : runner'[x].sent = runner[x].sent
    BY <1>t, <1>4, ZenonT(40) DEF Runner
  <2>2. DilocoTypes'
    BY <1>t, <1>4, <2>1 DEF DilocoTypes
  <2> QED
    BY <1>1, <1>i, <1>4, <2>1, <2>2 DEF Waiting
<1>5. ASSUME NEW w \in Workers, on_round_start(w) PROVE DilocoInv'
  BY <1>4, <1>t, <1>5 DEF on_round_start
<1>6. ASSUME NEW w \in Workers, NEW k \in announced, on_round_complete(w, k) PROVE DilocoInv'
  <2>1. k + 1 \in Nat
    BY <1>t
  <2> QED
    BY <1>4, <1>6, <2>1 DEF on_round_complete
<1>7. ASSUME NEW p \in sending, Dropped(p) PROVE DilocoInv'
  <2>1. DilocoTypes'
    BY <1>t, <1>7 DEF Dropped, DilocoTypes
  <2> QED
    BY <1>1, <1>i, <1>7, <2>1 DEF Dropped, Waiting
<1>8. ASSUME NEW k \in writing, Broadcast(k) PROVE DilocoInv'
  <2>1. DilocoTypes'
    BY <1>t, <1>8 DEF Broadcast, DilocoTypes
  <2> QED
    BY <1>1, <1>i, <1>8, <2>1 DEF Broadcast, Waiting
<1>9. CASE UNCHANGED dilocoVars
  <2>1. DilocoTypes'
    BY <1>t, <1>9 DEF dilocoVars, DilocoTypes
  <2> QED
    BY <1>1, <1>i, <1>9, <2>1 DEF dilocoVars, Waiting
<1>10. ASSUME NEW w \in Workers, run_inner_loop(w) PROVE DilocoInv'
  BY <1>10, SentOneMore
<1>11. ASSUME NEW p \in sending, _handle_diloco_pseudo_gradient(p) PROVE DilocoInv'
  BY <1>11, OneArrives
<1> QED
  BY <1>3, <1>5, <1>6, <1>7, <1>8, <1>9, <1>10, <1>11 DEF DilocoNext

\* However many workers send pseudo-gradients, and however late and in whatever order their blobs
\* arrive: each is averaged in at most one outer step, and an outer step has one of each of at
\* least min_workers workers (submit_pseudo_gradient, aggregate_and_step, maybe_aggregate).
THEOREM PseudoGradientsCountOnce == DilocoSpec => []EachPseudoGradientCountsOnce
<1>1. DilocoInv => EachPseudoGradientCountsOnce
  BY OnePerWorker DEF DilocoInv, OuterStep, EachPseudoGradientCountsOnce
<1> QED
  BY <1>1, DilocoStart, DilocoStep, PTL DEF DilocoSpec
-----------------------------------------------------------------------------
(* Schedule: when a slot is active, and when the page says so.               *)

ScheduleSpec == ScheduleInit /\ [][ScheduleNext]_scheduleVars

SlotsKept(m) ==
  /\ m.timezone_offset \in Moments
  /\ \A i \in DOMAIN m.time_slots : m.time_slots[i].start_time \in Moments /\ m.time_slots[i].end_time \in Moments
ScheduleInv == SlotsKept(manager) /\ (schedule_json = Garbled \/ SlotsKept(schedule_json))

\* Going round the clock from s to t takes as long in every time zone.
LEMMA SameDistance ==
  ASSUME NEW offset \in Moments, NEW s \in Moments, NEW t \in Moments
  PROVE  (to_local(t, offset) - to_local(s, offset)) % DayLength = IF s <= t THEN t - s ELSE t - s + DayLength
<1> DEFINE Local(x) == IF x + offset < DayLength THEN x + offset ELSE x + offset - DayLength
<1>1. DayLength \in Nat \ {0} /\ Moments = 0 .. DayLength - 1
  BY ScheduleAssumption DEF Moments
<1>2. ASSUME NEW x \in Moments PROVE to_local(x, offset) = Local(x)
  BY <1>1 DEF to_local
<1>3. to_local(t, offset) = Local(t) /\ to_local(s, offset) = Local(s)
  BY <1>2
<1>4. Local(t) - Local(s) \in Int /\ 0 - DayLength <= Local(t) - Local(s) /\ Local(t) - Local(s) < DayLength
  BY <1>1
<1>5. (Local(t) - Local(s)) % DayLength = IF 0 <= Local(t) - Local(s) THEN Local(t) - Local(s) ELSE Local(t) - Local(s) + DayLength
  <2> HIDE DEF Local
  <2>1. CASE 0 <= Local(t) - Local(s)
    BY <1>1, <1>4, <2>1
  <2>2. CASE ~(0 <= Local(t) - Local(s))
    BY <1>1, <1>4, <2>2
  <2> QED
    BY <2>1, <2>2
<1> QED
  BY <1>1, <1>3, <1>5

\* The invariant of Schedule holds at first.
LEMMA ScheduleStart == ScheduleInit => ScheduleInv
BY ScheduleAssumption DEF ScheduleInit, ScheduleInv, SlotsKept, Empty, Moments

\* Every step of Schedule keeps its invariant.
LEMMA ScheduleStep == ScheduleInv /\ [ScheduleNext]_scheduleVars => ScheduleInv'
<1> SUFFICES ASSUME ScheduleInv, [ScheduleNext]_scheduleVars PROVE ScheduleInv'
  OBVIOUS
<1>e. SlotsKept(Empty)
  BY ScheduleAssumption DEF SlotsKept, Empty, Moments
<1>1. ASSUME NEW offset \in Offsets, NEW n \in 0 .. MaxSlots, NEW requests \in [1 .. n -> Requests], NEW parsed \in 0 .. n,
             save_schedule(offset, requests, parsed)
      PROVE  ScheduleInv'
  <2> DEFINE new == [timezone_offset |-> offset, time_slots |-> [i \in 1 .. parsed |-> SlotOf(requests[i], offset)]]
  <2>1. manager' = new /\ schedule_json' \in {new, schedule_json}
    BY <1>1 DEF save_schedule
  <2>2. ASSUME NEW i \in 1 .. parsed
        PROVE  SlotOf(requests[i], offset).start_time \in Moments /\ SlotOf(requests[i], offset).end_time \in Moments
    <3>1. requests[i] \in Requests
      BY <1>1
    <3>2. requests[i].start \in SlotTimes /\ requests[i].end \in SlotTimes
      BY <3>1 DEF Requests
    <3>5. requests[i].start \in Moments /\ requests[i].end \in Moments /\ offset \in Moments
      BY <3>2, ScheduleAssumption
    <3>3. requests[i].start - offset \in Int /\ requests[i].end - offset \in Int /\ DayLength \in Nat \ {0}
      BY <3>5, ScheduleAssumption DEF Moments
    <3>4. (requests[i].start - offset) % DayLength \in Moments /\ (requests[i].end - offset) % DayLength \in Moments
      BY <3>3 DEF Moments
    <3> QED
      BY <3>4 DEF SlotOf, from_local
  <2>3. SlotsKept(new)
    BY <2>2, ScheduleAssumption DEF SlotsKept
  <2> HIDE DEF new
  <2> QED
    BY <2>1, <2>3 DEF ScheduleInv
<1>2. CASE DiesWhileSaving
  BY <1>e, <1>2 DEF DiesWhileSaving, ScheduleInv
<1>3. CASE load
  BY <1>e, <1>3 DEF load, ScheduleInv
<1>4. ASSUME NEW day \in Week, NEW t \in Moments, Tell(day, t) PROVE ScheduleInv'
  BY <1>4 DEF Tell, ScheduleInv, SlotsKept
<1>5. CASE UNCHANGED scheduleVars
  BY <1>5 DEF scheduleVars, ScheduleInv, SlotsKept
<1> QED
  BY <1>1, <1>2, <1>3, <1>4, <1>5 DEF ScheduleNext

\* For any length of the day, any time zone and any slots, saved, reloaded or half-parsed: a slot
\* that applies on every day is active exactly at the local times the page shows for it
\* (scheduler_config.py from_local, is_active, to_local_display).
THEOREM SlotsAreActiveWhenShown == ScheduleSpec => []ActiveWhenShown
<1>1. ScheduleInv => ActiveWhenShown
  <2> SUFFICES ASSUME ScheduleInv, NEW i \in DOMAIN manager.time_slots, manager.time_slots[i].days_of_week = Week,
                      NEW day \in Week, NEW t \in Moments
               PROVE  is_active(manager.time_slots[i], day, t) <=>
                      (to_local(t, manager.timezone_offset) - to_local(manager.time_slots[i].start_time, manager.timezone_offset)) % DayLength
                      <= (to_local(manager.time_slots[i].end_time, manager.timezone_offset) - to_local(manager.time_slots[i].start_time, manager.timezone_offset)) % DayLength
    BY DEF ActiveWhenShown
  <2> DEFINE slot == manager.time_slots[i]
             from == slot.start_time
             to == slot.end_time
  <2>1. manager.timezone_offset \in Moments /\ from \in Moments /\ to \in Moments
    BY DEF ScheduleInv, SlotsKept
  <2>2. is_active(slot, day, t) <=> IF from > to THEN t >= from \/ t <= to ELSE from <= t /\ t <= to
    BY DEF is_active, Within, Daytime
  <2>3. /\ (to_local(t, manager.timezone_offset) - to_local(from, manager.timezone_offset)) % DayLength
           = IF from <= t THEN t - from ELSE t - from + DayLength
        /\ (to_local(to, manager.timezone_offset) - to_local(from, manager.timezone_offset)) % DayLength
           = IF from <= to THEN to - from ELSE to - from + DayLength
    BY <2>1, SameDistance
  <2>4. (IF from > to THEN t >= from \/ t <= to ELSE from <= t /\ t <= to) <=>
        (IF from <= t THEN t - from ELSE t - from + DayLength) <= (IF from <= to THEN to - from ELSE to - from + DayLength)
    <3> HIDE DEF from, to
    <3> QED
      BY <2>1, ScheduleAssumption DEF Moments
  <2> QED
    BY <2>2, <2>3, <2>4
<1> QED
  BY <1>1, ScheduleStart, ScheduleStep, PTL DEF ScheduleSpec
-----------------------------------------------------------------------------
(* Schema: what a recorded version stands for.                               *)

SchemaSpec == SchemaInit /\ [][SchemaNext]_schemaVars

Process == [mode : {"idle", "up"}, todo : Seq(1 .. Latest), at : Nat \ {0}]
\* What a process has executed of the script it is running is there.
DoneSoFar(s) ==
  s.todo # << >> => \A k \in 1 .. Len(MIGRATIONS[Head(s.todo)]) : k < s.at => MIGRATIONS[Head(s.todo)][k] \in objects
MigratedInv ==
  /\ versions \subseteq 1 .. Latest /\ script \in [Operators -> Process]
  /\ \A o \in Operators : DoneSoFar(script[o])
  /\ \A v \in versions : Range(MIGRATIONS[v]) \subseteq objects
LiveInv ==
  /\ ensured \subseteq columns /\ columns \subseteq Columns
  /\ boot = "up" => columns = Columns /\ timestamps
SchemaInv == rolledBack \in BOOLEAN /\ (~rolledBack => MigratedInv) /\ LiveInv

\* The migrations end with version 4.
LEMMA FourVersions == Latest = 4
BY DEF Latest, MIGRATIONS

\* The script of a version is a sequence of statements.
LEMMA ScriptsAreSequences ==
  ASSUME NEW v \in 1 .. Latest
  PROVE  Len(MIGRATIONS[v]) \in Nat /\ Range(MIGRATIONS[v]) = {MIGRATIONS[v][k] : k \in 1 .. Len(MIGRATIONS[v])}
<1>1. v \in {1, 2, 3, 4}
  BY FourVersions
<1>2. DOMAIN MIGRATIONS[v] = 1 .. Len(MIGRATIONS[v]) /\ Len(MIGRATIONS[v]) \in Nat
  <2>1. CASE v = 1
    BY <2>1 DEF MIGRATIONS
  <2>2. CASE v = 2
    BY <2>2 DEF MIGRATIONS
  <2>3. CASE v = 3
    BY <2>3 DEF MIGRATIONS
  <2>4. CASE v = 4
    BY <2>4 DEF MIGRATIONS
  <2> QED
    BY <1>1, <2>1, <2>2, <2>3, <2>4
<1> QED
  BY <1>2 DEF Range

\* The version recorded last is one of the versions or 0.
LEMMA CurrentVersion ==
  ASSUME versions \subseteq 1 .. Latest
  PROVE  get_current_version \in 0 .. Latest
<1> DEFINE Newest(v) == v \in versions \cup {0} /\ \A w \in versions : w <= v
<1>1. \A w \in versions : w \in {1, 2, 3, 4}
  BY FourVersions
<1>2. \E v : Newest(v)
  <2>1. CASE 4 \in versions
    BY <1>1, <2>1
  <2>2. CASE 4 \notin versions /\ 3 \in versions
    BY <1>1, <2>2
  <2>3. CASE 4 \notin versions /\ 3 \notin versions /\ 2 \in versions
    BY <1>1, <2>3
  <2>4. CASE 4 \notin versions /\ 3 \notin versions /\ 2 \notin versions /\ 1 \in versions
    BY <1>1, <2>4
  <2>5. CASE versions = {}
    BY <2>5
  <2> QED
    BY <1>1, <2>1, <2>2, <2>3, <2>4, <2>5
<1>3. get_current_version = CHOOSE v : Newest(v)
  BY DEF get_current_version
<1>4. Newest(get_current_version)
  BY <1>2, <1>3, Zenon
<1> QED
  BY <1>1, <1>4, FourVersions

\* The invariant of Schema holds at first.
LEMMA SchemaStart == SchemaInit => SchemaInv
<1> SUFFICES ASSUME SchemaInit PROVE SchemaInv
  OBVIOUS
<1>1. LiveInv /\ rolledBack = FALSE /\ versions = {} /\ script = [o \in Operators |-> Reading]
  BY DEF SchemaInit, LiveInv
<1>2. Reading \in Process /\ DoneSoFar(Reading)
  BY DEF Reading, Process, DoneSoFar
<1> QED
  BY <1>1, <1>2 DEF SchemaInv, MigratedInv

\* Every step of Schema keeps its invariant.
LEMMA SchemaStep == SchemaInv /\ [SchemaNext]_schemaVars => SchemaInv'
<1> SUFFICES ASSUME SchemaInv, [SchemaNext]_schemaVars PROVE SchemaInv'
  OBVIOUS
<1>i. rolledBack \in BOOLEAN /\ (~rolledBack => MigratedInv) /\ LiveInv
  BY DEF SchemaInv
<1>l. UNCHANGED liveVars => LiveInv'
  BY <1>i DEF liveVars, LiveInv
<1>m. UNCHANGED <<objects, versions, script, rolledBack>> => rolledBack' \in BOOLEAN /\ (~rolledBack' => MigratedInv')
  BY <1>i DEF MigratedInv, DoneSoFar
\* One process goes on, with the file no smaller; nobody rolled back.
<1>1. ASSUME NEW o \in Operators, NEW s, script' = [script EXCEPT ![o] = s], UNCHANGED <<rolledBack, liveVars>>,
             ~rolledBack => /\ s \in Process /\ DoneSoFar(s)' /\ objects \subseteq objects'
                            /\ \A v \in versions' : v \in versions \/ (v \in 1 .. Latest /\ Range(MIGRATIONS[v]) \subseteq objects')
      PROVE  SchemaInv'
  <2>1. ASSUME ~rolledBack PROVE MigratedInv'
    <3>1. MigratedInv
      BY <1>i, <2>1
    <3>2. script' \in [Operators -> Process] /\ \A q \in Operators : script'[q] = IF q = o THEN s ELSE script[q]
      BY <1>1, <2>1, <3>1 DEF MigratedInv
    <3>3. ASSUME NEW q \in Operators PROVE DoneSoFar(script[q])'
      <4>1. CASE q = o
        BY <1>1, <2>1, <3>2, <4>1 DEF DoneSoFar
      <4>2. CASE q # o
        BY <1>1, <2>1, <3>1, <3>2, <4>2 DEF MigratedInv, DoneSoFar
      <4> QED
        BY <4>1, <4>2
    <3>4. \A q \in Operators : DoneSoFar(script[q])'
      BY <3>3
    <3> QED
      BY <1>1, <2>1, <3>1, <3>2, <3>4 DEF MigratedInv
  <2> QED
    BY <1>i, <1>l, <1>1, <2>1 DEF SchemaInv
<1>r. Reading \in Process
  BY DEF Reading, Process
<1>d. DoneSoFar(Reading)'
  BY DEF Reading, DoneSoFar
<1>2. ASSUME NEW o \in Operators, Fails(o), UNCHANGED <<objects, versions, rolledBack, liveVars>> PROVE SchemaInv'
  BY <1>1, <1>2, <1>r, <1>d DEF Fails
<1>3. ASSUME NEW o \in Operators, NEW target \in 0 .. Latest, migrate_up(o, target) PROVE SchemaInv'
  <2>s. PICK s : s = [mode |-> "up", todo |-> Between(get_current_version, target), at |-> 1]
    OBVIOUS
  <2>1. ASSUME ~rolledBack PROVE s \in Process
    <3>1. get_current_version \in 0 .. Latest
      BY <1>i, <2>1, CurrentVersion DEF MigratedInv
    <3>2. Between(get_current_version, target) \in Seq(1 .. Latest)
      BY <3>1, FourVersions DEF Between
    <3> QED
      BY <2>s, <3>2 DEF Process
  <2>2. DoneSoFar(s)'
    BY <2>s DEF DoneSoFar
  <2> QED
    BY <1>1, <1>3, <2>s, <2>1, <2>2 DEF migrate_up
<1>4. ASSUME NEW o \in Operators, NEW target \in 0 .. Latest, migrate_down(o, target) PROVE SchemaInv'
  BY <1>i, <1>l, <1>4 DEF migrate_down, SchemaInv
\* The script a process is at.
<1>s. ASSUME ~rolledBack, NEW o \in Operators
      PROVE  /\ script[o] \in Process /\ DoneSoFar(script[o])
             /\ script[o].todo # << >> => Head(script[o].todo) \in 1 .. Latest /\ Tail(script[o].todo) \in Seq(1 .. Latest)
  <2>1. script[o] \in Process /\ DoneSoFar(script[o])
    BY <1>i, <1>s DEF MigratedInv
  <2>2. script[o].todo \in Seq(1 .. Latest)
    BY <2>1 DEF Process
  <2>3. ASSUME NEW S, NEW t \in Seq(S), t # << >> PROVE Head(t) \in S /\ Tail(t) \in Seq(S)
    BY <2>3
  <2>4. script[o].todo # << >> => Head(script[o].todo) \in 1 .. Latest /\ Tail(script[o].todo) \in Seq(1 .. Latest)
    BY <2>2, <2>3
  <2> QED
    BY <2>1, <2>4
<1>5. ASSUME NEW o \in Operators, UpStatement(o) PROVE SchemaInv'
  <2>h. PICK h, was : h = Head(script[o].todo) /\ was = script[o]
    OBVIOUS
  <2> DEFINE x == MIGRATIONS[h][was.at]
  <2>1. CASE Fails(o) /\ UNCHANGED objects
    BY <1>2, <1>5, <2>1 DEF UpStatement
  <2>2. CASE objects' = objects \cup {x} /\ Step(o)
    <3>s. PICK s : s = [was EXCEPT !.at = @ + 1]
      OBVIOUS
    <3>1. ASSUME ~rolledBack PROVE s \in Process /\ DoneSoFar(s)'
      <4>1. was \in Process /\ DoneSoFar(was) /\ h \in 1 .. Latest /\ was.todo # << >>
        BY <1>5, <1>s, <2>h, <3>1 DEF UpStatement, Running
      <4>2. s \in Process /\ s.todo = was.todo /\ s.at = was.at + 1 /\ was.at \in Nat
        BY <3>s, <4>1 DEF Process
      <4>3. Len(MIGRATIONS[h]) \in Nat
        BY <4>1, ScriptsAreSequences
      <4>4. ASSUME NEW k \in 1 .. Len(MIGRATIONS[h]), k < was.at + 1 PROVE MIGRATIONS[h][k] \in objects'
        <5>1. CASE k < was.at
          BY <2>h, <2>2, <4>1, <5>1 DEF DoneSoFar
        <5>2. CASE k = was.at
          BY <2>2, <5>2
        <5> QED
          BY <4>2, <4>3, <4>4, <5>1, <5>2
      <4>5. Head(s.todo) = h
        BY <2>h, <4>2
      <4> QED
        BY <4>2, <4>4, <4>5 DEF DoneSoFar
    <3>2. script' = [script EXCEPT ![o] = s] /\ UNCHANGED <<versions, rolledBack, liveVars>> /\ objects \subseteq objects'
      <4>1. script' = [script EXCEPT ![o].at = @ + 1]
        BY <2>2 DEF Step
      <4>2. script' = [script EXCEPT ![o] = [script[o] EXCEPT !.at = @ + 1]]
        BY <4>1
      <4> QED
        BY <1>5, <2>h, <2>2, <3>s, <4>2 DEF UpStatement
    <3> QED
      BY <1>1, <3>1, <3>2
  <2> QED
    BY <1>5, <2>h, <2>1, <2>2 DEF UpStatement
<1>6. ASSUME NEW o \in Operators, RecordVersion(o) PROVE SchemaInv'
  <2>h. PICK h, was : h = Head(script[o].todo) /\ was = script[o]
    OBVIOUS
  <2>1. CASE Fails(o) /\ UNCHANGED versions
    BY <1>2, <1>6, <2>1 DEF RecordVersion
  <2>2. CASE versions' = versions \cup {h} /\ NextVersion(o)
    <3>s. PICK s : s = [was EXCEPT !.todo = Tail(@), !.at = 1]
      OBVIOUS
    <3>1. ASSUME ~rolledBack PROVE s \in Process /\ DoneSoFar(s)' /\ h \in 1 .. Latest /\ Range(MIGRATIONS[h]) \subseteq objects
      <4>1. was \in Process /\ DoneSoFar(was) /\ h \in 1 .. Latest /\ was.todo # << >> /\ Tail(was.todo) \in Seq(1 .. Latest)
        BY <1>6, <1>s, <2>h, <3>1 DEF RecordVersion, Running
      <4>2. was.at > Len(MIGRATIONS[h]) /\ was.at \in Nat
        BY <1>6, <2>h, <4>1 DEF RecordVersion, ScriptIsThrough, Process
      <4>3. s \in Process /\ s.at = 1
        <5>1. s = [mode |-> was.mode, todo |-> Tail(was.todo), at |-> 1]
          BY <3>s, <4>1 DEF Process
        <5>2. was.mode \in {"idle", "up"}
          BY <4>1 DEF Process
        <5> QED
          BY <4>1, <5>1, <5>2 DEF Process
      <4>4. DoneSoFar(s)'
        BY <4>3 DEF DoneSoFar
      <4>5. \A k \in 1 .. Len(MIGRATIONS[h]) : MIGRATIONS[h][k] \in objects
        <5>1. Len(MIGRATIONS[h]) \in Nat
          BY <4>1, ScriptsAreSequences
        <5>2. \A k \in 1 .. Len(MIGRATIONS[h]) : k < was.at
          BY <4>2, <5>1
        <5> QED
          BY <2>h, <4>1, <5>2 DEF DoneSoFar
      <4>6. Range(MIGRATIONS[h]) = {MIGRATIONS[h][k] : k \in 1 .. Len(MIGRATIONS[h])}
        BY <4>1, ScriptsAreSequences
      <4> QED
        BY <4>1, <4>3, <4>4, <4>5, <4>6
    <3>2. script' = [script EXCEPT ![o] = s] /\ UNCHANGED <<objects, rolledBack, liveVars>>
      <4>1. script' = [script EXCEPT ![o].todo = Tail(@), ![o].at = 1]
        BY <2>2 DEF NextVersion
      <4>2. script' = [script EXCEPT ![o] = [script[o] EXCEPT !.todo = Tail(@), !.at = 1]]
        BY <4>1
      <4> QED
        BY <1>6, <2>h, <3>s, <4>2 DEF RecordVersion
    <3> QED
      BY <1>1, <2>2, <3>1, <3>2
  <2> QED
    BY <1>6, <2>h, <2>1, <2>2 DEF RecordVersion
\* Nobody rolls back without having said so.
<1>7. ASSUME NEW o \in Operators, DownStatement(o) \/ ForgetVersion(o) PROVE SchemaInv'
  <2>1. script[o].mode = "down" /\ UNCHANGED <<rolledBack, liveVars>>
    BY <1>7 DEF DownStatement, ForgetVersion, Running
  <2>2. rolledBack
    BY <1>s, <2>1 DEF Process
  <2> QED
    BY <1>i, <1>l, <2>1, <2>2 DEF SchemaInv
<1>8. ASSUME NEW o \in Operators, Done(o) PROVE SchemaInv'
  BY <1>2, <1>8 DEF Done
<1>9. CASE _init_schema
  BY <1>i, <1>m, <1>9 DEF _init_schema, migratedVars, LiveInv, SchemaInv
<1>10. ASSUME NEW c \in Columns, _ensure_column(c) PROVE SchemaInv'
  BY <1>i, <1>m, <1>10 DEF _ensure_column, migratedVars, LiveInv, SchemaInv
<1>11. CASE _apply_migrations
  BY <1>i, <1>m, <1>11 DEF _apply_migrations, migratedVars, LiveInv, SchemaInv
<1>12. CASE Killed
  <2>1. UNCHANGED <<objects, versions, rolledBack>>
    BY <1>12 DEF Killed
  <2>2. CASE \E o \in Operators : script[o].mode # "idle" /\ Fails(o) /\ UNCHANGED liveVars
    BY <1>2, <2>1, <2>2
  <2>3. CASE boot # "down" /\ boot' = "down" /\ UNCHANGED <<columns, ensured, timestamps, script>>
    BY <1>i, <1>m, <2>1, <2>3 DEF LiveInv, SchemaInv
  <2> QED
    BY <1>12, <2>2, <2>3 DEF Killed
<1>13. CASE UNCHANGED schemaVars
  BY <1>i, <1>l, <1>m, <1>13 DEF schemaVars, liveVars, SchemaInv
<1> QED
  BY <1>3, <1>4, <1>5, <1>6, <1>7, <1>8, <1>9, <1>10, <1>11, <1>12, <1>13 DEF SchemaNext

\* For any number of people who migrate one file at once and any columns, and wherever their
\* processes die: a recorded version has all its tables and columns as long as nobody rolled back,
\* and an orchestrator that came up has every column
\* (migrations.py migrate_up, db/_base.py _apply_migrations).
THEOREM RecordedIsApplied == SchemaSpec => []RecordedMeansApplied
<1>1. SchemaInv => RecordedMeansApplied
  BY DEF SchemaInv, MigratedInv, LiveInv, RecordedMeansApplied
<1> QED
  BY <1>1, SchemaStart, SchemaStep, PTL DEF SchemaSpec
-----------------------------------------------------------------------------
(* Admission: what a token took.                                             *)

AdmissionSpec == AdmissionInit /\ [][AdmissionNext]_admissionVars

\* The requests an address had served and the tokens in its bucket are what it was given by now.
Bucket == [tokens : Nat, last_update : Nat]
Earned(a) ==
  IF a \in DOMAIN buckets
  THEN served.count[a] + buckets[a].tokens <= Capacity + RefillRate * buckets[a].last_update
  ELSE served.count[a] <= RefillRate * now
RateInv ==
  /\ now \in Nat
  /\ DOMAIN buckets \subseteq Addresses
  /\ \A a \in DOMAIN buckets : buckets[a] \in Bucket /\ buckets[a].last_update <= now
  /\ served = [count |-> served.count, evicted |-> served.evicted] /\ served.count \in [Addresses -> Nat]
  /\ \A a \in Addresses \ served.evicted : Earned(a)
\* Who has a token from an address is recorded there.
Granted(a) == {g.to : g \in {x \in grants : x.from = a}}
Asking == [challenge : ChallengeIds, address : Addresses]
GrantInv ==
  /\ asking \in [Machines -> {NoAsking} \cup Asking]
  /\ accounts.of \in [Addresses -> SUBSET Machines]
  /\ \A g \in grants : g.challenge \in completed_challenges
  /\ OneTokenPerChallenge
  /\ \A a \in Addresses :
       IsFiniteSet(accounts.of[a]) /\ Granted(a) \subseteq accounts.of[a] /\ Cardinality(Granted(a)) <= MaxPerAddress
AdmissionInv == RateInv /\ GrantInv

\* A bucket never has more than it had and the time since then refills.
LEMMA Consumed ==
  ASSUME now \in Nat, NEW b \in Bucket, b.last_update <= now
  PROVE  /\ consume(b) \in Nat
         /\ RefillRate * b.last_update + b.tokens + (now - b.last_update) * RefillRate = RefillRate * now + b.tokens
         /\ RefillRate * b.last_update \in Nat /\ RefillRate * now \in Nat
         /\ RefillRate * b.last_update + consume(b) <= RefillRate * now + b.tokens
         /\ consume(b) >= Capacity => RefillRate * b.last_update + Capacity <= RefillRate * now + b.tokens
<1>1. b.tokens \in Nat /\ b.last_update \in Nat /\ Capacity \in Nat /\ RefillRate \in Nat
  BY AdmissionAssumption DEF Bucket
<1>2. PICK lu \in Nat, r \in Nat, refill \in Int : lu = b.last_update /\ r = RefillRate /\ refill = (now - lu) * r
  BY <1>1
<1>3. now - lu \in Nat
  BY <1>1, <1>2
<1>4. refill \in Nat
  BY <1>2, <1>3
<1>5. r * lu \in Nat /\ r * now \in Nat /\ r * lu + refill = r * now
  BY <1>2, <1>3
<1>6. consume(b) = IF Capacity <= b.tokens + refill THEN Capacity ELSE b.tokens + refill
  <2>1. b.tokens + refill \in Int /\ Capacity \in Int
    BY <1>1, <1>4
  <2>2. consume(b) = Min({Capacity, b.tokens + refill})
    BY <1>2 DEF consume
  <2> QED
    BY <2>1, <2>2, MinOfTwo
<1>7. PICK x \in Nat, y \in Nat : x = r * lu /\ y = r * now
  BY <1>5
<1>8. x + refill = y
  BY <1>5, <1>7
<1> QED
  BY <1>1, <1>2, <1>4, <1>6, <1>7, <1>8

\* Whatever the limiter drops, the others keep their buckets.
LEMMA Enforced ==
  /\ DOMAIN _enforce_limits.buckets = DOMAIN buckets \ Range(_enforce_limits.dropped)
  /\ \A x \in DOMAIN buckets \ Range(_enforce_limits.dropped) : _enforce_limits.buckets[x] = buckets[x]
<1>1. CASE Cardinality(DOMAIN buckets) <= MaxBuckets
  <2>1. _enforce_limits = [ok |-> TRUE, buckets |-> buckets, dropped |-> << >>]
    BY <1>1 DEF _enforce_limits
  <2>2. Range(<< >>) = {}
    BY DEF Range
  <2> QED
    BY <2>1, <2>2
<1>2. CASE ~(Cardinality(DOMAIN buckets) <= MaxBuckets)
  <2>1. \E ok, dropped : _enforce_limits = [ok |-> ok, buckets |-> Restrict(buckets, DOMAIN buckets \ Range(dropped)), dropped |-> dropped]
    BY <1>2, Zenon DEF _enforce_limits
  <2>2. PICK ok, dropped : _enforce_limits = [ok |-> ok, buckets |-> Restrict(buckets, DOMAIN buckets \ Range(dropped)), dropped |-> dropped]
    BY <2>1
  <2> QED
    BY <2>2 DEF Restrict
<1> QED
  BY <1>1, <1>2

\* A request, allowed or not, keeps the accounts of the rate limiter.
LEMMA OneRequest ==
  ASSUME RateInv, NEW a \in Addresses, NEW allowed \in BOOLEAN, is_allowed(a, allowed), now' = now
  PROVE  RateInv'
<1>1. PICK kept, dropped : kept = _enforce_limits.buckets /\ dropped = Range(_enforce_limits.dropped)
  OBVIOUS
<1>2. DOMAIN kept = DOMAIN buckets \ dropped /\ \A x \in DOMAIN kept : kept[x] = buckets[x]
  BY <1>1, Enforced
<1> DEFINE bucket == IF a \in DOMAIN kept THEN kept[a] ELSE [tokens |-> Capacity, last_update |-> now]
           has == consume(bucket)
           left == [tokens |-> IF allowed THEN has - 1 ELSE has, last_update |-> now]
<1>3. served' = [count |-> [served.count EXCEPT ![a] = @ + (IF allowed THEN 1 ELSE 0)], evicted |-> served.evicted \cup dropped]
  BY <1>1 DEF is_allowed
<1>4. \/ ~allowed /\ buckets' = kept
      \/ (allowed <=> has >= 1) /\ buckets' = Entered(kept, a, left)
  BY <1>1 DEF is_allowed
<1>b. bucket \in Bucket /\ bucket.last_update <= now
  BY <1>2, AdmissionAssumption DEF RateInv, Bucket
<1>h. /\ has \in Nat /\ RefillRate * bucket.last_update \in Nat /\ RefillRate * now \in Nat
      /\ RefillRate * bucket.last_update + has <= RefillRate * now + bucket.tokens
  BY <1>b, Consumed DEF RateInv
<1>e. a \in Addresses \ (served.evicted \cup dropped) => served.count[a] + bucket.tokens <= Capacity + RefillRate * bucket.last_update
  <2> SUFFICES ASSUME a \in Addresses \ (served.evicted \cup dropped)
               PROVE  served.count[a] + bucket.tokens <= Capacity + RefillRate * bucket.last_update
    OBVIOUS
  <2>1. Earned(a) /\ served.count[a] \in Nat
    BY DEF RateInv
  <2>2. CASE a \in DOMAIN kept
    BY <1>2, <2>1, <2>2 DEF Earned
  <2>3. CASE a \notin DOMAIN kept
    BY <1>2, <1>h, <2>1, <2>3, AdmissionAssumption DEF Earned
  <2> QED
    BY <2>2, <2>3
<1> HIDE DEF bucket, has
<1>5. /\ served'.count \in [Addresses -> Nat] /\ served' = [count |-> served'.count, evicted |-> served'.evicted]
      /\ served'.evicted = served.evicted \cup dropped
      /\ \A x \in Addresses : served'.count[x] = IF x = a /\ allowed THEN served.count[x] + 1 ELSE served.count[x]
  BY <1>3 DEF RateInv
<1>6. CASE ~allowed /\ buckets' = kept
  <2>1. \A x \in Addresses \ served'.evicted : Earned(x)'
    BY <1>2, <1>5, <1>6 DEF RateInv, Earned
  <2> QED
    BY <1>2, <1>5, <1>6, <2>1 DEF RateInv
<1>7. CASE (allowed <=> has >= 1) /\ buckets' = Entered(kept, a, left)
  <2>1. left \in Bucket /\ left.last_update = now
    BY <1>h, <1>7 DEF Bucket, RateInv
  <2> HIDE DEF left
  <2>2. /\ DOMAIN buckets' = DOMAIN kept \cup {a} /\ buckets'[a] = left
        /\ \A x \in DOMAIN kept : x # a => buckets'[x] = buckets[x]
    BY <1>2, <1>7 DEF Entered
  <2>3. ASSUME NEW x \in Addresses \ served'.evicted, x # a PROVE Earned(x)'
    BY <1>2, <1>5, <2>2, <2>3 DEF RateInv, Earned
  <2>4. ASSUME a \notin served'.evicted PROVE Earned(a)'
    <3>1. PICK n \in Nat : n = served.count[a]
      BY DEF RateInv
    <3>2. PICK k \in Nat, y \in Nat, z \in Nat : k = bucket.tokens /\ y = RefillRate * bucket.last_update /\ z = RefillRate * now
      BY <1>b, <1>h DEF Bucket
    <3>3. n + k <= Capacity + y /\ y + has <= z + k
      BY <1>e, <1>h, <1>5, <2>4, <3>1, <3>2
    <3>4. n + has <= Capacity + z
      BY <1>h, <3>3, AdmissionAssumption
    <3>5. served'.count[a] + left.tokens = n + has
      BY <1>5, <1>h, <3>1 DEF left
    <3> QED
      BY <2>1, <2>2, <3>2, <3>4, <3>5 DEF Earned
  <2>5. \A x \in DOMAIN buckets' : buckets'[x] \in Bucket /\ buckets'[x].last_update <= now
    BY <1>2, <2>1, <2>2 DEF RateInv
  <2>6. \A x \in Addresses \ served'.evicted : Earned(x)'
    BY <2>3, <2>4
  <2> QED
    BY <1>2, <1>5, <2>2, <2>5, <2>6 DEF RateInv
<1> QED
  BY <1>4, <1>6, <1>7

\* A bucket that is dropped full was due.
LEMMA CleanedUp == RateInv /\ _cleanup => RateInv'
<1> SUFFICES ASSUME RateInv, _cleanup PROVE RateInv'
  OBVIOUS
<1>1. PICK stale \in SUBSET DOMAIN buckets :
        /\ buckets' = Restrict(buckets, DOMAIN buckets \ stale) /\ now' = now
        /\ served' = [served EXCEPT !.evicted = @ \cup {a \in stale : consume(buckets[a]) < Capacity}]
  BY DEF _cleanup
<1>2. DOMAIN buckets' = DOMAIN buckets \ stale /\ \A a \in DOMAIN buckets \ stale : buckets'[a] = buckets[a]
  BY <1>1 DEF Restrict
<1>3. /\ served'.count = served.count /\ served'.evicted = served.evicted \cup {a \in stale : consume(buckets[a]) < Capacity}
      /\ served' = [count |-> served'.count, evicted |-> served'.evicted]
  BY <1>1 DEF RateInv
<1>4. ASSUME NEW a \in Addresses \ served'.evicted PROVE Earned(a)'
  <2>1. Earned(a) /\ served.count[a] \in Nat
    BY <1>3 DEF RateInv
  <2>2. CASE a \notin stale
    BY <1>1, <1>2, <1>3, <2>1, <2>2 DEF Earned
  <2>3. CASE a \in stale
    <3>1. buckets[a] \in Bucket /\ buckets[a].last_update <= now /\ ~(consume(buckets[a]) < Capacity)
      BY <1>1, <1>3, <2>3 DEF RateInv
    <3>2. PICK b \in Bucket : b = buckets[a]
      BY <3>1
    <3>3. /\ consume(b) \in Nat /\ RefillRate * b.last_update \in Nat /\ RefillRate * now \in Nat
          /\ consume(b) >= Capacity => RefillRate * b.last_update + Capacity <= RefillRate * now + b.tokens
      BY <3>1, <3>2, Consumed DEF RateInv
    <3>4. served.count[a] + b.tokens <= Capacity + RefillRate * b.last_update /\ b.tokens \in Nat
      BY <1>1, <2>1, <2>3, <3>2 DEF Earned, Bucket
    <3>5. served.count[a] <= RefillRate * now
      BY <2>1, <3>1, <3>2, <3>3, <3>4, AdmissionAssumption
    <3> QED
      BY <1>1, <1>2, <1>3, <2>3, <3>5 DEF Earned
  <2> QED
    BY <2>2, <2>3
<1> QED
  BY <1>1, <1>2, <1>3, <1>4 DEF RateInv

\* A nonce that solves a challenge makes it completed, and nothing else does.
LEMMA OneVerified ==
  ASSUME NEW c, NEW solved, verify_solution(c, solved)
  PROVE  /\ Solves(c, solved) => c \notin completed_challenges /\ completed_challenges' = completed_challenges \cup {c}
         /\ completed_challenges \subseteq completed_challenges'
BY DEF verify_solution, Solves

\* A token for a challenge that had none, from an address with room or from the stream.
LEMMA OneGrant ==
  ASSUME GrantInv, NEW g, g.challenge \notin completed_challenges, g.challenge \in completed_challenges',
         completed_challenges \subseteq completed_challenges', grants' = grants \cup {g},
         asking' \in [Machines -> {NoAsking} \cup Asking],
         accounts'.of \in [Addresses -> SUBSET Machines],
         \A a \in Addresses :
           /\ IsFiniteSet(accounts'.of[a]) /\ accounts.of[a] \subseteq accounts'.of[a]
           /\ g.from = a => g.to \in accounts'.of[a] /\ Cardinality(accounts'.of[a]) <= MaxPerAddress
  PROVE  GrantInv'
<1>1. (\A x \in grants : x.challenge \in completed_challenges)'
  BY DEF GrantInv
<1>2. OneTokenPerChallenge'
  BY DEF GrantInv, OneTokenPerChallenge
<1>3. ASSUME NEW a \in Addresses
      PROVE  (IsFiniteSet(accounts.of[a]) /\ Granted(a) \subseteq accounts.of[a] /\ Cardinality(Granted(a)) <= MaxPerAddress)'
  <2> DEFINE now_granted == Granted(a)'
             there == accounts'.of[a]
  <2>3. Granted(a) \subseteq accounts.of[a] /\ Cardinality(Granted(a)) <= MaxPerAddress
    BY DEF GrantInv
  <2>4. IsFiniteSet(there) /\ accounts.of[a] \subseteq there
    OBVIOUS
  <2>5. now_granted = {x.to : x \in {y \in grants \cup {g} : y.from = a}}
    BY DEF Granted
  <2>1. CASE g.from = a
    <3>1. now_granted = Granted(a) \cup {g.to}
      <4>1. {y \in grants \cup {g} : y.from = a} = {y \in grants : y.from = a} \cup {g}
        BY <2>1
      <4> QED
        BY <2>5, <4>1, Zenon DEF Granted
    <3> HIDE DEF now_granted, there
    <3>2. g.to \in there /\ Cardinality(there) <= MaxPerAddress
      BY <2>1 DEF there
    <3>3. now_granted \subseteq there
      BY <2>3, <2>4, <3>1, <3>2
    <3>4. IsFiniteSet(now_granted) /\ Cardinality(now_granted) <= Cardinality(there)
      BY <2>4, <3>3, FS_Subset
    <3>5. Cardinality(now_granted) \in Nat /\ Cardinality(there) \in Nat
      BY <2>4, <3>4, FS_CardinalityType
    <3>6. Cardinality(now_granted) <= MaxPerAddress
      BY <3>2, <3>4, <3>5, AdmissionAssumption
    <3> QED
      BY <2>4, <3>3, <3>6 DEF now_granted, there
  <2>2. CASE g.from # a
    <3>1. now_granted = Granted(a)
      <4>1. {y \in grants \cup {g} : y.from = a} = {y \in grants : y.from = a}
        BY <2>2
      <4> QED
        BY <2>5, <4>1, Zenon DEF Granted
    <3> QED
      BY <2>3, <2>4, <3>1
  <2> QED
    BY <2>1, <2>2
<1> QED
  BY <1>1, <1>2, <1>3 DEF GrantInv

\* Without a new token only the accounts may grow.
LEMMA NoGrant ==
  ASSUME GrantInv, completed_challenges \subseteq completed_challenges', UNCHANGED grants,
         asking' \in [Machines -> {NoAsking} \cup Asking],
         accounts'.of \in [Addresses -> SUBSET Machines],
         \A a \in Addresses : IsFiniteSet(accounts'.of[a]) /\ accounts.of[a] \subseteq accounts'.of[a]
  PROVE  GrantInv'
<1>1. OneTokenPerChallenge'
  BY DEF GrantInv, OneTokenPerChallenge
<1>2. \A a \in Addresses : Granted(a)' = Granted(a)
  BY DEF Granted
<1> QED
  BY <1>1, <1>2 DEF GrantInv

\* A registration over HTTP keeps the invariant of Admission.
LEMMA OneRegistration ==
  \A m \in Machines, solved \in BOOLEAN : AdmissionInv /\ register_node_enhanced(m, solved) => AdmissionInv'
<1> SUFFICES ASSUME NEW m \in Machines, NEW solved \in BOOLEAN, AdmissionInv, register_node_enhanced(m, solved)
             PROVE  AdmissionInv'
  OBVIOUS
<1>1. PICK c, a : c = asking[m].challenge /\ a = asking[m].address
  OBVIOUS
<1>2. PICK after : after = record_account_creation(m, a)
  OBVIOUS
<1>3. /\ asking[m] # NoAsking /\ RequestServed(a) /\ verify_solution(c, solved) /\ now' = now
      /\ \/ /\ Solves(c, solved) /\ accounts' = after
            /\ \/ /\ check_registration_allowed(a) /\ grants' = grants \cup {[to |-> m, challenge |-> c, from |-> a]}
               \/ UNCHANGED grants
         \/ UNCHANGED <<accounts, grants>>
      /\ asking' \in {asking, [asking EXCEPT ![m] = NoAsking]}
  BY <1>1, <1>2 DEF register_node_enhanced
<1>4. a \in Addresses
  BY <1>1, <1>3 DEF AdmissionInv, GrantInv, Asking
<1>5. RateInv'
  BY <1>3, <1>4, OneRequest DEF AdmissionInv, RequestServed
<1>6. asking' \in [Machines -> {NoAsking} \cup Asking]
  BY <1>3 DEF AdmissionInv, GrantInv
<1>7. /\ after.of = [accounts.of EXCEPT ![a] = @ \cup {m}] /\ accounts.of \in [Addresses -> SUBSET Machines]
  BY <1>2 DEF record_account_creation, AdmissionInv, GrantInv
<1>8. /\ after.of \in [Addresses -> SUBSET Machines] /\ m \in after.of[a]
      /\ \A x \in Addresses : after.of[x] = IF x = a THEN accounts.of[a] \cup {m} ELSE accounts.of[x]
  BY <1>4, <1>7
<1>9. \A x \in Addresses : IsFiniteSet(accounts.of[x])
  BY DEF AdmissionInv, GrantInv
<1>10. IsFiniteSet(accounts.of[a] \cup {m}) /\ Cardinality(accounts.of[a] \cup {m}) <= Cardinality(accounts.of[a]) + 1 /\ Cardinality(accounts.of[a]) \in Nat
  <2>1. PICK here : here = accounts.of[a] /\ IsFiniteSet(here)
    BY <1>4, <1>9
  <2>2. IsFiniteSet(here \cup {m}) /\ Cardinality(here \cup {m}) = IF m \in here THEN Cardinality(here) ELSE Cardinality(here) + 1
    BY <2>1, FS_AddElement
  <2>3. Cardinality(here) \in Nat
    BY <2>1, FS_CardinalityType
  <2> QED
    BY <2>1, <2>2, <2>3
<1>11. \A x \in Addresses : IsFiniteSet(after.of[x]) /\ accounts.of[x] \subseteq after.of[x]
  BY <1>8, <1>9, <1>10
<1>12. CASE UNCHANGED <<accounts, grants>>
  BY <1>3, <1>5, <1>6, <1>7, <1>9, <1>12, OneVerified, NoGrant DEF AdmissionInv
<1>13. CASE Solves(c, solved) /\ accounts' = after /\ UNCHANGED grants
  BY <1>3, <1>5, <1>6, <1>8, <1>11, <1>13, OneVerified, NoGrant DEF AdmissionInv
<1>14. CASE /\ Solves(c, solved) /\ accounts' = after /\ check_registration_allowed(a)
            /\ grants' = grants \cup {[to |-> m, challenge |-> c, from |-> a]}
  <2>1. PICK g : g = [to |-> m, challenge |-> c, from |-> a]
    OBVIOUS
  <2>2. g.to = m /\ g.challenge = c /\ g.from = a /\ grants' = grants \cup {g}
    BY <1>14, <2>1
  <2>3. c \notin completed_challenges /\ c \in completed_challenges' /\ completed_challenges \subseteq completed_challenges'
    BY <1>3, <1>14, OneVerified
  <2>4. Cardinality(after.of[a]) <= MaxPerAddress
    <3>1. PICK size \in Nat : size = Cardinality(accounts.of[a])
      BY <1>10
    <3>2. size < MaxPerAddress
      BY <1>14, <3>1 DEF check_registration_allowed
    <3>3. PICK larger \in Nat : larger = Cardinality(accounts.of[a] \cup {m})
      BY <1>10, FS_CardinalityType
    <3> QED
      BY <1>4, <1>8, <1>10, <3>1, <3>2, <3>3, AdmissionAssumption
  <2>5. \A x \in Addresses :
          /\ IsFiniteSet(accounts'.of[x]) /\ accounts.of[x] \subseteq accounts'.of[x]
          /\ g.from = x => g.to \in accounts'.of[x] /\ Cardinality(accounts'.of[x]) <= MaxPerAddress
    BY <1>8, <1>11, <1>14, <2>2, <2>4
  <2>6. accounts'.of \in [Addresses -> SUBSET Machines]
    BY <1>8, <1>14
  <2> QED
    BY <1>5, <1>6, <2>2, <2>3, <2>5, <2>6, OneGrant DEF AdmissionInv
<1> QED
  BY <1>3, <1>12, <1>13, <1>14

\* A registration over the stream keeps the invariant of Admission.
LEMMA OneHandshake ==
  \A m \in Machines, solved \in BOOLEAN : AdmissionInv /\ HandleRegisterByChallenge(m, solved) => AdmissionInv'
<1> SUFFICES ASSUME NEW m \in Machines, NEW solved \in BOOLEAN, AdmissionInv, HandleRegisterByChallenge(m, solved)
             PROVE  AdmissionInv'
  OBVIOUS
<1>1. PICK c : c = asking[m].challenge
  OBVIOUS
<1>2. PICK g : g = [to |-> m, challenge |-> c, from |-> "stream"]
  OBVIOUS
<1>3. /\ verify_solution(c, solved) /\ asking' = [asking EXCEPT ![m] = NoAsking]
      /\ grants' = IF Solves(c, solved) THEN grants \cup {g} ELSE grants
      /\ UNCHANGED <<now, buckets, served, accounts>>
  BY <1>1, <1>2 DEF HandleRegisterByChallenge, limiterVars
<1>4. RateInv'
  BY <1>3 DEF AdmissionInv, RateInv, Earned
<1>5. /\ asking' \in [Machines -> {NoAsking} \cup Asking] /\ accounts'.of \in [Addresses -> SUBSET Machines]
      /\ \A a \in Addresses : IsFiniteSet(accounts'.of[a]) /\ accounts.of[a] \subseteq accounts'.of[a]
  BY <1>3 DEF AdmissionInv, GrantInv
<1>6. CASE ~Solves(c, solved)
  BY <1>3, <1>4, <1>5, <1>6, OneVerified, NoGrant DEF AdmissionInv
<1>7. CASE Solves(c, solved)
  <2>1. g.challenge = c /\ \A a \in Addresses : g.from # a
    BY <1>2, AdmissionAssumption
  <2>2. c \notin completed_challenges /\ c \in completed_challenges' /\ completed_challenges \subseteq completed_challenges'
    BY <1>3, <1>7, OneVerified
  <2> QED
    BY <1>3, <1>4, <1>5, <1>7, <2>1, <2>2, OneGrant DEF AdmissionInv
<1> QED
  BY <1>6, <1>7

\* The invariant of Admission holds at first.
LEMMA AdmissionStart == AdmissionInit => AdmissionInv
<1> SUFFICES ASSUME AdmissionInit PROVE AdmissionInv
  OBVIOUS
<1>1. RateInv
  <2>1. /\ now = 0 /\ buckets = << >> /\ DOMAIN buckets = {}
        /\ served = [count |-> [a \in Addresses |-> 0], evicted |-> {}]
    BY DEF AdmissionInit
  <2>2. RefillRate * 0 = 0
    BY AdmissionAssumption
  <2>3. \A a \in Addresses : Earned(a)
    BY <2>1, <2>2 DEF Earned
  <2> QED
    BY <2>1, <2>3 DEF RateInv
<1>2. \A a \in Addresses : Granted(a) = {}
  BY DEF AdmissionInit, Granted
<1>3. GrantInv
  <2>1. \A a \in Addresses : IsFiniteSet(accounts.of[a]) /\ Granted(a) \subseteq accounts.of[a] /\ Cardinality(Granted(a)) <= MaxPerAddress
    <3>1. IsFiniteSet({}) /\ Cardinality({}) = 0 /\ Cardinality({}) <= MaxPerAddress
      BY FS_EmptySet, AdmissionAssumption
    <3>2. \A a \in Addresses : accounts.of[a] = {}
      BY DEF AdmissionInit
    <3> QED
      BY <1>2, <3>1, <3>2
  <2>2. asking \in [Machines -> {NoAsking} \cup Asking] /\ accounts.of \in [Addresses -> SUBSET Machines] /\ grants = {}
    BY DEF AdmissionInit
  <2> QED
    BY <2>1, <2>2 DEF GrantInv, OneTokenPerChallenge
<1> QED
  BY <1>1, <1>3 DEF AdmissionInv

\* Every step of Admission keeps its invariant.
LEMMA AdmissionStep == AdmissionInv /\ [AdmissionNext]_admissionVars => AdmissionInv'
<1> SUFFICES ASSUME AdmissionInv, [AdmissionNext]_admissionVars PROVE AdmissionInv'
  OBVIOUS
<1>i. RateInv /\ GrantInv
  BY DEF AdmissionInv
<1>r. UNCHANGED <<now, buckets, served>> => RateInv'
  BY <1>i DEF RateInv, Earned
<1>g. ASSUME UNCHANGED <<completed_challenges, accounts, grants>>, asking' \in [Machines -> {NoAsking} \cup Asking] PROVE GrantInv'
  <2>1. /\ accounts'.of \in [Addresses -> SUBSET Machines]
        /\ \A a \in Addresses : IsFiniteSet(accounts'.of[a]) /\ accounts.of[a] \subseteq accounts'.of[a]
    BY <1>i, <1>g DEF GrantInv
  <2> QED
    BY <1>i, <1>g, <2>1, NoGrant
<1>a. asking \in [Machines -> {NoAsking} \cup Asking]
  BY <1>i DEF GrantInv
<1>1. ASSUME NEW a \in Addresses, RequestRefused(a) PROVE AdmissionInv'
  BY <1>i, <1>g, <1>a, <1>1, OneRequest DEF RequestRefused, AdmissionInv
<1>2. ASSUME NEW m \in Machines, NEW a \in Addresses, generate_challenge(m, a) PROVE AdmissionInv'
  <2>1. PICK c : c = CHOOSE x \in Unused : TRUE
    OBVIOUS
  <2>2. Unused # {} /\ asking' = [asking EXCEPT ![m] = [challenge |-> c, address |-> a]]
    BY <1>2, <2>1 DEF generate_challenge
  <2>3. c \in ChallengeIds
    BY <2>1, <2>2 DEF Unused
  <2>4. asking' \in [Machines -> {NoAsking} \cup Asking]
    BY <1>a, <2>2, <2>3 DEF Asking
  <2>5. is_allowed(a, TRUE) /\ now' = now /\ UNCHANGED <<completed_challenges, accounts, grants>>
    BY <1>2 DEF generate_challenge, RequestServed
  <2> QED
    BY <1>i, <1>g, <2>4, <2>5, OneRequest DEF AdmissionInv
<1>3. ASSUME NEW m \in Machines, GivesUp(m) PROVE AdmissionInv'
  BY <1>r, <1>g, <1>a, <1>3 DEF GivesUp, limiterVars, AdmissionInv
<1>4. CASE _cleanup
  BY <1>i, <1>g, <1>a, <1>4, CleanedUp DEF _cleanup, AdmissionInv
<1>5. CASE TimePasses
  <2>1. now' = now + 1 /\ UNCHANGED <<buckets, served, completed_challenges, accounts, asking, grants>>
    BY <1>5 DEF TimePasses, limiterVars
  <2>2. now \in Nat /\ RefillRate * now <= RefillRate * (now + 1) /\ RefillRate * now \in Nat /\ RefillRate * (now + 1) \in Nat
    BY <1>i, AdmissionAssumption DEF RateInv
  <2>3. ASSUME NEW a \in Addresses \ served.evicted PROVE Earned(a)'
    <3>1. Earned(a) /\ served.count[a] \in Nat
      BY <1>i DEF RateInv
    <3>2. CASE a \in DOMAIN buckets
      BY <2>1, <3>1, <3>2 DEF Earned
    <3>3. CASE a \notin DOMAIN buckets
      BY <2>1, <2>2, <3>1, <3>3 DEF Earned
    <3> QED
      BY <3>2, <3>3
  <2>4. \A a \in DOMAIN buckets : buckets[a] \in Bucket /\ buckets[a].last_update <= now + 1
    BY <1>i DEF RateInv, Bucket
  <2>5. RateInv'
    BY <1>i, <2>1, <2>3, <2>4 DEF RateInv
  <2> QED
    BY <1>g, <1>a, <2>1, <2>5 DEF AdmissionInv
<1>6. CASE UNCHANGED admissionVars
  BY <1>r, <1>g, <1>a, <1>6 DEF admissionVars, AdmissionInv
<1> QED
  BY <1>1, <1>2, <1>3, <1>4, <1>5, <1>6, OneRegistration, OneHandshake DEF AdmissionNext

\* For any number of machines behind any addresses, any rate and any limits, and however requests
\* are repeated, lost and interleaved: a solved challenge buys one token, an address gets tokens
\* for at most MaxPerAddress machines over HTTP, and none has more requests served than a full
\* bucket and its refills, unless its bucket was evicted before it was full again
\* (is_allowed, _enforce_limits, _cleanup, verify_solution, analyze_account).
THEOREM TokensAreEarned == AdmissionSpec => []AdmissionIsEarned
<1>1. AdmissionInv => AdmissionIsEarned
  <2> SUFFICES ASSUME AdmissionInv PROVE AdmissionIsEarned
    OBVIOUS
  <2>1. OneTokenPerChallenge /\ AddressIsNotCrowded
    BY DEF AdmissionInv, GrantInv, Granted, AddressIsNotCrowded
  <2>2. ASSUME NEW a \in Addresses \ served.evicted PROVE served.count[a] <= Capacity + RefillRate * now
    <3>1. Earned(a) /\ served.count[a] \in Nat /\ now \in Nat
      BY DEF AdmissionInv, RateInv
    <3>2. CASE a \in DOMAIN buckets
      <4>1. PICK b \in Bucket : b = buckets[a]
        BY <3>2 DEF AdmissionInv, RateInv
      <4>2. b.last_update <= now /\ b.tokens \in Nat
        BY <3>2, <4>1 DEF AdmissionInv, RateInv, Bucket
      <4>3. /\ consume(b) \in Nat /\ RefillRate * b.last_update \in Nat /\ RefillRate * now \in Nat
            /\ RefillRate * b.last_update + consume(b) <= RefillRate * now + b.tokens
        BY <3>1, <4>2, Consumed
      <4>4. served.count[a] + b.tokens <= Capacity + RefillRate * b.last_update
        BY <3>1, <3>2, <4>1 DEF Earned
      <4> QED
        BY <3>1, <4>2, <4>3, <4>4, AdmissionAssumption
    <3>3. CASE a \notin DOMAIN buckets
      BY <3>1, <3>3, AdmissionAssumption DEF Earned
    <3> QED
      BY <3>2, <3>3
  <2> QED
    BY <2>1, <2>2 DEF AdmissionIsEarned, WithinTheRate
<1> QED
  BY <1>1, AdmissionStart, AdmissionStep, PTL DEF AdmissionSpec
-----------------------------------------------------------------------------
(* TrainingData: windows and their targets.                                  *)

TrainingDataSpec == TrainingDataInit /\ [][TrainingDataNext]_trainingDataVars

Pair == Int \X Int
Batch == [tokens : Nat, seq_len : Nat, window : Pair, target : Pair]
TrainingDataInv == batch \in Batch /\ EveryWindowHasItsTarget

\* A text of three or more tokens is repeated to nine or more, and a sequence is shorter than it.
LEMMA SequenceFits ==
  ASSUME NEW tokens \in Nat, tokens >= 3, NEW configured \in Int
  PROVE  /\ Repeated(tokens) \in Nat /\ SeqLen(Repeated(tokens), configured) \in Nat \ {0}
         /\ SeqLen(Repeated(tokens), configured) < Repeated(tokens)
<1> DEFINE n == Repeated(tokens)
<1>1. n \in Nat /\ n >= 9
  BY DEF Repeated
<1> HIDE DEF n
<1>2. CASE configured = 0
  <2>1. Max({8, n - 1}) = n - 1
    BY <1>1, MaxOfTwo
  <2>2. Min({32, n - 1}) = IF 32 <= n - 1 THEN 32 ELSE n - 1
    BY <1>1, MinOfTwo
  <2>3. SeqLen(n, configured) = IF 32 <= n - 1 THEN 32 ELSE n - 1
    BY <1>2, <2>1, <2>2 DEF SeqLen
  <2> QED
    BY <1>1, <2>3 DEF n
<1>3. CASE configured # 0
  <2> DEFINE least == Min({configured, n - 1})
  <2>1. least = IF configured <= n - 1 THEN configured ELSE n - 1
    BY <1>1, MinOfTwo
  <2>2. least \in Int /\ least <= n - 1
    BY <1>1, <2>1
  <2> HIDE DEF least
  <2>3. Max({1, least}) = IF 1 >= least THEN 1 ELSE least
    BY <2>2, MaxOfTwo
  <2>4. SeqLen(n, configured) = Max({1, least})
    BY <1>3 DEF SeqLen, least
  <2> QED
    BY <1>1, <2>2, <2>3, <2>4 DEF n
<1> QED
  BY <1>2, <1>3

\* The length of a sequence is a natural number, whatever is configured.
LEMMA AnySequence == \A n \in Int, configured \in Int : SeqLen(n, configured) \in Nat
<1> SUFFICES ASSUME NEW n \in Int, NEW configured \in Int PROVE SeqLen(n, configured) \in Nat
  OBVIOUS
<1>1. CASE configured = 0
  <2> DEFINE most == Max({8, n - 1})
  <2>1. most = IF 8 >= n - 1 THEN 8 ELSE n - 1
    BY MaxOfTwo
  <2>2. most \in Nat
    BY <2>1
  <2> HIDE DEF most
  <2>3. Min({32, most}) = IF 32 <= most THEN 32 ELSE most
    BY <2>2, MinOfTwo
  <2> QED
    BY <1>1, <2>2, <2>3 DEF SeqLen, most
<1>2. CASE configured # 0
  <2> DEFINE least == Min({configured, n - 1})
  <2>1. least = IF configured <= n - 1 THEN configured ELSE n - 1
    BY MinOfTwo
  <2>2. least \in Int
    BY <2>1
  <2> HIDE DEF least
  <2>3. Max({1, least}) = IF 1 >= least THEN 1 ELSE least
    BY <2>2, MaxOfTwo
  <2> QED
    BY <1>2, <2>2, <2>3 DEF SeqLen, least
<1> QED
  BY <1>1, <1>2

\* Where a window of length len may start, so that its target ends inside the text of n tokens.
LEMMA StartFits ==
  ASSUME NEW n \in Nat, NEW len \in Nat \ {0}, len < n, NEW shift \in Int
  PROVE  LET start == shift % Max({1, n - len - 1})
         IN start \in Nat /\ start + len + 1 <= n
<1> DEFINE m == Max({1, n - len - 1})
<1>1. m = IF 1 >= n - len - 1 THEN 1 ELSE n - len - 1
  BY MaxOfTwo
<1>2. m \in Nat \ {0}
  BY <1>1
<1> HIDE DEF m
<1>3. shift % m \in 0 .. m - 1
  BY <1>2
<1> QED
  BY <1>1, <1>2, <1>3 DEF m

\* No batch is a batch of length 0.
LEMMA NoBatchYet == NoBatch \in Batch /\ NoBatch.seq_len = 0
<1>1. <<0, 0>> \in Pair
  BY DEF Pair
<1> QED
  BY <1>1 DEF NoBatch, Batch

\* The invariant of TrainingData holds at first.
LEMMA TrainingDataStart == TrainingDataInit => TrainingDataInv
<1> SUFFICES ASSUME TrainingDataInit PROVE TrainingDataInv
  OBVIOUS
<1>1. batch = NoBatch
  BY DEF TrainingDataInit
<1>2. batch \in Batch /\ batch.seq_len = 0
  BY <1>1, NoBatchYet
<1>3. ~(batch.seq_len > 0)
  BY <1>2
<1>4. EveryWindowHasItsTarget
  BY <1>3, Zenon DEF EveryWindowHasItsTarget
<1> QED
  BY <1>2, <1>4 DEF TrainingDataInv

\* Building a batch keeps the invariant of TrainingData.
LEMMA OneWindow == TrainingDataInv /\ _build_language_model_batch => TrainingDataInv'
<1> SUFFICES ASSUME TrainingDataInv, _build_language_model_batch PROVE TrainingDataInv'
  OBVIOUS
<1> DEFINE n == Repeated(batch.tokens)
<1>1. batch.tokens \in Nat /\ n \in Nat
  BY DEF TrainingDataInv, Batch, Repeated
<1>2. PICK configured \in SeqLens, seed \in Seeds, idx \in 0 .. 2, len \in Nat, start \in Int :
         /\ len = SeqLen(n, configured)
         /\ start = (seed + idx * len) % Max({1, n - len - 1})
         /\ batch' = [batch EXCEPT !.seq_len = len, !.window = Positions(n, start, start + len),
                                   !.target = Positions(n, start + 1, start + len + 1)]
  <2>1. PICK configured \in SeqLens, seed \in Seeds, idx \in 0 .. 2 :
          LET len == SeqLen(n, configured)
              start == (seed + idx * len) % Max({1, n - len - 1})
          IN batch' = [batch EXCEPT !.seq_len = len, !.window = Positions(n, start, start + len),
                                    !.target = Positions(n, start + 1, start + len + 1)]
    BY DEF _build_language_model_batch
  <2>2. configured \in Int /\ seed \in Int /\ idx \in Int
    BY TrainingDataAssumption
  <2>3. SeqLen(n, configured) \in Nat
    BY <1>1, <2>2, AnySequence
  <2>4. PICK len \in Nat : len = SeqLen(n, configured)
    BY <2>3
  <2>5. Max({1, n - len - 1}) = IF 1 >= n - len - 1 THEN 1 ELSE n - len - 1
    BY <1>1, MaxOfTwo
  <2>6. PICK m \in Nat \ {0} : m = Max({1, n - len - 1})
    BY <1>1, <2>5
  <2>7. PICK shift \in Int : shift = seed + idx * len
    BY <2>2
  <2>8. shift % m \in Int
    OBVIOUS
  <2> QED
    BY <2>1, <2>4, <2>6, <2>7, <2>8
<1>3. configured \in Int /\ seed \in Int
  BY TrainingDataAssumption
<1>4. \A a, b \in Int : Min({b, n}) = (IF b <= n THEN b ELSE n) /\ Positions(n, a, b) \in Pair
  <2> SUFFICES ASSUME NEW a \in Int, NEW b \in Int
               PROVE  Min({b, n}) = (IF b <= n THEN b ELSE n) /\ Positions(n, a, b) \in Pair
    OBVIOUS
  <2>1. Min({b, n}) = IF b <= n THEN b ELSE n
    BY <1>1, MinOfTwo
  <2> QED
    BY <1>1, <2>1 DEF Positions, Pair
<1> HIDE DEF n
<1>5. /\ Positions(n, start, start + len) \in Pair
      /\ Positions(n, start + 1, start + len + 1) \in Pair
  <2>1. start + len \in Int /\ start + 1 \in Int /\ start + len + 1 \in Int
    OBVIOUS
  <2> QED
    BY <1>4, <2>1, Zenon
<1>6. batch' = [tokens |-> batch.tokens, seq_len |-> len, window |-> Positions(n, start, start + len),
                target |-> Positions(n, start + 1, start + len + 1)]
  BY <1>2 DEF TrainingDataInv, Batch
<1>7. batch' \in Batch
  BY <1>1, <1>5, <1>6 DEF Batch
<1>8. CASE batch.tokens >= 3
  <2>1. n \in Nat /\ len \in Nat \ {0} /\ len < n
    BY <1>1, <1>2, <1>3, <1>8, SequenceFits DEF n
  <2>2. PICK shift \in Int : shift = seed + idx * len
    BY <1>3
  <2>3. start \in Nat /\ start + len + 1 <= n
    BY <1>2, <2>1, <2>2, StartFits
  <2>4. Min({start + len, n}) = start + len /\ Min({start + len + 1, n}) = start + len + 1
    BY <1>4, <2>1, <2>3
  <2>5. /\ Positions(n, start, start + len) = <<start, start + len>>
        /\ Positions(n, start + 1, start + len + 1) = <<start + 1, start + len + 1>>
    BY <2>4 DEF Positions
  <2>6. /\ batch'.window = <<start, start + len>> /\ batch'.seq_len = len
        /\ batch'.target = <<start + 1, start + len + 1>>
    BY <1>6, <2>5
  <2> QED
    BY <1>7, <2>6 DEF TrainingDataInv, EveryWindowHasItsTarget
<1>9. CASE ~(batch.tokens >= 3)
  <2>1. batch'.tokens = batch.tokens
    BY <1>6
  <2> QED
    BY <1>7, <1>9, <2>1 DEF TrainingDataInv, EveryWindowHasItsTarget
<1> QED
  BY <1>8, <1>9

\* Every step of TrainingData keeps its invariant.
LEMMA TrainingDataStep == TrainingDataInv /\ [TrainingDataNext]_trainingDataVars => TrainingDataInv'
<1> SUFFICES ASSUME TrainingDataInv, [TrainingDataNext]_trainingDataVars PROVE TrainingDataInv'
  OBVIOUS
<1>1. CASE StartTask
  <2>1. batch' \in _load_batch_source
    BY <1>1 DEF StartTask
  <2>2. <<0, 0>> \in Pair
    BY DEF Pair
  <2>3. PICK tokens \in Nat : batch' = [tokens |-> tokens, seq_len |-> 0, window |-> <<0, 0>>, target |-> <<0, 0>>]
    BY <2>1, TrainingDataAssumption DEF _load_batch_source
  <2>4. batch' \in Batch /\ batch'.seq_len = 0
    BY <2>2, <2>3 DEF Batch
  <2> QED
    BY <2>4 DEF TrainingDataInv, EveryWindowHasItsTarget
<1>2. CASE _build_language_model_batch
  BY <1>2, OneWindow
<1>3. CASE _collect_gradients \/ UNCHANGED trainingDataVars
  <2>1. batch' = batch
    BY <1>3 DEF _collect_gradients, trainingDataVars
  <2> QED
    BY <2>1 DEF TrainingDataInv, EveryWindowHasItsTarget
<1>4. CASE _write_gradients \/ PreparationError
  <2>1. batch' = NoBatch
    BY <1>4 DEF _write_gradients, PreparationError
  <2> QED
    BY NoBatchYet, <2>1 DEF TrainingDataInv, EveryWindowHasItsTarget
<1> QED
  BY <1>1, <1>2, <1>3, <1>4 DEF TrainingDataNext

\* For texts of any lengths, any configured sequence lengths and any seeds: every window of a text
\* of three or more tokens is a full sequence and has a target for each of its tokens, inside the
\* text (_build_language_model_batch).
THEOREM WindowsHaveTheirTargets == TrainingDataSpec => []EveryWindowHasItsTarget
<1>1. TrainingDataInv => EveryWindowHasItsTarget
  BY DEF TrainingDataInv
<1> QED
  BY <1>1, TrainingDataStart, TrainingDataStep, PTL DEF TrainingDataSpec
-----------------------------------------------------------------------------
(* Voting: delegations.                                                      *)

VotingSpec == VotingInit /\ [][VotingNext]_votingVars

AccountRow == [open : BOOLEAN, balance : Int, spent : Int, cast : Int, to : Voters \cup {NoVoter}, delegates : SUBSET Voters]
VotingInv == account \in [Voters -> AccountRow] /\ DelegationIsAForest

SameEdges == \A v \in Voters : account'[v].to = account[v].to /\ account'[v].delegates = account[v].delegates
\* A step that leaves the delegations alone keeps the invariant of Voting.
LEMMA EdgesStay ==
  ASSUME VotingInv, account' \in [Voters -> AccountRow], SameEdges
  PROVE  VotingInv'
<1>1. \A S \in SUBSET Voters : Leads(S)' <=> Leads(S)
  BY DEF Leads, SameEdges
<1>3. \A v \in Voters : account[v].to \in Voters \cup {NoVoter}
  BY DEF VotingInv, AccountRow
<1>4. DelegationIsAForest'
  <2>1. ASSUME NEW v \in Voters, account'[v].to # NoVoter
        PROVE  \E S \in SUBSET Voters : account'[v].to \in S /\ Leads(S)' /\ v \notin S
    <3>1. PICK S \in SUBSET Voters : account[v].to \in S /\ Leads(S) /\ v \notin S
      BY <2>1 DEF VotingInv, DelegationIsAForest, SameEdges
    <3> QED
      BY <1>1, <3>1 DEF SameEdges
  <2> QED
    BY <2>1 DEF VotingInv, DelegationIsAForest, SameEdges
<1> QED
  BY <1>4 DEF VotingInv

\* One account that is spent from, opened or rewarded keeps its edges.
LEMMA OneAccount ==
  ASSUME VotingInv, NEW v \in Voters, NEW row \in AccountRow, account' = [account EXCEPT ![v] = row],
         row.to = account[v].to, row.delegates = account[v].delegates
  PROVE  VotingInv'
<1>1. account' \in [Voters -> AccountRow]
  BY DEF VotingInv
<1>2. SameEdges
  BY DEF VotingInv, SameEdges
<1> QED
  BY <1>1, <1>2, EdgesStay

\* Spending leaves the delegations of an account alone.
LEMMA SpentFrom ==
  ASSUME VotingInv, NEW v \in Voters, NEW amount \in Int
  PROVE  /\ Spend(account[v], amount) \in AccountRow
         /\ Spend(account[v], amount).to = account[v].to /\ Spend(account[v], amount).delegates = account[v].delegates
<1>1. PICK acc \in AccountRow : acc = account[v]
  BY DEF VotingInv
<1>2. Spend(acc, amount) = [acc EXCEPT !.balance = acc.balance - amount, !.spent = acc.spent + amount]
  BY DEF Spend
<1>3. Spend(acc, amount) = [open |-> acc.open, balance |-> acc.balance - amount, spent |-> acc.spent + amount,
                            cast |-> acc.cast, to |-> acc.to, delegates |-> acc.delegates]
  BY <1>2 DEF AccountRow
<1>4. acc.balance - amount \in Int /\ acc.spent + amount \in Int
  BY DEF AccountRow
<1> QED
  BY <1>1, <1>3, <1>4 DEF AccountRow

\* Spending keeps the invariant of Voting.
LEMMA SpendingKeeps ==
  ASSUME VotingInv, NEW v \in Voters, NEW amount \in Int, account' = [account EXCEPT ![v] = Spend(@, amount)]
  PROVE  VotingInv'
<1>1. PICK row \in AccountRow : row = Spend(account[v], amount)
  BY SpentFrom
<1>2. account' = [account EXCEPT ![v] = row]
  BY <1>1
<1> QED
  BY <1>1, <1>2, SpentFrom, OneAccount

\* v gets a new delegate that it does not come back to.
LEMMA OneDelegates == \A v, d \in Voters : VotingInv /\ delegate_vote(v, d) => VotingInv'
<1> SUFFICES ASSUME VotingInv, NEW v \in Voters, NEW d \in Voters, delegate_vote(v, d) PROVE VotingInv'
  OBVIOUS
<1>t. \A a \in Voters : account[a] \in AccountRow /\ account[a].to \in Voters \cup {NoVoter} /\ account[a].delegates \in SUBSET Voters
  BY DEF VotingInv, AccountRow
<1>1. v # d /\ ~_would_create_cycle(v, d)
  BY DEF delegate_vote
<1>2. account' = [a \in Voters |->
         IF a = v THEN [account[a] EXCEPT !.to = d]
         ELSE IF a = d THEN [account[a] EXCEPT !.delegates = @ \cup {v}]
         ELSE IF a = account[v].to THEN [account[a] EXCEPT !.delegates = @ \ {v}] ELSE account[a]]
  BY DEF delegate_vote
<1>3. ASSUME NEW a \in Voters
      PROVE  /\ account'[a] \in AccountRow
             /\ account'[a].to = IF a = v THEN d ELSE account[a].to
             /\ account'[a].delegates = IF a = v THEN account[a].delegates
                                        ELSE IF a = d THEN account[a].delegates \cup {v}
                                        ELSE IF a = account[v].to THEN account[a].delegates \ {v} ELSE account[a].delegates
  <2>1. CASE a = v
    <3>1. account'[a] = [open |-> account[a].open, balance |-> account[a].balance, spent |-> account[a].spent,
                         cast |-> account[a].cast, to |-> d, delegates |-> account[a].delegates]
      BY <1>2, <1>t, <2>1 DEF AccountRow
    <3> QED
      BY <1>t, <2>1, <3>1 DEF AccountRow
  <2>2. CASE a # v /\ a = d
    <3>1. PICK acc \in AccountRow : acc = account[a]
      BY <1>t
    <3>2. account'[a] = [acc EXCEPT !.delegates = acc.delegates \cup {v}]
      BY <1>2, <2>2, <3>1
    <3>3. account'[a] = [open |-> acc.open, balance |-> acc.balance, spent |-> acc.spent,
                         cast |-> acc.cast, to |-> acc.to, delegates |-> acc.delegates \cup {v}]
      BY <3>2 DEF AccountRow
    <3>4. acc.delegates \cup {v} \in SUBSET Voters
      BY DEF AccountRow
    <3> QED
      BY <2>2, <3>1, <3>3, <3>4 DEF AccountRow
  <2>3. CASE a # v /\ a # d /\ a = account[v].to
    <3>1. account'[a] = [open |-> account[a].open, balance |-> account[a].balance, spent |-> account[a].spent,
                         cast |-> account[a].cast, to |-> account[a].to, delegates |-> account[a].delegates \ {v}]
      BY <1>2, <1>t, <2>3 DEF AccountRow
    <3> QED
      BY <1>t, <2>3, <3>1 DEF AccountRow
  <2>4. CASE a # v /\ a # d /\ a # account[v].to
    BY <1>2, <1>t, <2>4
  <2> QED
    BY <2>1, <2>2, <2>3, <2>4
<1>4. account' \in [Voters -> AccountRow]
  BY <1>2, <1>3
<1>5. \A x \in Voters : x \notin account[x].delegates
  <2> SUFFICES ASSUME NEW x \in Voters, account[x].to = x PROVE FALSE
    BY DEF VotingInv, DelegationIsAForest
  <2> QED
    BY VotingAssumption DEF VotingInv, DelegationIsAForest
<1>6. ASSUME NEW x \in Voters, NEW y \in Voters PROVE x \in account'[y].delegates <=> account'[x].to = y
  <2>1. x \in account[y].delegates <=> account[x].to = y
    BY DEF VotingInv, DelegationIsAForest
  <2>2. CASE x = v
    BY <1>1, <1>3, <1>5, <2>1, <2>2
  <2>3. CASE x # v
    BY <1>3, <2>1, <2>3, ZenonT(40)
  <2> QED
    BY <2>2, <2>3
<1>7. PICK S0 \in SUBSET Voters : d \in S0 /\ Leads(S0) /\ v \notin S0
  BY <1>1 DEF _would_create_cycle
<1>8. \A S \in SUBSET Voters : Leads(S) /\ (v \in S => d \in S) => Leads(S)'
  BY <1>3 DEF Leads
<1>9. ASSUME NEW x \in Voters, account'[x].to # NoVoter
      PROVE  \E S \in SUBSET Voters : account'[x].to \in S /\ Leads(S)' /\ x \notin S
  <2>1. CASE x = v
    BY <1>3, <1>7, <1>8, <2>1
  <2>2. CASE x # v
    <3>1. account'[x].to = account[x].to
      BY <1>3, <2>2
    <3>2. PICK S \in SUBSET Voters : account[x].to \in S /\ Leads(S) /\ x \notin S
      BY <1>9, <3>1 DEF VotingInv, DelegationIsAForest
    <3>3. CASE x \notin S0
      <4>1. Leads(S \cup S0) /\ d \in S \cup S0 /\ S \cup S0 \in SUBSET Voters
        BY <1>7, <3>2 DEF Leads
      <4>2. Leads(S \cup S0)'
        BY <1>8, <4>1
      <4> QED
        BY <3>1, <3>2, <3>3, <4>1, <4>2
    <3>4. CASE x \in S0
      <4>1. account[x].to \in S0
        BY <1>7, <1>9, <3>1, <3>4 DEF Leads
      <4>2. Leads(S \cap S0) /\ v \notin S \cap S0 /\ S \cap S0 \in SUBSET Voters
        BY <1>7, <3>2 DEF Leads
      <4>3. Leads(S \cap S0)'
        BY <1>8, <4>2
      <4> QED
        BY <3>1, <3>2, <4>1, <4>2, <4>3
    <3> QED
      BY <3>3, <3>4
  <2> QED
    BY <2>1, <2>2
<1> QED
  BY <1>4, <1>6, <1>9 DEF VotingInv, DelegationIsAForest

\* Revoking a delegation keeps the invariant of Voting.
LEMMA OneRevokes == \A v \in Voters : VotingInv /\ revoke_delegation(v) => VotingInv'
<1> SUFFICES ASSUME VotingInv, NEW v \in Voters, revoke_delegation(v) PROVE VotingInv'
  OBVIOUS
<1>t. \A a \in Voters : account[a] \in AccountRow /\ account[a].to \in Voters \cup {NoVoter} /\ account[a].delegates \in SUBSET Voters
  BY DEF VotingInv, AccountRow
<1>1. PICK d \in Voters : d = account[v].to
  BY <1>t DEF revoke_delegation
<1>2. account' = [account EXCEPT ![v].to = NoVoter, ![d].delegates = @ \ {v}]
  BY <1>1 DEF revoke_delegation
<1>3. d # v
  <2> SUFFICES ASSUME d = v PROVE FALSE
    OBVIOUS
  <2> QED
    BY <1>1, VotingAssumption DEF VotingInv, DelegationIsAForest
<1>4. ASSUME NEW a \in Voters
      PROVE  /\ account'[a] \in AccountRow
             /\ account'[a].to = IF a = v THEN NoVoter ELSE account[a].to
             /\ account'[a].delegates = IF a = d THEN account[a].delegates \ {v} ELSE account[a].delegates
  <2>1. PICK acc \in AccountRow : acc = account[a]
    BY <1>t
  <2>2. CASE a = v
    <3>1. account'[a] = [acc EXCEPT !.to = NoVoter]
      BY <1>2, <1>3, <2>1, <2>2 DEF VotingInv
    <3>2. account'[a] = [open |-> acc.open, balance |-> acc.balance, spent |-> acc.spent,
                         cast |-> acc.cast, to |-> NoVoter, delegates |-> acc.delegates]
      BY <3>1 DEF AccountRow
    <3> QED
      BY <1>3, <2>1, <2>2, <3>2 DEF AccountRow
  <2>3. CASE a = d
    <3>1. account'[a] = [acc EXCEPT !.delegates = acc.delegates \ {v}]
      BY <1>2, <1>3, <2>1, <2>3 DEF VotingInv
    <3>2. account'[a] = [open |-> acc.open, balance |-> acc.balance, spent |-> acc.spent,
                         cast |-> acc.cast, to |-> acc.to, delegates |-> acc.delegates \ {v}]
      BY <3>1 DEF AccountRow
    <3>3. acc.delegates \ {v} \in SUBSET Voters
      BY DEF AccountRow
    <3> QED
      BY <1>3, <2>1, <2>3, <3>2, <3>3 DEF AccountRow
  <2>4. CASE a # v /\ a # d
    BY <1>2, <1>t, <2>4 DEF VotingInv
  <2> QED
    BY <2>2, <2>3, <2>4
<1>5. account' \in [Voters -> AccountRow]
  <2>1. DOMAIN account' = Voters /\ account' = [a \in Voters |-> account'[a]]
    BY <1>2 DEF VotingInv
  <2> QED
    BY <1>4, <2>1
<1>6. ASSUME NEW x \in Voters, NEW y \in Voters PROVE x \in account'[y].delegates <=> account'[x].to = y
  <2>1. x \in account[y].delegates <=> account[x].to = y
    BY DEF VotingInv, DelegationIsAForest
  <2> QED
    BY <1>1, <1>4, <2>1, VotingAssumption, ZenonT(40)
<1>7. \A S \in SUBSET Voters : Leads(S) => Leads(S)'
  BY <1>4 DEF Leads
<1>8. ASSUME NEW x \in Voters, account'[x].to # NoVoter
      PROVE  \E S \in SUBSET Voters : account'[x].to \in S /\ Leads(S)' /\ x \notin S
  <2>1. account'[x].to = account[x].to /\ account[x].to # NoVoter
    BY <1>4, <1>8
  <2>3. PICK S \in SUBSET Voters : account[x].to \in S /\ Leads(S) /\ x \notin S
    BY <2>1 DEF VotingInv, DelegationIsAForest
  <2> QED
    BY <1>7, <2>1, <2>3
<1> QED
  BY <1>5, <1>6, <1>8 DEF VotingInv, DelegationIsAForest

\* An account with another 'open'.
LEMMA AccountOpened ==
  ASSUME NEW acc \in AccountRow, NEW open
  PROVE  [acc EXCEPT !.open = open] = [open |-> open, balance |-> acc.balance, spent |-> acc.spent,
                                       cast |-> acc.cast, to |-> acc.to, delegates |-> acc.delegates]
  BY DEF AccountRow

\* An account with another balance.
LEMMA BalanceSet ==
  ASSUME NEW acc \in AccountRow, NEW balance
  PROVE  [acc EXCEPT !.balance = balance] = [open |-> acc.open, balance |-> balance, spent |-> acc.spent,
                                             cast |-> acc.cast, to |-> acc.to, delegates |-> acc.delegates]
  BY DEF AccountRow

\* The invariant of Voting holds at first.
LEMMA VotingStart == VotingInit => VotingInv
<1> SUFFICES ASSUME VotingInit PROVE VotingInv
  OBVIOUS
<1>1. CreditAccount \in AccountRow /\ CreditAccount.to = NoVoter /\ CreditAccount.delegates = {}
  BY DEF CreditAccount, AccountRow
<1>2. account \in [Voters -> AccountRow] /\ \A v \in Voters : account[v].to = NoVoter /\ account[v].delegates = {}
  BY <1>1 DEF VotingInit
<1> QED
  BY <1>2, VotingAssumption DEF VotingInv, DelegationIsAForest

\* Every step of Voting keeps its invariant.
LEMMA VotingStep == VotingInv /\ [VotingNext]_votingVars => VotingInv'
<1> SUFFICES ASSUME VotingInv, [VotingNext]_votingVars PROVE VotingInv'
  OBVIOUS
<1>t. \A a \in Voters : account[a] \in AccountRow
  BY DEF VotingInv
<1>s. account' = account => VotingInv'
  <2> SUFFICES ASSUME account' = account PROVE VotingInv'
    OBVIOUS
  <2>1. account' \in [Voters -> AccountRow] /\ SameEdges
    BY DEF VotingInv, SameEdges
  <2> QED
    BY <2>1, EdgesStay
<1>1. ASSUME NEW v \in Voters, create_account(v) PROVE VotingInv'
  <2>1. PICK acc \in AccountRow : acc = account[v]
    BY <1>t
  <2> DEFINE row == [open |-> TRUE, balance |-> acc.balance, spent |-> acc.spent,
                     cast |-> acc.cast, to |-> acc.to, delegates |-> acc.delegates]
  <2>2. row \in AccountRow
    BY DEF AccountRow
  <2>4. account' = [account EXCEPT ![v] = [account[v] EXCEPT !.open = TRUE]]
    BY <1>1 DEF create_account
  <2>5. [acc EXCEPT !.open = TRUE] = row
    BY AccountOpened
  <2>3. account' = [account EXCEPT ![v] = row]
    BY <2>1, <2>4, <2>5
  <2> QED
    BY <2>1, <2>2, <2>3, OneAccount
<1>2. ASSUME NEW v \in Earners, v \in Voters, add_credits(v) PROVE VotingInv'
  <2>1. PICK acc \in AccountRow : acc = account[v]
    BY <1>2, <1>t
  <2> DEFINE row == [open |-> TRUE, balance |-> acc.balance + Earning, spent |-> acc.spent,
                     cast |-> acc.cast, to |-> acc.to, delegates |-> acc.delegates]
  <2>2. acc.balance + Earning \in Int
    BY VotingAssumption DEF AccountRow
  <2>3. row \in AccountRow
    BY <2>2 DEF AccountRow
  <2>4. account' = [account EXCEPT ![v].open = TRUE, ![v].balance = @ + Earning]
    BY <1>2 DEF add_credits
  <2>5. account' = [account EXCEPT ![v] = row]
    <3>0. PICK sum \in Int : sum = acc.balance + Earning
      BY <2>2
    <3>1. row = [[acc EXCEPT !.open = TRUE] EXCEPT !.balance = acc.balance + Earning]
      <4> DEFINE opened == [open |-> TRUE, balance |-> acc.balance, spent |-> acc.spent,
                            cast |-> acc.cast, to |-> acc.to, delegates |-> acc.delegates]
      <4>1. [acc EXCEPT !.open = TRUE] = opened
        BY AccountOpened
      <4>2. opened \in AccountRow
        BY DEF AccountRow
      <4>3. row = [open |-> opened.open, balance |-> sum, spent |-> opened.spent,
                   cast |-> opened.cast, to |-> opened.to, delegates |-> opened.delegates]
        BY <3>0
      <4> HIDE DEF opened, row
      <4>4. row = [opened EXCEPT !.balance = sum]
        BY <4>2, <4>3, BalanceSet
      <4> QED
        BY <3>0, <4>1, <4>4
    <3>2. account'[v] = row /\ \A a \in Voters \ {v} : account'[a] = account[a]
      BY <1>2, <2>1, <2>4, <3>1 DEF VotingInv, AccountRow
    <3>3. account' = [a \in Voters |-> account'[a]]
      BY <2>4 DEF VotingInv
    <3> HIDE DEF row
    <3> QED
      BY <3>2, <3>3 DEF VotingInv
  <2> QED
    BY <1>2, <2>1, <2>3, <2>5, OneAccount
<1>3. ASSUME NEW v \in Callers, v \in Voters, NEW r \in Rounds, create_vote(v, r) PROVE VotingInv'
  <2>1. account' = [account EXCEPT ![v] = Spend(@, ProposalFee)] /\ ProposalFee \in Int
    BY <1>3, VotingAssumption DEF create_vote
  <2> QED
    BY <1>3, <2>1, SpendingKeeps
<1>4. ASSUME NEW v \in Voters, NEW r \in Rounds, NEW o \in {"yes", "no"}, cast_vote(v, r, o) PROVE VotingInv'
  <2>1. CASE round[r].late
    BY <1>4, <1>s, <2>1 DEF cast_vote
  <2>2. CASE ~round[r].late
    <3>1. PICK spent \in AccountRow : /\ spent = Spend(account[v], VotePrice)
                                     /\ spent.to = account[v].to /\ spent.delegates = account[v].delegates
      BY SpentFrom, VotingAssumption
    <3> DEFINE row == [open |-> spent.open, balance |-> spent.balance, spent |-> spent.spent,
                       cast |-> spent.cast + 1, to |-> spent.to, delegates |-> spent.delegates]
    <3>2. row = [spent EXCEPT !.cast = spent.cast + 1] /\ row \in AccountRow
      BY DEF AccountRow
    <3>3. account' = [account EXCEPT ![v] = [Spend(account[v], VotePrice) EXCEPT !.cast = @ + 1]]
      BY <1>4, <2>2 DEF cast_vote
    <3>4. account' = [account EXCEPT ![v] = row]
      BY <3>1, <3>2, <3>3
    <3> QED
      BY <3>1, <3>2, <3>4, OneAccount
  <2> QED
    BY <2>1, <2>2
<1>5. ASSUME NEW v \in Callers, v \in Voters, NEW r \in Rounds, NEW n \in 1 .. 2, cast_quadratic_vote(v, r, "no", n) PROVE VotingInv'
  <2>1. calculate_quadratic_cost(n) \in Int
    BY DEF calculate_quadratic_cost
  <2> QED
    BY <1>5, <2>1, SpendingKeeps DEF cast_quadratic_vote
<1>6. ASSUME NEW v \in Voters, spend_on_job(v) PROVE VotingInv'
  <2>1. CASE CanSpend(v, VotePrice)
    BY <1>6, <2>1, SpendingKeeps, VotingAssumption DEF spend_on_job
  <2>2. CASE ~CanSpend(v, VotePrice)
    BY <1>6, <1>s, <2>2 DEF spend_on_job
  <2> QED
    BY <2>1, <2>2
<1>7. ASSUME NEW v, record_on_job(v) \/ vote_v1(v) PROVE VotingInv'
  BY <1>7, <1>s DEF record_on_job, vote_v1
<1>8. ASSUME NEW r \in Rounds, finalize_vote(r) \/ get_vote_status(r) \/ RoundRunsLate(r) PROVE VotingInv'
  BY <1>8, <1>s DEF finalize_vote, get_vote_status, RoundRunsLate
<1>9. CASE expire_votes \/ cleanup_expired_votes \/ HourPasses \/ JobCleared \/ UNCHANGED votingVars
  BY <1>9, <1>s DEF expire_votes, cleanup_expired_votes, HourPasses, JobCleared, votingVars
<1> QED
  BY <1>1, <1>2, <1>3, <1>4, <1>5, <1>6, <1>7, <1>8, <1>9, OneDelegates, OneRevokes, VotingAssumption DEF VotingNext

\* For any number of voters, and however they delegate, change their minds and revoke: nobody ends up
\* voting for itself through others, and the delegates of an account are exactly those who point to it
\* (delegate_vote, _would_create_cycle, revoke_delegation).
THEOREM DelegationsFormAForest == VotingSpec => []DelegationIsAForest
<1>1. VotingInv => DelegationIsAForest
  BY DEF VotingInv
<1> QED
  BY <1>1, VotingStart, VotingStep, PTL DEF VotingSpec
=============================================================================
