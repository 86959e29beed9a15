------------------------------- MODULE Benchmarks -------------------------------
(* The benchmark suite of a node: a runner process (bench_runner.py) starts   *)
(* each benchmark as a process of its own and rates what they report; the     *)
(* worker starts the runner and may cancel it (bench_manager.py).             *)
EXTENDS Integers, Sequences, SequencesExt, FiniteSetsExt, Functions

CONSTANTS Measured,        \* benchmark -> the results it can print: [score, gpu_used, max_usable_gb, thermal_throttled]
          MaxSuites        \* bounds the suites

VARIABLES suite,           \* the benchmarks still to run; the first is running when child says so
          child,           \* none, running, stuck, closed (its output ended): the current process
          final_result,    \* what it printed last as its result
          all_results,     \* benchmark -> result
          final_report,    \* what the worker was given
          results_file,    \* the file it keeps of it
          outlived,        \* benchmark processes that nobody waits for
          suite_runner, suites
benchmarksVars == <<suite, child, final_result, all_results, final_report, results_file, outlived, suite_runner, suites>>

_BENCHMARKS == <<"pathtracing", "memory", "network", "write", "tensor", "vram", "ml_workloads", "distributed_training", "data_pipeline",
                 "system_stability", "memory_efficiency", "io_patterns", "cpu_gpu_bandwidth", "parallel_processing">>
_CORE_BENCHMARKS == {"pathtracing", "memory", "network", "write", "tensor", "vram"}
\* In hundredths.
_WEIGHTS(name) ==
  CASE name = "tensor" -> 20 [] name = "pathtracing" -> 12 [] name = "vram" -> 9 [] name \in {"ml_workloads", "distributed_training"} -> 8
    [] name \in {"data_pipeline", "system_stability", "memory", "network"} -> 6 [] name = "write" -> 3 [] OTHER -> 4
NoResults == << >>
NoReport == [tier |-> "none"]

BenchmarksInit ==
  /\ suite = << >> /\ child = "none" /\ final_result = {} /\ all_results = NoResults /\ final_report = NoReport
  /\ results_file = NoReport /\ outlived = 0 /\ suite_runner = "none" /\ suites = 0

-----------------------------------------------------------------------------
Score(results, name) == IF name \in DOMAIN results THEN results[name].score ELSE 0
\* The mean over what was measured, compared with a threshold; zero when nothing was.
compute_overall(results) == MapThenSumSet(LAMBDA n : _WEIGHTS(n) * Score(results, n), DOMAIN results)
OverallAtLeast(results, least) ==
  DOMAIN results # {} /\ compute_overall(results) >= least * MapThenSumSet(_WEIGHTS, DOMAIN results)

Level(score) == IF score > 70 THEN "high" ELSE IF score > 40 THEN "medium" ELSE "low"
task_capacity(results) ==
  [batch_size |-> Level(Score(results, "ml_workloads")), distributed |-> Level(Score(results, "distributed_training")),
   data |-> Level(Score(results, "data_pipeline")), memory |-> Level(Score(results, "memory_efficiency")),
   io |-> Level(Score(results, "io_patterns")), bandwidth |-> Level(Score(results, "cpu_gpu_bandwidth")),
   parallel |-> Level(Score(results, "parallel_processing")),
   stability |-> IF Score(results, "system_stability") > 80 THEN "excellent" ELSE IF Score(results, "system_stability") > 60 THEN "good" ELSE "fair"]
\* The first of the largest; each is a third of three scores. Without the extended suite: training.
Specializations == <<"training", "inference", "data_processing", "preprocessing">>
specialization(results, what) ==
  LET of(names) == MapThenSumSet(LAMBDA n : Score(results, n), names)
  IN CASE what = "training" -> of({"ml_workloads", "distributed_training", "memory_efficiency"})
       [] what = "inference" -> of({"ml_workloads", "memory_efficiency", "cpu_gpu_bandwidth"})
       [] what = "data_processing" -> of({"data_pipeline", "io_patterns", "parallel_processing"})
       [] what = "preprocessing" -> of({"data_pipeline", "memory_efficiency", "io_patterns"})
primary_specialization(results) ==
  SelectSeq(Specializations, LAMBDA s : \A t \in Range(Specializations) : specialization(results, t) <= specialization(results, s))[1]

\* What the node can be asked for, best first; a strong network counts only where no GPU was used.
gpu_used(results) == "tensor" \in DOMAIN results /\ results["tensor"].gpu_used
vram_gb(results) == IF "vram" \in DOMAIN results THEN results["vram"].max_usable_gb ELSE 0
assign_tier(results) ==
  IF gpu_used(results) /\ vram_gb(results) >= 8 /\ OverallAtLeast(results, 65) THEN "Flagship Training Node"
  ELSE IF gpu_used(results) /\ OverallAtLeast(results, 45) THEN "Standard Training Node"
  ELSE IF gpu_used(results) /\ OverallAtLeast(results, 25) THEN "Light Training Node"
  ELSE IF ~gpu_used(results) /\ Score(results, "network") >= 40 THEN "Data Pipeline Node"
  ELSE IF OverallAtLeast(results, 15) THEN "CPU Processing Node" ELSE "Auxiliary Node"
get_avoid_workloads(results) ==
  (IF gpu_used(results) THEN {} ELSE {"GPU"}) \cup (IF vram_gb(results) < 4 THEN {"large models"} ELSE {})
  \cup (IF assign_tier(results) \in {"Auxiliary Node", "CPU Processing Node"} THEN {"large batches"} ELSE {})
get_optimization_tips(results) ==
  {n \in DOMAIN results \cap {"memory", "network", "vram", "tensor", "data_pipeline", "distributed_training", "parallel_processing"} :
     results[n].score < 30}
  \cup {n \in DOMAIN results \cap {"system_stability"} : results[n].score < 40}
ReportOf(results) ==
  [tier |-> assign_tier(results), results |-> results, task_capacity |-> task_capacity(results),
   primary_specialization |-> primary_specialization(results), avoid_workloads |-> get_avoid_workloads(results),
   optimization_tips |-> get_optimization_tips(results),
   thermal_warnings |-> {n \in DOMAIN results : results[n].thermal_throttled}]

-----------------------------------------------------------------------------
reportVars == <<final_report, results_file>>
\* The worker asks for the default suite; by hand any part can be asked for.
main(only) ==
  /\ suite_runner = "none" /\ suites < MaxSuites /\ suites' = suites + 1 /\ suite_runner' = "running"
  /\ suite' = SelectSeq(_BENCHMARKS, LAMBDA n : n \in only) /\ all_results' = NoResults
  /\ final_report' = NoReport /\ UNCHANGED <<child, final_result, results_file, outlived>>
run_benchmark ==
  /\ suite_runner = "running" /\ suite # << >> /\ child = "none" /\ Head(suite) \in DOMAIN Measured
  /\ final_result' = {} /\ child' = "running" /\ UNCHANGED <<suite, all_results, reportVars, outlived, suite_runner, suites>>
\* A script that is not there is passed over.
ScriptNotFound ==
  /\ suite_runner = "running" /\ suite # << >> /\ child = "none" /\ Head(suite) \notin DOMAIN Measured
  /\ suite' = Tail(suite) /\ UNCHANGED <<child, final_result, all_results, reportVars, outlived, suite_runner, suites>>
\* The last result under its name, or without one, counts; other lines are passed on.
prints ==
  /\ child = "running"
  /\ \E m \in Measured[Head(suite)] : final_result' = {m}
  /\ UNCHANGED <<suite, child, all_results, reportVars, outlived, suite_runner, suites>>
\* Its output is read to the end before the wait that has a timeout: a benchmark that hangs, or that
\* has filled the pipe of its errors, is never given up.
Hangs ==
  /\ child = "running" /\ child' = "stuck"
  /\ UNCHANGED <<suite, final_result, all_results, reportVars, outlived, suite_runner, suites>>
OutputEnds ==
  /\ child = "running" /\ child' = "closed"
  /\ UNCHANGED <<suite, final_result, all_results, reportVars, outlived, suite_runner, suites>>
\* With any exit code, or killed after fifteen minutes: what it had printed is its result.
BenchmarkExits ==
  /\ child = "closed" /\ child' = "none" /\ suite' = Tail(suite)
  /\ all_results' = IF final_result = {} THEN all_results ELSE (Head(suite) :> CHOOSE m \in final_result : TRUE) @@ all_results
  /\ UNCHANGED <<final_result, reportVars, outlived, suite_runner, suites>>
\* The report is given although the file cannot be written.
run_full_suite ==
  /\ suite_runner = "running" /\ suite = << >> /\ suite_runner' = "none"
  /\ final_report' = ReportOf(all_results) /\ results_file' \in {final_report', results_file}
  /\ UNCHANGED <<suite, child, final_result, all_results, outlived, suites>>
\* By hand, or when a line of the runner is too long to read: the runner is ended, its benchmark is not.
suite_cancelled ==
  /\ suite_runner = "running" /\ suite_runner' = "none" /\ suite' = << >> /\ child' = "none" /\ final_result' = {}
  /\ all_results' = NoResults /\ outlived' = outlived + (IF child = "none" THEN 0 ELSE 1)
  /\ UNCHANGED <<reportVars, suites>>

BenchmarksNext ==
  \/ main(_CORE_BENCHMARKS) \/ main({"data_pipeline", "io_patterns", "parallel_processing"})
  \/ run_benchmark \/ ScriptNotFound \/ prints \/ Hangs \/ OutputEnds \/ BenchmarkExits \/ run_full_suite \/ suite_cancelled
=============================================================================
