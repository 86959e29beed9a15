------------------------------- MODULE Monitoring -------------------------------
(* What an operator sees of the running orchestrator: the samples of the host *)
(* and of the fleet (monitoring.py, _metrics_loop), and the last log lines.   *)
(* One NodeService at a time uses the collector, which belongs to the process.*)
EXTENDS Integers, Sequences, SequencesExt

CONSTANTS MaxHistory,      \* samples, and log lines, that are kept
          MaxSamples       \* bounds what is recorded

VARIABLES service_state,   \* new, running, closed: _closed and _metrics_task
          collector,       \* _collecting, and whether its own task lives
          system_metrics,  \* kept samples of the host: who took them
          orchestrator_metrics,  \* kept samples of the fleet
          half,            \* the fleet's numbers already read for the next sample
          fleet,           \* connected nodes, and credits distributed so far
          log_lines,       \* numbers of the lines that are kept
          answered,        \* the last answer of a handler
          recorded
monitoringVars == <<service_state, collector, system_metrics, orchestrator_metrics, half, fleet, log_lines, answered, recorded>>
metricsVars == <<service_state, collector, system_metrics, orchestrator_metrics, half>>

NotAsked == <<"nothing">>
MonitoringInit ==
  /\ service_state = "new" /\ collector = [collecting |-> FALSE, task |-> FALSE]
  /\ system_metrics = << >> /\ orchestrator_metrics = << >> /\ half = << >> /\ fleet = [connected |-> 0, credits |-> 0]
  /\ log_lines = << >> /\ answered = NotAsked
  /\ recorded = 0

\* A deque with maxlen: the oldest falls out.
KeepsLast(queue, x) == LET all == Append(queue, x) IN IF Len(all) > MaxHistory THEN Tail(all) ELSE all
Records == recorded < MaxSamples /\ recorded' = recorded + 1

-----------------------------------------------------------------------------
\* The loop of the service starts the collector, which has a loop of its own: both sample the host.
start_metrics ==
  /\ service_state = "new" /\ service_state' = "running"
  /\ collector' = [collecting |-> TRUE, task |-> collector.task \/ ~collector.collecting]
  /\ UNCHANGED <<system_metrics, orchestrator_metrics, half, fleet, log_lines, answered, recorded>>
collect_system_metrics(who) == system_metrics' = KeepsLast(system_metrics, who)
_collect_loop ==
  /\ collector.task /\ Records /\ collect_system_metrics("collector")
  /\ UNCHANGED <<service_state, collector, orchestrator_metrics, half, fleet, log_lines, answered>>
\* The service's loop: a sample of the host; then the credits are summed, the nodes are counted and
\* the queue is asked, with awaits between them.
_metrics_loop ==
  /\ service_state = "running" /\ half = << >> /\ Records /\ collect_system_metrics("service")
  /\ half' = <<fleet.credits>>
  /\ UNCHANGED <<service_state, collector, orchestrator_metrics, fleet, log_lines, answered>>
CountsNodes ==
  /\ Len(half) = 1 /\ half' = Append(half, fleet.connected)
  /\ UNCHANGED <<service_state, collector, system_metrics, orchestrator_metrics, fleet, log_lines, answered, recorded>>
\* Nothing is recorded when the queue cannot be read.
record_orchestrator_snapshot ==
  /\ Len(half) = 2 /\ half' = << >>
  /\ orchestrator_metrics' \in
       {orchestrator_metrics, KeepsLast(orchestrator_metrics, [connected |-> half[2], total_credits |-> half[1]])}
  /\ UNCHANGED <<service_state, collector, system_metrics, fleet, log_lines, answered, recorded>>
\* Closing again does nothing.
close_service ==
  /\ service_state # "closed" /\ service_state' = "closed" /\ half' = << >>
  /\ collector' = [collecting |-> FALSE, task |-> FALSE]
  /\ UNCHANGED <<system_metrics, orchestrator_metrics, fleet, log_lines, answered, recorded>>
\* The collector and its samples belong to the process: the next service finds them.
NextService ==
  /\ service_state = "closed" /\ service_state' = "new" /\ log_lines' = << >>
  /\ UNCHANGED <<collector, system_metrics, orchestrator_metrics, half, fleet, answered, recorded>>

FleetChanges ==
  /\ Records /\ UNCHANGED <<metricsVars, log_lines, answered>>
  /\ \E n \in {0, 1}, c \in {fleet.credits, fleet.credits + 1} : fleet' = [connected |-> n, credits |-> c] /\ fleet' # fleet
Logs ==
  /\ service_state = "running" /\ Records /\ log_lines' = KeepsLast(log_lines, recorded)
  /\ UNCHANGED <<metricsVars, fleet, answered>>

-----------------------------------------------------------------------------
\* The total adds up totals: each of the last ten samples holds all credits distributed until then.
AllTotals(samples) == FoldSeq(LAMBDA m, sum : m.total_credits + sum, 0, samples)
get_orchestrator_summary ==
  IF orchestrator_metrics = << >> THEN <<"error">>
  ELSE LET recent == SubSeq(orchestrator_metrics, (IF Len(orchestrator_metrics) > 10 THEN Len(orchestrator_metrics) - 9 ELSE 1), Len(orchestrator_metrics))
       IN <<"summary", Len(recent), AllTotals(recent)>>
render_prometheus ==
  <<"gauges", system_metrics # << >>,
    IF orchestrator_metrics = << >> THEN {} ELSE {Last(orchestrator_metrics)}>>
get_system_metrics_summary == IF system_metrics = << >> THEN <<"error">> ELSE <<"samples", Len(system_metrics)>>
\* The last n lines as a Python slice: none asked for are all, a negative number drops lines in front.
logs_handler(n) ==
  LET size == Len(log_lines)
      from == IF n > 0 THEN (IF n >= size THEN 1 ELSE size - n + 1) ELSE 1 - n
  IN <<"logs", SubSeq(log_lines, from, size)>>
run_all_checks(disk, memory) == <<"health", IF disk = "ok" /\ memory = "ok" THEN "healthy" ELSE "degraded">>
OperatorAsks ==
  /\ \/ answered' \in {get_orchestrator_summary, render_prometheus, get_system_metrics_summary}
     \/ \E n \in {-1, 0, 1} : answered' = logs_handler(n)
     \/ \E disk, memory \in {"ok", "full", "raises"} : answered' = run_all_checks(disk, memory)
  /\ UNCHANGED <<metricsVars, fleet, log_lines, recorded>>
Answered == answered # NotAsked /\ answered' = NotAsked /\ UNCHANGED <<metricsVars, fleet, log_lines, recorded>>

\* No step reads an answer, so they wait until it is gone.
MonitoringNext ==
  \/ Answered
  \/ /\ answered = NotAsked
     /\ \/ start_metrics \/ _collect_loop \/ _metrics_loop \/ CountsNodes \/ record_orchestrator_snapshot
        \/ close_service \/ NextService \/ FleetChanges \/ Logs \/ OperatorAsks
=============================================================================
