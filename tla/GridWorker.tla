------------------------------ MODULE GridWorker ------------------------------
(* The program distribai_worker: the loop that registers, claims, trains and   *)
(* reports, above the coordinator's tables. Two processes may run under one    *)
(* node id. A request is answered, or its reply is lost, or it is lost, or it   *)
(* is handled after its sender has given it up. Which node a sweep finds silent *)
(* is left open: heartbeats may get lost, so node rows are not kept.            *)
EXTENDS Integers, Sequences, FiniteSets

CONSTANTS Processes,     \* worker programs
          Attempts,      \* max_attempts of the grid's tasks
          MaxMishaps     \* bound: requests lost and requests refused
ASSUME ProcessesAssumption == "nobody" \notin Processes

VARIABLES node_id,       \* --node-id of each process
          loop,          \* where each process is, what attempt at the task it has, and how often it tried to report
          session,       \* node id -> the process whose token_ its row holds; "nobody" once that reply was lost
          gridJobs, gridTasks,    \* the tables (GridStore)
          late,          \* the request (one: a bound) the coordinator has not come to and its sender has given up
          mishaps,       \* how many of each kind there were
          rotations,     \* how often a registration took the session of the process whose the task is (3 for more)
          left           \* how the process that had it let it go the attempt the row is at
gridWorkerVars == <<node_id, loop, session, gridJobs, gridTasks, late, mishaps, rotations, left>>

\* One job of one replica.
Store == INSTANCE GridStore WITH Nodes <- Processes, NoNode <- "none", NJobs <- 1, Replicas <- 1, MaxAttempts <- Attempts,
                                 nodes <- [n \in Processes |-> [status |-> "online", quiet |-> FALSE]],
                                 jobs <- gridJobs, tasks <- gridTasks, ledger <- << >>
tables == <<gridJobs, gridTasks>>
GridJob == 1
Replica == <<GridJob, 1>>
First == CHOOSE w \in Processes : TRUE
TaskRow == gridTasks[Replica]

GridWorkerInit ==
  /\ node_id \in {[w \in Processes |-> w], [w \in Processes |-> First]}
  /\ loop = [w \in Processes |-> [at |-> "off", attempt |-> 0, tries |-> 0]]
  /\ session = [n \in Processes |-> "nobody"]
  /\ gridJobs = [j \in {GridJob} |-> [status |-> "queued", aged |-> FALSE]]
  /\ gridTasks = [t \in {Replica} |-> [status |-> "queued", assignee |-> "none", attempts |-> 0]]
  /\ late = {} /\ mishaps = [kind \in {"lost", "refused"} |-> 0]
  /\ rotations = 0 /\ left = [attempt |-> 0, how |-> "no"]

Mishap(kind) ==
  /\ mishaps["lost"] + mishaps["refused"] < MaxMishaps /\ mishaps' = [mishaps EXCEPT ![kind] = @ + 1]
IsCurrent(w) == TaskRow.status = "assigned" /\ loop[w].attempt = TaskRow.attempts
KnowsItsSession(w) == session[node_id[w]] = w

-------------------------------------------------------------------------------
(* The coordinator's handlers. *)

\* The token in the row is new, whether the process hears of it or not: whoever worked under this node id
\* has lost its session. The node's task stays as it is.
handle_register(w, reply, heard) ==
  \/ /\ reply = "welcome"
     /\ session' = [session EXCEPT ![node_id[w]] = IF heard THEN w ELSE "nobody"]
     /\ UNCHANGED tables
     /\ rotations' = IF rotations < 3 /\ \E v \in Processes : IsCurrent(v) /\ node_id[v] = node_id[w] /\ KnowsItsSession(v)
                     THEN rotations + 1 ELSE rotations
  \/ reply = "refused" /\ UNCHANGED <<session, tables, rotations>>

\* Refused: the statement fails, or the bundle cannot be read and the task is put back.
handle_claim(w, reply) ==
  /\ UNCHANGED session /\ rotations' = IF reply = "task" THEN 0 ELSE rotations
  /\ \/ reply = "401" /\ ~KnowsItsSession(w) /\ UNCHANGED tables
     \/ reply = "idle" /\ KnowsItsSession(w) /\ Store!Claimable = {} /\ UNCHANGED tables
     \/ reply = "task" /\ KnowsItsSession(w) /\ Store!claim_task(node_id[w], Replica)
     \/ reply = "refused" /\ KnowsItsSession(w) /\ UNCHANGED tables
     \/ /\ reply = "refused" /\ KnowsItsSession(w) /\ Replica \in Store!Claimable
        /\ gridTasks' = [gridTasks EXCEPT ![Replica] = Store!Released([TaskRow EXCEPT !.attempts = @ + 1])]
        /\ gridJobs' = [gridJobs EXCEPT ![GridJob] = [status |-> "running", aged |-> FALSE]]

\* Only from the node the row names; a row that is finished is acknowledged; an envelope that does not
\* decode, is too large or cannot be stored, or a statement that fails, is a refusal.
handle_result(w, ok, reply) ==
  /\ UNCHANGED <<session, rotations>>
  /\ \/ reply = "401" /\ ~KnowsItsSession(w) /\ UNCHANGED tables
     \/ reply = "403" /\ KnowsItsSession(w) /\ TaskRow.assignee # node_id[w] /\ UNCHANGED tables
     \/ /\ reply = "ack" /\ KnowsItsSession(w) /\ TaskRow.assignee = node_id[w]
        /\ IF Store!Live(Replica) THEN Store!finish_task(Replica, ok) ELSE UNCHANGED tables
     \/ reply = "refused" /\ KnowsItsSession(w) /\ TaskRow.assignee = node_id[w] /\ Store!Live(Replica) /\ UNCHANGED tables

\* Of the requests still to be handled (rest), those with the old token of a node that has registered are void.
Handle(r, reply, heard, rest) ==
  /\ \/ r.kind = "register" /\ handle_register(r.from, reply, heard)
     \/ r.kind = "claim" /\ handle_claim(r.from, reply)
     \/ r.kind \in {"result", "failure"} /\ handle_result(r.from, r.kind = "result", reply)
  /\ late' = IF reply = "welcome" THEN {q \in rest : node_id[q.from] # node_id[r.from]} ELSE rest

\* http::request: what the process gets; "none" is a transport error, whatever became of the request.
Request(w, kind, got) == LET r == [from |-> w, kind |-> kind] IN
  \/ got \in {"welcome", "task", "idle", "ack", "401", "403"} /\ Handle(r, got, TRUE, late) /\ UNCHANGED mishaps
  \/ got = "refused" /\ Handle(r, got, TRUE, late) /\ Mishap("refused")
  \/ /\ got = "none" /\ Mishap("lost")
     /\ \/ late' \in {late, {q \in {r} : kind # "register"}} /\ UNCHANGED <<session, tables, rotations>>
        \/ \E reply \in {"welcome", "task", "ack"} : Handle(r, reply, FALSE, late)

HandlesLate ==
  /\ \E r \in late, reply \in {"welcome", "task", "idle", "ack", "401", "403"} : Handle(r, reply, FALSE, late \ {r})
  /\ UNCHANGED <<node_id, loop, mishaps, left>>

-------------------------------------------------------------------------------
(* The program. *)

Goes(w, at) == loop' = [loop EXCEPT ![w].at = at] /\ UNCHANGED <<node_id, left>>
LetsGo(w, at, how) ==
  /\ loop' = [loop EXCEPT ![w] = [at |-> at, attempt |-> 0, tries |-> 0]] /\ UNCHANGED node_id
  /\ left' = IF IsCurrent(w) THEN [attempt |-> TaskRow.attempts, how |-> how] ELSE left

\* run, until it is registered: a refusal, or a transport error once the time is up, ends it. It is started
\* again, as long as there is work (a bound).
registers(w) == \E got \in {"welcome", "refused", "none"} :
  /\ loop[w].at = "off" /\ Store!Live(Replica)
  /\ Request(w, "register", got) /\ Goes(w, IF got = "welcome" THEN "polling" ELSE "off")

claim(w) == \E got \in {"task", "idle", "401", "refused", "none"} :
  /\ loop[w].at = "polling" /\ Request(w, "claim", got)
  /\ \/ got = "task" /\ loop' = [loop EXCEPT ![w] = [at |-> "training", attempt |-> gridTasks'[Replica].attempts, tries |-> 0]]
        /\ UNCHANGED <<node_id, left>>
     \/ got = "401" /\ Goes(w, "expired")
     \/ got \in {"refused", "none"} /\ Goes(w, "polling")
     \/ got = "idle" /\ Goes(w, IF Store!Live(Replica) THEN "polling" ELSE "off")

\* The 401 of a claim: one registration, then the claim again or, when that fails, the next round of the loop.
renews(w) == \E got \in {"welcome", "refused", "none"} :
  loop[w].at = "expired" /\ Request(w, "register", got) /\ Goes(w, "polling")

run_task(w) ==
  /\ loop[w].at = "training" /\ (Goes(w, "reporting") \/ Goes(w, "failing"))
  /\ UNCHANGED <<session, tables, late, mishaps, rotations>>

\* Mutant of Tries.
TwoTries == 2
\* How often the loop of run_task sends the result.
Tries == 3

\* An attempt to report is over: the next one, or the task is dropped.
NextTry(w) == IF loop[w].tries + 1 < Tries
              THEN loop' = [loop EXCEPT ![w].at = "reporting", ![w].tries = @ + 1] /\ UNCHANGED <<node_id, left>>
              ELSE LetsGo(w, "polling", "trained")

report_result(w) == \E got \in {"ack", "401", "403", "refused", "none"} :
  /\ loop[w].at = "reporting" /\ Request(w, "result", got)
  /\ \/ got = "none" /\ NextTry(w)
     \/ got = "401" /\ Goes(w, "rotated")
     \/ got \in {"ack", "403", "refused"} /\ LetsGo(w, "polling", "trained")

\* register_with_retry in the middle of a report; the attempt that met the 401 is used up.
re_register(w) == \E got \in {"welcome", "refused", "none"} :
  /\ loop[w].at = "rotated" /\ Request(w, "register", got)
  /\ \/ got = "welcome" /\ NextTry(w)
     \/ got = "none" /\ Goes(w, "rotated")
     \/ got # "welcome" /\ LetsGo(w, "polling", "trained")

\* One request, and whatever comes of it the loop goes on.
report_failure(w) == \E got \in {"ack", "401", "403", "refused", "none"} :
  loop[w].at = "failing" /\ Request(w, "failure", got) /\ LetsGo(w, "polling", "untrained")

\* A signal, --once, --idle-exit or --max-jobs, at the top of the loop.
say_goodbye(w) == loop[w].at = "polling" /\ Goes(w, "off") /\ UNCHANGED <<session, tables, late, mishaps, rotations>>

Dies(w) ==
  /\ loop[w].at # "off" /\ UNCHANGED <<session, tables, late, mishaps, rotations>>
  /\ IF loop[w].attempt > 0 THEN LetsGo(w, "off", "died") ELSE Goes(w, "off")

\* No heartbeat of the node got through for --node-ttl seconds, or its goodbye did.
expire_nodes(n) ==
  /\ TaskRow.status = "assigned" /\ TaskRow.assignee = n
  /\ gridTasks' = [gridTasks EXCEPT ![Replica] = Store!Released(@)]
  /\ UNCHANGED <<node_id, loop, session, gridJobs, late, mishaps, rotations, left>>

GridWorkerNext ==
  \/ HandlesLate
  \/ \E w \in Processes :
       \/ registers(w) \/ claim(w) \/ renews(w) \/ run_task(w) \/ report_result(w) \/ re_register(w)
       \/ report_failure(w) \/ say_goodbye(w) \/ Dies(w) \/ expire_nodes(w)

\* Nothing reads the deadline of an assigned task, so a task that nobody has stays assigned as long as its node is
\* heard of. It comes to that only when the reply to its claim got lost, when its process was killed, when the failure
\* report met with anything at all, or when a trained result was refused, failed three times, or met a session taken
\* by another registration and then no answer (run_task, report_failure and claim of worker.cpp, handle_result).
LetGoOnlyForAReason ==
  (TaskRow.status = "assigned" /\ ~\E w \in Processes : IsCurrent(w)) =>
    IF left.attempt # TaskRow.attempts THEN mishaps["lost"] > 0
    ELSE \/ left.how = "died"
         \/ left.how = "untrained" /\ mishaps["lost"] + mishaps["refused"] + rotations > 0
         \/ left.how = "trained" /\ mishaps["refused"] > 0
         \/ left.how = "trained" /\ mishaps["lost"] + rotations >= 3
         \/ left.how = "trained" /\ mishaps["lost"] > 0 /\ rotations > 0
=============================================================================
