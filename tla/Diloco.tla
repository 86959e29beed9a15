--------------------------------- MODULE Diloco ---------------------------------
(* DiLoCo outer rounds (legacy/services_python/diloco.py, fed by the gRPC     *)
(* handler of grpc_service.py). A pseudo-gradient is who sent it, which of    *)
(* its submissions it is and the canonical weights it was computed from;      *)
(* canonical weights are named by how many outer steps made them.             *)
EXTENDS Naturals, Sequences, FiniteSets, Functions

CONSTANTS Workers, MinWorkers, MaxSends   \* MaxSends bounds the submissions of a worker

ASSUME DilocoAssumption == MinWorkers \in Nat \ {0}

VARIABLES job,        \* the registered job: its round, weights and buffer
          stepped,    \* per outer step: the pseudo-gradients it averaged
          writing,    \* rounds whose weights file is being written
          announced,  \* rounds broadcast as complete
          runner,     \* per worker: its weights, whether a round is on, its submissions
          sending     \* pseudo-gradients whose blob is being loaded
dilocoVars == <<job, stepped, writing, announced, runner, sending>>

Unregistered == [round |-> 0, weights |-> 0, pending |-> <<>>, on |-> FALSE]

NewRunner == [weights |-> 0, started |-> FALSE, sent |-> 0]
DilocoInit ==
  /\ job = Unregistered /\ stepped = <<>> /\ writing = {} /\ announced = {} /\ sending = {}
  /\ runner = [w \in Workers |-> NewRunner]

\* An administrator registers the job; doing it again starts it over.
Registered == [Unregistered EXCEPT !.on = TRUE]
register_job ==
  /\ job' = Registered
  /\ UNCHANGED <<stepped, writing, announced, runner, sending>>

\* A runner takes the canonical weights, and remembers where its inner loop starts from.
on_round_start(w) ==
  /\ job.on /\ ~runner[w].started
  /\ runner' = [runner EXCEPT ![w].weights = job.weights, ![w].started = TRUE]
  /\ UNCHANGED <<job, stepped, writing, announced, sending>>
run_inner_loop(w) ==
  /\ runner[w].started /\ runner[w].sent < MaxSends
  /\ runner' = [runner EXCEPT ![w].sent = @ + 1]
  /\ sending' = sending \cup {[by |-> w, nth |-> runner[w].sent + 1, from |-> runner[w].weights]}
  /\ UNCHANGED <<job, stepped, writing, announced>>
\* New weights replace the local ones whatever their round; the runner waits for a start.
on_round_complete(w, round) ==
  /\ round \in announced
  /\ runner' = [runner EXCEPT ![w].weights = round + 1, ![w].started = FALSE]
  /\ UNCHANGED <<job, stepped, writing, announced, sending>>

\* The handler drops a report whose blob cannot be loaded or has the wrong shapes.
Dropped(p) ==
  /\ p \in sending /\ sending' = sending \ {p}
  /\ UNCHANGED <<job, stepped, writing, announced, runner>>

\* The claim of aggregate_and_step: the buffer is emptied and the round id moves on in one step.
\* (KeepsTheBuffer forgets the first.)
Buffered(p) == [w \in {p.by} \cup DOMAIN job.pending |-> IF w = p.by THEN p ELSE job.pending[w]]
ready_to_aggregate(pending) == Cardinality(DOMAIN pending) >= MinWorkers
KeepsTheBuffer(pending) == [job EXCEPT !.pending = pending, !.round = @ + 1, !.weights = @ + 1]
Claimed(pending) == [job EXCEPT !.pending = <<>>, !.round = @ + 1, !.weights = @ + 1]

\* A loaded pseudo-gradient is buffered, the last one of a worker counting, and the round is
\* aggregated when enough workers have one; there is no await between the two.
_handle_diloco_pseudo_gradient(p) ==
  /\ job.on /\ p \in sending /\ sending' = sending \ {p}
  /\ IF ready_to_aggregate(Buffered(p))
     THEN /\ job' = Claimed(Buffered(p)) /\ writing' = writing \cup {job.round}
          /\ stepped' = Append(stepped, Range(Buffered(p)))
     ELSE job' = [job EXCEPT !.pending = Buffered(p)] /\ UNCHANGED <<writing, stepped>>
  /\ UNCHANGED <<announced, runner>>

\* A weights file is written in a thread and its round broadcast: a later one may come first.
Broadcast(round) ==
  /\ round \in writing /\ writing' = writing \ {round} /\ announced' = announced \cup {round}
  /\ UNCHANGED <<job, stepped, runner, sending>>

DilocoNext ==
  \/ register_job
  \/ \E w \in Workers : on_round_start(w) \/ run_inner_loop(w) \/ \E round \in announced : on_round_complete(w, round)
  \/ \E p \in sending : _handle_diloco_pseudo_gradient(p) \/ Dropped(p)
  \/ \E round \in writing : Broadcast(round)

-----------------------------------------------------------------------------
\* However late and in whatever order pseudo-gradients arrive, each is averaged in at most one
\* outer step, and every outer step has one of each of at least MinWorkers workers
\* (submit_pseudo_gradient, aggregate_and_step, maybe_aggregate).
EachPseudoGradientCountsOnce ==
  \A i \in DOMAIN stepped :
    /\ Cardinality({p.by : p \in stepped[i]}) = Cardinality(stepped[i])
    /\ Cardinality(stepped[i]) >= MinWorkers
    /\ \A j \in DOMAIN stepped : i # j => stepped[i] \cap stepped[j] = {}
=============================================================================
