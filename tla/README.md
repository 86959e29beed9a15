# TLA+ models of the DistribAI grid

DistribAI is a volunteer training grid. One coordinator (`distribai_orch`) keeps
jobs, tasks, nodes and a credit ledger in SQLite; workers (`distribai_worker`)
register over HTTP, claim one replica of a job at a time, train it in a
resource-limited child process and report a gradient envelope; the coordinator
aggregates the replicas' gradients and pays the contributors. That is the C++ under
`src/tools/cpp_port/grid/`. Beside it the repository keeps `src/legacy/`, an earlier
grid in Python with many more parts: an orchestrator over gRPC and HTTP, a worker
daemon, ledgers, votes, federated training, desktop applications and tools. Both are modelled.

## 1. The system

### Components, their state and their operations

| component | state | operations |
|---|---|---|
| **Store** (`grid/store.cpp`, `runtime/db/schema.sql`) | tables `active_nodes`, `jobs`, `tasks`, `credit_ledger`; one mutex held by every method | upsert_node, heartbeat, expire_nodes, create_job, update_job, claim_finalization, task_counts, claim_task, finish_task, requeue_task, add_credit, listings |
| **Coordinator** (`grid/orchestrator.cpp`) | files `jobs/<id>/bundle`, `jobs/<id>/{aggregate.env,result.json}`, `tasks/<id>.env`; locals of request threads | handle_register/heartbeat/claim/result/bye/submit/cancel, Grid::submit, maybe_finalize, finalize, reap |
| **Worker** (`grid/worker.cpp`) | session token, current task, scratch directory | register_with_retry, claim, run_task, report (3 tries), report_failure (1 try), heartbeat thread, say_goodbye |
| **HTTP** (`grid/http.hpp`, `http_client.hpp`) | listening socket, one detached thread per connection | serve, handle, close_listen; write_file, read_file |
| **Protocol, base64** | lazily filled static decode table | JSON fields, encode, decode |
| **Envelope** (`core/envelope.*`) | none | encode, decode, typed getters |
| **Checkpoint** (`core/checkpoint.hpp`) | `.ckp` files | save, load, restore, retain |
| **Multi-model pool** (`core/multi_model.hpp`) | shared atomic index | train_all, aggregate |
| **Sandbox** (`sandbox/sandbox.hpp`) | child process, pipe | run_sandboxed |
| numeric core, LibTorch trainer, C ABI, GPU shim, apps | | floating-point computation and command lines |
| gridlink (`tools/gridlink`) | tunnel processes, links | expose, share, join |
| trainer_translate | a capture process, a job directory | capture, convert, write |

The Python grid (`SP` is `legacy/services_python`, `D` is `legacy/worker/src/daemon`):

| component | state | operations |
|---|---|---|
| **tables** (`SP/db`) | jobs, tasks, nodes with leases and attempts | create, assign, complete, pause, resume, cancel, retry, sweeps |
| **node service, scheduler, admin** (`SP/grpc_service.py`, `orchestrator_grpc.py`, `scheduler.py`, `admin_api`) | connected nodes and their queues, pending assignments | stream handlers, scheduling loop, lease sweep, pay, handlers |
| **worker daemon** (`D/daemon.py`, `state.py`, `registration.py`) | current job, tokens, state file, a deferred benchmark | connect, register, assignments, controls, report |
| **training** (`D/executor.py`, `gradient_compression.py`, `diloco_runner.py`, `grpo_runner.py`; `SP/diloco.py`, `grpo_coordinator.py`) | the saved training state, outer weights, rounds | run, resume, pause, cancel, collect, submit, step |
| **aggregation** (`D/byzantine_detector`, `SP/grpc_service.py`) | gradients by node, reputations | detect, filter, average |
| **scripts** (`D/script_runner.py`, `worker/src/sandbox`) | processes, containers, task directories | run, time out, cancel |
| **credits, staking, votes** (`D/credit_ledger.py`, `voting_system.py`, `SP/credit_transfers.py`, `db/_credits.py`) | hash chain, Merkle batches, SQL rows, delegations | earn, transfer, stake, slash, vote, delegate |
| **admission** (`SP/rate_limiter.py`, `poc_challenge.py`, `sybil_detector.py`) | buckets, challenges, accounts | allow, challenge, verify, register |
| **HTTP job queue** (`SP/job_submission.py`, `database.py`) | two asyncio locks, tables | submit, cancel, distribute |
| callbacks, updates, monitoring, event streams, key-value store, migrations, schedule, benchmark suite, command line, both desktop windows, client library | one module each, see below | |

### How they interact

The coordinator is the only stateful piece. Every HTTP request runs on its own
thread, a maintenance thread calls `Grid::reap` every two seconds (docs/architecture.md
says 20; the loop in `main` sleeps twenty times 100 ms), and all of them share one
`Store`. A Store method is atomic, but **a handler is several Store calls and file
accesses with nothing held between them**. Files are written in place
(`std::ios::trunc`), and results of file writes are checked for envelopes only.
Nodes prove their liveness by heartbeats; a node silent for `--node-ttl` seconds
loses its tasks to the queue, up to `max_attempts` times.

### What is hard

* A job must be finalized by exactly one thread, although result requests and the
  sweep notice its end at the same time; that thread may die with the process, and
  the sweep then retries a row that has been `finalizing` for more than 30 s.
* Handlers act on rows they read earlier: `handle_result` calls `finish_task` after
  writing a file, `reap` writes back its own copy of a job row, `handle_cancel`
  overwrites the status unconditionally, `requeue_task` looks at nothing.
* Money: the ledger has no key by job, so every retry pays again.
* Tasks only come back when a node falls silent; the lease written by `claim_task`
  is read by no code. So a worker must not let go of a task unnoticed, whatever replies
  get lost and whoever else registers under its node id.
* In the Python grid the handlers share one event loop but a database call is awaited
  in a thread: a handler that is cancelled leaves its call running, a node can reconnect
  while the server tears down its old stream, and the scheduler assigns from lists it
  read before its last await.
* State is kept twice: credits in rows and in a signed ledger, tokens in memory
  and in a file, training state in a file that a later run resumes from.

For each component what makes it correct: Store and Coordinator — one owner per
finalization, one payment per replica, closed jobs stay closed and hold no live
task, results before credits, every exhausted job closes, silent nodes lose their
tasks. Worker — trained work is reported or failed, a task it holds is known to it.
HTTP — a stop request ends the process. base64 — a valid text decodes. Sandbox — the
outcome is classified as what happened. Checkpoint — retain keeps the newest of its
own model. Envelope — decode never reads out of bounds and inverts encode.

## 2. Modules

| module | what it is |
|---|---|
| `GridStore` | the tables, and each method of `Store` as an action or state function |
| `Coordinator` | the threads: every handler, the maintenance thread, crashes, stalls, disk errors; all properties |
| `JobLifecycle` | the abstract specification: what a job goes through, without tables, threads and snapshots |
| `JobRefinement` | the mapping from `Coordinator` to `JobLifecycle` |
| `MCCoordinator` | symmetry for TLC, and the restricted specification of one run |
| `CoordinatorProofs` | theorems about `Coordinator` and their TLAPS proofs |
| `JobLifecycleProofs` | what follows from `JobLifecycle` alone |
| `JobRefinementProofs` | the proof that `Coordinator` implements `JobLifecycle`, and what it inherits |
| `GridWorker` | the C++ worker's loop over the tables of `GridStore`, with lost and late requests |
| `DBManager` | the Python grid's rows, one action per method of `SP/db` |
| `NodeService` | node service, scheduler and admin handlers over `DBManager` |
| `WorkerDaemon` | the Python worker daemon, composed with `NodeService` |
| `MCGrid` | small instances of that composition |
| `JobQueue`, `JobDatabase` | the HTTP job queue with its two locks; the tables behind it |
| `Voting`, `CreditLedger`, `Credits`, `Staking` | proposals and delegation; the signed ledger; SQL rows and transfers; stakes and vesting, over the ledger |
| `Executor`, `TrainingData`, `Diloco`, `Grpo`, `Aggregation` | the training loop; its windows and gradients; both kinds of rounds; robust averages |
| `Admission`, `WorkerSession`, `Callbacks`, `ScriptHost` | how a machine becomes a node; connecting, the state file and deferred benchmarks; the end of a job told outside; scripts and sandboxes |
| `Schema`, `Schedule`, `KeyValueStore`, `Updates` | migrations; time slots; the store with a fallback in memory; updates |
| `NodeGui`, `ServerGui`, `Console`, `ClientSdk` | both windows, the command line, the client library |
| `Benchmarks`, `Monitoring`, `EventStreams` | the benchmark suite, samples and logs, the limits of event streams |
| `Gridlink`, `TrainerTranslate` | tunnels and links; training scripts turned into jobs |
| `MCParts` | the components that share no state, one at a time |
| `GridProofs`, `GridWorkerProofs` | theorems about the Python grid, and about the C++ worker's custody of a task |
| `PartsProofs` | theorems about nine components: Voting's delegations, Callbacks, ScriptHost, Executor, Diloco, Schema, Admission, Schedule, TrainingData |
| `SumProofs` | lemmas about sums and joined sequences; theorems about Voting's credits, Credits, Grpo and Aggregation |

### GridStore

A node row is its status (`idle` and `busy` are one, no code tells them apart) and
whether its heartbeat is older than the ttl (`quiet`). A job row is its status and
whether it has been `finalizing` for more than 30 s (`aged`). A task row is
status, assignee and attempt count. A ledger row is the paid node and, for the
properties, the task. Left out, because no condition depends on them: session tokens
(a request with a wrong token is refused and changes nothing), hardware and
benchmark JSON, reliability counters, progress columns, amounts, balances and the hash
chain, SQL errors. Tasks are pairs of job and replica, ordered like the
`ORDER BY created_ts, task_id` of `claim_task`.

### Coordinator

`pc[p]` names the next Store call or file access of thread `p`; `job`, `task`,
`node`, `todo`, `pay` are its locals. A handler whose first call already decides
everything is one action (`handle_register`, `handle_heartbeat`, `handle_bye`,
`handle_submit`); the others are chains:

| code | actions |
|---|---|
| handle_claim | `handle_claim` → `claim_reply` or `claim_requeue` |
| handle_result | `handle_result` → (`open_envelope` → `write_envelope`) → `finish_result` → maybe_finalize |
| maybe_finalize | `read_job` → `task_counts` → `claim` → finalize or `close_failed` |
| finalize | `finalize_tasks` → `finalize_write` → `finalize_pay`* → `finalize_paid` → `finalize_close` |
| handle_cancel | `handle_cancel` → `cancel_tasks` → `cancel_task`* → `cancel_close` |
| reap | `reap_expire` → `reap_jobs` → `reap_visit`* → `reap_done`, with maybe_finalize inside a visit |

The reaper's snapshot of the job rows is `sweep`, `seenFin`, `seenAged`: its copy of
`updated_ts` ages while it is busy with other jobs. `envelope[t]` is the file of task
`t` (`torn` from the truncation to the last byte, `empty` when it decodes without
gradients) and who wrote it, `published` the jobs with a result on disk. `handed`
records which node was sent which task: a worker reports only those, but any number
of times and at any time. Time is `node_goes_quiet` and `job_ages`.

Faults are switched by constants: `CanCrash` (the process dies between any two steps
and starts again; `Store::open` repairs nothing), `CanStall` (a finalization or
a sweep lasts longer than 30 s), `FileErrors` (a bundle is unreadable, an envelope or
a result cannot be written). `MaxFaults` bounds crashes and stalls; it is the only
artificial bound, and the theorems hold for every value of it. Two consequences: the sweep's copy of a row ages only where `CanStall`
allows it, so that a stale copy written back is covered by `faults` (PaidPerFault) and not by OneOwner, ClosedStaysClosed and
ImplementsLifecycle, which hold only without stalls; and ResultComesFirst is checked without `FileErrors`, because a result whose
write fails is paid for all the same.

### JobLifecycle and JobRefinement

`JobLifecycle` is what the coordinator promises of a job: it is open until somebody
claims it; a claimed job has one owner, which publishes the result, pays each
contributor it took down once, and closes the job; an owner may die at any point, and only a
`finalizing` job without owner is opened again. A cancel takes effect at any time and does
not stop an owner: that is what the code does, not what the documentation says (see
the run `cancel_race`). `JobRefinement` maps the coordinator's state to it. The phase
is the status column with `queued` and `running` merged; the owner and what it owes are read off
the program counter, `job` and `pay` of the thread that won the claim; the payments
are the tasks of the ledger rows; the deaths are the crashes. Every Store call that
is not a claim, a write of the result, a credit or a status change is a stuttering step.

### GridWorker

`loop[w]` is where a process is: `polling`, `expired` (a claim met 401), `training`,
`reporting` with its tries, `rotated` (a report met 401), `failing`, `off`. `session`
says whose token the node's row holds; a registration whose reply is lost leaves it
with nobody. A request is answered, or its reply is lost, or it is lost, or it stays in
`late` and is handled after its sender gave it up. The tables are an instance of
`GridStore`; which node a sweep finds silent is left open, so heartbeats need no state.
Two processes have a node id each or share one, which the comment in `run_task`
("two workers sharing a node id do that") provides for.

### DBManager, NodeService, WorkerDaemon

`DBManager` has the rows and one action per method (a method is one transaction).
`NodeService` has what lives on the event loop: `connected` (whose queue a node has),
`sess` and `hand` (each stream and where its handler waits), `up` and `down` (messages under
way), `sched` (what the scheduler read before its last await), and `orphans`: database
calls in a thread whose handler was cancelled, which still finish. `WorkerDaemon` adds
the daemon at the other end of each stream. `MaxTrouble` bounds broken streams, stalls,
crashes, full disks and operator commands, `MaxQueue` the messages of a stream. `QueueOrder` is
the key by which `get_queued_tasks` sorts (priority, votes, age, offset); the scheduler holds what it
read as a set and takes the first by that key, whatever happened to it since. Three simplifications: `update_task_result` is two transactions in
the code, of which the first only fills in a missing assignee, and one action here; a task that no idle node fits is passed over
(scheduler.py:97), while in `AssignNext` some node always fits; the ways a registration is refused (grpc_service.py:245-263) are one, though only some of
them answer.

### The components of MCParts

Twenty-seven modules whose components share no state with one another, or only through a
call that each side sees as an input. `MCParts` explores them in one run: a behaviour picks
a part at the start and the other parts stay in one fixed initial state. One at a time
loses nothing, because no action of one reads or writes a variable of another, and it
does not multiply their states. Each module's head comment says what its state stands
for. What they have in common: a call that awaits or leaves a lock is split there, files
and processes survive a crash and memory does not, time is a counter or a nondeterministic
expiry, numbers are small integers with the code's rounding, texts are members of small sets.

Three definitions are stated differently from the loops they stand for. `_would_create_cycle` of `Voting`
walks from delegate to delegate; in the model the walk meets somebody if every set that is closed under
"delegates to" and holds its start holds that person too. `_build_tree` of `CreditLedger` is a function over the
levels of the Merkle tree, and hashes are perfect: `Sha256` of a text or of a pair holds the text or the pair and is neither. `Rank` of `Aggregation` counts
who comes before instead of sorting, with the position deciding between equals as a stable sort does.

## 3. What is checked

| run | instance | what it shows |
|---|---|---|
| `races` | 2 nodes, 2 request threads, 1 job, 1 replica, 2 attempts | TypeOK, TaskRowsConsistent, OneOwner, PaidOnce, ClosedJobHasNoLiveTask, ClosedStaysClosed under all interleavings |
| `replicas` | 1 node, 2 request threads, 1 job, 2 replicas, 1 attempt | ClosedJobHasNoLiveTask, PaidOnce |
| `crashes` | 1 node, 1 thread, 2 replicas, 1 crash | OneOwner, ResultComesFirst, PaidPerFault, ClosedStaysClosed, ImplementsLifecycle |
| `faults` | 2 nodes, 1 thread, 2 attempts, disk errors, 1 crash or stall | TypeOK, TaskRowsConsistent, PaidPerFault |
| `closing` | 1 node, 1 thread, 2 attempts, 1 crash, fairness | ExhaustedJobCloses, SilentNodeLosesTask |
| `cancel_race` | 1 node, 2 threads | **violated**: CancelIsFinal |
| `paid_twice` | 1 node, 1 thread, 1 crash | **violated**: PaidOnce |
| `swept_past` | 2 jobs, a sweep of 1 row, fairness | **violated**: ExhaustedJobCloses |
| `unpaid` | 1 node, 2 threads | **violated**: TrainedReplicaIsPaid |
| `grid` | the Python grid: 1 node, 2 streams, a job of 2 tasks or a scripted one of 1 task tried twice, 1 trouble, fairness | GridTypeOK, JobRowAgreesWithTasks, AttemptBudget, PaidPerDelivery, RunningEnds |
| `parts` | 27 components, one at a time, fairness | the properties of the next table |
| `queue` | 2 submissions, a cancel, the distributor, fairness | **violated**: QueuedJobIsSeen |

| properties of `parts` | what they say |
|---|---|
| LetGoOnlyForAReason | a task nobody has stays assigned only after a lost claim reply, a death, a failure report that met with anything, or a result that was refused, failed three times, or met a session taken over and then no answer |
| DelegationIsAForest, VotesArePaidFor | delegation has no cycle and its two indexes agree; what is spent is what the votes, proposals and boosts cost, and a boost without a row is under way or met a job that had been deleted |
| ProofsVerify | every record's Merkle proof verifies what the record's hash was made of and nothing else, at its place and not at the next, at every size; `verify_record` accepts it, and not the data alone |
| DriftNeedsAFailure, TransfersConserve | rows and signed ledger agree unless a write failed, and always after a boot; transfers make no credits and leave no trace when rolled back |
| SuccessWentThroughEachStepOnce | the weights behind a reported success went through every step exactly once, taken at a learning rate above zero or, under fp16 only, skipped by the scaler, over crashes, resumes and retries; no more updates were broken off halfway than the retries allow |
| EachPseudoGradientCountsOnce, AdvantagesAreOfTheLastReport | late and repeated submissions: no pseudo-gradient in two steps; the advantages a GRPO worker is sent are those of its own last report on that round |
| AggregateLiesBetweenItsSources, EveryWindowHasItsTarget | averages and windows at their edges: few, even or filtered gradients, the shortest texts |
| AdmissionIsEarned | one token per challenge, no crowded address, no address over its rate |
| RequestedBenchmarkRuns | (liveness) a benchmark request that reached the worker is served, whatever comes between, unless the worker stops or stays for ever on a job that never reports |
| EndIsTold | once no call is left to look, the end of a job has been told, whoever raced for it, unless a sweep gave it or the very call that should tell it failed or died |
| OutlivesOnlyWithoutAHandle | a script process outlives its task only when nobody had its handle |
| RecordedMeansApplied | a recorded migration has its tables, over concurrent runs and deaths |
| ActiveWhenShown | a slot is active exactly when the page says so |

**Why these bounds.** The maintenance thread is always there, so one request thread
already gives two finalizers, and two give a cancel, a result and a sweep at once. Two
nodes are what it takes for a task to move from one to another; two attempts for a
requeue and a last failure; two replicas for a job that is half done. One crash is
enough for a double payment, one stall for a second owner. The sweep's limit is
200 in the code; a limit of 1 with two jobs is the same situation as 200 with 201.
Nodes and threads are interchangeable and reduced by symmetry in the safety runs, not in
those with liveness. The C++ runs check for deadlock; `grid`, `parts` and `queue` do not,
because there the system may come to rest (a window is closed, a job is done).

One node with two streams is what a reconnect takes, and one trouble is one broken stream or
one command in every place where it can come. `parts` gives each component the least its
property needs: three voters for a chain of delegations, two workers for a round, two
processes of the C++ worker with three mishaps so that all three tries can fail, up to five
records for odd levels of the Merkle tree, token counts on both sides of each threshold. `LetGoOnlyForAReason`
is checked there with tasks that are tried once; with two and three attempts, 144,403 and about 480,000 states,
it holds too.

**Fairness.** `FairSpec` assumes weak fairness of each running thread (the kernel
schedules it, a Store call returns), of the maintenance loop (it loops until the stop
flag), and of `job_ages` (time passes). It assumes nothing of requests, nodes or
operators: nobody has to come back. Crashes are bounded, so a finalizer is eventually
left alone.

`GridFairness` (run `grid`) assumes that the scheduler loop runs on and that a task's deadline
passes in the end; nothing of workers, streams and operators: `RunningEnds` holds because the sweep gives up what nobody
finishes. `WorkerSessionFairness` (run `parts`) assumes that the daemon's loop connects and
registers, that the server acknowledges, that a benchmark ends (the runner has a timeout) and that a job that can still
report does. It does not assume that every job reports: a cancelled script, one whose run raises and a GRPO round whose completion
is not sent or is lost keep `_current_job` set (`silent`), and `RequestedBenchmarkRuns` is claimed only where no such job lasts for ever. Nor that a control
message arrives: it is lost with the stream it is queued on, and the request is owed from its arrival on. `JobQueueSpec` (run `queue`) is weakly fair in every step of the event loop, so the counterexample
is a deadlock of two coroutines and not a program that stopped.

**The five disagreements.**

* `cancel_race`: docs/architecture.md says a cancelled job "never reopens and never
  writes a result". `handle_cancel` reads the job, fails its tasks and then writes
  `cancelled` whatever the row holds; `finalize` writes its result and `completed` the
  same way. A result request that has won the claim in between publishes after the
  cancel, or replaces `cancelled` by `completed`.
* `paid_twice`: the docs say the conditional claim means the grid "cannot pay twice".
  A process that dies between `add_credit` and `completed` is retried after
  30 s, and every contributor is paid again.
* `swept_past`: README.md says "A job with no surviving replica fails with a reason
  instead of hanging". `reap` looks at the newest 200 jobs; an older one whose
  last worker falls silent stays `running` for ever.
* `unpaid`: the comment in `finalize` says a worker that trained a replica is paid.
  If `expire_nodes` releases the task after `handle_result` has checked the row,
  `finish_task` writes `done` on a row without assignee. The run excludes workers
  that said goodbye (`StaySpec`): the node here is alive, only its heartbeats are late.
* `queue`: the distributor of the HTTP job queue is documented to "continuously assign tasks to
  nodes". `create_job` awaits `get_job` inside the asyncio lock that `get_job` takes: the first
  submission never returns, and keeps the queue's lock for ever.

## 4. What is proved

### The C++ coordinator

`CoordinatorProofs`, `JobLifecycleProofs` and `JobRefinementProofs` show, for any sets of nodes and threads and any
numbers of jobs, replicas, attempts and faults (assumptions `StoreAssumption`, `CoordinatorAssumption`):

| theorem | condition | statement |
|---|---|---|
| `TypeCorrect` | | `Spec => []TypeOK` |
| `RowsConsistent` | | `Spec => []TaskRowsConsistent` |
| `OneOwnerAtATime` | `~CanStall` | `Spec => []OneOwner` |
| `ClosedForGood` | `~CanStall` | `Spec => ClosedStaysClosed` |
| `NoLiveTaskLeft` | `~FileErrors` | `Spec => []ClosedJobHasNoLiveTask` |
| `PublishedFirst` | `~FileErrors` | `Spec => []ResultComesFirst` |
| `PaidAtMostOnce` | `~CanCrash`, `~CanStall` | `Spec => []PaidOnce` |
| `Refinement` | `~CanStall` | `Spec => ImplementsLifecycle` (`Coordinator` implements `JobLifecycle`) |
| `PaidPerDeathHolds` | | `JobLifecycle!Spec => []PaidPerDeath` |
| `PaidPerCrash` | `~CanStall` | `Spec => []PaidPerFault`, through the refinement |
| `PaidPerFaultHolds` | | `Spec => []PaidPerFault` |

The conditions are needed: a stall gives a job a second owner, an unreadable bundle
requeues a task whose job was cancelled meanwhile, a full disk completes a job without
a result, a crash pays twice.

**The argument.** `TypeInv` (types, consistent rows, arguments present where they are
used) and `SubmittedInv` (nothing works on a job that does not exist) are inductive on
their own. The properties are not. `OneOwner` holds because the claim needs an open
job, so the strengthening `OwnerInv` says that an owned job is not open, that a row
grows old only when nobody owns it, and that no cancel is under way on such a row: only
then does the sweep reopen it. `ClosedJobHasNoLiveTask` needs `LiveInv`: what
`task_counts` saw stays true until the job is closed, because a task becomes live only by
`create_job`, or from an already live row. `ResultComesFirst` needs `PublishedInv` over
the finalizer's program counter. `PaidOnce` needs `PaymentInv`: once a replica is paid
its job is past claiming, and its owner has the replica no longer on its list. Each
invariant is proved step by step, one lemma for each part of `Next`.

`Refinement` needs no invariant beyond these: `OwnerInv` says that whoever the mapping shows as
the owner is the only one, that a claimed job was open and free, and that a reopened one had lost its
owner; `PayInv` that a credit takes exactly one replica off the list. `PaidPerCrash` is proved
one level up: in `JobLifecycle` a replica that can still be paid without another death has been
paid at most `deaths` times (`Budget`), and the coordinator inherits the bound through the
refinement.

The refinement ends where stalls begin: a row swept under a stalled thread has two owners, and both may pay. `PaidPerFaultHolds`
therefore counts in the detailed model itself. `BudgetInv` says of each replica that the payments made, plus the threads that
still have it on their list to pay (`Payers`), plus one if its job may be claimed again, are at most one more than the crashes and
stalls that happened. A claim turns the last into a payer, a payment turns a payer into a payment, and a crash or a stall adds one to the
right. A job counts as claimable from the moment its owner dies or its row has aged, which only a fault brings about; `SeenInv` adds that what a sweep
has once seen in 'finalizing' does not come back by other means. That the payers are finitely many
is a part of the invariant, so the theorem needs no finite set of threads.

### The C++ worker and the Python grid

| theorem | statement |
|---|---|
| `TasksAreLetGoForAReason` (`GridWorkerProofs`) | `[]LetGoOnlyForAReason` |
| `GridTypes`, `JobRowsAgree` (`GridProofs`) | `[]GridTypeOK`, `[]JobRowAgreesWithTasks` |
| `AttemptsAreBounded` (`GridProofs`) | `[]AttemptBudget` |
| `PaidOncePerDelivery` (`GridProofs`) | `[]PaidPerDelivery` |

They hold for every value of the constants that the named assumptions allow: a job for each task and an attempt at least
(`DBAssumption`), queues that take one message at least (`QueueAssumption`), and no program that bears the mark of a
session nobody has (`ProcessesAssumption`). There is no condition on faults: `MaxTrouble` may be anything.

*Custody in the worker.* `LetGoOnlyForAReason` speaks of what happened in the past, and a program that has
tried twice to report must have met with something twice. `GridWorkerInv` therefore keeps an account: the tries of the process
whose the task is, plus one if it does not know its session, never exceed the requests lost plus the registrations of
others since the claim (`Account`). A failed third try then shows that enough was lost.

*Rows of the grid.* `RowsInv` needs, beside the property, that a job's `latest` is a task of its own, and that what travels,
waits in a handler or in an orphaned call is of the right kind (`TypeInv`): a result names a task that exists. The two
are one induction.

*Attempts.* The budget is not inductive alone, because the scheduler assigns from a list it has read. `BudgetInv` says
that a task which is queued, or which a sweep or an operator's retry is about to queue, still has the attempt that this will
cost; assigning uses it, and only an operator's retry adds one.

*Payments.* `CustodyInv` follows each delivery: it is at one place, on its way to the worker, with the worker, on the way back, in
a handler or in an orphaned call. The set of these places is finite, and its size plus the payments made never exceeds the
deliveries (`Covered`): each step moves a place, drops it, or, when it pays, trades it for a payment.

### The components of MCParts

| theorem | statement | what the invariant adds |
|---|---|---|
| `CallbacksTellTheEnd` | `[]EndIsTold` | a job that ended untold, by no sweep and no failing call, has somebody on the way who will tell it |
| `ProcessesAreEnded` | `[]OutlivesOnlyWithoutAHandle` | every process still alive has a reason, and the script that runs is the one `cancel_task` knows |
| `SuccessIsTrained` | `[]SuccessWentThroughEachStepOnce` | the weights in memory and on disk have been through the steps before the next one, and the retries left were not spent on either |
| `PseudoGradientsCountOnce` | `[]EachPseudoGradientCountsOnce` | what is buffered was not averaged before, and comes from one worker each |
| `SlotsAreActiveWhenShown` | `[]ActiveWhenShown` | saved and loaded slots stay within the day; the rest is arithmetic modulo its length |
| `RecordedIsApplied` | `[]RecordedMeansApplied` | what a process has executed of its script is there, and so is what the rows record |
| `TokensAreEarned` | `[]AdmissionIsEarned` | requests served are covered by the capacity and the refills, minus what a bucket still has |
| `WindowsHaveTheirTargets` | `[]EveryWindowHasItsTarget` | the ends of a window, by remainder and minimum |
| `DelegationsFormAForest` | `[]DelegationIsAForest` | types; a new edge that closes a cycle would have been found by the walk |
| `VotesArePaid` | `[]VotesArePaidFor` | for each account: balance and spending are what was earned, and what is proposed, voted, bought and boosted adds up; rows of a job that is gone do not exist, and refused boosts only of such a job (`RowsHaveTheirJob`) |
| `TransfersAreConserved`, `LedgersAgree` | `[]TransfersConserve`, `[]DriftNeedsAFailure` | rows, records, and what is between them: what an open transfer still owes to each ledger |
| `RecordsAreProved` | `[]ProofsVerify` | nothing but the types: it is a fact about trees of any size |
| `AggregatesLieBetween` | `[]AggregateLiesBetweenItsSources` | loaded gradients are payloads; the rest are lemmas about ranks and sums |
| `AdvantagesAreItsOwn` | `[]AdvantagesAreOfTheLastReport` | what a round keeps of a node is its last report on that round so far; the slice that a worker is sent is its part of the joined rewards |

The first nine are in `PartsProofs`, the others in `SumProofs`. They too hold for all values of the constants; the
assumptions say what kind of value a constant is: numbers of attempts, steps, retries and prices are natural numbers
(`UnpackAssumption`, `StepsAssumption`, `VotingAssumption`, `AdmissionAssumption`, `TrainingDataAssumption`), a day has a length and
times lie within it (`ScheduleAssumption`), accounts and workers are finitely many (`CreditsAssumption`, `GrpoAssumption`), `min_workers`
is at least one (`DilocoAssumption`: the coordinator's constructor refuses less), `HostsAssumption` lists the
states of a backend. `AggregationAssumption` takes weights to be positive, which `_result_weight` sees to by falling back to
1, and the trimmed share to be below a half; the code's default is a fifth, and with a half nobody would be left.

*Sums.* `SumFunction` and `MapThenSumSet` are folds, and a fold is a recursive function that CHOOSE gives. Its value on a larger set is
obtained by an induction over the cardinality, with the set of numbers a fact holds for in place of a predicate
(`SetInduction`), because the library's induction theorems take an operator. From it: a sum changes by what one summand
changes, sums are ordered as their summands are, and a weighted mean lies between the least and the greatest. `FlattenSeq`, by which
`finalise_round` joins the rewards of all workers, is treated the same way: the slice that starts behind the parts before it is the part.

*The Merkle tree.* `RecordsAreProved` is an induction over the levels of a tree. A level of two nodes or more is longer than the next, so
every tree has its root at some level (`TreeGrows`). No node is met twice, neither within a level nor on two of them, because equal pairs
have equal first children, down to the leaves (`NodesDiffer`); the search by value therefore finds the one parent
(`ParentFound`), although a last node without a twin is its own sibling. So the walk of `get_proof` climbs one level at a time, through the
places that halving the index gives (`WalkClimbs`), and hashing along it gives each ancestor in turn (`OwnPlace`). At the next place the
first bit differs, and a hash that has left the climb does not come back to it (`NextLeaf`, `OffTheClimb`), nor does one that
begins with other data (`OtherData`); the place after the
last is the first, whose bits are all 0, while the last node below the root is a second child (`LastLeaf`).

*Ranks.* In `Aggregation` the ranks of n gradients are the numbers below n, each taken once (`SomebodyIsAtRank`: a rank grows along
the order, so ranks differ, and an injection between sets of one size is onto). So there is somebody in the middle, a trimmed
set is not empty, and those who rank up to the middle are more than half. None of these is further from the mean than the median, so more than half are kept.

### Only model-checked

Liveness (`ExhaustedJobCloses`, `SilentNodeLosesTask`, `RunningEnds`, `RequestedBenchmarkRuns`), which TLAPS does not do, and the
five disagreements, which are counterexamples. Every invariant, action property and refinement that a passing run checks is a
theorem, some of them under the conditions above.

## 5. Not modelled

`PROJECT.json` lists every component with its status. What is left out, and why:

* **Of the C++ coordinator**: sessions and invites beyond the worker's token, SQL failures, the
  read-only endpoints and the dashboard, the numbers (gradients, credits, losses), the one-shot
  `--submit` mode. The orderly shutdown: `accept` blocks in the operating system between the test of
  the stop flag and the next connection (`grid/http.hpp:235`), and request threads are detached, so
  that `main` destroys `Store` and `Grid` under them (`grid/orchestrator.cpp:1192`). Both are real hazards;
  neither is about a state the model has.
* **C++ beside the grid**: numeric core, GPU kernels, C ABI, LibTorch trainer and applications are
  floating-point computation and argument parsing. The envelope codec, the checkpoint files, the training pool
  and the sandbox are local to one process; the coordinator and the worker have their outcomes. Seen in
  reading them and not modelled: the worker's `token_` is read by the heartbeat thread without the mutex
  (`grid/worker.cpp:239`), the base64 table is filled lazily without a lock
  (`grid/base64.hpp:62`), retain selects checkpoints by prefix (`core/checkpoint.hpp:216`), an offset plus a length
  may wrap (`core/envelope.cpp:147`), a child may be reaped before its deadline is noted
  (`sandbox/sandbox.hpp:232`).
* **Of the Python grid**: the distributed trainer (its only entry is behind the deadlock of
  `create_job`), sign-in and admin keys, request schemas, memory estimates, models and compute backends,
  the individual benchmarks (what is made of their scores is in `Benchmarks`), clients of
  outside services, generated code, packaging and web pages.
* **The worker's side of GRPO** (`grpo_runner.py`): `load_json_blob` is called without await, so that no round has prompts; a report is
  scheduled in a thread without a loop, so that none is sent; and only tests call `start_round`. `Grpo` is the server's side, with reports from anybody.
* **A job whose replicas differ in length** (`grid/orchestrator.cpp:417`): `aggregate` throws, the job
  completes without contributors and everybody is paid. It would take the lengths of gradients
  in `Coordinator`; unequal gradients are modelled in `Aggregation`, for the Python grid.
* **A script sent before it is saved** (`SP/admin_api/jobs.py:221`): `WorkerDaemon` has the step and
  records it in `faked`. The code lets it happen, so `ScriptedJobRunsItsScript`, which stays in that module, is no
  property of a run: with the constants of `grid.cfg` and scripted jobs only, TLC finds it violated.

## 6. Divergences noticed

Beside the five the runs show, these were met while translating; the models have the code's behaviour.

**C++ worker.** A worker killed and started again under the same node id before the ttl leaves its task
assigned for ever: `upsert_node` keeps the tasks, the node is alive, and nobody reads the deadline. docs/quickstart.md:151
says "Wait out `--node-ttl`, or restart the worker".

**Jobs.** `create_job` never returns, so the rest of the HTTP queue cannot be reached;
`update_job_status` always raises; `_pending` compares a string with submissions. The route `/jobs/{job_id}` hides
`/jobs/queue`. Cancel and pause requeue only the latest task, although admin_api/jobs.py:250 says "halt additional task
assignment". Jobs failed by the sweep or a disconnect never trigger the callback that docs/api/endpoints.md:123 promises, and nothing makes up for a call that fails or dies
between its commit and the callback (`_jobs.py:600`, `_tasks.py:183`). `/v1/queue` fails when a
task is queued. Deleting a job from the HTTP queue's database (`database.py`) leaves its related rows, for foreign keys
are not enforced there. They are in `db/_base.py`: a boost whose job is deleted between the look and the insert raises, and its credits are spent
(votes.py:143 says that "the vote row is recorded"); and `clear_completed_jobs` clears nothing while any finished job has a vote row.

**Daemon.** Tokens that are dropped come back with the next flush of the state file, or new ones are lost (`state.py:145`). A script in docker or nsjail
cannot be cancelled; after a cancel control on a script the current job is never cleared, so that a benchmark asked for
meanwhile never runs. A benchmark message that is queued on a stream when it ends is lost, though the node stays marked as pending. Task
directories are reused and never cleaned, so that old results are read as new ones. An explicit `network_policy` of "open" overrides the denial of
egress.

**Training.** A reported success may be followed by a report of cancellation, and under fp16 counts the steps that the scaler skipped; memory that runs
out inside the optimizer's step leaves a part of the update behind, and the step is repeated. A GRPO reward report is scheduled
from a thread without a loop and never sent; `start_round` has no caller; a round begun over an unfinished one keeps its responses; `load_json_blob` is
called without await (`grpo_runner.py:654`, `:690`). DiLoCo's round-complete messages can overtake. Texts of one or
two bytes give windows longer than their targets.

**Aggregation.** The trimmed mean judges gradients by order of arrival, with five or more always drops the first and the last; the
median rule can flag nobody among exactly four; the fallback leaves out other layouts silently. The compressor's momentum
buffer is never added back.

**Credits.** Nothing calls `VotingSystem.add_credits`; `verify_chain_integrity` is false in the middle of a batch;
`verify_record` is never true of the data it is documented to be called with; stakes and slashes count into the balance; an unstake without an index subtracts the slashed amount twice. An
account's transfers cannot be sent by the SDK, whose field names differ.

**Admission.** `_cleanup` may delete what `_enforce_limits` is about to read. All workers send the same empty hardware
fingerprint, so that with eight machines even an honest one is refused when it registers again; a full address refuses its own nodes.

**Storage.** A rollback leaves version 3 recorded, so a later migration never creates its tables again
(migrations.py:108 says "Rollback to a previous version."); a death in the middle of ALTER makes every later migration fail. The key-value store catches
the wrong `ConnectionError`; its listener dies of the first message while it counts as running.

**Updates.** An unreadable public key counts as none, so signatures are not compared (auto_update.py:34-37 says packages "MUST carry a valid
signature"); a failure in the merge leaves a mixture that nothing restores.

**Applications.** Connecting twice in the node window leaves a daemon without handle; disconnecting stops its status thread for good. A server
restarted on the same ports gets the stopped one from the cache. The command line's zombie child counts as running; its refresh resets the selected row under the operator.
In the schedule, days are not shifted with the time zone and the morning half of an overnight slot is
tested against the wrong weekday. The SDK raises on jobs that succeeded, loses the job id when its second call fails, and cancels jobs that have finished.
The suite waits for a benchmark's output before its own timeout, so a hanging one is never given up. The log endpoint returns everything for `n=0`.

**Tools.** gridlink's `join` joins a legacy link as a native one (`link.py:217`), and a tunnel whose URL is unusable is left running. trainer_translate turns a
momentum or learning rate of 0 into the default (`translate.py:201`), and a failure in mid-copy leaves files although its README says
"Nothing is written to `--out` unless every stage succeeds."

## 7. Plan

1. (done) `GridStore`, `Coordinator`: the job life cycle, its faults, its theorems.
2. (done) `JobLifecycle`: the abstract promise, and `Coordinator` shown to implement it, by
   TLC and by proof.
3. (done) `GridWorker`: the C++ worker, lost requests and replies, retries, registration.
4. (done) The Python grid: `DBManager`, `NodeService`, `WorkerDaemon` together, and the components of `MCParts`.
5. (done) Proofs about the Python grid, the C++ worker and the components of `MCParts`, with the lemmas about sums they rest on.
6. (done) Proofs of the last invariants: payments per fault with stalls, and the Merkle proofs of `CreditLedger` level by level.
7. Small modules for the sandbox's child and deadline, the shutdown of the C++ server, and checkpoint retention.
