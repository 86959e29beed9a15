-------------------------------- MODULE Executor --------------------------------
(* The worker's training loop for one task (worker/src/daemon/executor.py):   *)
(* pause, cancel, deadline, memory pressure, out-of-memory retries, and the   *)
(* training state that a run leaves for the next one after a crash. Weights   *)
(* are abstracted to what they have been through: the optimizer steps taken,  *)
(* those the loss scaler of fp16 skipped, and the updates broken off halfway. *)
EXTENDS Naturals, FiniteSetsExt

CONSTANTS Steps, FullBatch, OomRetries, MaxRuns   \* MaxRuns bounds the executions of the task

\* A job has a step at least.
ASSUME StepsAssumption == Steps \in Nat \ {0} /\ FullBatch \in Nat /\ OomRetries \in Nat

VARIABLES run,      \* the execution: its place, step, weights, batch, retries
          settings, \* what resolve_training_settings made of the job's hyperparameters
          saved,    \* the training state on disk, or NoState
          results,  \* the results reported, in the order of their sending
          runs, paused, cancelled, pressure, restoredHalf
executorVars == <<run, settings, saved, results, runs, paused, cancelled, pressure, restoredHalf>>

Fresh == [taken |-> 0, skipped |-> 0, torn |-> 0]   \* the weights the task was given
NoState == [step |-> 0, trained |-> Fresh]
Idle == [at |-> "idle", step |-> 0, trained |-> Fresh, batch |-> 0, oom_budget |-> 0]

\* A missing or unreadable value is the default, a readable one is clamped.
_clamped_int(raw, default, low, high) ==
  IF raw = "missing" THEN default ELSE IF raw = "huge" THEN high ELSE IF raw = "negative" THEN low ELSE 1
\* (The precision is what the wish comes to on this machine: fp16, with the scaler enabled, or not.)
resolve_training_settings(every, warmup, schedule, precision) ==
  [checkpoint_every |-> _clamped_int(every, 0, 0, 100000), lr_schedule |-> schedule,
   warmup_steps |-> _clamped_int(warmup, 0, 0, 100000), mixed_precision |-> precision]

ExecutorInit ==
  /\ \E every \in {"missing", "one"}, warmup \in {"negative", "huge"}, schedule \in {"cosine", "linear"},
        precision \in {"off", "fp16"} :
       settings = resolve_training_settings(every, warmup, schedule, precision)
  /\ run = Idle /\ saved = NoState /\ results = {} /\ runs = 0
  /\ paused = FALSE /\ cancelled = FALSE /\ pressure = FALSE /\ restoredHalf = FALSE

\* The learning-rate multiplier of a 0-based step, in parts of its denominator: the share of
\* the warmup that is done, then what the decay leaves (cosine reaches zero at progress one).
build_lr_lambda(step) ==
  LET warmup == Min({settings.warmup_steps, Steps - 1})
      decay_span == Max({1, Steps - warmup})
  IN IF step < warmup THEN <<step + 1, warmup>>
     ELSE IF settings.lr_schedule = "cosine" THEN <<decay_span - Min({decay_span, step - warmup}), decay_span>>
     ELSE <<1, 1>>

\* Only a success hands out what was trained.
Report(status) ==
  results' = results \cup {[run |-> runs, status |-> status, trained |-> IF status = "success" THEN run.trained ELSE Fresh]}
RunEnds == run' = Idle /\ pressure' = FALSE

execute ==
  /\ run = Idle /\ runs < MaxRuns /\ ~\E r \in results : r.status = "success"
  /\ runs' = runs + 1 /\ cancelled' = FALSE /\ pressure' = FALSE
  /\ run' = [at |-> "preparing", step |-> 1, trained |-> Fresh, batch |-> FullBatch, oom_budget |-> OomRetries]
  /\ UNCHANGED <<settings, saved, results, paused, restoredHalf>>

\* The model, the weights or the batch cannot be had: reported; a cancellation or an exception
\* outside those handlers leaves execute without a report.
PreparationFails ==
  /\ run.at = "preparing" /\ RunEnds /\ (Report("error") \/ UNCHANGED results)
  /\ UNCHANGED <<settings, saved, runs, paused, cancelled, restoredHalf>>

\* _load_training_state loads the model, then the optimizer; a refusal of the second still
\* answers 0, a fresh start.
\* (RepeatsTheSavedStep takes the saved step for the one to do.)
RepeatsTheSavedStep(s) == [run EXCEPT !.at = "training", !.trained = s.trained, !.step = Max({1, s.step})]
Resumed(s) == [run EXCEPT !.at = "training", !.trained = s.trained, !.step = s.step + 1]
_load_training_state ==
  /\ run.at = "preparing"
  /\ UNCHANGED <<settings, saved, results, runs, paused, cancelled, pressure>>
  /\ IF settings.checkpoint_every > 0 /\ saved # NoState
     THEN \/ run' = Resumed(saved) /\ UNCHANGED restoredHalf
          \/ run' = Resumed(NoState) /\ UNCHANGED restoredHalf
          \/ run' = Resumed([saved EXCEPT !.step = 0]) /\ restoredHalf' = TRUE
     ELSE run' = Resumed(NoState) /\ UNCHANGED restoredHalf

\* The top of the loop: it waits while paused; the wait for memory relief waits for the pressure
\* event, which is already set, and returns at once.
InLoop == run.at = "training" /\ run.step <= Steps /\ ~paused /\ ~cancelled
DeadlineExceeded ==
  /\ InLoop /\ Report("timeout") /\ RunEnds
  /\ UNCHANGED <<settings, saved, runs, paused, cancelled, restoredHalf>>

_save_training_state(weights) ==
  IF settings.checkpoint_every > 0 /\ run.step < Steps /\ run.step % settings.checkpoint_every = 0
  THEN saved' = [step |-> run.step, trained |-> weights] \/ UNCHANGED saved
  ELSE UNCHANGED saved
\* A step whose learning rate is zero leaves the weights as they were; a scaler that finds an
\* infinite or undefined gradient skips the update, and the loop goes on as after a step.
Stepped(weights) ==
  IF build_lr_lambda(run.step - 1)[1] = 0 THEN {weights}
  ELSE {[weights EXCEPT !.taken = @ + 1]}
       \cup {[weights EXCEPT !.skipped = @ + 1] : scaler \in {settings.mixed_precision} \cap {"fp16"}}
TrainStep == \E weights \in Stepped(run.trained) :
  /\ InLoop /\ run' = [run EXCEPT !.step = @ + 1, !.trained = weights]
  /\ _save_training_state(weights)
  /\ UNCHANGED <<settings, results, runs, paused, cancelled, pressure, restoredHalf>>

\* An out-of-memory step is tried again with half the batch, while there is budget; if it was the
\* update that ran out, part of it stays in the weights (or, unscaled, in the scaler). Any other
\* exception ends the run.
OutOfMemory ==
  /\ InLoop
  /\ \/ Report("error") /\ RunEnds
     \/ /\ run.batch > 1 /\ run.oom_budget > 0
        /\ \E part_of_it \in {0, 1} :
             run' = [run EXCEPT !.batch = Max({1, @ \div 2}), !.oom_budget = @ - 1, !.trained.torn = @ + part_of_it]
        /\ UNCHANGED <<results, pressure>>
  /\ UNCHANGED <<settings, saved, runs, paused, cancelled, restoredHalf>>

\* The gradients are collected (a NaN is an error), uploaded, and the state dropped.
Finish ==
  /\ run.at = "training" /\ run.step > Steps
  /\ \/ Report("error") /\ RunEnds /\ UNCHANGED saved
     \/ saved' = NoState /\ run' = [run EXCEPT !.at = "reporting"] /\ UNCHANGED <<results, pressure>>
  /\ UNCHANGED <<settings, runs, paused, cancelled, restoredHalf>>
ReportSuccess ==
  /\ run.at = "reporting" /\ Report("success") /\ RunEnds
  /\ UNCHANGED <<settings, saved, runs, paused, cancelled, restoredHalf>>

pause == ~paused /\ paused' = TRUE /\ UNCHANGED <<run, settings, saved, results, runs, cancelled, pressure, restoredHalf>>
resume == paused /\ paused' = FALSE /\ UNCHANGED <<run, settings, saved, results, runs, cancelled, pressure, restoredHalf>>
cancel ==
  /\ ~cancelled /\ cancelled' = TRUE /\ paused' = FALSE
  /\ UNCHANGED <<run, settings, saved, results, runs, pressure, restoredHalf>>
Cancelled ==
  /\ cancelled /\ run.at \in {"training", "reporting"} /\ Report("cancelled") /\ RunEnds
  /\ UNCHANGED <<settings, saved, runs, paused, cancelled, restoredHalf>>

_monitor ==
  /\ run # Idle /\ pressure' = ~pressure
  /\ UNCHANGED <<run, settings, saved, results, runs, paused, cancelled, restoredHalf>>

\* The process dies: only the file and what was reported are left.
ExecutorCrash ==
  /\ run # Idle /\ RunEnds /\ paused' = FALSE /\ cancelled' = FALSE
  /\ UNCHANGED <<settings, saved, results, runs, restoredHalf>>

ExecutorNext ==
  \/ execute \/ PreparationFails \/ _load_training_state \/ DeadlineExceeded \/ TrainStep \/ OutOfMemory
  \/ Finish \/ ReportSuccess \/ pause \/ resume \/ cancel \/ Cancelled \/ _monitor \/ ExecutorCrash

-----------------------------------------------------------------------------
\* Whatever crashed, was cancelled, timed out or ran out of memory before, the weights behind a
\* reported success went through every step exactly once, taken or, under fp16 only, skipped by
\* the scaler; no step was taken with a learning rate of zero; and at most as many updates were
\* broken off halfway as the retries of the runs so far allow. The exception is a state restored
\* without its optimizer (_save_training_state, _load_training_state, build_lr_lambda, execute).
SuccessWentThroughEachStepOnce ==
  restoredHalf \/ \A r \in results : r.status = "success" =>
    /\ r.trained.taken + r.trained.skipped = Steps
    /\ r.trained.skipped > 0 => settings.mixed_precision = "fp16"
    /\ r.trained.torn <= OomRetries * r.run

=============================================================================
