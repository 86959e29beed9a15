-------------------------------- MODULE MCGrid --------------------------------
(* Small instances of the Python grid for TLC: a job of two tasks that may be *)
(* tried once each, or a scripted job of one task that may be tried twice.    *)
EXTENDS WorkerDaemon
CONSTANTS plain, script, t1, t2, t3

JobOfTask == [t \in Tasks |-> IF t = t3 THEN script ELSE plain]
TaskOrder == [t \in Tasks |-> IF t = t1 THEN 1 ELSE IF t = t2 THEN 2 ELSE 3]
Attempts == [t \in Tasks |-> IF t = t3 THEN 2 ELSE 1]
EitherJob == {{plain}, {script}}
OnlyScript == {{script}}
=============================================================================
