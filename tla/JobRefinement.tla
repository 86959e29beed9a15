---------------------------- MODULE JobRefinement ----------------------------
(***************************************************************************)
(* Coordinator implements JobLifecycle, if no finalization outlasts the    *)
(* sweep's 30 s.  The owner of a job and what it owes are read off the     *)
(* program counters and locals of the threads; everything else the         *)
(* coordinator does is a stuttering step.                                  *)
(***************************************************************************)
EXTENDS Coordinator

PhaseOf(j) == IF Open(j) THEN "open" ELSE jobs[j].status

\* Some thread is at one of these calls with job j.
At(j, labels) == \E p \in Procs : pc[p] \in labels /\ job[p] = j

OwnerOf(j) ==
    IF At(j, {"tasks_for_job", "write_result"}) THEN "aggregating"
    ELSE IF At(j, {"add_credit", "close_done"}) THEN "paying"
    ELSE IF At(j, {"close_failed"}) THEN "failing"
    ELSE "none"

OwedOf(j) ==
    {r \in 1..Replicas :
       \E p \in Procs : /\ pc[p] = "add_credit"
                        /\ job[p] = j
                        /\ \E c \in pay[p] : c[1] = <<j, r>>}

phaseBar == [j \in Jobs |-> PhaseOf(j)]
ownerBar == [j \in Jobs |-> OwnerOf(j)]
owedBar == [j \in Jobs |-> OwedOf(j)]
paymentsBar == [i \in 1..Len(ledger) |-> ledger[i].task]

Lifecycle ==
    INSTANCE JobLifecycle
      WITH Parts <- 1..Replicas, DiskFails <- FileErrors,
           phase <- phaseBar, owner <- ownerBar, owed <- owedBar,
           results <- published, payments <- paymentsBar, deaths <- faults

\* Every step of every thread, of the sweep and of a crash is one step of a
\* job's life or none: a claim takes an open job without owner, the credits
\* follow the result, no replica is paid twice by one owner, a job is closed by
\* its owner or cancelled, and only a job whose owner died is reopened.
ImplementsLifecycle == Lifecycle!Spec
=============================================================================
