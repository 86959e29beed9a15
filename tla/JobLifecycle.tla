----------------------------- MODULE JobLifecycle -----------------------------
(***************************************************************************)
(* What the coordinator promises about its jobs, without its tables,       *)
(* threads and snapshots: a job is finalized by one owner at a time, which *)
(* publishes the result, then pays each contributing replica once, then    *)
(* closes the job.  An owner may die at any point, and a job that has lost *)
(* its owner may be worked on again.  A cancel takes effect at any time    *)
(* and does not stop an owner.                                             *)
(***************************************************************************)
EXTENDS Integers, Sequences, FiniteSets

CONSTANTS
    Jobs,
    Parts,      \* the replicas of a job
    DiskFails   \* an owner may go on without a result

VARIABLES
    phase,      \* of each job; "open" may still be claimed
    owner,      \* what the owner of each job is doing, "none" without one
    owed,       \* the replicas the owner of each job has still to pay
    results,    \* jobs with a result
    payments,   \* <<job, replica>>, in the order they were paid
    deaths      \* how often the owners have died

vars == <<phase, owner, owed, results, payments, deaths>>

Init ==
    /\ phase = [j \in Jobs |-> "absent"]
    /\ owner = [j \in Jobs |-> "none"]
    /\ owed = [j \in Jobs |-> {}]
    /\ results = {}
    /\ payments = << >>
    /\ deaths = 0

Submit(j) ==
    /\ phase[j] = "absent"
    /\ phase' = [phase EXCEPT ![j] = "open"]
    /\ UNCHANGED <<owner, owed, results, payments, deaths>>

Claim(j, work) ==
    /\ phase[j] = "open"
    /\ owner[j] = "none"
    /\ phase' = [phase EXCEPT ![j] = "finalizing"]
    /\ owner' = [owner EXCEPT ![j] = work]
    /\ UNCHANGED <<owed, results, payments, deaths>>

Publish(j, contributors) ==
    /\ owner[j] = "aggregating"
    /\ owner' = [owner EXCEPT ![j] = "paying"]
    /\ owed' = [owed EXCEPT ![j] = contributors]
    /\ \/ results' = results \cup {j}
       \/ DiskFails /\ UNCHANGED results
    /\ UNCHANGED <<phase, payments, deaths>>

Pay(j, r) ==
    /\ owner[j] = "paying"
    /\ r \in owed[j]
    /\ owed' = [owed EXCEPT ![j] = owed[j] \ {r}]
    /\ payments' = Append(payments, <<j, r>>)
    /\ UNCHANGED <<phase, owner, results, deaths>>

Complete(j) ==
    /\ owner[j] = "paying"
    /\ owed[j] = {}
    /\ owner' = [owner EXCEPT ![j] = "none"]
    /\ phase' = [phase EXCEPT ![j] = "completed"]
    /\ UNCHANGED <<owed, results, payments, deaths>>

Fail(j) ==
    /\ owner[j] = "failing"
    /\ owner' = [owner EXCEPT ![j] = "none"]
    /\ phase' = [phase EXCEPT ![j] = "failed"]
    /\ UNCHANGED <<owed, results, payments, deaths>>

\* A late cancel wins over a close, and a late close over a cancel.
Cancel(j) ==
    /\ phase[j] # "absent"
    /\ phase' = [phase EXCEPT ![j] = "cancelled"]
    /\ UNCHANGED <<owner, owed, results, payments, deaths>>

Reopen(j) ==
    /\ phase[j] = "finalizing"
    /\ owner[j] = "none"
    /\ phase' = [phase EXCEPT ![j] = "open"]
    /\ UNCHANGED <<owner, owed, results, payments, deaths>>

\* All owners die together; what they owed is forgotten.
Die ==
    /\ owner' = [j \in Jobs |-> "none"]
    /\ owed' = [j \in Jobs |-> {}]
    /\ deaths' = deaths + 1
    /\ UNCHANGED <<phase, results, payments>>

JobStep(j) ==
    \/ Submit(j) \/ Cancel(j) \/ Reopen(j)
    \/ \E work \in {"aggregating", "failing"} : Claim(j, work)
    \/ \E contributors \in SUBSET Parts : Publish(j, contributors)
    \/ \E r \in Parts : Pay(j, r)
    \/ Complete(j) \/ Fail(j)

Next == Die \/ \E j \in Jobs : JobStep(j)

Spec == Init /\ [][Next]_vars

Paid(j, r) == Cardinality({i \in 1..Len(payments) : payments[i] = <<j, r>>})

\* Each death of the owners costs at most one more payment of a replica: a job
\* has one owner per claim, and is claimed again only after its owner died.
PaidPerDeath == \A j \in Jobs : \A r \in Parts : Paid(j, r) <= 1 + deaths

=============================================================================
