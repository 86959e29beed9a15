------------------------- MODULE JobRefinementProofs -------------------------
(***************************************************************************)
(* Coordinator implements JobLifecycle for any number of nodes, threads,   *)
(* jobs, replicas, attempts and crashes.                                   *)
(*                                                                         *)
(* The first section says what the refinement mapping reads off the        *)
(* threads; the second has one lemma for each way a step can look from     *)
(* outside; the third goes through the steps of Coordinator.               *)
(***************************************************************************)
EXTENDS JobRefinement, CoordinatorProofs

USE DEF Procs, phaseBar, ownerBar, owedBar, paymentsBar

\* The invariants the mapping relies on.
MapInv == TypeInv /\ SubmittedInv /\ OwnerInv /\ PayInv

\* The thread that takes the step is the only one whose locals change.
OthersStay(p) ==
    \A q \in Procs \ {p} : pc'[q] = pc[q] /\ job'[q] = job[q] /\ pay'[q] = pay[q]

\* It owns nothing, before and after.
Aside(p) == OthersStay(p) /\ pc[p] \notin OwnerPC /\ pc'[p] \notin OwnerPC

\* What the mapping shows of job j does not change.
SameWork(j) == OwnerOf(j)' = OwnerOf(j) /\ OwedOf(j)' = OwedOf(j)
SamePhase(j) == PhaseOf(j)' = PhaseOf(j)
SameBooks == published' = published /\ ledger' = ledger /\ faults' = faults

RoleAt(label) ==
    IF label \in {"tasks_for_job", "write_result"} THEN "aggregating"
    ELSE IF label \in {"add_credit", "close_done"} THEN "paying"
    ELSE IF label = "close_failed" THEN "failing"
    ELSE "none"

-----------------------------------------------------------------------------
(* What the mapping reads *)

\* A job nobody owns is shown without owner and owing nothing.
LEMMA NoOwner ==
    ASSUME NEW j \in Jobs, \A p \in Procs : ~Owns(p, j)
    PROVE  OwnerOf(j) = "none" /\ OwedOf(j) = {}
BY DEF OwnerOf, OwedOf, At, Owns, FinalizePC

\* The same of the state after a step.
LEMMA NoOwnerNext ==
    ASSUME NEW j \in Jobs, \A p \in Procs : ~Owns(p, j)'
    PROVE  OwnerOf(j)' = "none" /\ OwedOf(j)' = {}
BY DEF OwnerOf, OwedOf, At, Owns, FinalizePC

\* The one owner of a job decides what is shown of it.
LEMMA ShownOwner ==
    ASSUME OneOwner, NEW j \in Jobs, NEW p \in Procs, Owns(p, j)
    PROVE  /\ OwnerOf(j) = RoleAt(pc[p])
           /\ pc[p] = "add_credit" =>
                OwedOf(j) = {r \in 1..Replicas : \E c \in pay[p] : c[1] = <<j, r>>}
           /\ pc[p] # "add_credit" => OwedOf(j) = {}
<1>1. \A q \in Procs : Owns(q, j) => q = p
  BY DEF OneOwner
<1>2. \A q \in Procs : pc[q] \in OwnerPC /\ job[q] = j => q = p
  BY <1>1 DEF Owns, OwnerPC
<1> QED
  BY <1>2 DEF OwnerOf, OwedOf, At, RoleAt, Owns, OwnerPC, FinalizePC

\* The same of the state after a step.
LEMMA ShownOwnerNext ==
    ASSUME OneOwner', NEW j \in Jobs, NEW p \in Procs, Owns(p, j)'
    PROVE  /\ OwnerOf(j)' = RoleAt(pc'[p])
           /\ pc'[p] = "add_credit" =>
                OwedOf(j)' = {r \in 1..Replicas : \E c \in pay'[p] : c[1] = <<j, r>>}
           /\ pc'[p] # "add_credit" => OwedOf(j)' = {}
<1>1. \A q \in Procs : Owns(q, j)' => q = p
  BY DEF OneOwner
<1>2. \A q \in Procs : pc'[q] \in OwnerPC /\ job'[q] = j => q = p
  BY <1>1 DEF Owns, OwnerPC
<1> QED
  BY <1>2 DEF OwnerOf, OwedOf, At, RoleAt, Owns, OwnerPC, FinalizePC

\* A step of a thread shows nothing of a job the thread does not own.
LEMMA NotItsJob ==
    ASSUME NEW p \in Procs, OthersStay(p), NEW j \in Jobs, ~Owns(p, j), ~Owns(p, j)'
    PROVE  SameWork(j)
<1>1. \A labels \in SUBSET OwnerPC : At(j, labels)' <=> At(j, labels)
  BY DEF At, Owns, OthersStay, OwnerPC
<1>2. OwnerOf(j)' = OwnerOf(j)
  BY <1>1 DEF OwnerOf, OwnerPC, FinalizePC
<1>3. OwedOf(j)' = OwedOf(j)
  BY DEF OwedOf, Owns, OthersStay, OwnerPC, FinalizePC
<1> QED
  BY <1>2, <1>3 DEF SameWork

-----------------------------------------------------------------------------
(* How a step looks from outside *)

\* A step that changes nothing the mapping shows is a stuttering step.
LEMMA Unseen ==
    ASSUME \A j \in Jobs : SamePhase(j) /\ SameWork(j), SameBooks
    PROVE  UNCHANGED Lifecycle!vars
BY DEF SamePhase, SameWork, SameBooks, Lifecycle!vars

\* A step of a thread that owns nothing and changes no phase is unseen.
LEMMA UnseenAside ==
    ASSUME NEW p \in Procs, Aside(p), \A j \in Jobs : SamePhase(j), SameBooks
    PROVE  UNCHANGED Lifecycle!vars
<1>1. \A j \in Jobs : SameWork(j)
  BY NotItsJob DEF Aside, Owns, OwnerPC
<1> QED
  BY <1>1, Unseen

\* A row that keeps its status keeps its phase, and so does one that goes from
\* queued to running.
LEMMA PhaseKept ==
    ASSUME NEW j \in Jobs,
           \/ jobs'[j].status = jobs[j].status
           \/ jobs[j].status \in {"queued", "running"} /\ jobs'[j].status \in {"queued", "running"}
    PROVE  SamePhase(j)
BY DEF SamePhase, PhaseOf, Open

\* All jobs but k look as before.
OthersSame(k) == \A j \in Jobs \ {k} : SamePhase(j) /\ SameWork(j)

\* A step that changes what is shown of one job changes each of the mapped
\* functions in one place.
LEMMA JobChange ==
    ASSUME NEW k \in Jobs, OthersSame(k)
    PROVE  /\ [j \in Jobs |-> PhaseOf(j)'] = [[j \in Jobs |-> PhaseOf(j)] EXCEPT ![k] = PhaseOf(k)']
           /\ [j \in Jobs |-> OwnerOf(j)'] = [[j \in Jobs |-> OwnerOf(j)] EXCEPT ![k] = OwnerOf(k)']
           /\ [j \in Jobs |-> OwedOf(j)'] = [[j \in Jobs |-> OwedOf(j)] EXCEPT ![k] = OwedOf(k)']
BY DEF OthersSame, SamePhase, SameWork

\* What a Submit, a Cancel or a Reopen looks like.
LEMMA SeenPhase ==
    ASSUME NEW k \in Jobs, OthersSame(k), SameWork(k), SameBooks,
           \/ PhaseOf(k) = "absent" /\ PhaseOf(k)' = "open"
           \/ PhaseOf(k) # "absent" /\ PhaseOf(k)' = "cancelled"
           \/ PhaseOf(k) = "finalizing" /\ OwnerOf(k) = "none" /\ PhaseOf(k)' = "open"
    PROVE  Lifecycle!Next
<1>1. Lifecycle!Submit(k) \/ Lifecycle!Cancel(k) \/ Lifecycle!Reopen(k)
  BY JobChange DEF SameWork, SameBooks, Lifecycle!Submit, Lifecycle!Cancel, Lifecycle!Reopen
<1> QED
  BY <1>1 DEF Lifecycle!Next, Lifecycle!JobStep

\* What a Claim looks like.
LEMMA SeenClaim ==
    ASSUME NEW k \in Jobs, OthersSame(k), SameBooks, OwedOf(k)' = OwedOf(k),
           PhaseOf(k) = "open", OwnerOf(k) = "none",
           PhaseOf(k)' = "finalizing", OwnerOf(k)' \in {"aggregating", "failing"}
    PROVE  Lifecycle!Next
<1>1. Lifecycle!Claim(k, OwnerOf(k)')
  BY JobChange DEF SameBooks, Lifecycle!Claim
<1> QED
  BY <1>1 DEF Lifecycle!Next, Lifecycle!JobStep

\* What a Publish looks like.
LEMMA SeenPublish ==
    ASSUME NEW k \in Jobs, OthersSame(k), SamePhase(k), ledger' = ledger, faults' = faults,
           OwnerOf(k) = "aggregating", OwnerOf(k)' = "paying",
           published' = published \cup {k} \/ (FileErrors /\ published' = published)
    PROVE  Lifecycle!Next
<1>1. OwedOf(k)' \in SUBSET (1..Replicas)
  BY DEF OwedOf
<1>2. Lifecycle!Publish(k, OwedOf(k)')
  BY JobChange DEF SamePhase, Lifecycle!Publish
<1> QED
  BY <1>1, <1>2 DEF Lifecycle!Next, Lifecycle!JobStep

\* What a Complete or a Fail looks like.
LEMMA SeenClose ==
    ASSUME NEW k \in Jobs, OthersSame(k), SameBooks, OwnerOf(k)' = "none",
           OwedOf(k)' = OwedOf(k),
           \/ OwnerOf(k) = "paying" /\ OwedOf(k) = {} /\ PhaseOf(k)' = "completed"
           \/ OwnerOf(k) = "failing" /\ PhaseOf(k)' = "failed"
    PROVE  Lifecycle!Next
<1>1. Lifecycle!Complete(k) \/ Lifecycle!Fail(k)
  BY JobChange DEF SameBooks, Lifecycle!Complete, Lifecycle!Fail
<1> QED
  BY <1>1 DEF Lifecycle!Next, Lifecycle!JobStep

\* The mapped payments grow with the ledger.
LEMMA PaymentAppended ==
    ASSUME ledger \in Seq(CreditRow), NEW n \in Nodes, NEW t \in Tasks, add_credit(n, t)
    PROVE  [i \in 1..Len(ledger') |-> ledger'[i].task]
             = Append([i \in 1..Len(ledger) |-> ledger[i].task], t)
<1>1. ledger' = Append(ledger, [node |-> n, task |-> t])
  BY DEF add_credit
<1>2. Len(ledger) \in Nat /\ Len(ledger') = Len(ledger) + 1
  BY <1>1
<1>3. \A i \in 1..Len(ledger') :
        ledger'[i] = IF i = Len(ledger) + 1 THEN [node |-> n, task |-> t] ELSE ledger[i]
  BY <1>1, <1>2
<1> DEFINE before == [i \in 1..Len(ledger) |-> ledger[i].task]
           after == [i \in 1..Len(ledger') |-> ledger'[i].task]
<1>4. before \in Seq(Tasks)
  <2>1. \A i \in 1..Len(ledger) : ledger[i] \in CreditRow
    OBVIOUS
  <2>2. before \in [1..Len(ledger) -> Tasks]
    BY <2>1 DEF CreditRow
  <2> QED
    BY <1>2, <2>2
<1>5. Append(before, t) = [i \in 1..(Len(ledger) + 1) |->
                             IF i = Len(ledger) + 1 THEN t ELSE before[i]]
  BY <1>2, <1>4
<1> QED
  BY <1>2, <1>3, <1>5

\* What a Pay looks like.
LEMMA SeenPay ==
    ASSUME NEW k \in Jobs, OthersSame(k), SamePhase(k), published' = published, faults' = faults,
           OwnerOf(k) = "paying", OwnerOf(k)' = "paying",
           NEW r \in OwedOf(k), OwedOf(k)' = OwedOf(k) \ {r},
           [i \in 1..Len(ledger') |-> ledger'[i].task]
             = Append([i \in 1..Len(ledger) |-> ledger[i].task], <<k, r>>)
    PROVE  Lifecycle!Next
<1>1. r \in 1..Replicas
  BY DEF OwedOf
<1>2. Lifecycle!Pay(k, r)
  BY JobChange, ZenonT(40) DEF SamePhase, Lifecycle!Pay
<1> QED
  BY <1>1, <1>2 DEF Lifecycle!Next, Lifecycle!JobStep

\* What a crash looks like.
LEMMA SeenDeath ==
    ASSUME \A j \in Jobs : SamePhase(j) /\ OwnerOf(j)' = "none" /\ OwedOf(j)' = {},
           published' = published, ledger' = ledger, faults' = faults + 1
    PROVE  Lifecycle!Next
BY DEF SamePhase, Lifecycle!Die, Lifecycle!Next

-----------------------------------------------------------------------------
(* The steps of Coordinator *)

\* A step that leaves the threads alone shows nothing of their work.
LEMMA LocalsStay ==
    ASSUME UNCHANGED localVars
    PROVE  \A j \in Jobs : SameWork(j)
BY DEF localVars, SameWork, OwnerOf, OwedOf, At

\* A step of the store that leaves the job rows alone changes no phase.
LEMMA JobsStay ==
    ASSUME jobs' = jobs
    PROVE  \A j \in Jobs : SamePhase(j)
BY DEF SamePhase, PhaseOf, Open

\* finish_task touches a job's row but not its status.
LEMMA FinishKeepsPhase ==
    ASSUME TypeInv, NEW t \in Tasks, NEW ok \in BOOLEAN, finish_task(t, ok)
    PROVE  /\ \A j \in Jobs : SamePhase(j)
           /\ ledger' = ledger
<1>1. jobs \in [Jobs -> JobRow]
  BY DEF TypeInv, StoreInv, StoreTypeOK
<1>2. \A j \in Jobs : jobs'[j].status = jobs[j].status
  BY <1>1 DEF finish_task
<1> QED
  BY <1>2, PhaseKept DEF finish_task

\* update_job and claim_finalization change the phase of one job.
LEMMA OneRowChanges ==
    ASSUME TypeInv, NEW k \in Jobs, NEW s \in JobStatus,
           jobs' = [jobs EXCEPT ![k] = [status |-> s, aged |-> FALSE]]
    PROVE  /\ \A j \in Jobs \ {k} : SamePhase(j)
           /\ PhaseOf(k)' = IF s \in {"queued", "running"} THEN "open" ELSE s
<1>1. jobs \in [Jobs -> JobRow]
  BY DEF TypeInv, StoreInv, StoreTypeOK
<1>2. jobs'[k].status = s /\ \A j \in Jobs \ {k} : jobs'[j] = jobs[j]
  BY <1>1
<1> QED
  BY <1>2, PhaseKept DEF PhaseOf, Open

\* A thread that changes its locals keeps the other threads' locals.
LEMMA OnlyItsLocals ==
    ASSUME NEW p \in Procs, TypeInv, NEW label, Goto(p, label),
           \/ UNCHANGED <<job, pay>>
           \/ UNCHANGED job /\ \E S : pay' = [pay EXCEPT ![p] = S]
           \/ UNCHANGED pay /\ \E k : job' = [job EXCEPT ![p] = k]
           \/ /\ \E S : pay' = [pay EXCEPT ![p] = S]
              /\ \E k : job' = [job EXCEPT ![p] = k]
    PROVE  OthersStay(p) /\ pc'[p] = label
BY DEF OthersStay, Goto, TypeInv, LocalInv, LocalTypeOK

\* A handler that owned nothing ends aside.
LEMMA LeavesAside ==
    ASSUME NEW p \in Procs, TypeInv, Leave(p)
    PROVE  OthersStay(p) /\ pc'[p] \notin OwnerPC
<1>1. OthersStay(p) /\ pc'[p] = Return(p)
  BY OnlyItsLocals DEF Leave
<1> QED
  BY <1>1 DEF Return, OwnerPC, FinalizePC

\* The owner goes on: no other job is concerned, and it still owns its own.
LEMMA OwnerGoesOn ==
    ASSUME NEW p \in Procs, NEW k \in Jobs, Owns(p, k), OthersStay(p),
           pc'[p] \in OwnerPC, job'[p] = job[p]
    PROVE  Owns(p, k)' /\ \A j \in Jobs \ {k} : SameWork(j)
<1>1. Owns(p, k)' /\ job[p] = k
  BY DEF Owns, OwnerPC
<1>2. \A j \in Jobs \ {k} : ~Owns(p, j) /\ ~Owns(p, j)'
  BY <1>1 DEF Owns
<1> QED
  BY <1>1, <1>2, NotItsJob

\* The owner leaves: its job has no owner, no other job is concerned.
LEMMA OwnerLeaves ==
    ASSUME NEW p \in Procs, NEW k \in Jobs, OneOwner, Owns(p, k), OthersStay(p),
           pc'[p] \notin OwnerPC
    PROVE  /\ OwnerOf(k)' = "none" /\ OwedOf(k)' = {}
           /\ \A j \in Jobs \ {k} : SameWork(j)
<1>1. \A q \in Procs : ~Owns(q, k)'
  BY DEF OneOwner, Owns, OthersStay, OwnerPC
<1>2. \A j \in Jobs \ {k} : ~Owns(p, j) /\ ~Owns(p, j)'
  BY DEF Owns, OwnerPC
<1> QED
  BY <1>1, <1>2, NoOwnerNext, NotItsJob

\* The first call of a request is unseen.
LEMMA RefineRequest ==
    ASSUME NEW p \in Threads, MapInv, Request(p)
    PROVE  UNCHANGED Lifecycle!vars
<1> USE DEF MapInv, OwnerPC, FinalizePC, Aside, SameBooks, fileVars
<1>1. ASSUME NEW n \in Nodes, NEW t \in Tasks, handle_claim(p, n, t)
      PROVE  UNCHANGED Lifecycle!vars
  <2>1. Aside(p)
    BY <1>1, OnlyItsLocals DEF handle_claim
  <2>2. jobs \in [Jobs -> JobRow] /\ Open(JobOf(t))
    BY <1>1 DEF handle_claim, claim_task, IsFirst, Claimable, TypeInv, StoreInv, StoreTypeOK
  <2>3. \A j \in Jobs : SamePhase(j)
    BY <1>1, <2>2, PhaseKept DEF handle_claim, claim_task, Open
  <2>4. SameBooks
    BY <1>1 DEF handle_claim, claim_task
  <2> QED BY <2>1, <2>3, <2>4, UnseenAside
<1>2. ASSUME NEW n \in Nodes, NEW t \in Tasks, NEW ok \in BOOLEAN, handle_result(p, n, t, ok)
      PROVE  UNCHANGED Lifecycle!vars
  <2>1. Aside(p)
    BY <1>2, OnlyItsLocals DEF handle_result
  <2> QED BY <1>2, <2>1, JobsStay, UnseenAside DEF handle_result, storeVars
<1>3. ASSUME NEW j \in Jobs, handle_cancel(p, j)
      PROVE  UNCHANGED Lifecycle!vars
  <2>1. Aside(p)
    BY <1>3 DEF handle_cancel, OthersStay, Goto, TypeInv, LocalInv, LocalTypeOK
  <2> QED BY <1>3, <2>1, JobsStay, UnseenAside DEF handle_cancel, storeVars
<1> QED
  BY <1>1, <1>2, <1>3 DEF Request

\* The calls of a handler that is not the owner of a job are unseen, except
\* for the claim and the cancel.
LEMMA RefineAside ==
    ASSUME NEW p \in Procs, MapInv,
           \/ claim_reply(p) \/ claim_requeue(p)
           \/ open_envelope(p) \/ write_envelope_fails(p) \/ finish_result(p)
           \/ \E kind \in {"empty", "grads"} : write_envelope(p, kind)
           \/ read_job(p) \/ task_counts(p)
           \/ cancel_tasks(p)
           \/ \E t \in todo[p] : cancel_task(p, t)
    PROVE  UNCHANGED Lifecycle!vars
<1> USE DEF MapInv, OwnerPC, FinalizePC, Aside, SameBooks, fileVars
<1>1. CASE claim_reply(p) \/ write_envelope_fails(p)
  <2>1. Aside(p)
    BY <1>1, LeavesAside DEF claim_reply, write_envelope_fails
  <2> QED BY <1>1, <2>1, JobsStay, UnseenAside DEF claim_reply, write_envelope_fails, storeVars
<1>2. CASE claim_requeue(p)
  <2>1. Aside(p)
    BY <1>2, LeavesAside DEF claim_requeue
  <2> QED BY <1>2, <2>1, JobsStay, UnseenAside DEF claim_requeue, requeue_task
<1>3. CASE open_envelope(p) \/ \E kind \in {"empty", "grads"} : write_envelope(p, kind)
  <2>1. Aside(p)
    BY <1>3, OnlyItsLocals DEF open_envelope, write_envelope
  <2> QED BY <1>3, <2>1, JobsStay, UnseenAside DEF open_envelope, write_envelope, storeVars
<1>4. CASE finish_result(p)
  <2>1. Aside(p)
    BY <1>4 DEF finish_result, OthersStay, Goto, TypeInv, LocalInv, LocalTypeOK
  <2>2. task[p] \in Tasks
    BY <1>4 DEF finish_result, TypeInv, LocalInv, ArgsOK, TaskPC
  <2> QED BY <1>4, <2>1, <2>2, FinishKeepsPhase, UnseenAside DEF finish_result
<1>5. CASE read_job(p)
  <2>1. Aside(p)
    BY <1>5, LeavesAside, OnlyItsLocals DEF read_job
  <2> QED BY <1>5, <2>1, JobsStay, UnseenAside DEF read_job, storeVars
<1>6. CASE task_counts(p)
  <2>1. Aside(p)
    BY <1>6, LeavesAside, OnlyItsLocals DEF task_counts
  <2> QED BY <1>6, <2>1, JobsStay, UnseenAside DEF task_counts, storeVars
<1>7. CASE cancel_tasks(p)
  <2>1. Aside(p)
    BY <1>7, OnlyItsLocals DEF cancel_tasks
  <2> QED BY <1>7, <2>1, JobsStay, UnseenAside DEF cancel_tasks, storeVars
<1>8. ASSUME NEW t \in todo[p], cancel_task(p, t)
      PROVE  UNCHANGED Lifecycle!vars
  <2>1. OthersStay(p) /\ pc' = pc
    BY <1>8 DEF cancel_task, OthersStay
  <2>2. Aside(p)
    BY <1>8, <2>1 DEF cancel_task
  <2>3. t \in Tasks
    BY DEF TypeInv, LocalInv, LocalTypeOK
  <2> QED BY <1>8, <2>2, <2>3, FinishKeepsPhase, UnseenAside DEF cancel_task
<1> QED
  BY <1>1, <1>2, <1>3, <1>4, <1>5, <1>6, <1>7, <1>8

\* A claim that succeeds is a Claim: the job was open, so nobody owned it.  One
\* that fails is unseen.
LEMMA RefineClaim ==
    ASSUME NEW p \in Procs, MapInv, OneOwner', claim(p)
    PROVE  Lifecycle!Next \/ UNCHANGED Lifecycle!vars
<1> USE DEF MapInv, OwnerPC, FinalizePC, SameBooks, fileVars
<1>1. CASE ~claim_finalization(job[p])
  <2>1. Leave(p) /\ jobs' = jobs /\ SameBooks
    BY <1>1 DEF claim, storeVars
  <2>2. Aside(p)
    BY <2>1, LeavesAside DEF claim, Aside
  <2> QED BY <2>1, <2>2, JobsStay, UnseenAside
<1>2. CASE claim_finalization(job[p]) /\ ~UNCHANGED storeVars
  <2>1. PICK k \in Jobs : k = job[p]
    BY DEF claim, TypeInv, LocalInv, ArgsOK, JobPC
  <2>2. OthersStay(p) /\ pc'[p] \in {"tasks_for_job", "close_failed"} /\ job' = job
    BY <1>2 DEF claim, OthersStay, Goto, TypeInv, LocalInv, LocalTypeOK
  <2>3. PhaseOf(k) = "open" /\ OwnerOf(k) = "none" /\ OwedOf(k) = {}
    <3>1. Open(k) /\ \A q \in Procs : ~Owns(q, k)
      BY <1>2, <2>1 DEF claim_finalization, Open, OwnerInv, OwnerRow
    <3> QED BY <2>1, <3>1, NoOwner DEF PhaseOf
  <2>4. PhaseOf(k)' = "finalizing" /\ \A j \in Jobs \ {k} : SamePhase(j)
    <3>1. "finalizing" \in JobStatus
      BY DEF JobStatus
    <3> QED BY <1>2, <2>1, <3>1, OneRowChanges DEF claim_finalization
  <2>5. Owns(p, k)'
    BY <2>1, <2>2 DEF Owns
  <2>6. OwnerOf(k)' \in {"aggregating", "failing"} /\ OwedOf(k)' = {}
    BY <2>2, <2>5, ShownOwnerNext DEF RoleAt
  <2>7. OthersSame(k)
    <3>1. \A j \in Jobs \ {k} : ~Owns(p, j) /\ ~Owns(p, j)'
      BY <2>1, <2>2 DEF Owns, claim
    <3> QED BY <2>2, <2>4, <3>1, NotItsJob DEF OthersSame
  <2>8. SameBooks
    BY <1>2 DEF claim, claim_finalization
  <2> QED BY <2>3, <2>4, <2>6, <2>7, <2>8, SeenClaim
<1>3. CASE claim_finalization(job[p]) /\ UNCHANGED storeVars
  <2>1. Open(job[p]) /\ jobs'[job[p]].status = "finalizing" /\ jobs' = jobs
    <3>1. job[p] \in Jobs /\ jobs \in [Jobs -> JobRow]
      BY DEF claim, TypeInv, StoreInv, StoreTypeOK, LocalInv, ArgsOK, JobPC
    <3> QED BY <1>3, <3>1 DEF claim_finalization, storeVars
  <2> QED BY <2>1 DEF Open
<1> QED
  BY <1>1, <1>2, <1>3

\* The snapshot of the tasks is unseen.
LEMMA RefineTasks ==
    ASSUME NEW p \in Procs, MapInv, OneOwner', finalize_tasks(p)
    PROVE  UNCHANGED Lifecycle!vars
<1> USE DEF MapInv, OwnerPC, FinalizePC
<1>1. PICK k \in Jobs : k = job[p]
  BY DEF finalize_tasks, TypeInv, LocalInv, ArgsOK, JobPC
<1>2. pc[p] = "tasks_for_job" /\ pc'[p] = "write_result" /\ job' = job /\ OthersStay(p)
  BY DEF finalize_tasks, OthersStay, Goto, TypeInv, LocalInv, LocalTypeOK
<1>3. Owns(p, k)
  BY <1>1, <1>2 DEF Owns
<1>4. Owns(p, k)' /\ \A j \in Jobs \ {k} : SameWork(j)
  BY <1>2, <1>3, OwnerGoesOn
<1>5. SameWork(k)
  BY <1>2, <1>3, <1>4, ShownOwner, ShownOwnerNext DEF OwnerInv, SameWork, RoleAt
<1> QED
  BY <1>4, <1>5, JobsStay, Unseen DEF finalize_tasks, storeVars, fileVars, SameBooks

\* Writing the result is a Publish, whether or not the disk takes it.
LEMMA RefineWrite ==
    ASSUME NEW p \in Procs, MapInv, OneOwner', finalize_write(p)
    PROVE  Lifecycle!Next
<1> USE DEF MapInv, OwnerPC, FinalizePC
<1>1. PICK k \in Jobs : k = job[p]
  BY DEF finalize_write, TypeInv, LocalInv, ArgsOK, JobPC
<1>2. pc[p] = "write_result" /\ pc'[p] = "add_credit" /\ job' = job /\ OthersStay(p)
  BY DEF finalize_write, OthersStay, Goto, TypeInv, LocalInv, LocalTypeOK
<1>3. Owns(p, k)
  BY <1>1, <1>2 DEF Owns
<1>4. Owns(p, k)' /\ \A j \in Jobs \ {k} : SameWork(j)
  BY <1>2, <1>3, OwnerGoesOn
<1>5. OwnerOf(k) = "aggregating" /\ OwnerOf(k)' = "paying"
  BY <1>2, <1>3, <1>4, ShownOwner, ShownOwnerNext DEF OwnerInv, RoleAt
<1>6. published' = published \cup {k} \/ (FileErrors /\ published' = published)
  BY <1>1 DEF finalize_write
<1>7. ledger' = ledger /\ faults' = faults /\ \A j \in Jobs : SamePhase(j)
  BY JobsStay DEF finalize_write, storeVars
<1> QED
  BY <1>4, <1>5, <1>6, <1>7, SeenPublish DEF OthersSame

\* A credit is a Pay of a replica that was owed.
LEMMA RefinePay ==
    ASSUME NEW p \in Procs, MapInv, OneOwner', NEW c \in pay[p], finalize_pay(p, c)
    PROVE  Lifecycle!Next
<1> USE DEF MapInv, OwnerPC, FinalizePC
<1>1. PICK k \in Jobs : k = job[p]
  BY DEF finalize_pay, TypeInv, LocalInv, ArgsOK, JobPC
<1>2. /\ pc[p] = "add_credit" /\ pc' = pc /\ job' = job /\ OthersStay(p)
      /\ pay'[p] = pay[p] \ {c}
  BY DEF finalize_pay, OthersStay, TypeInv, LocalInv, LocalTypeOK
<1>3. Owns(p, k)
  BY <1>1, <1>2 DEF Owns
<1>4. Owns(p, k)' /\ \A j \in Jobs \ {k} : SameWork(j)
  BY <1>2, <1>3, OwnerGoesOn
<1>5. OwnerOf(k) = "paying" /\ OwnerOf(k)' = "paying"
  BY <1>2, <1>3, <1>4, ShownOwner, ShownOwnerNext DEF OwnerInv, RoleAt
<1>6. c[1] \in Tasks /\ c[2] \in Nodes /\ JobOf(c[1]) = k
  BY <1>1 DEF TypeInv, LocalInv, LocalTypeOK, PayInv
<1>7. PICK r \in 1..Replicas : c[1] = <<k, r>>
  BY <1>6 DEF Tasks, JobOf
<1>8. r \in OwedOf(k) /\ OwedOf(k)' = OwedOf(k) \ {r}
  <2>1. \A d \in pay[p] : d[1] = <<k, r>> => d = c
    BY <1>7 DEF PayInv
  <2>2. OwedOf(k) = {q \in 1..Replicas : \E d \in pay[p] : d[1] = <<k, q>>}
    BY <1>2, <1>3, ShownOwner DEF OwnerInv
  <2>3. OwedOf(k)' = {q \in 1..Replicas : \E d \in pay'[p] : d[1] = <<k, q>>}
    BY <1>2, <1>4, ShownOwnerNext
  <2> QED
    BY <1>2, <1>7, <2>1, <2>2, <2>3
<1>9. /\ published' = published /\ faults' = faults /\ \A j \in Jobs : SamePhase(j)
      /\ add_credit(c[2], <<k, r>>)
  BY <1>7, JobsStay DEF finalize_pay, add_credit, fileVars
<1>10. [i \in 1..Len(ledger') |-> ledger'[i].task]
         = Append([i \in 1..Len(ledger) |-> ledger[i].task], <<k, r>>)
  BY <1>6, <1>7, <1>9, PaymentAppended DEF TypeInv, StoreInv, StoreTypeOK
<1> QED
  BY <1>4, <1>5, <1>8, <1>9, <1>10, SeenPay DEF OthersSame

\* Having paid everybody is unseen: nothing is owed any more.
LEMMA RefinePaid ==
    ASSUME NEW p \in Procs, MapInv, OneOwner', finalize_paid(p)
    PROVE  UNCHANGED Lifecycle!vars
<1> USE DEF MapInv, OwnerPC, FinalizePC
<1>1. PICK k \in Jobs : k = job[p]
  BY DEF finalize_paid, TypeInv, LocalInv, ArgsOK, JobPC
<1>2. /\ pc[p] = "add_credit" /\ pc'[p] = "close_done" /\ job' = job /\ OthersStay(p)
      /\ pay[p] = {}
  BY DEF finalize_paid, OthersStay, Goto, TypeInv, LocalInv, LocalTypeOK
<1>3. Owns(p, k)
  BY <1>1, <1>2 DEF Owns
<1>4. Owns(p, k)' /\ \A j \in Jobs \ {k} : SameWork(j)
  BY <1>2, <1>3, OwnerGoesOn
<1>5. SameWork(k)
  BY <1>2, <1>3, <1>4, ShownOwner, ShownOwnerNext DEF OwnerInv, SameWork, RoleAt
<1> QED
  BY <1>4, <1>5, JobsStay, Unseen DEF finalize_paid, storeVars, fileVars, SameBooks

\* The owner's last call is a Complete or a Fail.
LEMMA RefineClose ==
    ASSUME NEW p \in Procs, MapInv, finalize_close(p) \/ close_failed(p)
    PROVE  Lifecycle!Next
<1> USE DEF MapInv, OwnerPC, FinalizePC
<1>1. PICK k \in Jobs : k = job[p]
  BY DEF finalize_close, close_failed, TypeInv, LocalInv, ArgsOK, JobPC
<1>2. Leave(p) /\ OthersStay(p) /\ pc'[p] \notin OwnerPC
  BY LeavesAside DEF finalize_close, close_failed
<1>3. Owns(p, k)
  BY <1>1 DEF Owns, finalize_close, close_failed
<1>4. OwnerOf(k)' = "none" /\ OwedOf(k)' = {} /\ \A j \in Jobs \ {k} : SameWork(j)
  BY <1>2, <1>3, OwnerLeaves DEF OwnerInv
<1>5. PICK s \in {"completed", "failed"} :
        /\ update_job(k, s)
        /\ s = "completed" => pc[p] = "close_done"
        /\ s = "failed" => pc[p] = "close_failed"
  BY <1>1 DEF finalize_close, close_failed
<1>6. /\ OwedOf(k) = {}
      /\ s = "completed" => OwnerOf(k) = "paying"
      /\ s = "failed" => OwnerOf(k) = "failing"
  BY <1>3, <1>5, ShownOwner DEF OwnerInv, RoleAt
<1>7. PhaseOf(k)' = s /\ \A j \in Jobs \ {k} : SamePhase(j)
  <2>1. s \in JobStatus
    BY DEF JobStatus
  <2> QED
    BY <1>5, <2>1, OneRowChanges DEF update_job
<1>8. SameBooks
  BY <1>5 DEF finalize_close, close_failed, update_job, SameBooks, fileVars
<1> QED
  BY <1>4, <1>6, <1>7, <1>8, SeenClose DEF OthersSame

\* The last call of handle_cancel is a Cancel, whatever the row holds by now.
LEMMA RefineCancel ==
    ASSUME NEW p \in Procs, MapInv, cancel_close(p)
    PROVE  Lifecycle!Next
<1> USE DEF MapInv, OwnerPC, FinalizePC
<1>1. PICK k \in Jobs : k = job[p]
  BY DEF cancel_close, TypeInv, LocalInv, ArgsOK, JobPC
<1>2. Aside(p)
  BY LeavesAside DEF cancel_close, Aside
<1>3. \A j \in Jobs : SameWork(j)
  BY <1>2, NotItsJob DEF Aside, Owns
<1>4. PhaseOf(k) # "absent"
  BY <1>1 DEF cancel_close, SubmittedInv, JobPC, Submitted, PhaseOf
<1>5. PhaseOf(k)' = "cancelled" /\ \A j \in Jobs \ {k} : SamePhase(j)
  <2>1. "cancelled" \in JobStatus
    BY DEF JobStatus
  <2> QED
    BY <1>1, <2>1, OneRowChanges DEF cancel_close, update_job
<1>6. SameBooks
  BY DEF cancel_close, update_job, SameBooks, fileVars
<1> QED
  BY <1>3, <1>4, <1>5, <1>6, SeenPhase DEF OthersSame

\* Every later call of a handler is one step of a job's life, or unseen.
LEMMA RefineStep ==
    ASSUME NEW p \in Procs, MapInv, OneOwner', Step(p)
    PROVE  Lifecycle!Next \/ UNCHANGED Lifecycle!vars
BY RefineAside, RefineClaim, RefineTasks, RefineWrite, RefinePay, RefinePaid,
   RefineClose, RefineCancel DEF Step

\* In the sweep only the retry of a job without owner is seen, as a Reopen.
LEMMA RefineReap ==
    ASSUME MapInv, Reap
    PROVE  Lifecycle!Next \/ UNCHANGED Lifecycle!vars
<1> USE DEF MapInv, OwnerPC, FinalizePC, Aside, SameBooks, fileVars
<1>1. CASE reap_expire
  <2>1. Aside(Reaper)
    BY <1>1, OnlyItsLocals DEF reap_expire
  <2> QED BY <1>1, <2>1, JobsStay, UnseenAside DEF reap_expire, expire_nodes
<1>2. CASE reap_jobs
  <2>1. Aside(Reaper)
    BY <1>2, OnlyItsLocals DEF reap_jobs
  <2> QED BY <1>2, <2>1, JobsStay, UnseenAside DEF reap_jobs, storeVars
<1>3. CASE reap_done
  <2>1. Aside(Reaper)
    BY <1>3, OnlyItsLocals DEF reap_done
  <2> QED BY <1>3, <2>1, JobsStay, UnseenAside DEF reap_done, storeVars
<1>4. ASSUME NEW k \in Jobs, reap_visit(k)
      PROVE  Lifecycle!Next \/ UNCHANGED Lifecycle!vars
  <2>1. CASE k \in seenAged /\ update_job(k, "running") /\ UNCHANGED localVars
    <3>1. PhaseOf(k) = "finalizing" /\ OwnerOf(k) = "none"
      BY <2>1, NoOwner DEF OwnerInv, OwnerRow, Orphan, PhaseOf, Open
    <3>2. PhaseOf(k)' = "open" /\ \A j \in Jobs \ {k} : SamePhase(j)
      <4>1. "running" \in JobStatus
        BY DEF JobStatus
      <4> QED
        BY <2>1, <4>1, OneRowChanges DEF update_job
    <3>3. SameBooks
      BY <1>4, <2>1 DEF reap_visit, update_job
    <3> QED
      BY <2>1, <3>1, <3>2, <3>3, LocalsStay, SeenPhase DEF OthersSame
  <2>2. CASE UNCHANGED <<storeVars, localVars>>
    BY <1>4, <2>2, LocalsStay, JobsStay, Unseen DEF reap_visit, storeVars
  <2>3. CASE /\ Goto(Reaper, "job")
             /\ job' = [job EXCEPT ![Reaper] = k]
             /\ UNCHANGED <<storeVars, task, node, todo, pay>>
    <3>1. Aside(Reaper)
      BY <1>4, <2>3 DEF reap_visit, OthersStay, Goto, TypeInv, LocalInv, LocalTypeOK
    <3> QED BY <1>4, <2>3, <3>1, JobsStay, UnseenAside DEF reap_visit, storeVars
  <2> QED
    BY <1>4, <2>1, <2>2, <2>3 DEF reap_visit
<1> QED
  BY <1>1, <1>2, <1>3, <1>4 DEF Reap

\* From outside, a submission is a Submit and a crash is a Die; nodes and time
\* are unseen.
LEMMA RefineEnvironment ==
    ASSUME ~CanStall, MapInv, Environment
    PROVE  Lifecycle!Next \/ UNCHANGED Lifecycle!vars
<1> USE DEF MapInv, SameBooks, fileVars
<1>1. ASSUME NEW n \in Nodes,
             handle_register(n) \/ handle_heartbeat(n) \/ handle_bye(n) \/ node_goes_quiet(n)
      PROVE  UNCHANGED Lifecycle!vars
  <2>1. UNCHANGED <<jobs, localVars, published, ledger, faults>>
    BY <1>1 DEF handle_register, upsert_node, handle_heartbeat, handle_bye, heartbeat, node_goes_quiet
  <2> QED BY <2>1, LocalsStay, JobsStay, Unseen
<1>2. ASSUME NEW k \in Jobs, handle_submit(k)
      PROVE  Lifecycle!Next
  <2>1. PhaseOf(k) = "absent"
    BY <1>2 DEF handle_submit, Submitted, PhaseOf, Open
  <2>2. PhaseOf(k)' = "open" /\ \A j \in Jobs \ {k} : SamePhase(j)
    <3>1. "queued" \in JobStatus
      BY DEF JobStatus
    <3> QED
      BY <1>2, <3>1, OneRowChanges DEF handle_submit, create_job
  <2>3. UNCHANGED <<localVars, published, ledger, faults>>
    BY <1>2 DEF handle_submit, create_job
  <2> QED
    BY <2>1, <2>2, <2>3, LocalsStay, SeenPhase DEF OthersSame
<1>3. ASSUME NEW k \in Jobs, job_ages(k)
      PROVE  UNCHANGED Lifecycle!vars
  <2>1. jobs \in [Jobs -> JobRow]
    BY DEF TypeInv, StoreInv, StoreTypeOK
  <2>2. \A j \in Jobs : jobs'[j].status = jobs[j].status
    BY <1>3, <2>1 DEF job_ages
  <2>3. UNCHANGED <<localVars, published, ledger, faults>>
    BY <1>3 DEF job_ages
  <2> QED BY <2>2, <2>3, LocalsStay, PhaseKept, Unseen
<1>4. ASSUME NEW k \in Jobs, sweep_ages(k)
      PROVE  UNCHANGED Lifecycle!vars
  BY <1>4, LocalsStay, JobsStay, Unseen DEF sweep_ages, storeVars
<1>5. CASE crash
  <2>1. \A p \in Procs : pc'[p] = "idle"
    BY <1>5 DEF crash
  <2>2. \A j \in Jobs : OwnerOf(j)' = "none" /\ OwedOf(j)' = {}
    BY <2>1, NoOwnerNext DEF Owns, FinalizePC
  <2> QED
    BY <1>5, <2>2, JobsStay, SeenDeath DEF crash, storeVars
<1> QED
  BY <1>1, <1>2, <1>3, <1>4, <1>5 DEF Environment

\* An empty database is a grid without jobs.
LEMMA RefineInit == Init => Lifecycle!Init
<1> SUFFICES ASSUME Init PROVE Lifecycle!Init
  OBVIOUS
<1> USE DEF Init, StoreInit
<1>1. \A j \in Jobs : PhaseOf(j) = "absent"
  BY DEF PhaseOf, Open
<1>2. \A j \in Jobs : OwnerOf(j) = "none" /\ OwedOf(j) = {}
  BY NoOwner DEF Owns, FinalizePC
<1>3. [i \in 1..Len(ledger) |-> ledger[i].task] = << >>
  OBVIOUS
<1> QED
  BY <1>1, <1>2, <1>3 DEF Lifecycle!Init

-----------------------------------------------------------------------------
(* The theorem *)

\* As long as no finalization outlasts the sweep's 30 s, all that happens to a job, over all interleavings and crashes, is what
\* JobLifecycle allows: one owner at a time, which publishes, then pays each
\* contributing replica once, then closes.
THEOREM Refinement ==
    ASSUME ~CanStall
    PROVE  Spec => ImplementsLifecycle
<1>1. Spec => []MapInv
  <2>1. Init => PayInv
    BY InitInvs
  <2>2. TypeInv /\ PayInv /\ [Next]_vars => PayInv'
    BY PayInvNext
  <2> QED
    BY <2>1, <2>2, AlwaysSubmitted, AlwaysOwner, PTL DEF Spec, MapInv
<1>2. MapInv => OneOwner
  BY DEF MapInv, OwnerInv
<1>3. MapInv /\ OneOwner' /\ [Next]_vars => [Lifecycle!Next]_(Lifecycle!vars)
  <2> SUFFICES ASSUME MapInv, OneOwner', [Next]_vars
               PROVE  Lifecycle!Next \/ UNCHANGED Lifecycle!vars
    OBVIOUS
  <2>1. CASE Next
    BY <2>1, RefineRequest, RefineStep, RefineReap, RefineEnvironment DEF Next
  <2>2. CASE UNCHANGED vars
    BY <2>2, LocalsStay, JobsStay, Unseen DEF vars, storeVars, fileVars, SameBooks
  <2> QED
    BY <2>1, <2>2
<1> QED
  BY <1>1, <1>2, <1>3, RefineInit, PTL DEF Spec, ImplementsLifecycle, Lifecycle!Spec

\* What is proved of JobLifecycle, for the mapped state.
Life ==
    INSTANCE JobLifecycleProofs
      WITH Parts <- 1..Replicas, DiskFails <- FileErrors,
           phase <- phaseBar, owner <- ownerBar, owed <- owedBar,
           results <- published, payments <- paymentsBar, deaths <- faults

\* As long as no finalization outlasts the sweep's 30 s, each crash costs at
\* most one more payment of a replica, and without a crash it is paid at most
\* once: finalize may pay again what a dead finalizer has paid already, but
\* only once per death.
THEOREM PaidPerCrash ==
    ASSUME ~CanStall
    PROVE  Spec => []PaidPerFault
<1>1. Lifecycle!Init => Life!Init
  BY DEF Lifecycle!Init, Life!Init
<1>2. [Lifecycle!Next]_(Lifecycle!vars) => [Life!Next]_(Life!vars)
  BY DEF Lifecycle!Next, Lifecycle!vars, Lifecycle!Die, Lifecycle!JobStep, Lifecycle!Submit,
         Lifecycle!Cancel, Lifecycle!Reopen, Lifecycle!Claim, Lifecycle!Publish,
         Lifecycle!Pay, Lifecycle!Complete, Lifecycle!Fail,
         Life!Next, Life!vars, Life!Die, Life!JobStep, Life!Submit,
         Life!Cancel, Life!Reopen, Life!Claim, Life!Publish,
         Life!Pay, Life!Complete, Life!Fail
<1>3. Life!Spec => []Life!PaidPerDeath
  BY Life!PaidPerDeathHolds
<1>4. Life!PaidPerDeath => PaidPerFault
  <2> SUFFICES ASSUME Life!PaidPerDeath, NEW t \in Tasks
               PROVE  Cardinality({i \in 1..Len(ledger) : ledger[i].task = t}) <= 1 + faults
    BY DEF PaidPerFault
  <2>1. PICK j \in Jobs, r \in 1..Replicas : t = <<j, r>>
    BY DEF Tasks
  <2>2. Len(paymentsBar) = Len(ledger)
    OBVIOUS
  <2>3. {i \in 1..Len(paymentsBar) : paymentsBar[i] = <<j, r>>}
          = {i \in 1..Len(ledger) : ledger[i].task = t}
    BY <2>1, <2>2
  <2>4. Life!Paid(j, r) <= 1 + faults
    BY DEF Life!PaidPerDeath
  <2> QED
    BY <2>3, <2>4 DEF Life!Paid, Life!Cardinality, Cardinality
<1> QED
  BY <1>1, <1>2, <1>3, <1>4, Refinement, PTL
     DEF ImplementsLifecycle, Lifecycle!Spec, Life!Spec
=============================================================================
