------------------------- MODULE JobLifecycleProofs -------------------------
(***************************************************************************)
(* What follows from JobLifecycle alone, for any jobs, replicas and number *)
(* of deaths: how often a replica can be paid.  Paid(j, r) <= 1 + deaths   *)
(* is not inductive.  Budget adds that as long as a payment of r can still *)
(* come without another death, at most `deaths` of them have been made.    *)
(***************************************************************************)
EXTENDS JobLifecycle, FiniteSetTheorems, TLAPS

Shape ==
    /\ phase \in [Jobs -> {"absent", "open", "finalizing", "completed", "failed", "cancelled"}]
    /\ owner \in [Jobs -> {"none", "aggregating", "paying", "failing"}]
    /\ owed \in [Jobs -> SUBSET Parts]
    /\ payments \in Seq(Jobs \X Parts)
    /\ deaths \in Nat
    /\ \A j \in Jobs : phase[j] \in {"absent", "open"} => owner[j] = "none"

\* Without another death, r may still be paid: the job may be claimed, or
\* claimed again, or its owner has not come to r yet.
MayPay(j, r) ==
    \/ phase[j] \in {"absent", "open"}
    \/ phase[j] = "finalizing" /\ owner[j] = "none"
    \/ owner[j] \in {"aggregating", "failing"}
    \/ r \in owed[j]

Budget ==
    \A j \in Jobs : \A r \in Parts :
      /\ Paid(j, r) <= 1 + deaths
      /\ MayPay(j, r) => Paid(j, r) <= deaths

\* The positions of a replica's payments are finitely many.
LEMMA PaidFinite ==
    ASSUME payments \in Seq(Jobs \X Parts), NEW j, NEW r
    PROVE  /\ IsFiniteSet({i \in 1..Len(payments) : payments[i] = <<j, r>>})
           /\ Paid(j, r) \in Nat
<1>1. IsFiniteSet(1..Len(payments))
  BY FS_Interval
<1>2. IsFiniteSet({i \in 1..Len(payments) : payments[i] = <<j, r>>})
  BY <1>1, FS_Subset
<1> QED
  BY <1>2, FS_CardinalityType DEF Paid

\* A payment counts once, for its own replica.
LEMMA PaidAppend ==
    ASSUME payments \in Seq(Jobs \X Parts), NEW k \in Jobs, NEW q \in Parts,
           payments' = Append(payments, <<k, q>>), NEW j \in Jobs, NEW r \in Parts
    PROVE  Paid(j, r)' = IF j = k /\ r = q THEN Paid(j, r) + 1 ELSE Paid(j, r)
<1> DEFINE before == {i \in 1..Len(payments) : payments[i] = <<j, r>>}
           after == {i \in 1..Len(payments') : payments'[i] = <<j, r>>}
           next == Len(payments) + 1
<1>1. /\ Len(payments) \in Nat /\ Len(payments') = next
      /\ \A i \in 1..Len(payments) : payments'[i] = payments[i]
      /\ payments'[next] = <<k, q>>
  OBVIOUS
<1>2. IsFiniteSet(before) /\ next \notin before
  <2>1. next \notin before
    BY <1>1
  <2>2. IsFiniteSet(before)
    BY PaidFinite
  <2> QED BY <2>1, <2>2
<1>3. CASE j = k /\ r = q
  <2>1. after = before \cup {next}
    BY <1>1, <1>3
  <2> QED
    BY <1>2, <1>3, <2>1, FS_AddElement DEF Paid
<1>4. CASE ~(j = k /\ r = q)
  <2>1. after = before
    BY <1>1, <1>4
  <2> QED
    BY <1>4, <2>1 DEF Paid
<1> QED
  BY <1>3, <1>4

\* Every step keeps the shape of the state.
LEMMA ShapeStep == Shape /\ [Next]_vars => Shape'
<1> SUFFICES ASSUME Shape, [Next]_vars PROVE Shape'
  OBVIOUS
<1> USE DEF Shape
<1>1. CASE Die
  BY <1>1 DEF Die
<1>2. CASE UNCHANGED vars
  BY <1>2 DEF vars
<1>3. ASSUME NEW j \in Jobs, JobStep(j)
      PROVE  Shape'
  <2>1. CASE Submit(j) \/ Cancel(j) \/ Reopen(j) \/ Complete(j) \/ Fail(j)
    BY <2>1 DEF Submit, Cancel, Reopen, Complete, Fail
  <2>2. ASSUME NEW work \in {"aggregating", "failing"}, Claim(j, work)
        PROVE  Shape'
    BY <2>2 DEF Claim
  <2>3. ASSUME NEW S \in SUBSET Parts, Publish(j, S)
        PROVE  Shape'
    BY <2>3 DEF Publish
  <2>4. ASSUME NEW r \in Parts, Pay(j, r)
        PROVE  Shape'
    BY <2>4 DEF Pay
  <2> QED
    BY <1>3, <2>1, <2>2, <2>3, <2>4 DEF JobStep
<1> QED
  BY <1>1, <1>2, <1>3 DEF Next

\* A step that pays nobody, and lets nobody be paid who could not be before,
\* keeps the budget.
LEMMA BudgetKept ==
    ASSUME Shape, Budget, payments' = payments, deaths' = deaths,
           \A j \in Jobs : \A r \in Parts : MayPay(j, r)' => MayPay(j, r)
    PROVE  Budget'
BY DEF Budget, Paid

\* Every step keeps the budget: only a Pay spends, only a Die adds.
LEMMA BudgetStep == Shape /\ Budget /\ [Next]_vars => Budget'
<1> SUFFICES ASSUME Shape, Budget, [Next]_vars PROVE Budget'
  OBVIOUS
<1> USE DEF Shape
<1>1. CASE Die
  <2>1. \A j \in Jobs : \A r \in Parts : Paid(j, r) \in Nat
    BY PaidFinite
  <2>2. \A j \in Jobs : \A r \in Parts : Paid(j, r)' = Paid(j, r)
    BY <1>1 DEF Die, Paid
  <2>3. deaths' = deaths + 1
    BY <1>1 DEF Die
  <2> QED
    BY <2>1, <2>2, <2>3 DEF Budget
<1>2. CASE UNCHANGED vars
  BY <1>2, BudgetKept DEF vars, MayPay
<1>3. ASSUME NEW k \in Jobs, JobStep(k)
      PROVE  Budget'
  <2>1. CASE Submit(k) \/ Cancel(k) \/ Reopen(k)
    BY <2>1, BudgetKept DEF Submit, Cancel, Reopen, MayPay
  <2>2. CASE Complete(k) \/ Fail(k)
    BY <2>2, BudgetKept DEF Complete, Fail, MayPay
  <2>3. ASSUME NEW work \in {"aggregating", "failing"}, Claim(k, work)
        PROVE  Budget'
    BY <2>3, BudgetKept DEF Claim, MayPay
  <2>4. ASSUME NEW S \in SUBSET Parts, Publish(k, S)
        PROVE  Budget'
    BY <2>4, BudgetKept DEF Publish, MayPay
  <2>5. ASSUME NEW q \in Parts, Pay(k, q)
        PROVE  Budget'
    <3>1. MayPay(k, q) /\ ~MayPay(k, q)'
      BY <2>5 DEF Pay, MayPay
    <3>2. \A j \in Jobs : \A r \in Parts : MayPay(j, r)' => MayPay(j, r)
      BY <2>5 DEF Pay, MayPay
    <3>3. payments' = Append(payments, <<k, q>>) /\ deaths' = deaths
      BY <2>5 DEF Pay
    <3> SUFFICES ASSUME NEW j \in Jobs, NEW r \in Parts
                 PROVE  /\ Paid(j, r)' <= 1 + deaths
                        /\ MayPay(j, r)' => Paid(j, r)' <= deaths
      BY <3>3 DEF Budget
    <3>4. Paid(j, r) \in Nat
      BY PaidFinite
    <3>5. Paid(j, r)' = IF j = k /\ r = q THEN Paid(j, r) + 1 ELSE Paid(j, r)
      BY <3>3, PaidAppend
    <3>6. /\ Paid(j, r) <= 1 + deaths
          /\ MayPay(j, r) => Paid(j, r) <= deaths
      BY DEF Budget
    <3> QED
      BY <3>1, <3>2, <3>4, <3>5, <3>6
  <2> QED
    BY <1>3, <2>1, <2>2, <2>3, <2>4, <2>5 DEF JobStep
<1> QED
  BY <1>1, <1>2, <1>3 DEF Next

\* However jobs are claimed, cancelled and claimed again, a replica is paid at
\* most once more than the owners have died.
THEOREM PaidPerDeathHolds == Spec => []PaidPerDeath
<1>1. Init => Shape
  BY DEF Init, Shape
<1>2. Init => Budget
  <2> SUFFICES ASSUME Init, NEW j \in Jobs, NEW r \in Parts
               PROVE  Paid(j, r) = 0
    BY DEF Init, Budget
  <2>1. {i \in 1..Len(payments) : payments[i] = <<j, r>>} = {}
    BY DEF Init
  <2> QED
    BY <2>1, FS_EmptySet DEF Paid
<1>3. Budget => PaidPerDeath
  BY DEF Budget, PaidPerDeath
<1> QED
  BY <1>1, <1>2, <1>3, ShapeStep, BudgetStep, PTL DEF Spec
=============================================================================
