SPECIFICATION GridSpec
CONSTANTS
  plain = plain
  script = script
  t1 = t1
  t2 = t2
  t3 = t3
  None = None
  Jobs = {plain, script}
  Tasks = {t1, t2, t3}
  Nodes = {n1}
  Sessions = {s1, s2}
  Submissions <- EitherJob
  Scripted = {script}
  JobOf <- JobOfTask
  QueueOrder <- TaskOrder
  MaxAttempts <- Attempts
  MinResults = 1
  MaxTrouble = 1
  MaxQueue = 1
INVARIANTS GridTypeOK JobRowAgreesWithTasks AttemptBudget PaidPerDelivery
PROPERTY RunningEnds
CHECK_DEADLOCK FALSE
