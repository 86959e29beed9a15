---------------------------- MODULE GridWorkerProofs ----------------------------
(* That a task nobody has stays assigned only for a reason (GridWorker), for    *)
(* any number of worker programs, any number of attempts and any number of      *)
(* mishaps. The invariant keeps, for the process whose the task is, an account  *)
(* of its tries to report: each one, and the session it may have lost since,    *)
(* is owed to a lost request or to another registration.                        *)
EXTENDS GridWorker, TLAPS

GridWorkerSpec == GridWorkerInit /\ [][GridWorkerNext]_gridWorkerVars

Where == [at : {"off", "polling", "expired", "training", "reporting", "rotated", "failing"}, attempt : Nat, tries : 0 .. 2]
Row == [status : {"queued", "assigned", "done", "failed"}, assignee : Processes \cup {"none"}, attempts : Nat]
GridRequest == [from : Processes, kind : {"register", "claim", "result", "failure"}]
Lost == mishaps["lost"]
Refused == mishaps["refused"]

GridWorkerTypes ==
  /\ node_id \in [Processes -> Processes] /\ loop \in [Processes -> Where]
  /\ session \in [Processes -> Processes \cup {"nobody"}]
  /\ gridTasks \in [{Replica} -> Row] /\ late \subseteq GridRequest
  /\ mishaps \in [{"lost", "refused"} -> Nat] /\ rotations \in 0 .. 3
  /\ left \in [attempt : Nat, how : {"no", "died", "untrained", "trained"}]

\* A process has an attempt exactly while it works on one, and none is ahead of the row.
AttemptsInOrder ==
  /\ TaskRow.status = "assigned" => TaskRow.attempts > 0
  /\ left.attempt <= TaskRow.attempts
  /\ \A w \in Processes : /\ loop[w].attempt <= TaskRow.attempts
                          /\ loop[w].at \in {"off", "polling", "expired"} => loop[w].attempt = 0

\* The account of the process whose the task is.
Owed(w) == loop[w].tries + (IF KnowsItsSession(w) THEN 0 ELSE 1)
Account(w) ==
  /\ TaskRow.assignee = node_id[w]
  /\ ~KnowsItsSession(w) => rotations > 0
  /\ loop[w].at = "rotated" => ~KnowsItsSession(w)
  /\ Owed(w) <= Lost + rotations

GridWorkerInv ==
  /\ GridWorkerTypes /\ AttemptsInOrder
  /\ late # {} => Lost > 0
  /\ \A w \in Processes : IsCurrent(w) => Account(w)
  /\ LetGoOnlyForAReason

-----------------------------------------------------------------------------
(* What a request can do to the row and to the sessions.                      *)

Nothing == gridTasks' = gridTasks /\ session' = session /\ rotations' = rotations
Taken(n) ==
  /\ TaskRow.status = "queued" /\ session' = session /\ rotations' = 0
  /\ gridTasks' \in [{Replica} -> Row] /\ gridTasks'[Replica] = [status |-> "assigned", assignee |-> n, attempts |-> TaskRow.attempts + 1]
Ended ==
  /\ session' = session /\ rotations' = rotations
  /\ gridTasks' \in [{Replica} -> Row] /\ gridTasks'[Replica].status # "assigned"
  /\ gridTasks'[Replica].attempts >= TaskRow.attempts
Joined(w, heard) ==
  /\ gridTasks' = gridTasks
  /\ session' = [session EXCEPT ![node_id[w]] = IF heard THEN w ELSE "nobody"]
  /\ rotations' = IF rotations < 3 /\ \E v \in Processes : IsCurrent(v) /\ node_id[v] = node_id[w] /\ KnowsItsSession(v)
                  THEN rotations + 1 ELSE rotations
Effect(w, reply, heard) ==
  \/ reply = "welcome" /\ Joined(w, heard)
  \/ reply = "task" /\ KnowsItsSession(w) /\ Taken(node_id[w])
  \/ /\ reply \notin {"welcome", "task"} /\ Nothing
     /\ reply = "401" => ~KnowsItsSession(w)
     /\ reply = "403" => TaskRow.assignee # node_id[w]
     /\ reply = "ack" => TaskRow.status # "assigned"
  \/ reply \in {"ack", "refused"} /\ Ended

\* The row of the task is a row of the table.
LEMMA RowIsTyped == GridWorkerTypes => TaskRow \in Row /\ TaskRow = gridTasks[Replica]
BY DEF GridWorkerTypes, TaskRow

\* A row written is the row of the task.
LEMMA RowWritten ==
  ASSUME GridWorkerTypes, NEW row \in Row, gridTasks' = [gridTasks EXCEPT ![Replica] = row]
  PROVE  gridTasks' \in [{Replica} -> Row] /\ gridTasks'[Replica] = row
BY DEF GridWorkerTypes

\* A released row is not assigned and keeps its attempts.
LEMMA ReleasedRow ==
  ASSUME NEW row \in Row
  PROVE  Store!Released(row) \in Row /\ Store!Released(row).status # "assigned" /\ Store!Released(row).attempts = row.attempts
BY DEF Store!Released, Row

\* What a claim does to the tables is one of the effects of a request.
LEMMA ClaimEffect ==
  ASSUME GridWorkerTypes, NEW w \in Processes, NEW reply, NEW heard, handle_claim(w, reply)
  PROVE  Effect(w, reply, heard)
<1>t. TaskRow \in Row /\ TaskRow = gridTasks[Replica] /\ node_id[w] \in Processes
  BY RowIsTyped DEF GridWorkerTypes
<1>1. CASE reply = "401" /\ ~KnowsItsSession(w) /\ UNCHANGED tables
  BY <1>1 DEF handle_claim, Effect, Nothing, tables
<1>2. CASE reply = "idle" /\ UNCHANGED tables
  BY <1>2 DEF handle_claim, Effect, Nothing, tables
<1>3. CASE reply = "task" /\ KnowsItsSession(w) /\ Store!claim_task(node_id[w], Replica)
  <2> DEFINE row == [status |-> "assigned", assignee |-> node_id[w], attempts |-> TaskRow.attempts + 1]
  <2>1. row \in Row
    BY <1>t DEF Row
  <2>2. TaskRow.status = "queued" /\ gridTasks' = [gridTasks EXCEPT ![Replica] = row]
    BY <1>t, <1>3 DEF Store!claim_task, Store!IsFirst, Store!Claimable
  <2>3. gridTasks' \in [{Replica} -> Row] /\ gridTasks'[Replica] = row
    BY <2>1, <2>2, RowWritten
  <2> QED
    BY <1>3, <2>2, <2>3 DEF handle_claim, Effect, Taken
<1>4. CASE reply = "refused" /\ UNCHANGED tables
  BY <1>4 DEF handle_claim, Effect, Nothing, tables
<1>5. CASE /\ reply = "refused"
           /\ gridTasks' = [gridTasks EXCEPT ![Replica] = Store!Released([TaskRow EXCEPT !.attempts = @ + 1])]
  <2> DEFINE more == [TaskRow EXCEPT !.attempts = @ + 1]
             row == [status |-> IF TaskRow.attempts + 1 < Attempts THEN "queued" ELSE "failed", assignee |-> "none",
                     attempts |-> TaskRow.attempts + 1]
  <2>1. more.attempts = TaskRow.attempts + 1
    BY <1>t DEF Row
  <2>2. row \in Row /\ row = Store!Released(more)
    BY <1>t, <2>1 DEF Row, Store!Released
  <2>3. gridTasks' = [gridTasks EXCEPT ![Replica] = row]
    BY <1>5, <2>2
  <2>4. gridTasks' \in [{Replica} -> Row] /\ gridTasks'[Replica] = row
    BY <2>2, <2>3, RowWritten
  <2>5. row.status # "assigned" /\ row.attempts >= TaskRow.attempts
    BY <1>t DEF Row
  <2>6. Ended
    BY <1>5, <2>4, <2>5 DEF handle_claim, Ended
  <2> QED
    BY <1>5, <2>6 DEF Effect
<1> QED
  BY <1>1, <1>2, <1>3, <1>4, <1>5 DEF handle_claim

\* What a result does to the tables is one of the effects of a request.
LEMMA ResultEffect ==
  ASSUME GridWorkerTypes, NEW w \in Processes, NEW ok, NEW reply, NEW heard, handle_result(w, ok, reply)
  PROVE  Effect(w, reply, heard)
<1>t. TaskRow \in Row /\ TaskRow = gridTasks[Replica]
  BY RowIsTyped
<1>1. CASE reply = "401" /\ ~KnowsItsSession(w) /\ UNCHANGED tables
  BY <1>1 DEF handle_result, Effect, Nothing, tables
<1>2. CASE reply = "403" /\ TaskRow.assignee # node_id[w] /\ UNCHANGED tables
  BY <1>2 DEF handle_result, Effect, Nothing, tables
<1>3. CASE reply = "ack" /\ Store!Live(Replica) /\ Store!finish_task(Replica, ok)
  <2>1. PICK row \in Row : row = [status |-> IF ok THEN "done" ELSE "failed", assignee |-> TaskRow.assignee, attempts |-> TaskRow.attempts]
    BY <1>t DEF Row
  <2>2. gridTasks' = [gridTasks EXCEPT ![Replica] = row]
    BY <1>t, <1>3, <2>1 DEF Store!finish_task
  <2>3. gridTasks' \in [{Replica} -> Row] /\ gridTasks'[Replica] = row
    BY <2>2, RowWritten
  <2>4. row.status # "assigned" /\ row.attempts >= TaskRow.attempts
    BY <1>t, <2>1 DEF Row
  <2> QED
    BY <1>3, <2>3, <2>4 DEF handle_result, Effect, Ended
<1>4. CASE reply = "ack" /\ ~Store!Live(Replica) /\ UNCHANGED tables
  BY <1>t, <1>4 DEF handle_result, Effect, Nothing, tables, Store!Live
<1>5. CASE reply = "refused" /\ UNCHANGED tables
  BY <1>5 DEF handle_result, Effect, Nothing, tables
<1> QED
  BY <1>1, <1>2, <1>3, <1>4, <1>5 DEF handle_result

\* Whatever the coordinator handles has one of the effects of a request.
LEMMA HandleEffect ==
  ASSUME GridWorkerTypes, NEW r \in GridRequest, NEW reply, NEW heard, NEW rest, rest \subseteq GridRequest,
         Handle(r, reply, heard, rest)
  PROVE  Effect(r.from, reply, heard) /\ late' \subseteq rest
<1>0. r.from \in Processes
  BY DEF GridRequest
<1>1. late' \subseteq rest
  BY DEF Handle
<1>2. CASE r.kind = "register" /\ handle_register(r.from, reply, heard)
  <2>1. CASE reply = "welcome"
    BY <1>1, <1>2, <2>1 DEF handle_register, Effect, Joined, tables
  <2>2. CASE reply = "refused"
    BY <1>1, <1>2, <2>2 DEF handle_register, Effect, Nothing, tables
  <2> QED
    BY <1>1, <1>2, <2>1, <2>2 DEF handle_register
<1>3. CASE r.kind = "claim" /\ handle_claim(r.from, reply)
  BY <1>0, <1>1, <1>3, ClaimEffect
<1>4. CASE r.kind \in {"result", "failure"} /\ handle_result(r.from, r.kind = "result", reply)
  BY <1>0, <1>1, <1>4, ResultEffect
<1> QED
  BY <1>2, <1>3, <1>4 DEF Handle

\* What a request does and what its sender learns: the whole effect, a refusal, or nothing at all.
Learns(w, got) ==
  \/ got \notin {"refused", "none"} /\ mishaps' = mishaps /\ late' \subseteq late /\ Effect(w, got, TRUE)
  \/ got = "refused" /\ Lost' = Lost /\ Refused' = Refused + 1 /\ late' \subseteq late /\ Effect(w, got, TRUE)
  \/ /\ got = "none" /\ Lost' = Lost + 1 /\ Refused' = Refused
     /\ \E reply \in {"welcome", "task", "ack", "idle"} : Effect(w, reply, FALSE)
MishapsGrow ==
  /\ mishaps' \in [{"lost", "refused"} -> Nat] /\ Lost' >= Lost /\ Refused' >= Refused
  /\ late' \subseteq GridRequest /\ (late' # {} => Lost' > 0)

\* A request has an effect on the tables, and what is lost of it is counted.
LEMMA RequestEffect ==
  ASSUME GridWorkerTypes, late # {} => Lost > 0, NEW w \in Processes, NEW kind \in {"register", "claim", "result", "failure"}, NEW got,
         Request(w, kind, got)
  PROVE  Learns(w, got) /\ MishapsGrow
<1> DEFINE r == [from |-> w, kind |-> kind]
<1>r. r \in GridRequest /\ r.from = w /\ r.kind = kind
  BY DEF GridRequest
<1>t. late \subseteq GridRequest /\ mishaps \in [{"lost", "refused"} -> Nat]
  BY DEF GridWorkerTypes
<1>n. Lost \in Nat /\ Refused \in Nat
  BY <1>t DEF Lost, Refused
<1>h. ASSUME NEW reply, NEW heard, Handle(r, reply, heard, late)
      PROVE  Effect(w, reply, heard) /\ late' \subseteq late
  BY <1>r, <1>t, <1>h, HandleEffect
<1>1. CASE got \in {"welcome", "task", "idle", "ack", "401", "403"} /\ Handle(r, got, TRUE, late) /\ UNCHANGED mishaps
  <2>1. got \notin {"refused", "none"} /\ mishaps' = mishaps
    BY <1>1
  <2>2. Effect(w, got, TRUE) /\ late' \subseteq late
    BY <1>1, <1>h
  <2>3. Learns(w, got)
    BY <2>1, <2>2 DEF Learns
  <2>4. Lost' = Lost /\ Refused' = Refused
    BY <2>1 DEF Lost, Refused
  <2> QED
    BY <1>t, <1>n, <2>1, <2>2, <2>3, <2>4 DEF MishapsGrow
<1>2. CASE got = "refused" /\ Handle(r, got, TRUE, late) /\ Mishap("refused")
  <2>1. mishaps' = [mishaps EXCEPT !["refused"] = @ + 1]
    BY <1>2 DEF Mishap
  <2>2. mishaps' \in [{"lost", "refused"} -> Nat] /\ Lost' = Lost /\ Refused' = Refused + 1
    BY <1>t, <2>1 DEF Lost, Refused
  <2>3. Effect(w, got, TRUE) /\ late' \subseteq late
    BY <1>2, <1>h
  <2>4. Learns(w, got)
    BY <1>2, <2>2, <2>3 DEF Learns
  <2> QED
    BY <1>t, <1>n, <2>2, <2>3, <2>4 DEF MishapsGrow
<1>3. CASE /\ got = "none" /\ Mishap("lost")
           /\ \/ late' \in {late, {q \in {r} : kind # "register"}} /\ UNCHANGED <<session, tables, rotations>>
              \/ \E reply \in {"welcome", "task", "ack"} : Handle(r, reply, FALSE, late)
  <2>1. mishaps' = [mishaps EXCEPT !["lost"] = @ + 1]
    BY <1>3 DEF Mishap
  <2>2. mishaps' \in [{"lost", "refused"} -> Nat] /\ Lost' = Lost + 1 /\ Refused' = Refused
    BY <1>t, <2>1 DEF Lost, Refused
  <2>3. (\E reply \in {"welcome", "task", "ack", "idle"} : Effect(w, reply, FALSE)) /\ late' \subseteq GridRequest
    <3>1. CASE late' \in {late, {q \in {r} : kind # "register"}} /\ UNCHANGED <<session, tables, rotations>>
      <4>1. Effect(w, "idle", FALSE)
        BY <3>1 DEF Effect, Nothing, tables
      <4>2. late' \subseteq GridRequest
        BY <1>r, <1>t, <3>1
      <4> QED
        BY <4>1, <4>2
    <3>2. CASE \E reply \in {"welcome", "task", "ack"} : Handle(r, reply, FALSE, late)
      <4>1. PICK reply \in {"welcome", "task", "ack"} : Handle(r, reply, FALSE, late)
        BY <3>2
      <4>2. Effect(w, reply, FALSE) /\ late' \subseteq late
        BY <4>1, <1>h
      <4> QED
        BY <1>t, <4>2
    <3> QED
      BY <1>3, <3>1, <3>2
  <2>4. Learns(w, got)
    BY <1>3, <2>2, <2>3 DEF Learns
  <2> QED
    BY <1>n, <2>2, <2>3, <2>4 DEF MishapsGrow
<1> QED
  BY <1>1, <1>2, <1>3, Zenon DEF Request

\* The row stays, or is taken, or is not assigned any more; in any case it does not go back.
SameRow == gridTasks' = gridTasks /\ rotations' >= rotations
\* An effect leaves the row as it was, gives it to the sender with a new attempt, or ends its assignment.
LEMMA EffectOnRow ==
  ASSUME GridWorkerTypes, AttemptsInOrder, NEW u \in Processes, NEW reply, NEW heard \in BOOLEAN, Effect(u, reply, heard)
  PROVE  /\ gridTasks' \in [{Replica} -> Row] /\ session' \in [Processes -> Processes \cup {"nobody"}] /\ rotations' \in 0 .. 3
         /\ gridTasks'[Replica].attempts >= TaskRow.attempts
         /\ gridTasks'[Replica].status = "assigned" => gridTasks'[Replica].attempts > 0
         /\ SameRow \/ (reply = "task" /\ Taken(node_id[u])) \/ Ended
<1>t. /\ TaskRow \in Row /\ TaskRow = gridTasks[Replica] /\ TaskRow.attempts \in Nat
      /\ gridTasks \in [{Replica} -> Row] /\ session \in [Processes -> Processes \cup {"nobody"}]
      /\ rotations \in 0 .. 3 /\ node_id[u] \in Processes
  BY RowIsTyped DEF GridWorkerTypes, Row
<1>0. TaskRow.status = "assigned" => TaskRow.attempts > 0
  BY DEF AttemptsInOrder
<1>1. CASE Nothing
  BY <1>t, <1>0, <1>1 DEF Nothing, SameRow
<1>2. CASE Joined(u, heard)
  <2>1. gridTasks' = gridTasks /\ session' \in [Processes -> Processes \cup {"nobody"}]
    BY <1>t, <1>2 DEF Joined
  <2>2. rotations' \in 0 .. 3 /\ rotations' >= rotations
    BY <1>t, <1>2 DEF Joined
  <2> QED
    BY <1>t, <1>0, <2>1, <2>2 DEF SameRow
<1>3. CASE reply = "task" /\ Taken(node_id[u])
  BY <1>t, <1>3 DEF Taken
<1>4. CASE Ended
  BY <1>t, <1>4 DEF Ended
<1> QED
  BY <1>1, <1>2, <1>3, <1>4 DEF Effect

\* A program whose session is replaced by another's registration has that registration counted.
LEMMA RegistrationsAreCounted ==
  ASSUME GridWorkerTypes, NEW u \in Processes, NEW heard \in BOOLEAN, Joined(u, heard),
         NEW v \in Processes, IsCurrent(v), KnowsItsSession(v), ~KnowsItsSession(v)'  , node_id' = node_id
  PROVE  rotations' = IF rotations < 3 THEN rotations + 1 ELSE rotations
<1>1. node_id[v] = node_id[u]
  BY DEF GridWorkerTypes, Joined, KnowsItsSession
<1> QED
  BY <1>1 DEF Joined

\* What the process whose the task is owes once a request is through.
OwedThen(v) == loop[v].tries + (IF KnowsItsSession(v)' THEN 0 ELSE 1)
\* What a program is owed stays within the mishaps after any request.
LEMMA OwedAfterARequest ==
  ASSUME GridWorkerInv, NEW u \in Processes, NEW reply, NEW heard \in BOOLEAN, Effect(u, reply, heard),
         node_id' = node_id, NEW v \in Processes, IsCurrent(v), SameRow
  PROVE  /\ TaskRow'.assignee = node_id'[v]
         /\ OwedThen(v) <= Lost + rotations'
         /\ ~KnowsItsSession(v)' => rotations' > 0
         /\ ~KnowsItsSession(v) /\ ~(reply = "welcome" /\ heard /\ v = u) => ~KnowsItsSession(v)'
<1>t. /\ TaskRow \in Row /\ TaskRow = gridTasks[Replica] /\ TaskRow.attempts \in Nat
      /\ session \in [Processes -> Processes \cup {"nobody"}] /\ rotations \in 0 .. 3
      /\ node_id \in [Processes -> Processes] /\ loop[v] \in Where /\ loop[v].tries \in 0 .. 2
      /\ GridWorkerTypes /\ AttemptsInOrder /\ Lost \in Nat
  BY RowIsTyped DEF GridWorkerInv, GridWorkerTypes, Row, Where, Lost
<1>r. rotations' \in 0 .. 3
  BY <1>t, EffectOnRow
<1>3. gridTasks' = gridTasks /\ rotations' >= rotations
  BY DEF SameRow
<1>5. Account(v)
  BY DEF GridWorkerInv
<1>6. (reply = "welcome" /\ Joined(u, heard)) \/ Nothing
  <2>1. TaskRow.status = "assigned"
    BY DEF IsCurrent
  <2> QED
    BY <1>t, <1>3, <2>1 DEF Effect, Taken, Ended
<1>7. TaskRow'.assignee = node_id'[v]
  BY <1>3, <1>5 DEF Account, TaskRow
<1>8. CASE Nothing
  <2>1. KnowsItsSession(v)' = KnowsItsSession(v)
    BY <1>8 DEF Nothing, KnowsItsSession
  <2>2. OwedThen(v) = Owed(v) /\ Owed(v) \in Nat
    BY <1>t, <2>1 DEF Owed, OwedThen
  <2> QED
    BY <1>t, <1>r, <1>3, <1>5, <1>7, <2>1, <2>2 DEF Account
<1>9. CASE reply = "welcome" /\ Joined(u, heard)
  <2>0. ASSUME ~KnowsItsSession(v), ~(heard /\ v = u) PROVE ~KnowsItsSession(v)'
    <3> SUFFICES ASSUME KnowsItsSession(v)' PROVE FALSE
      BY <2>0
    <3>1. session[node_id[v]] # v /\ session'[node_id[v]] = v
      BY <2>0 DEF KnowsItsSession
    <3>2. session'[node_id[v]] \in {session[node_id[v]], IF heard THEN u ELSE "nobody"}
      BY <1>t, <1>9 DEF Joined
    <3> QED
      BY <2>0, <3>1, <3>2, ProcessesAssumption
  <2>1. CASE KnowsItsSession(v) /\ ~KnowsItsSession(v)'
    <3>1. rotations' = IF rotations < 3 THEN rotations + 1 ELSE rotations
      BY <1>t, <1>9, <2>1, RegistrationsAreCounted
    <3>2. Owed(v) = loop[v].tries /\ OwedThen(v) = loop[v].tries + 1
      BY <1>t, <2>1 DEF Owed, OwedThen
    <3>3. OwedThen(v) <= Lost + rotations' /\ rotations' > 0
      BY <1>t, <1>5, <3>1, <3>2 DEF Account
    <3> QED
      BY <1>7, <2>1, <3>3
  <2>2. CASE ~KnowsItsSession(v) /\ ~KnowsItsSession(v)'
    <3>1. OwedThen(v) = Owed(v) /\ Owed(v) \in Nat
      BY <1>t, <2>2 DEF Owed, OwedThen
    <3>2. OwedThen(v) <= Lost + rotations' /\ rotations' > 0
      BY <1>t, <1>r, <1>3, <1>5, <2>2, <3>1 DEF Account
    <3> QED
      BY <1>7, <2>2, <3>2
  <2>3. CASE KnowsItsSession(v)'
    <3>1. OwedThen(v) = loop[v].tries /\ loop[v].tries <= Owed(v) /\ Owed(v) \in Nat
      BY <1>t, <2>3 DEF Owed, OwedThen
    <3>2. OwedThen(v) <= Lost + rotations'
      BY <1>t, <1>r, <1>3, <1>5, <3>1 DEF Account
    <3> QED
      BY <1>7, <1>9, <2>0, <2>3, <3>2
  <2> QED
    BY <2>1, <2>2, <2>3
<1> QED
  BY <1>6, <1>8, <1>9

\* Who has the task after a step had it before, if its attempt is the same, and the row is as it was.
LEMMA StillCurrent ==
  ASSUME GridWorkerInv, NEW u \in Processes, NEW reply, NEW heard \in BOOLEAN, Effect(u, reply, heard),
         NEW v \in Processes, loop'[v].attempt = loop[v].attempt, IsCurrent(v)'
  PROVE  IsCurrent(v) /\ SameRow
<1>t. /\ TaskRow = gridTasks[Replica] /\ TaskRow.attempts \in Nat /\ GridWorkerTypes /\ AttemptsInOrder
      /\ loop[v].attempt \in Nat /\ loop[v].attempt <= TaskRow.attempts
  BY RowIsTyped DEF GridWorkerInv, GridWorkerTypes, AttemptsInOrder, Row, Where
<1>1. gridTasks'[Replica].status = "assigned" /\ loop[v].attempt = gridTasks'[Replica].attempts
  BY DEF IsCurrent, TaskRow
<1>2. SameRow
  <2>1. SameRow \/ (reply = "task" /\ Taken(node_id[u])) \/ Ended
    BY <1>t, EffectOnRow
  <2>2. Taken(node_id[u]) => gridTasks'[Replica].attempts = TaskRow.attempts + 1
    BY DEF Taken
  <2> QED
    BY <1>t, <1>1, <2>1, <2>2 DEF Ended
<1> QED
  BY <1>t, <1>1, <1>2 DEF IsCurrent, SameRow

\* A process that keeps its attempt and its tries keeps its account, whoever the request was from, unless
\* it has its session back in the middle of a report.
LEMMA AccountIsKept ==
  ASSUME GridWorkerInv, NEW u \in Processes, NEW reply, NEW heard \in BOOLEAN, Effect(u, reply, heard),
         MishapsGrow, node_id' = node_id, NEW v \in Processes,
         loop'[v].attempt = loop[v].attempt, loop'[v].tries = loop[v].tries,
         loop'[v].at = "rotated" =>
           \/ loop[v].at = "rotated" /\ ~(reply = "welcome" /\ heard /\ v = u)
           \/ reply = "401" /\ v = u
  PROVE  IsCurrent(v)' => Account(v)'
<1> SUFFICES ASSUME IsCurrent(v)' PROVE Account(v)'
  OBVIOUS
<1>1. IsCurrent(v) /\ SameRow
  BY StillCurrent
<1>2. /\ TaskRow'.assignee = node_id'[v] /\ OwedThen(v) <= Lost + rotations'
      /\ ~KnowsItsSession(v)' => rotations' > 0
      /\ ~KnowsItsSession(v) /\ ~(reply = "welcome" /\ heard /\ v = u) => ~KnowsItsSession(v)'
  BY <1>1, OwedAfterARequest
<1>3. Account(v)
  BY <1>1 DEF GridWorkerInv
<1>4. /\ Lost \in Nat /\ Lost' \in Nat /\ Lost' >= Lost /\ loop[v].tries \in Nat /\ GridWorkerTypes /\ AttemptsInOrder
  BY DEF GridWorkerInv, GridWorkerTypes, MishapsGrow, Lost, Where
<1>5. rotations' \in Nat
  BY <1>4, EffectOnRow
<1>6. Owed(v)' = OwedThen(v) /\ OwedThen(v) \in Nat
  BY <1>4 DEF Owed, OwedThen
<1>7. Owed(v)' <= Lost' + rotations'
  BY <1>2, <1>4, <1>5, <1>6
<1>8. loop'[v].at = "rotated" => ~KnowsItsSession(v)'
  <2>1. CASE loop[v].at = "rotated" /\ ~(reply = "welcome" /\ heard /\ v = u)
    BY <1>2, <1>3, <2>1 DEF Account
  <2>2. CASE reply = "401" /\ v = u
    <3>1. ~KnowsItsSession(v)
      BY <2>2 DEF Effect
    <3> QED
      BY <1>2, <2>2, <3>1
  <2> QED
    BY <2>1, <2>2
<1> QED
  BY <1>2, <1>7, <1>8 DEF Account

-----------------------------------------------------------------------------
(* Letting go, and the steps of the program.                                  *)

\* What the property allows for a process that let the task go.
Reason(how, lost, refused, taken) ==
  \/ how = "died"
  \/ how = "untrained" /\ lost + refused + taken > 0
  \/ how = "trained" /\ refused > 0
  \/ how = "trained" /\ lost + taken >= 3
  \/ how = "trained" /\ lost > 0 /\ taken > 0

\* A reason stays one as mishaps add up.
LEMMA ReasonsStay ==
  ASSUME NEW how, NEW a \in Nat, NEW b \in Nat, NEW c \in Nat, Reason(how, a, b, c),
         NEW x \in Nat, NEW y \in Nat, NEW z \in Nat, x >= a, y >= b, z >= c
  PROVE  Reason(how, x, y, z)
BY DEF Reason

\* The property in terms of reasons.
LEMMA LetGo ==
  LetGoOnlyForAReason <=>
    (TaskRow.status = "assigned" /\ (\A w \in Processes : ~IsCurrent(w))) =>
      IF left.attempt # TaskRow.attempts THEN Lost > 0 ELSE Reason(left.how, Lost, Refused, rotations)
BY DEF LetGoOnlyForAReason, Reason, Lost, Refused

\* Who works on the task goes on, and nobody takes it unheard without a lost reply.
LEMMA ReasonIsKept ==
  ASSUME GridWorkerInv, NEW u \in Processes, NEW reply, NEW heard \in BOOLEAN, Effect(u, reply, heard), MishapsGrow,
         left' = left, \A v \in Processes : IsCurrent(v) => loop'[v].attempt = loop[v].attempt,
         reply = "task" => Lost' > 0 \/ \E v \in Processes : IsCurrent(v)'
  PROVE  LetGoOnlyForAReason'
<1>t. /\ GridWorkerTypes /\ AttemptsInOrder /\ TaskRow = gridTasks[Replica] /\ TaskRow.attempts \in Nat
      /\ left.attempt \in Nat /\ left.attempt <= TaskRow.attempts /\ rotations \in Nat
  BY RowIsTyped DEF GridWorkerInv, GridWorkerTypes, AttemptsInOrder, Row
<1>l. /\ Lost \in Nat /\ Lost' \in Nat /\ Lost' >= Lost /\ Refused \in Nat /\ Refused' \in Nat /\ Refused' >= Refused
  BY DEF GridWorkerInv, GridWorkerTypes, MishapsGrow, Lost, Refused
<1>r. rotations' \in Nat /\ (SameRow \/ (reply = "task" /\ Taken(node_id[u])) \/ Ended)
  BY <1>t, EffectOnRow
<1>1. SUFFICES ASSUME gridTasks'[Replica].status = "assigned", \A v \in Processes : ~(IsCurrent(v)')
               PROVE  IF left'.attempt # gridTasks'[Replica].attempts THEN Lost' > 0
                      ELSE Reason(left'.how, Lost', Refused', rotations')
  BY DEF LetGoOnlyForAReason, TaskRow, Reason, Lost, Refused
<1>2. CASE SameRow
  <2>1. gridTasks' = gridTasks /\ rotations' >= rotations
    BY <1>2 DEF SameRow
  <2>2. ASSUME NEW v \in Processes PROVE ~IsCurrent(v)
    BY <1>1, <1>t, <2>1 DEF IsCurrent, TaskRow
  <2>3. IF left.attempt # TaskRow.attempts THEN Lost > 0 ELSE Reason(left.how, Lost, Refused, rotations)
    BY <1>1, <1>t, <2>1, <2>2, LetGo DEF GridWorkerInv
  <2>4. CASE left.attempt # TaskRow.attempts
    BY <1>t, <1>l, <2>1, <2>3, <2>4
  <2>5. CASE left.attempt = TaskRow.attempts
    <3>1. Reason(left.how, Lost, Refused, rotations)
      BY <2>3, <2>5
    <3>2. Reason(left.how, Lost', Refused', rotations')
      BY <1>t, <1>l, <1>r, <2>1, <3>1, ReasonsStay
    <3> QED
      BY <1>t, <2>1, <2>5, <3>2
  <2> QED
    BY <2>4, <2>5
<1>3. CASE reply = "task" /\ Taken(node_id[u])
  <2>1. gridTasks'[Replica].attempts = TaskRow.attempts + 1
    BY <1>3 DEF Taken
  <2>2. Lost' > 0
    BY <1>1, <1>3
  <2> QED
    BY <1>t, <2>1, <2>2
<1>4. CASE Ended
  BY <1>1, <1>4 DEF Ended
<1> QED
  BY <1>r, <1>2, <1>3, <1>4

\* w lets its attempt go. If the row stays as it is and was w's, the way it went needs its reason.
LEMMA ReasonIsGiven ==
  ASSUME GridWorkerInv, NEW u \in Processes, NEW reply, NEW heard \in BOOLEAN, Effect(u, reply, heard), MishapsGrow,
         NEW w \in Processes, NEW how,
         left' = IF IsCurrent(w) THEN [attempt |-> TaskRow.attempts, how |-> how] ELSE left,
         \A v \in Processes \ {w} : loop'[v].attempt = loop[v].attempt,
         SameRow /\ IsCurrent(w) => Reason(how, Lost', Refused', rotations'),
         reply = "task" => Lost' > 0
  PROVE  LetGoOnlyForAReason'
<1>1. CASE ~IsCurrent(w)
  BY <1>1, ReasonIsKept
<1>2. CASE IsCurrent(w)
  <2>t. /\ GridWorkerTypes /\ AttemptsInOrder /\ TaskRow = gridTasks[Replica] /\ TaskRow.attempts \in Nat
    BY RowIsTyped DEF GridWorkerInv, GridWorkerTypes, Row
  <2>r. SameRow \/ (reply = "task" /\ Taken(node_id[u])) \/ Ended
    BY <2>t, EffectOnRow
  <2>1. SUFFICES ASSUME gridTasks'[Replica].status = "assigned"
                 PROVE  IF left'.attempt # gridTasks'[Replica].attempts THEN Lost' > 0
                        ELSE Reason(left'.how, Lost', Refused', rotations')
    BY DEF LetGoOnlyForAReason, TaskRow, Reason, Lost, Refused
  <2>2. left' = [attempt |-> TaskRow.attempts, how |-> how]
    BY <1>2
  <2>3. CASE SameRow
    BY <1>2, <2>t, <2>2, <2>3 DEF SameRow
  <2>4. CASE reply = "task" /\ Taken(node_id[u])
    <3>1. TaskRow.status = "queued" /\ TaskRow.status = "assigned"
      BY <1>2, <2>4 DEF Taken, IsCurrent
    <3> QED
      BY <3>1
  <2>5. CASE Ended
    BY <2>1, <2>5 DEF Ended
  <2> QED
    BY <2>r, <2>3, <2>4, <2>5
<1> QED
  BY <1>1, <1>2

Ats == {"off", "polling", "expired", "training", "reporting", "rotated", "failing"}
InOrder(v) ==
  /\ loop'[v].attempt <= gridTasks'[Replica].attempts
  /\ loop'[v].at \in {"off", "polling", "expired"} => loop'[v].attempt = 0

\* What is left to show of a step that answers a request.
LEMMA Closed ==
  ASSUME GridWorkerInv, NEW u \in Processes, NEW reply, NEW heard \in BOOLEAN, Effect(u, reply, heard), MishapsGrow,
         node_id' = node_id, loop' \in [Processes -> Where],
         left' \in [attempt : Nat, how : {"no", "died", "untrained", "trained"}], left'.attempt <= TaskRow.attempts,
         \A v \in Processes : InOrder(v) /\ (IsCurrent(v)' => Account(v)'),
         LetGoOnlyForAReason'
  PROVE  GridWorkerInv'
<1>t. GridWorkerTypes /\ AttemptsInOrder /\ TaskRow.attempts \in Nat
  BY RowIsTyped DEF GridWorkerInv, Row
<1>1. /\ gridTasks' \in [{Replica} -> Row] /\ session' \in [Processes -> Processes \cup {"nobody"}] /\ rotations' \in 0 .. 3
      /\ gridTasks'[Replica].attempts >= TaskRow.attempts
      /\ gridTasks'[Replica].status = "assigned" => gridTasks'[Replica].attempts > 0
  BY <1>t, EffectOnRow
<1>2. GridWorkerTypes'
  BY <1>t, <1>1 DEF GridWorkerTypes, MishapsGrow
<1>3. gridTasks'[Replica].attempts \in Nat /\ left'.attempt \in Nat
  BY <1>1 DEF Row
<1>4. AttemptsInOrder'
  <2>1. left'.attempt <= gridTasks'[Replica].attempts
    BY <1>t, <1>1, <1>3
  <2> QED
    BY <1>1, <2>1 DEF AttemptsInOrder, TaskRow, InOrder
<1> QED
  BY <1>2, <1>4 DEF GridWorkerInv, MishapsGrow

\* Everybody keeps what it has of the task, and at most moves on.
LEMMA GoesOn ==
  ASSUME GridWorkerInv, NEW u \in Processes, NEW reply, NEW heard \in BOOLEAN, Effect(u, reply, heard), MishapsGrow,
         node_id' = node_id, left' = left, loop' \in [Processes -> Where],
         \A v \in Processes :
           /\ loop'[v].attempt = loop[v].attempt /\ loop'[v].tries = loop[v].tries
           /\ loop'[v].at \in {"off", "polling", "expired"} => loop[v].attempt = 0
           /\ loop'[v].at = "rotated" =>
                \/ loop[v].at = "rotated" /\ ~(reply = "welcome" /\ heard /\ v = u)
                \/ reply = "401" /\ v = u,
         reply = "task" => Lost' > 0
  PROVE  GridWorkerInv'
<1>t. GridWorkerTypes /\ AttemptsInOrder /\ TaskRow.attempts \in Nat
  BY RowIsTyped DEF GridWorkerInv, Row
<1>1. gridTasks'[Replica].attempts >= TaskRow.attempts /\ gridTasks'[Replica].attempts \in Nat
  BY <1>t, EffectOnRow DEF Row
<1>2. ASSUME NEW v \in Processes PROVE InOrder(v) /\ (IsCurrent(v)' => Account(v)')
  <2>1. loop[v].attempt \in Nat /\ loop[v].attempt <= TaskRow.attempts
    BY <1>t DEF GridWorkerTypes, Where, AttemptsInOrder
  <2>2. InOrder(v)
    BY <1>t, <1>1, <2>1 DEF InOrder
  <2>3. IsCurrent(v)' => Account(v)'
    BY AccountIsKept
  <2> QED
    BY <2>2, <2>3
<1>3. LetGoOnlyForAReason'
  BY ReasonIsKept
<1>4. /\ left' \in [attempt : Nat, how : {"no", "died", "untrained", "trained"}]
      /\ left'.attempt <= TaskRow.attempts
  BY <1>t DEF GridWorkerTypes, AttemptsInOrder
<1> QED
  BY <1>2, <1>3, <1>4, Closed

\* w moves on; a 401 leads to "rotated", and only a refused or lost answer leaves it there.
LEMMA OneGoesOn ==
  ASSUME GridWorkerInv, NEW w \in Processes, NEW at \in Ats, NEW reply, NEW heard \in BOOLEAN,
         Effect(w, reply, heard), MishapsGrow, Goes(w, at),
         at \in {"off", "polling", "expired"} => loop[w].attempt = 0,
         at = "rotated" => reply = "401" \/ (loop[w].at = "rotated" /\ ~heard),
         reply = "task" => Lost' > 0
  PROVE  GridWorkerInv'
<1>t. GridWorkerTypes /\ AttemptsInOrder /\ loop \in [Processes -> Where]
  BY DEF GridWorkerInv, GridWorkerTypes
<1>1. node_id' = node_id /\ left' = left /\ loop' = [loop EXCEPT ![w].at = at]
  BY DEF Goes
<1>2. loop'[w] = [at |-> at, attempt |-> loop[w].attempt, tries |-> loop[w].tries]
  BY <1>t, <1>1 DEF Where
<1>3. loop'[w] \in Where
  BY <1>t, <1>2 DEF Where, Ats
<1>4. loop' \in [Processes -> Where] /\ \A v \in Processes \ {w} : loop'[v] = loop[v]
  BY <1>t, <1>1, <1>3
<1>5. \A v \in Processes : loop[v].at \in {"off", "polling", "expired"} => loop[v].attempt = 0
  BY <1>t DEF AttemptsInOrder
<1>6. ASSUME NEW v \in Processes
      PROVE  /\ loop'[v].attempt = loop[v].attempt /\ loop'[v].tries = loop[v].tries
             /\ loop'[v].at \in {"off", "polling", "expired"} => loop[v].attempt = 0
             /\ loop'[v].at = "rotated" =>
                  \/ loop[v].at = "rotated" /\ ~(reply = "welcome" /\ heard /\ v = w)
                  \/ reply = "401" /\ v = w
  <2>1. CASE v = w
    BY <1>2, <2>1
  <2>2. CASE v # w
    BY <1>4, <1>5, <2>2
  <2> QED
    BY <2>1, <2>2
<1> QED
  BY <1>1, <1>4, <1>6, GoesOn

\* A program that lets go of its task for a reason keeps the invariant.
LEMMA OneLetsGo ==
  ASSUME GridWorkerInv, NEW w \in Processes, NEW at \in {"polling", "off"}, NEW how \in {"died", "untrained", "trained"},
         NEW reply, NEW heard \in BOOLEAN, Effect(w, reply, heard), MishapsGrow, LetsGo(w, at, how),
         SameRow /\ IsCurrent(w) => Reason(how, Lost', Refused', rotations'),
         reply = "task" => Lost' > 0
  PROVE  GridWorkerInv'
<1>t. /\ GridWorkerTypes /\ AttemptsInOrder /\ loop \in [Processes -> Where] /\ TaskRow.attempts \in Nat
      /\ left \in [attempt : Nat, how : {"no", "died", "untrained", "trained"}] /\ left.attempt <= TaskRow.attempts
  BY RowIsTyped DEF GridWorkerInv, GridWorkerTypes, AttemptsInOrder, Row
<1> DEFINE gone == [at |-> at, attempt |-> 0, tries |-> 0]
<1>1. /\ node_id' = node_id /\ loop' = [loop EXCEPT ![w] = gone]
      /\ left' = IF IsCurrent(w) THEN [attempt |-> TaskRow.attempts, how |-> how] ELSE left
  BY DEF LetsGo
<1>2. gone \in Where
  BY DEF Where
<1>3. loop' \in [Processes -> Where] /\ loop'[w] = gone /\ \A v \in Processes \ {w} : loop'[v] = loop[v]
  BY <1>t, <1>1, <1>2
<1>4. left' \in [attempt : Nat, how : {"no", "died", "untrained", "trained"}] /\ left'.attempt <= TaskRow.attempts
  <2>1. CASE IsCurrent(w)
    BY <1>t, <1>1, <2>1
  <2>2. CASE ~IsCurrent(w)
    BY <1>t, <1>1, <2>2
  <2> QED
    BY <2>1, <2>2
<1>5. /\ gridTasks'[Replica].attempts >= TaskRow.attempts /\ gridTasks'[Replica].attempts \in Nat
      /\ gridTasks'[Replica].status = "assigned" => gridTasks'[Replica].attempts > 0
  BY <1>t, EffectOnRow DEF Row
<1>6. ASSUME NEW v \in Processes PROVE InOrder(v) /\ (IsCurrent(v)' => Account(v)')
  <2>1. CASE v = w
    <3>1. loop'[v].attempt = 0
      BY <1>3, <2>1
    <3>2. ~(IsCurrent(v)')
      BY <1>5, <3>1 DEF IsCurrent, TaskRow
    <3> QED
      BY <1>5, <3>1, <3>2 DEF InOrder
  <2>2. CASE v # w
    <3>1. loop'[v] = loop[v] /\ loop[v].attempt \in Nat /\ loop[v].attempt <= TaskRow.attempts
      BY <1>t, <1>3, <2>2 DEF Where, AttemptsInOrder
    <3>2. InOrder(v)
      BY <1>t, <1>5, <3>1 DEF InOrder, AttemptsInOrder
    <3>3. IsCurrent(v)' => Account(v)'
      BY <1>1, <2>2, <3>1, AccountIsKept
    <3> QED
      BY <3>2, <3>3
  <2> QED
    BY <2>1, <2>2
<1>7. \A v \in Processes \ {w} : loop'[v].attempt = loop[v].attempt
  BY <1>3
<1>8. LetGoOnlyForAReason'
  BY <1>1, <1>7, ReasonIsGiven
<1> QED
  BY <1>1, <1>3, <1>4, <1>6, <1>8, Closed

\* An attempt to report is over: for want of an answer, or because of a session that is renewed by now.
LEMMA OneTriesAgain ==
  ASSUME GridWorkerInv, NEW w \in Processes, NEW reply, NEW heard \in BOOLEAN, Effect(w, reply, heard), MishapsGrow, NextTry(w),
         \/ Lost' = Lost + 1
         \/ reply = "welcome" /\ heard /\ loop[w].at = "rotated",
         reply = "task" => Lost' > 0
  PROVE  GridWorkerInv'
<1>t. /\ GridWorkerTypes /\ AttemptsInOrder /\ loop \in [Processes -> Where] /\ TaskRow.attempts \in Nat
      /\ loop[w].tries \in 0 .. 2 /\ loop[w].attempt \in Nat /\ loop[w].attempt <= TaskRow.attempts
      /\ left \in [attempt : Nat, how : {"no", "died", "untrained", "trained"}] /\ left.attempt <= TaskRow.attempts
      /\ Lost \in Nat /\ Lost' \in Nat /\ Lost' >= Lost /\ rotations \in Nat
      /\ node_id \in [Processes -> Processes] /\ session \in [Processes -> Processes \cup {"nobody"}]
  BY RowIsTyped DEF GridWorkerInv, GridWorkerTypes, AttemptsInOrder, Row, Where, MishapsGrow, Lost
<1>0. node_id' = node_id
  BY DEF NextTry, LetsGo
<1>r. rotations' \in Nat
  BY <1>t, EffectOnRow
<1>o. ASSUME IsCurrent(w), SameRow
      PROVE  /\ TaskRow'.assignee = node_id'[w] /\ (~KnowsItsSession(w)' => rotations' > 0)
             /\ loop[w].tries + 1 + (IF KnowsItsSession(w)' THEN 0 ELSE 1) <= Lost' + rotations'
  <2>1. /\ TaskRow'.assignee = node_id'[w] /\ OwedThen(w) <= Lost + rotations'
        /\ ~KnowsItsSession(w)' => rotations' > 0
    BY <1>0, <1>o, OwedAfterARequest
  <2>2. CASE Lost' = Lost + 1
    BY <1>t, <1>r, <2>1, <2>2 DEF OwedThen
  <2>3. CASE reply = "welcome" /\ heard /\ loop[w].at = "rotated"
    <3>1. Account(w)
      BY <1>o DEF GridWorkerInv
    <3>2. ~KnowsItsSession(w) /\ loop[w].tries + 1 <= Lost + rotations
      BY <2>3, <3>1 DEF Account, Owed
    <3>3. Joined(w, heard)
      BY <2>3 DEF Effect
    <3>4. KnowsItsSession(w)'
      BY <1>t, <1>0, <2>3, <3>3 DEF Joined, KnowsItsSession
    <3>5. rotations' >= rotations
      BY <1>o DEF SameRow
    <3> QED
      BY <1>t, <1>r, <2>1, <3>2, <3>4, <3>5
  <2> QED
    BY <2>2, <2>3
<1>1. CASE loop[w].tries + 1 < Tries
  <2> DEFINE again == [at |-> "reporting", attempt |-> loop[w].attempt, tries |-> loop[w].tries + 1]
  <2>1. left' = left /\ loop' = [loop EXCEPT ![w].at = "reporting", ![w].tries = @ + 1]
    BY <1>1 DEF NextTry
  <2>2. loop' = [loop EXCEPT ![w] = again] /\ again \in Where
    BY <1>t, <1>1, <2>1 DEF Where, Tries
  <2>3. loop' \in [Processes -> Where] /\ loop'[w] = again /\ \A v \in Processes \ {w} : loop'[v] = loop[v]
    BY <1>t, <2>2
  <2>4. gridTasks'[Replica].attempts >= TaskRow.attempts /\ gridTasks'[Replica].attempts \in Nat
    BY <1>t, EffectOnRow DEF Row
  <2>5. ASSUME NEW v \in Processes PROVE InOrder(v) /\ (IsCurrent(v)' => Account(v)')
    <3>1. CASE v = w
      <4>1. loop'[v].attempt = loop[v].attempt /\ loop'[v].tries = loop[v].tries + 1 /\ loop'[v].at = "reporting"
        BY <2>3, <3>1
      <4>2. InOrder(v)
        BY <1>t, <2>4, <3>1, <4>1 DEF InOrder
      <4>3. ASSUME IsCurrent(v)' PROVE Account(v)'
        <5>1. IsCurrent(v) /\ SameRow
          BY <4>1, <4>3, StillCurrent
        <5>2. Owed(v)' = loop[v].tries + 1 + (IF KnowsItsSession(v)' THEN 0 ELSE 1)
          BY <4>1 DEF Owed
        <5> QED
          BY <1>o, <3>1, <4>1, <5>1, <5>2 DEF Account
      <4> QED
        BY <4>2, <4>3
    <3>2. CASE v # w
      <4>1. loop'[v] = loop[v] /\ loop[v].attempt \in Nat /\ loop[v].attempt <= TaskRow.attempts
        BY <1>t, <2>3, <3>2 DEF Where, AttemptsInOrder
      <4>2. InOrder(v)
        BY <1>t, <2>4, <4>1 DEF InOrder, AttemptsInOrder
      <4>3. IsCurrent(v)' => Account(v)'
        BY <1>0, <3>2, <4>1, AccountIsKept
      <4> QED
        BY <4>2, <4>3
    <3> QED
      BY <3>1, <3>2
  <2>6. \A v \in Processes : IsCurrent(v) => loop'[v].attempt = loop[v].attempt
    BY <2>3
  <2>7. LetGoOnlyForAReason'
    BY <2>1, <2>6, ReasonIsKept
  <2> QED
    BY <1>0, <1>t, <2>1, <2>3, <2>5, <2>7, Closed
<1>2. CASE ~(loop[w].tries + 1 < Tries)
  <2>1. LetsGo(w, "polling", "trained")
    BY <1>2 DEF NextTry
  <2>2. loop[w].tries = 2
    BY <1>t, <1>2 DEF Tries
  <2>3. ASSUME SameRow, IsCurrent(w) PROVE Reason("trained", Lost', Refused', rotations')
    <3>1. loop[w].tries + 1 + (IF KnowsItsSession(w)' THEN 0 ELSE 1) <= Lost' + rotations'
      BY <1>o, <2>3
    <3>2. PICK lost \in Nat, taken \in Nat, more \in {0, 1} :
             lost = Lost' /\ taken = rotations' /\ more = IF KnowsItsSession(w)' THEN 0 ELSE 1
      BY <1>t, <1>r
    <3>3. 2 + 1 + more <= lost + taken
      BY <2>2, <3>1, <3>2
    <3>4. lost + taken >= 3
      BY <3>3
    <3> QED
      BY <3>2, <3>4 DEF Reason
  <2> QED
    BY <2>1, <2>3, OneLetsGo
<1> QED
  BY <1>1, <1>2

\* A program that is given the task keeps the invariant.
LEMMA OneTakesTheTask ==
  ASSUME GridWorkerInv, NEW w \in Processes, Effect(w, "task", TRUE), MishapsGrow, node_id' = node_id, left' = left,
         loop' = [loop EXCEPT ![w] = [at |-> "training", attempt |-> gridTasks'[Replica].attempts, tries |-> 0]]
  PROVE  GridWorkerInv'
<1>t. /\ GridWorkerTypes /\ AttemptsInOrder /\ loop \in [Processes -> Where] /\ TaskRow.attempts \in Nat
      /\ left \in [attempt : Nat, how : {"no", "died", "untrained", "trained"}] /\ left.attempt <= TaskRow.attempts
      /\ Lost' \in Nat
  BY RowIsTyped DEF GridWorkerInv, GridWorkerTypes, AttemptsInOrder, Row, MishapsGrow, Lost
<1>1. KnowsItsSession(w) /\ Taken(node_id[w])
  BY DEF Effect
<1>2. PICK a \in Nat : a = gridTasks'[Replica].attempts /\ a = TaskRow.attempts + 1
  BY <1>t, <1>1 DEF Taken
<1> DEFINE taken == [at |-> "training", attempt |-> a, tries |-> 0]
<1>3. loop' = [loop EXCEPT ![w] = taken] /\ taken \in Where
  BY <1>2 DEF Where
<1>4. loop' \in [Processes -> Where] /\ loop'[w] = taken /\ \A v \in Processes \ {w} : loop'[v] = loop[v]
  BY <1>t, <1>3
<1>5. /\ TaskRow.status = "queued" /\ gridTasks'[Replica].status = "assigned" /\ gridTasks'[Replica].assignee = node_id[w]
      /\ session' = session /\ rotations' = 0
  BY <1>1 DEF Taken
<1>6. IsCurrent(w)' /\ Account(w)'
  <2>1. IsCurrent(w)'
    BY <1>2, <1>4, <1>5 DEF IsCurrent, TaskRow
  <2>2. KnowsItsSession(w)'
    BY <1>1, <1>5 DEF KnowsItsSession
  <2>3. Owed(w)' = 0
    BY <1>4, <2>2 DEF Owed
  <2>4. TaskRow'.assignee = node_id'[w] /\ loop'[w].at # "rotated"
    BY <1>4, <1>5 DEF TaskRow
  <2>5. \A owed, lost, again : owed = 0 /\ lost \in Nat /\ again = 0 => owed <= lost + again
    OBVIOUS
  <2>6. Owed(w)' <= Lost' + rotations'
    BY <1>t, <1>5, <2>3, <2>5, Zenon
  <2> QED
    BY <2>1, <2>2, <2>4, <2>6 DEF Account
<1>7. ASSUME NEW v \in Processes PROVE InOrder(v) /\ (IsCurrent(v)' => Account(v)')
  <2>1. CASE v = w
    BY <1>2, <1>4, <1>6, <2>1 DEF InOrder
  <2>2. CASE v # w
    <3>1. loop'[v] = loop[v] /\ loop[v].attempt \in Nat /\ loop[v].attempt <= TaskRow.attempts
      BY <1>t, <1>4, <2>2 DEF Where, AttemptsInOrder
    <3>2. InOrder(v)
      BY <1>t, <1>2, <3>1 DEF InOrder, AttemptsInOrder
    <3>3. ~(IsCurrent(v)')
      BY <1>t, <1>2, <3>1 DEF IsCurrent, TaskRow
    <3> QED
      BY <3>2, <3>3
  <2> QED
    BY <2>1, <2>2
<1>8. \A v \in Processes : ~IsCurrent(v)
  BY <1>5 DEF IsCurrent
<1>9. LetGoOnlyForAReason'
  BY <1>6, <1>8, ReasonIsKept
<1> QED
  BY <1>t, <1>4, <1>7, <1>9, Closed

\* The answer of a request, or a lost one, and what is counted of it.
LEMMA Answers ==
  ASSUME GridWorkerInv, NEW w \in Processes, NEW kind \in {"register", "claim", "result", "failure"}, NEW got,
         Request(w, kind, got)
  PROVE  /\ MishapsGrow /\ Lost' \in Nat /\ Refused' \in Nat
         /\ got = "none" => Lost' = Lost + 1 /\ Lost' > 0 /\ \E reply : Effect(w, reply, FALSE)
         /\ got # "none" => Effect(w, got, TRUE)
         /\ got = "refused" => Refused' > 0
<1>1. Learns(w, got) /\ MishapsGrow
  BY RequestEffect DEF GridWorkerInv
<1>2. Lost \in Nat /\ Refused \in Nat /\ Lost' \in Nat /\ Refused' \in Nat
  BY <1>1 DEF GridWorkerInv, GridWorkerTypes, MishapsGrow, Lost, Refused
<1>3. CASE got = "none"
  <2>1. Lost' = Lost + 1 /\ \E reply : Effect(w, reply, FALSE)
    BY <1>1, <1>3 DEF Learns
  <2>2. Lost' > 0
    <3>1. PICK n \in Nat : n = Lost
      BY <1>2
    <3>2. Lost' = n + 1
      BY <2>1, <3>1
    <3> QED
      BY <3>2
  <2> QED
    BY <1>1, <1>2, <1>3, <2>1, <2>2
<1>4. CASE got = "refused"
  <2>1. Refused' = Refused + 1 /\ Effect(w, got, TRUE)
    BY <1>1, <1>4 DEF Learns
  <2>2. Refused' > 0
    <3>1. PICK n \in Nat : n = Refused
      BY <1>2
    <3>2. Refused' = n + 1
      BY <2>1, <3>1
    <3> QED
      BY <3>2
  <2> QED
    BY <1>1, <1>2, <1>4, <2>1, <2>2
<1>5. CASE got \notin {"refused", "none"}
  BY <1>1, <1>2, <1>5 DEF Learns
<1> QED
  BY <1>3, <1>4, <1>5

\* A step without a request has no effect on the tables.
LEMMA NoRequest ==
  ASSUME GridWorkerInv, NEW w \in Processes, UNCHANGED <<session, tables, late, mishaps, rotations>>
  PROVE  Effect(w, "idle", FALSE) /\ MishapsGrow
<1>1. Effect(w, "idle", FALSE)
  BY DEF Effect, Nothing, tables
<1>2. MishapsGrow
  BY DEF GridWorkerInv, GridWorkerTypes, MishapsGrow, Lost, Refused
<1> QED
  BY <1>1, <1>2

\* What an answer tells the process whose the task still is after it.
LEMMA AnswerToTheHolder ==
  ASSUME GridWorkerInv, NEW w \in Processes, NEW got, Effect(w, got, TRUE), SameRow, IsCurrent(w)
  PROVE  got \notin {"ack", "403"} /\ (got = "401" => rotations' > 0 /\ rotations' \in Nat)
<1>1. Account(w) /\ TaskRow.status = "assigned" /\ GridWorkerTypes /\ AttemptsInOrder /\ rotations \in Nat
  BY DEF GridWorkerInv, IsCurrent, GridWorkerTypes
<1>2. rotations' \in Nat
  <2>1. TRUE \in BOOLEAN
    OBVIOUS
  <2>2. rotations' \in 0 .. 3
    BY <1>1, <2>1, EffectOnRow
  <2> QED
    BY <2>2
<1>3. gridTasks'[Replica].status = "assigned" /\ rotations' >= rotations
  BY <1>1 DEF SameRow, TaskRow
<1>4. ~Ended
  BY <1>3 DEF Ended
<1>5. got # "403" /\ got # "ack"
  BY <1>1, <1>4 DEF Effect, Account
<1>6. got = "401" => rotations > 0
  BY <1>1, <1>4 DEF Effect, Account
<1> QED
  BY <1>1, <1>2, <1>3, <1>5, <1>6

\* A program that works on nothing has no attempt.
LEMMA IdleHasNoAttempt ==
  ASSUME GridWorkerInv, NEW w \in Processes, loop[w].at \in {"off", "polling", "expired"}
  PROVE  loop[w].attempt = 0
BY DEF GridWorkerInv, AttemptsInOrder

\* A request that is handled late keeps the invariant.
LEMMA LateStep == GridWorkerInv /\ HandlesLate => GridWorkerInv'
<1> SUFFICES ASSUME GridWorkerInv, HandlesLate PROVE GridWorkerInv'
  OBVIOUS
<1>t. GridWorkerTypes /\ late \subseteq GridRequest /\ loop \in [Processes -> Where]
  BY DEF GridWorkerInv, GridWorkerTypes
<1>1. PICK r \in late, reply \in {"welcome", "task", "idle", "ack", "401", "403"} : Handle(r, reply, FALSE, late \ {r})
  BY DEF HandlesLate
<1>2. UNCHANGED <<node_id, loop, mishaps, left>>
  BY DEF HandlesLate
<1>3. r \in GridRequest /\ r.from \in Processes /\ late \ {r} \subseteq GridRequest
  BY <1>t DEF GridRequest
<1>4. Effect(r.from, reply, FALSE) /\ late' \subseteq late \ {r}
  BY <1>t, <1>1, <1>3, HandleEffect
<1>5. Lost > 0 /\ mishaps \in [{"lost", "refused"} -> Nat] /\ Lost \in Nat /\ Refused \in Nat
  BY DEF GridWorkerInv, GridWorkerTypes, Lost, Refused
<1>6. Lost' = Lost /\ Refused' = Refused
  BY <1>2 DEF Lost, Refused
<1>7. MishapsGrow
  BY <1>t, <1>2, <1>4, <1>5, <1>6 DEF MishapsGrow
<1>8. \A v \in Processes :
        /\ loop'[v].attempt = loop[v].attempt /\ loop'[v].tries = loop[v].tries
        /\ loop'[v].at \in {"off", "polling", "expired"} => loop[v].attempt = 0
        /\ loop'[v].at = "rotated" =>
             \/ loop[v].at = "rotated" /\ ~(reply = "welcome" /\ FALSE /\ v = r.from)
             \/ reply = "401" /\ v = r.from
  BY <1>2, IdleHasNoAttempt
<1>9. node_id' = node_id /\ left' = left /\ loop' \in [Processes -> Where]
  BY <1>t, <1>2
<1> QED
  BY <1>3, <1>4, <1>5, <1>6, <1>7, <1>8, <1>9, GoesOn, ZenonT(40)

\* The expiry of a node keeps the invariant.
LEMMA ExpiryStep == \A n \in Processes : GridWorkerInv /\ expire_nodes(n) => GridWorkerInv'
<1> SUFFICES ASSUME GridWorkerInv, NEW n \in Processes, expire_nodes(n) PROVE GridWorkerInv'
  OBVIOUS
<1>t. /\ GridWorkerTypes /\ loop \in [Processes -> Where] /\ TaskRow \in Row /\ TaskRow = gridTasks[Replica]
      /\ TaskRow.attempts \in Nat /\ mishaps \in [{"lost", "refused"} -> Nat]
  BY RowIsTyped DEF GridWorkerInv, GridWorkerTypes, Row
<1>1. /\ gridTasks' = [gridTasks EXCEPT ![Replica] = Store!Released(TaskRow)]
      /\ UNCHANGED <<node_id, loop, session, gridJobs, late, mishaps, rotations, left>>
  BY <1>t DEF expire_nodes
<1>2. Store!Released(TaskRow) \in Row /\ Store!Released(TaskRow).status # "assigned"
      /\ Store!Released(TaskRow).attempts = TaskRow.attempts
  BY <1>t, ReleasedRow
<1>3. gridTasks' \in [{Replica} -> Row] /\ gridTasks'[Replica] = Store!Released(TaskRow)
  BY <1>t, <1>1, <1>2, RowWritten
<1>4. Ended
  BY <1>t, <1>1, <1>2, <1>3 DEF Ended
<1>5. Effect(n, "refused", FALSE)
  BY <1>4 DEF Effect
<1>6. MishapsGrow
  BY <1>t, <1>1 DEF GridWorkerInv, GridWorkerTypes, MishapsGrow, Lost, Refused
<1>7. \A v \in Processes :
        /\ loop'[v].attempt = loop[v].attempt /\ loop'[v].tries = loop[v].tries
        /\ loop'[v].at \in {"off", "polling", "expired"} => loop[v].attempt = 0
        /\ loop'[v].at = "rotated" =>
             \/ loop[v].at = "rotated" /\ ~("refused" = "welcome" /\ FALSE /\ v = n)
             \/ "refused" = "401" /\ v = n
  BY <1>1, IdleHasNoAttempt
<1>8. node_id' = node_id /\ left' = left /\ loop' \in [Processes -> Where] /\ "refused" # "task"
  BY <1>t, <1>1
<1> QED
  BY <1>5, <1>6, <1>7, <1>8, GoesOn, ZenonT(40)

\* registers, renews and the parts of claim that move on.
LEMMA MovesOn ==
  ASSUME GridWorkerInv, NEW w \in Processes, NEW kind \in {"register", "claim"}, NEW got, Request(w, kind, got),
         NEW at \in {"off", "polling", "expired"}, Goes(w, at), loop[w].attempt = 0, got # "task"
  PROVE  GridWorkerInv'
<1>1. /\ MishapsGrow
      /\ got = "none" => Lost' > 0 /\ \E reply : Effect(w, reply, FALSE)
      /\ got # "none" => Effect(w, got, TRUE)
  BY Answers
<1>2. at \in Ats /\ at # "rotated"
  BY DEF Ats
<1>3. CASE got = "none"
  <2>1. PICK reply : Effect(w, reply, FALSE)
    BY <1>1, <1>3
  <2>2. Lost' > 0
    BY <1>1, <1>3
  <2> QED
    BY <1>1, <1>2, <2>1, <2>2, OneGoesOn
<1>4. CASE got # "none"
  <2>1. Effect(w, got, TRUE)
    BY <1>1, <1>4
  <2> QED
    BY <1>1, <1>2, <2>1, OneGoesOn
<1> QED
  BY <1>3, <1>4

\* Registering and renewing a session keep the invariant.
LEMMA RegistersStep == \A w \in Processes : GridWorkerInv /\ (registers(w) \/ renews(w)) => GridWorkerInv'
<1> SUFFICES ASSUME GridWorkerInv, NEW w \in Processes, registers(w) \/ renews(w) PROVE GridWorkerInv'
  OBVIOUS
<1>1. CASE registers(w)
  <2>1. PICK got \in {"welcome", "refused", "none"} :
           /\ loop[w].at = "off" /\ Request(w, "register", got) /\ Goes(w, IF got = "welcome" THEN "polling" ELSE "off")
    BY <1>1 DEF registers
  <2>2. PICK at \in {"off", "polling", "expired"} : Goes(w, at)
    BY <2>1
  <2>3. loop[w].attempt = 0 /\ got # "task"
    BY <2>1, IdleHasNoAttempt
  <2> QED
    BY <2>1, <2>2, <2>3, MovesOn
<1>2. CASE renews(w)
  <2>1. PICK got \in {"welcome", "refused", "none"} :
           loop[w].at = "expired" /\ Request(w, "register", got) /\ Goes(w, "polling")
    BY <1>2 DEF renews
  <2>2. loop[w].attempt = 0 /\ got # "task"
    BY <2>1, IdleHasNoAttempt
  <2> QED
    BY <2>1, <2>2, MovesOn
<1> QED
  BY <1>1, <1>2

\* Claiming keeps the invariant.
LEMMA ClaimStep == \A w \in Processes : GridWorkerInv /\ claim(w) => GridWorkerInv'
<1> SUFFICES ASSUME GridWorkerInv, NEW w \in Processes, claim(w) PROVE GridWorkerInv'
  OBVIOUS
<1>1. PICK got \in {"task", "idle", "401", "refused", "none"} :
         /\ loop[w].at = "polling" /\ Request(w, "claim", got)
         /\ \/ got = "task" /\ loop' = [loop EXCEPT ![w] = [at |-> "training", attempt |-> gridTasks'[Replica].attempts, tries |-> 0]]
               /\ UNCHANGED <<node_id, left>>
            \/ got = "401" /\ Goes(w, "expired")
            \/ got \in {"refused", "none"} /\ Goes(w, "polling")
            \/ got = "idle" /\ Goes(w, IF Store!Live(Replica) THEN "polling" ELSE "off")
  BY DEF claim
<1>2. loop[w].attempt = 0
  BY <1>1, IdleHasNoAttempt
<1>3. CASE got = "task"
  <2>1. /\ loop' = [loop EXCEPT ![w] = [at |-> "training", attempt |-> gridTasks'[Replica].attempts, tries |-> 0]]
        /\ node_id' = node_id /\ left' = left
    BY <1>1, <1>3
  <2>2. Effect(w, "task", TRUE) /\ MishapsGrow
    BY <1>1, <1>3, Answers
  <2> QED
    BY <2>1, <2>2, OneTakesTheTask
<1>4. CASE got # "task"
  <2>1. PICK at \in {"off", "polling", "expired"} : Goes(w, at)
    BY <1>1, <1>4
  <2> QED
    BY <1>1, <1>2, <1>4, <2>1, MovesOn
<1> QED
  BY <1>3, <1>4

\* Training, saying goodbye and dying keep the invariant.
LEMMA AloneStep == \A w \in Processes : GridWorkerInv /\ (run_task(w) \/ say_goodbye(w) \/ Dies(w)) => GridWorkerInv'
<1> SUFFICES ASSUME GridWorkerInv, NEW w \in Processes, run_task(w) \/ say_goodbye(w) \/ Dies(w) PROVE GridWorkerInv'
  OBVIOUS
<1>1. Effect(w, "idle", FALSE) /\ MishapsGrow
  <2>1. UNCHANGED <<session, tables, late, mishaps, rotations>>
    BY DEF run_task, say_goodbye, Dies
  <2> QED
    BY <2>1, NoRequest
<1>2. CASE run_task(w)
  <2>1. PICK at \in {"reporting", "failing"} : Goes(w, at)
    BY <1>2 DEF run_task
  <2>2. at \in Ats /\ at \notin {"off", "polling", "expired", "rotated"}
    BY DEF Ats
  <2> QED
    BY <1>1, <2>1, <2>2, OneGoesOn
<1>3. CASE say_goodbye(w)
  <2>1. loop[w].at = "polling" /\ Goes(w, "off") /\ "off" \in Ats
    BY <1>3 DEF say_goodbye, Ats
  <2>2. loop[w].attempt = 0
    BY <2>1, IdleHasNoAttempt
  <2> QED
    BY <1>1, <2>1, <2>2, OneGoesOn
<1>4. CASE Dies(w)
  <2>1. CASE loop[w].attempt > 0
    <3>1. LetsGo(w, "off", "died")
      BY <1>4, <2>1 DEF Dies
    <3>2. Reason("died", Lost', Refused', rotations')
      BY DEF Reason
    <3> QED
      BY <1>1, <3>1, <3>2, OneLetsGo
  <2>2. CASE ~(loop[w].attempt > 0)
    <3>1. Goes(w, "off") /\ "off" \in Ats
      BY <1>4, <2>2 DEF Dies, Ats
    <3>2. loop[w].attempt = 0
      BY <2>2 DEF GridWorkerInv, GridWorkerTypes, Where
    <3> QED
      BY <1>1, <3>1, <3>2, OneGoesOn
  <2> QED
    BY <2>1, <2>2
<1> QED
  BY <1>2, <1>3, <1>4

\* Reporting a result keeps the invariant.
LEMMA ReportStep == \A w \in Processes : GridWorkerInv /\ report_result(w) => GridWorkerInv'
<1> SUFFICES ASSUME GridWorkerInv, NEW w \in Processes, report_result(w) PROVE GridWorkerInv'
  OBVIOUS
<1>1. PICK got \in {"ack", "401", "403", "refused", "none"} :
         /\ loop[w].at = "reporting" /\ Request(w, "result", got)
         /\ \/ got = "none" /\ NextTry(w)
            \/ got = "401" /\ Goes(w, "rotated")
            \/ got \in {"ack", "403", "refused"} /\ LetsGo(w, "polling", "trained")
  BY DEF report_result
<1>2. /\ MishapsGrow
      /\ got = "none" => Lost' = Lost + 1 /\ Lost' > 0 /\ \E reply : Effect(w, reply, FALSE)
      /\ got # "none" => Effect(w, got, TRUE)
      /\ got = "refused" => Refused' > 0
  BY <1>1, Answers
<1>3. CASE got = "none" /\ NextTry(w)
  <2>1. PICK reply : Effect(w, reply, FALSE)
    BY <1>2, <1>3
  <2> QED
    BY <1>2, <1>3, <2>1, OneTriesAgain
<1>4. CASE got = "401" /\ Goes(w, "rotated")
  <2>1. Effect(w, "401", TRUE) /\ "rotated" \in Ats
    BY <1>2, <1>4 DEF Ats
  <2> QED
    BY <1>2, <1>4, <2>1, OneGoesOn
<1>5. CASE got \in {"ack", "403", "refused"} /\ LetsGo(w, "polling", "trained")
  <2>1. Effect(w, got, TRUE) /\ got # "task"
    BY <1>2, <1>5
  <2>2. ASSUME SameRow, IsCurrent(w) PROVE Reason("trained", Lost', Refused', rotations')
    <3>1. got = "refused"
      BY <1>5, <2>1, <2>2, AnswerToTheHolder
    <3> QED
      BY <1>2, <3>1 DEF Reason
  <2> QED
    BY <1>2, <1>5, <2>1, <2>2, OneLetsGo
<1> QED
  BY <1>1, <1>3, <1>4, <1>5

\* Registering again after a refusal keeps the invariant.
LEMMA ReRegisterStep == \A w \in Processes : GridWorkerInv /\ re_register(w) => GridWorkerInv'
<1> SUFFICES ASSUME GridWorkerInv, NEW w \in Processes, re_register(w) PROVE GridWorkerInv'
  OBVIOUS
<1>1. PICK got \in {"welcome", "refused", "none"} :
         /\ loop[w].at = "rotated" /\ Request(w, "register", got)
         /\ \/ got = "welcome" /\ NextTry(w)
            \/ got = "none" /\ Goes(w, "rotated")
            \/ got # "welcome" /\ LetsGo(w, "polling", "trained")
  BY DEF re_register
<1>2. /\ MishapsGrow
      /\ got = "none" => Lost' = Lost + 1 /\ Lost' > 0 /\ \E reply : Effect(w, reply, FALSE)
      /\ got # "none" => Effect(w, got, TRUE)
      /\ got = "refused" => Refused' > 0
  BY <1>1, Answers
<1>3. CASE got = "welcome" /\ NextTry(w)
  <2>1. Effect(w, "welcome", TRUE)
    BY <1>2, <1>3
  <2> QED
    BY <1>1, <1>2, <1>3, <2>1, OneTriesAgain
<1>4. CASE got = "none" /\ Goes(w, "rotated")
  <2>1. PICK reply : Effect(w, reply, FALSE)
    BY <1>2, <1>4
  <2>2. "rotated" \in Ats
    BY DEF Ats
  <2> QED
    BY <1>1, <1>2, <1>4, <2>1, <2>2, OneGoesOn
<1>5. CASE got # "welcome" /\ LetsGo(w, "polling", "trained")
  <2>1. CASE got = "refused"
    <3>1. Effect(w, got, TRUE)
      BY <1>2, <2>1
    <3>2. Reason("trained", Lost', Refused', rotations')
      BY <1>2, <2>1 DEF Reason
    <3> QED
      BY <1>2, <1>5, <2>1, <3>1, <3>2, OneLetsGo
  <2>2. CASE got = "none"
    <3>1. PICK reply : Effect(w, reply, FALSE)
      BY <1>2, <2>2
    <3>2. ASSUME SameRow, IsCurrent(w) PROVE Reason("trained", Lost', Refused', rotations')
      <4>1. Account(w) /\ GridWorkerTypes /\ AttemptsInOrder /\ rotations \in Nat
        BY <3>2 DEF GridWorkerInv, GridWorkerTypes
      <4>2. rotations > 0 /\ rotations' >= rotations
        BY <1>1, <3>2, <4>1 DEF Account, SameRow
      <4>3. rotations' \in 0 .. 3
        BY <3>1, <4>1, EffectOnRow
      <4>4. rotations' > 0 /\ Lost' > 0
        BY <1>2, <2>2, <4>1, <4>2, <4>3
      <4> QED
        BY <4>4 DEF Reason
    <3> QED
      BY <1>2, <1>5, <2>2, <3>1, <3>2, OneLetsGo
  <2> QED
    BY <1>5, <2>1, <2>2
<1> QED
  BY <1>1, <1>3, <1>4, <1>5

\* Reporting a failure keeps the invariant.
LEMMA FailureStep == \A w \in Processes : GridWorkerInv /\ report_failure(w) => GridWorkerInv'
<1> SUFFICES ASSUME GridWorkerInv, NEW w \in Processes, report_failure(w) PROVE GridWorkerInv'
  OBVIOUS
<1>1. PICK got \in {"ack", "401", "403", "refused", "none"} :
         Request(w, "failure", got) /\ LetsGo(w, "polling", "untrained")
  BY DEF report_failure
<1>2. /\ MishapsGrow /\ Lost' \in Nat /\ Refused' \in Nat
      /\ got = "none" => Lost' = Lost + 1 /\ Lost' > 0 /\ \E reply : Effect(w, reply, FALSE)
      /\ got # "none" => Effect(w, got, TRUE)
      /\ got = "refused" => Refused' > 0
  BY <1>1, Answers
<1>t. GridWorkerTypes /\ AttemptsInOrder
  BY DEF GridWorkerInv
<1>3. CASE got = "none"
  <2>1. PICK reply : Effect(w, reply, FALSE)
    BY <1>2, <1>3
  <2>2. rotations' \in 0 .. 3
    BY <1>t, <2>1, EffectOnRow
  <2>3. Reason("untrained", Lost', Refused', rotations')
    BY <1>2, <1>3, <2>2 DEF Reason
  <2> QED
    BY <1>1, <1>2, <1>3, <2>1, <2>3, OneLetsGo
<1>4. CASE got # "none"
  <2>1. Effect(w, got, TRUE) /\ got # "task"
    BY <1>1, <1>2, <1>4
  <2>2. rotations' \in 0 .. 3
    BY <1>t, <2>1, EffectOnRow
  <2>3. ASSUME SameRow, IsCurrent(w) PROVE Reason("untrained", Lost', Refused', rotations')
    <3>1. got \in {"refused", "401"} /\ (got = "401" => rotations' > 0)
      BY <1>1, <1>4, <2>1, <2>3, AnswerToTheHolder
    <3>2. Refused' > 0 \/ rotations' > 0
      BY <1>2, <3>1
    <3>3. PICK lost \in Nat, refused \in Nat, taken \in Nat : lost = Lost' /\ refused = Refused' /\ taken = rotations'
      BY <1>2, <2>2
    <3>4. refused > 0 \/ taken > 0
      BY <3>2, <3>3
    <3>5. lost + refused + taken > 0
      BY <3>4
    <3> QED
      BY <3>3, <3>5 DEF Reason
  <2> QED
    BY <1>1, <1>2, <2>1, <2>3, OneLetsGo
<1> QED
  BY <1>3, <1>4

\* The invariant holds at first.
LEMMA GridWorkerStart == GridWorkerInit => GridWorkerInv
<1> SUFFICES ASSUME GridWorkerInit PROVE GridWorkerInv
  OBVIOUS
<1>1. /\ loop = [w \in Processes |-> [at |-> "off", attempt |-> 0, tries |-> 0]] /\ session = [n \in Processes |-> "nobody"]
      /\ gridTasks = [t \in {Replica} |-> [status |-> "queued", assignee |-> "none", attempts |-> 0]]
      /\ late = {} /\ mishaps = [kind \in {"lost", "refused"} |-> 0] /\ rotations = 0 /\ left = [attempt |-> 0, how |-> "no"]
  BY DEF GridWorkerInit
<1>2. TaskRow = [status |-> "queued", assignee |-> "none", attempts |-> 0]
  BY <1>1 DEF TaskRow
<1>3. node_id \in [Processes -> Processes]
  <2>1. CASE Processes = {}
    BY <2>1 DEF GridWorkerInit
  <2>2. CASE Processes # {}
    <3>1. First \in Processes
      BY <2>2 DEF First
    <3> QED
      BY <3>1 DEF GridWorkerInit
  <2> QED
    BY <2>1, <2>2
<1>4. loop \in [Processes -> Where]
  BY <1>1 DEF Where
<1>5. GridWorkerTypes
  BY <1>1, <1>3, <1>4 DEF GridWorkerTypes, Row
<1>6. AttemptsInOrder
  BY <1>1, <1>2 DEF AttemptsInOrder
<1>7. TaskRow.status # "assigned"
  BY <1>2
<1> QED
  BY <1>1, <1>5, <1>6, <1>7 DEF GridWorkerInv, IsCurrent, LetGoOnlyForAReason

\* Every step keeps the invariant.
LEMMA GridWorkerStep == GridWorkerInv /\ [GridWorkerNext]_gridWorkerVars => GridWorkerInv'
<1> SUFFICES ASSUME GridWorkerInv, [GridWorkerNext]_gridWorkerVars PROVE GridWorkerInv'
  OBVIOUS
<1>1. CASE GridWorkerNext
  BY <1>1, LateStep, ExpiryStep, RegistersStep, ClaimStep, AloneStep, ReportStep, ReRegisterStep, FailureStep
     DEF GridWorkerNext
<1>2. CASE UNCHANGED gridWorkerVars
  BY <1>2 DEF gridWorkerVars, GridWorkerInv, GridWorkerTypes, AttemptsInOrder, Account, Owed, IsCurrent, KnowsItsSession, TaskRow,
              Lost, LetGoOnlyForAReason
<1> QED
  BY <1>1, <1>2

\* For any number of worker programs under any node ids, any limit on attempts and any number of lost,
\* late and refused requests: a task that is assigned while no program has it was let go by a program
\* that died, failed to train it and met with anything, or trained it and met with a refusal, three
\* failures, or a lost answer after its session was taken; or the reply to its claim was lost (run_task,
\* report_failure and claim of worker.cpp, handle_result).
THEOREM TasksAreLetGoForAReason == GridWorkerSpec => []LetGoOnlyForAReason
<1>1. GridWorkerInv => LetGoOnlyForAReason
  BY DEF GridWorkerInv
<1> QED
  BY <1>1, GridWorkerStart, GridWorkerStep, PTL DEF GridWorkerSpec
=============================================================================
