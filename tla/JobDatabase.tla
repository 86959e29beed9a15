------------------------------ MODULE JobDatabase ------------------------------
(* The tables of the HTTP services (database.py). Each call takes the lock,   *)
(* opens a connection and is one statement; SQLite does not enforce the       *)
(* schema's foreign keys, as nothing turns them on, so rows outlive their job.*)
EXTENDS Integers, Sequences, FiniteSetsExt, SequencesExt, TLC

CONSTANTS JobIds, Replicas,\* ids of jobs and of their nodes
          MaxChanges       \* bounds the calls that write

VARIABLES jobRows,         \* job -> checkpoint_path
          locked,          \* Database._lock is never given back
          job_nodes,       \* <<job, node>> -> rank, status and whether the heartbeat is older than a minute
          checkpoints, logs,  \* rows, by their id
          admin_keys,      \* node -> when the key expires
          requests,        \* admin_key_requests: [node, status], by id
          approvals,       \* dependency_approvals
          returned,          \* what the last call gave back
          changes
jobDatabaseVars == <<jobRows, locked, job_nodes, checkpoints, logs, admin_keys, requests, approvals, returned, changes>>

NoRows == << >>
JobDatabaseInit ==
  /\ jobRows = NoRows /\ locked = FALSE /\ job_nodes = NoRows /\ checkpoints = << >> /\ logs = << >>
  /\ admin_keys = NoRows /\ requests = << >> /\ approvals = {} /\ returned = << >> /\ changes = 0

Change == ~locked /\ changes < MaxChanges /\ changes' = changes + 1
Changed(yes) == returned' = <<"changed", yes>>
childVars == <<job_nodes, checkpoints, logs, admin_keys, requests, approvals>>

-----------------------------------------------------------------------------
\* The new row is committed; then the call waits for the lock it holds. An id that is taken raises.
insert_job(j) ==
  /\ Change /\ UNCHANGED childVars
  /\ IF j \in DOMAIN jobRows THEN returned' = <<"raised">> /\ UNCHANGED <<jobRows, locked>>
     ELSE jobRows' = jobRows @@ (j :> "") /\ locked' = TRUE /\ returned' = << >>
\* The next process finds the tables as they are.
_init_db == locked /\ locked' = FALSE /\ returned' = << >> /\ UNCHANGED <<jobRows, childVars, changes>>

\* "updated_at = CURRENT_TIMESTAMP" is no column of the list, so every call raises: a job stays pending.
update_job_status(j) == ~locked /\ returned' = <<"raised">> /\ UNCHANGED <<jobRows, locked, childVars, changes>>
set_job_checkpoint(j) ==
  /\ Change /\ Changed(j \in DOMAIN jobRows) /\ UNCHANGED <<locked, childVars>>
  /\ jobRows' = [k \in DOMAIN jobRows |-> IF k = j THEN "path" ELSE jobRows[k]]
\* "Delete job and related data": the related rows stay.
delete_job(j) ==
  /\ Change /\ Changed(j \in DOMAIN jobRows) /\ UNCHANGED <<locked, childVars>>
  /\ jobRows' = [k \in DOMAIN jobRows \ {j} |-> jobRows[k]]

assign_node_to_job(j, n, rank) ==
  /\ Change /\ returned' = <<"changed", TRUE>>
  /\ job_nodes' = (<<j, n>> :> [rank |-> rank, status |-> "assigned", late |-> FALSE]) @@ job_nodes
  /\ UNCHANGED <<jobRows, locked, checkpoints, logs, admin_keys, requests, approvals>>
update_node_heartbeat(j, n, status) ==
  /\ Change /\ Changed(<<j, n>> \in DOMAIN job_nodes)
  /\ job_nodes' = [k \in DOMAIN job_nodes |->
       IF k = <<j, n>> THEN [job_nodes[k] EXCEPT !.status = status, !.late = FALSE] ELSE job_nodes[k]]
  /\ UNCHANGED <<jobRows, locked, checkpoints, logs, admin_keys, requests, approvals>>
save_checkpoint(j, step, aggregated) ==
  /\ Change /\ checkpoints' = Append(checkpoints, [job |-> j, step |-> step, aggregated |-> aggregated])
  /\ returned' = <<"id", Len(checkpoints')>>
  /\ UNCHANGED <<jobRows, locked, job_nodes, logs, admin_keys, requests, approvals>>
\* A row that was cleaned away keeps its place, and its id is not used again.
Cleaned == [job |-> "none", age |-> 0]
add_log(j) ==
  /\ Change /\ logs' = Append(logs, [job |-> j, age |-> 0]) /\ returned' = <<"id", Len(logs')>>
  /\ UNCHANGED <<jobRows, locked, job_nodes, checkpoints, admin_keys, requests, approvals>>
\* The days are rounded up to a week, a month, a quarter or a year; beyond a year, down.
Interval(days) == IF days <= 7 THEN 7 ELSE IF days <= 30 THEN 30 ELSE IF days <= 90 THEN 90 ELSE 365
cleanup_old_logs(days) ==
  /\ Change /\ days >= 0
  /\ logs' = [i \in DOMAIN logs |-> IF logs[i].age > Interval(days) THEN Cleaned ELSE logs[i]]
  /\ returned' = <<"id", Cardinality({i \in DOMAIN logs : logs[i].age > Interval(days)})>>
  /\ UNCHANGED <<jobRows, locked, job_nodes, checkpoints, admin_keys, requests, approvals>>
log_dependency_approval(j) ==
  /\ Change /\ approvals' = approvals \cup {j} /\ returned' = << >>
  /\ UNCHANGED <<jobRows, locked, job_nodes, checkpoints, logs, admin_keys, requests>>

create_admin_key(n, expires_at) ==
  /\ Change /\ admin_keys' = (n :> expires_at) @@ admin_keys /\ returned' = <<"changed", TRUE>>
  /\ UNCHANGED <<jobRows, locked, job_nodes, checkpoints, logs, requests, approvals>>
revoke_admin_key(n) ==
  /\ Change /\ Changed(n \in DOMAIN admin_keys)
  /\ admin_keys' = [k \in DOMAIN admin_keys \ {n} |-> admin_keys[k]]
  /\ UNCHANGED <<jobRows, locked, job_nodes, checkpoints, logs, requests, approvals>>
\* One row for each node: asking again makes it pending, and the call then answers 0, not its id.
Asked(n) == {i \in DOMAIN requests : requests[i].node = n}
request_admin_key(n) ==
  /\ Change /\ IF Asked(n) = {} THEN requests' = Append(requests, [node |-> n, status |-> "pending"])
                                ELSE requests' = [i \in DOMAIN requests |-> IF i \in Asked(n) THEN [requests[i] EXCEPT !.status = "pending"] ELSE requests[i]]
  /\ returned' = <<"id", IF Asked(n) = {} THEN Len(requests') ELSE 0>>
  /\ UNCHANGED <<jobRows, locked, job_nodes, checkpoints, logs, admin_keys, approvals>>
\* Only a pending request; that alone gives nobody a key.
Pending(i) == i \in DOMAIN requests /\ requests[i].status = "pending"
Decide(i, status) ==
  /\ Change /\ Changed(Pending(i))
  /\ requests' = IF Pending(i) THEN [requests EXCEPT ![i].status = status] ELSE requests
  /\ UNCHANGED <<jobRows, locked, job_nodes, checkpoints, logs, admin_keys, approvals>>
approve_admin_request(i) == Decide(i, "approved")
reject_admin_request(i) == Decide(i, "rejected")

-----------------------------------------------------------------------------
\* The stored key is never compared with the caller's; an expiry without a time zone raises.
is_admin(n) ==
  IF n \notin DOMAIN admin_keys THEN <<"admin", FALSE>>
  ELSE IF admin_keys[n] = "naive" THEN <<"raised">> ELSE <<"admin", admin_keys[n] # "over">>
get_job_nodes(j) == {k \in DOMAIN job_nodes : k[1] = j}
\* The timeout is checked and not used: it is always a minute.
get_node_stale == {k \in DOMAIN job_nodes : job_nodes[k].status = "running" /\ job_nodes[k].late}
\* The highest step, whenever it was saved; the rank of a node does not matter.
Aggregated(j) == {i \in DOMAIN checkpoints : checkpoints[i].job = j /\ checkpoints[i].aggregated}
get_latest_checkpoint(j) == {i \in Aggregated(j) : \A k \in Aggregated(j) : checkpoints[k].step <= checkpoints[i].step}
\* The newest after an id: a reader that is more than the limit behind skips what lies between.
get_logs(j, since_id, limit) ==
  LET found == {i \in DOMAIN logs : logs[i].job = j /\ i > since_id}
  IN {i \in found : Cardinality({k \in found : k > i}) < limit}
get_stats == <<Cardinality(DOMAIN jobRows), Cardinality({i \in DOMAIN logs : logs[i] # Cleaned}), Cardinality({i \in DOMAIN requests : Pending(i)})>>
Tells(what) == ~locked /\ returned = << >> /\ returned' \in what /\ UNCHANGED <<jobRows, locked, childVars, changes>>
Query ==
  \/ \E j \in JobIds : Tells({<<"nodes", get_job_nodes(j)>>, <<"checkpoint", get_latest_checkpoint(j)>>, <<"logs", get_logs(j, 1, 1)>>})
  \/ Tells({<<"stale", get_node_stale>>, <<"stats", get_stats>>} \cup {is_admin(n) : n \in Replicas})

\* A minute without a heartbeat; a month for the logs.
Ages ==
  /\ ~locked /\ returned' = << >> /\ UNCHANGED <<jobRows, locked, checkpoints, admin_keys, requests, approvals, changes>>
  /\ \/ /\ job_nodes' = [k \in DOMAIN job_nodes |-> [job_nodes[k] EXCEPT !.late = TRUE]] /\ UNCHANGED logs
     \/ /\ \A i \in DOMAIN logs : logs[i].age = 0
        /\ logs' = [i \in DOMAIN logs |-> IF logs[i] = Cleaned THEN Cleaned ELSE [logs[i] EXCEPT !.age = 40]] /\ UNCHANGED job_nodes

JobDatabaseNext ==
  \/ \E j \in JobIds :
       \/ insert_job(j) \/ update_job_status(j) \/ set_job_checkpoint(j) \/ delete_job(j) \/ add_log(j) \/ log_dependency_approval(j)
       \/ \E n \in Replicas : assign_node_to_job(j, n, 0) \/ \E status \in {"running", "failed"} : update_node_heartbeat(j, n, status)
       \/ \E step \in 1 .. 2, a \in BOOLEAN : save_checkpoint(j, step, a)
  \/ \E n \in Replicas : request_admin_key(n) \/ revoke_admin_key(n) \/ \E e \in {"never", "over", "naive"} : create_admin_key(n, e)
  \/ \E i \in 1 .. 2 : approve_admin_request(i) \/ reject_admin_request(i)
  \/ (\E days \in {7, 90} : cleanup_old_logs(days)) \/ _init_db \/ Query \/ Ages
=============================================================================
