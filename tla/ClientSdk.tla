------------------------------- MODULE ClientSdk -------------------------------
(* The Python client library (sdk/python/distribai) against the HTTP handlers *)
(* it calls (admin_api): who may call what, one job that is submitted, watched *)
(* and cancelled while the grid works on it, and the calls for nodes, votes   *)
(* and credits. How a call ends is its result: "ok", what it returns, or the  *)
(* exception the program sees.                                                *)
EXTENDS Naturals

CONSTANTS MaxSubmits,      \* bounds the jobs; the last one is followed
          MaxTurns         \* bounds what happens on the server

VARIABLES client,          \* its class, and whether it has a session and took it for connected
          api_key,         \* none, one the server does not know, a node's token or the shared secret
          enforced,        \* admin_auth_enforced
          reachable,       \* the server can be reached
          remote,          \* the status of the job on the server, or "absent"
          submitted, turns,
          handle,          \* the status the Job object has, "none" without one
          awaiting,           \* what the program waits for: "nothing", "get", "sleep"
          result
clientSdkVars == <<client, api_key, enforced, reachable, remote, submitted, turns, handle, awaiting, result>>
serverVars == <<enforced, reachable, remote, submitted, turns>>

DistribAIClient == [class |-> "DistribAIClient", session |-> FALSE, connected |-> FALSE]
Client == [class |-> "Client", session |-> TRUE, connected |-> FALSE]
ClientSdkInit ==
  /\ client \in {DistribAIClient, Client}
  /\ api_key \in {"none", "unknown", "node", "secret"} /\ enforced \in BOOLEAN /\ reachable \in BOOLEAN
  /\ remote = "absent" /\ submitted = 0 /\ turns = 0
  /\ handle = "none" /\ awaiting = "nothing" /\ result = "ok"

-----------------------------------------------------------------------------
\* A bearer token is looked at even where none is asked for.
_authenticate_request(kind) ==
  \/ kind = "open" \/ api_key = "secret"
  \/ api_key = "none" /\ ~enforced
  \/ api_key = "node" /\ kind # "admin"
\* Once enforced, /admin/ takes the shared secret alone.
admin_auth_middleware == enforced => api_key = "secret"
Authorized(kind) == (kind = "admin" => admin_auth_middleware) /\ _authenticate_request(kind)

\* How a call ends that the server would answer with says: in the exceptions of _request.
_request(kind, says) ==
  IF ~client.session THEN "RuntimeError"
  ELSE IF ~reachable THEN "ClientError"
  ELSE IF ~Authorized(kind) THEN "AuthenticationError" ELSE says
Free == awaiting = "nothing"
EndsIn(r) == result' = r
SdkCall(kind, says) == Free /\ EndsIn(_request(kind, says)) /\ UNCHANGED <<client, api_key, handle, awaiting, serverVars>>
\* A path that has no route answers 404 to everybody.
NoRoute == IF ~client.session THEN "RuntimeError" ELSE IF ~reachable THEN "ClientError" ELSE "DistribAIError"

Client_connect ==
  /\ Free /\ client.class = "DistribAIClient" /\ UNCHANGED <<api_key, handle, awaiting, serverVars>>
  /\ IF client.connected THEN EndsIn("ok") /\ UNCHANGED client
     ELSE client' = [client EXCEPT !.session = reachable, !.connected = reachable] /\ EndsIn(IF reachable THEN "ok" ELSE "ConnectionError")
close ==
  /\ Free /\ client' = [client EXCEPT !.session = FALSE, !.connected = FALSE] /\ EndsIn("ok")
  /\ UNCHANGED <<api_key, handle, awaiting, serverVars>>
\* GET /health is no route, so this is always False.
ping == Free /\ client.class = "Client" /\ EndsIn("False") /\ UNCHANGED <<client, api_key, handle, awaiting, serverVars>>

-----------------------------------------------------------------------------
\* Jobs end as "success" on the server; the library knows "completed" instead.
JobStatus == {"queued", "running", "completed", "failed", "cancelled"}
from_dict(status) == IF status \in JobStatus THEN "ok" ELSE "ValueError"
\* An error whose text has "not found" in it is a JobNotFoundError.
GetSays == IF remote = "absent" THEN "JobNotFoundError" ELSE from_dict(remote)
Fetched == _request("any", GetSays)

\* submit: two calls. When the second fails the job is there and the caller has no id: it may submit again.
submit ==
  /\ Free /\ submitted < MaxSubmits /\ UNCHANGED <<client, api_key, enforced, reachable, turns, handle>>
  /\ \/ EndsIn("ValidationError") /\ UNCHANGED <<remote, submitted, awaiting>>
     \/ /\ EndsIn(_request("any", "ok"))
        /\ IF result' = "ok" THEN remote' = "queued" /\ submitted' = submitted + 1 /\ awaiting' = "get"
                             ELSE UNCHANGED <<remote, submitted, awaiting>>
get_submitted ==
  /\ awaiting = "get" /\ awaiting' = "nothing" /\ EndsIn(Fetched)
  /\ handle' = (IF Fetched = "ok" THEN remote ELSE "none") /\ UNCHANGED <<client, api_key, serverVars>>
refresh ==
  /\ Free /\ handle # "none" /\ EndsIn(Fetched)
  /\ handle' = (IF Fetched = "ok" THEN remote ELSE handle) /\ UNCHANGED <<client, api_key, awaiting, serverVars>>

\* wait_for_completion sleeps while the handle says the job is open; what refresh raises ends it, a success
\* on the server included. The status list is read only between two sleeps.
Unfinished(status) == status \in {"queued", "running"}
wait_for_completion ==
  /\ Free /\ handle # "none" /\ awaiting' = (IF Unfinished(handle) THEN "sleep" ELSE "nothing") /\ EndsIn("ok")
  /\ UNCHANGED <<client, api_key, handle, serverVars>>
PollAgain ==
  /\ awaiting = "sleep" /\ EndsIn(Fetched)
  /\ handle' = (IF Fetched = "ok" THEN remote ELSE handle)
  /\ awaiting' = (IF Fetched = "ok" /\ Unfinished(handle') THEN "sleep" ELSE "nothing")
  /\ UNCHANGED <<client, api_key, serverVars>>
WaitTimesOut ==
  /\ awaiting = "sleep" /\ awaiting' = "nothing" /\ EndsIn("TimeoutError") /\ UNCHANGED <<client, api_key, handle, serverVars>>

\* Without a filter only open jobs; "completed" means success to the filter, and success is what it returns.
Listed(filter) == IF filter = "none" THEN Unfinished(remote) ELSE remote = (IF filter = "completed" THEN "success" ELSE filter)
list_jobs(filter) == SdkCall("admin", IF Listed(filter) THEN from_dict(remote) ELSE "ok")
\* Every failure is False, a refused token too. The handle keeps its status.
Job_cancel ==
  /\ Free /\ handle # "none" /\ UNCHANGED <<client, api_key, enforced, reachable, submitted, turns, handle, awaiting>>
  /\ IF _request("admin", "ok") = "ok" /\ remote # "absent" THEN remote' = "cancelled" /\ EndsIn("True")
                                                         ELSE EndsIn("False") /\ UNCHANGED remote
stream_logs == Free /\ EndsIn(IF client.class = "Client" THEN "AttributeError" ELSE NoRoute)
               /\ UNCHANGED <<client, api_key, handle, awaiting, serverVars>>

-----------------------------------------------------------------------------
\* What the handlers answer, as the library understands it.
\* Without a node id a registration is refused, whatever the server allows.
register_node == "DistribAIError"
\* The job must be there before credits are spent, and the node must have them.
VoteAnswer(spent) == IF remote # "absent" /\ spent THEN "ok" ELSE "DistribAIError"
\* The open governance votes, which have no job_id.
list_v1(open_votes) == IF open_votes THEN "KeyError" ELSE "ok"
\* A database row is not JSON: with a task in the queue the server fails.
get_queue_v1 == IF remote = "queued" THEN "DistribAIError" ELSE "ok"
\* "transfers", where the library looks for "transactions".
get_transfer_history_v1 == "nothing"
\* The server wants a recipient, the library sends to_node_id.
transfer_v1 == "DistribAIError"

register == SdkCall("open", register_node)
list_nodes == SdkCall("admin", "ok")
\* The first page of the nodes.
get_node == \E found \in BOOLEAN : SdkCall("admin", IF found THEN "ok" ELSE "DistribAIError")
update_heartbeat == Free /\ EndsIn(NoRoute) /\ UNCHANGED <<client, api_key, handle, awaiting, serverVars>>
get_vote_tally == Free /\ EndsIn(NoRoute) /\ UNCHANGED <<client, api_key, handle, awaiting, serverVars>>
cast == \E spent \in BOOLEAN : SdkCall("node", VoteAnswer(spent))
list_votes == \E open_votes \in BOOLEAN : SdkCall("node", list_v1(open_votes))
get_queue == SdkCall("any", get_queue_v1)
balance == SdkCall("node", "ok")
history_of_transfers == SdkCall("node", get_transfer_history_v1)
transfer == SdkCall("node", transfer_v1)
estimated_earning_rate == SdkCall("node", "ok")

-----------------------------------------------------------------------------
\* The grid assigns the job, ends it, queues it again or clears it away; the server goes and comes back.
ServerTurns ==
  /\ turns < MaxTurns /\ turns' = turns + 1 /\ UNCHANGED <<client, api_key, enforced, submitted, handle, awaiting, result>>
  /\ \/ reachable' = ~reachable /\ UNCHANGED remote
     \/ /\ UNCHANGED reachable
        /\ \/ remote = "queued" /\ remote' \in {"running", "failed"}
           \/ remote = "running" /\ remote' \in {"queued", "success", "failed"}
           \/ remote \in {"success", "failed", "cancelled"} /\ remote' \in {"queued", "absent"}

\* (How a call that changes nothing ends has no effect on the next one, so one at a time is enough.)
Asks ==
  \/ (\E filter \in {"none", "completed", "failed"} : list_jobs(filter)) \/ stream_logs \/ ping
  \/ register \/ list_nodes \/ get_node \/ update_heartbeat \/ get_vote_tally \/ cast \/ list_votes \/ get_queue
  \/ balance \/ history_of_transfers \/ transfer \/ estimated_earning_rate
ClientSdkNext ==
  \/ Client_connect \/ close \/ submit \/ get_submitted \/ refresh \/ wait_for_completion \/ PollAgain \/ WaitTimesOut
  \/ Job_cancel \/ ServerTurns \/ (result = "ok" /\ Asks)
=============================================================================
