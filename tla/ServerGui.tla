------------------------------- MODULE ServerGui -------------------------------
(* The desktop application of an operator (server_gui.py, and serve of        *)
(* orchestrator_grpc.py): orchestrators in threads of the window's process,   *)
(* and the .env file they are configured by. The window calls each method in  *)
(* a thread of its own, so calls overlap; the two-second sleeps order nothing.*)
EXTENDS Integers, Sequences

CONSTANTS Ports,
          MaxThreads,      \* bounds the server threads
          MaxEdits         \* bounds the settings saved

VARIABLES server_running,  \* what the window shows
          stop_event,
          servers,         \* server threads: "starting", "serving", "stopping" or "ended"
          runtimes,        \* orchestrators of this process: loop (the thread) and up (it listens)
          runtime,         \* self.runtime, 0 for None
          _RUNTIMES,       \* port -> orchestrator, 0 for none
          calls,           \* calls asleep: "start", "restart"
          monitoring,      \* the status thread
          env_file, environ, \* the port in the file and in os.environ
          edits
serverGuiVars ==
  <<server_running, stop_event, servers, runtimes, runtime, _RUNTIMES, calls, monitoring, env_file, environ, edits>>

ServerGuiInit ==
  /\ server_running = FALSE /\ stop_event = FALSE /\ servers = << >> /\ runtimes = << >> /\ runtime = 0
  /\ _RUNTIMES = [p \in Ports |-> 0] /\ calls = {} /\ monitoring = TRUE
  /\ env_file \in Ports /\ environ = env_file /\ edits = 0

-----------------------------------------------------------------------------
\* .env overrides the environment. The flag a stop left set is not cleared.
BeginStart == Len(servers) < MaxThreads /\ servers' = Append(servers, "starting") /\ environ' = env_file
start_server ==
  /\ ~server_running /\ "start" \notin calls /\ BeginStart /\ calls' = calls \cup {"start"}
  /\ UNCHANGED <<server_running, stop_event, runtimes, runtime, _RUNTIMES, monitoring, env_file, edits>>
\* After its sleep, whatever the thread has done meanwhile.
StartReturns ==
  /\ "start" \in calls /\ calls' = calls \ {"start"} /\ server_running' = TRUE
  /\ UNCHANGED <<stop_event, servers, runtimes, runtime, _RUNTIMES, monitoring, env_file, environ, edits>>

\* serve() keeps one orchestrator per port and never forgets it: the second
\* call returns the first one's, stopped or not.
serve(t) ==
  IF _RUNTIMES[environ] # 0
  THEN runtime' = _RUNTIMES[environ] /\ UNCHANGED <<runtimes, _RUNTIMES>>
  ELSE /\ runtimes' = Append(runtimes, [loop |-> t, up |-> TRUE]) /\ runtime' = Len(runtimes')
       /\ _RUNTIMES' = [_RUNTIMES EXCEPT ![environ] = Len(runtimes')]
run_server(t) ==
  /\ servers[t] = "starting"
  /\ \/ servers' = [servers EXCEPT ![t] = "serving"] /\ serve(t) /\ UNCHANGED server_running
     \/ servers' = [servers EXCEPT ![t] = "ended"] /\ server_running' = FALSE /\ UNCHANGED <<runtimes, runtime, _RUNTIMES>>
  /\ UNCHANGED <<stop_event, calls, monitoring, env_file, environ, edits>>
SeesStop(t) ==
  /\ servers[t] = "serving" /\ stop_event /\ servers' = [servers EXCEPT ![t] = "stopping"]
  /\ UNCHANGED <<server_running, stop_event, runtimes, runtime, _RUNTIMES, calls, monitoring, env_file, environ, edits>>
\* It stops self.runtime, which a later thread may have set; its own
\* orchestrator loses the loop it runs in.
ThreadEnds(t) ==
  /\ servers[t] = "stopping" /\ servers' = [servers EXCEPT ![t] = "ended"]
  /\ runtimes' = [r \in DOMAIN runtimes |-> IF r = runtime \/ runtimes[r].loop = t
                                            THEN [runtimes[r] EXCEPT !.up = FALSE] ELSE runtimes[r]]
  /\ UNCHANGED <<server_running, stop_event, runtime, _RUNTIMES, calls, monitoring, env_file, environ, edits>>

\* The caller stops the runtime too, from a loop it does not belong to: that
\* works or raises, and the flag is down in both cases.
Stopped ==
  /\ server_running' = FALSE /\ stop_event' = TRUE
  /\ \/ UNCHANGED runtimes
     \/ runtime # 0 /\ runtimes' = [runtimes EXCEPT ![runtime].up = FALSE]
stop_server ==
  /\ server_running /\ Stopped
  /\ UNCHANGED <<servers, runtime, _RUNTIMES, calls, monitoring, env_file, environ, edits>>
restart_server ==
  /\ "restart" \notin calls /\ calls' = calls \cup {"restart"}
  /\ IF server_running THEN Stopped ELSE UNCHANGED <<server_running, stop_event, runtimes>>
  /\ UNCHANGED <<servers, runtime, _RUNTIMES, monitoring, env_file, environ, edits>>
\* Two seconds later. A thread that has not looked yet will never see the flag.
RestartGoesOn ==
  /\ "restart" \in calls /\ stop_event' = FALSE
  /\ \/ server_running /\ calls' = calls \ {"restart"} /\ UNCHANGED <<servers, environ>>
     \/ ~server_running /\ BeginStart /\ calls' = (calls \ {"restart"}) \cup {"start"}
  /\ UNCHANGED <<server_running, runtimes, runtime, _RUNTIMES, monitoring, env_file, edits>>
_start_monitoring ==
  /\ monitoring /\ stop_event /\ monitoring' = FALSE
  /\ UNCHANGED <<server_running, stop_event, servers, runtimes, runtime, _RUNTIMES, calls, env_file, environ, edits>>
save_settings ==
  /\ edits < MaxEdits /\ edits' = edits + 1 /\ env_file' \in Ports
  /\ UNCHANGED <<server_running, stop_event, servers, runtimes, runtime, _RUNTIMES, calls, monitoring, environ>>

ServerGuiNext ==
  \/ start_server \/ StartReturns \/ stop_server \/ restart_server \/ RestartGoesOn \/ _start_monitoring \/ save_settings
  \/ \E t \in DOMAIN servers : run_server(t) \/ SeesStop(t) \/ ThreadEnds(t)
=============================================================================
