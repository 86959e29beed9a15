-------------------------------- MODULE Gridlink --------------------------------
(* tools/gridlink: a coordinator is exposed through a tunnel process, its     *)
(* address travels as a link, and somebody joins with what was pasted. A      *)
(* session is a run of "gridlink expose"; each starts at most one tunnel.     *)
EXTENDS Integers, Sequences, TLC

CONSTANTS Sessions,
          MaxTunnels,      \* bounds the tunnel processes, another program's included
          OtherPort        \* a port that is nobody's default

VARIABLES cloudflared,     \* the binary is found
          ngrok_ready,     \* its binary and NGROK_AUTHTOKEN are there
          tunnels,         \* provider and whether the process runs
          ngrok_api,       \* the agent that holds 127.0.0.1:4040, 0 for none
          sessions,        \* phase, request and tunnel of each
          shared,          \* the text last shown
          plan             \* what a join would run, printed by the last command
gridlinkVars == <<cloudflared, ngrok_ready, tunnels, ngrok_api, sessions, shared, plan>>

default_port(engine) == IF engine = "legacy" THEN 50051 ELSE 50061
NoText == [form |-> "none"]
NoPlan == [worker |-> "none"]
Waiting == [at |-> "new", tunnel |-> 0, code |-> 0]
\* Another program's ngrok agent may run already.
GridlinkInit ==
  /\ cloudflared \in BOOLEAN /\ ngrok_ready \in BOOLEAN
  /\ tunnels \in {<< >>, <<[provider |-> "ngrok", runs |-> TRUE]>>} /\ ngrok_api = Len(tunnels)
  /\ sessions = [s \in Sessions |-> Waiting] /\ shared = NoText /\ plan = NoPlan

-----------------------------------------------------------------------------
\* A link names a host: the coordinator's machine or a tunnel (by number).
GridLink(host, port, tls, provider, engine) ==
  [host |-> host, port |-> port, tls |-> tls, provider |-> provider, engine |-> engine]
\* Every parameter is written, so nothing is left to the reader's defaults.
to_uri(l) == [form |-> "uri", params |-> l]
Typed == {[form |-> "url", scheme |-> s, host |-> 0, port |-> p] :
            s \in {"http", "https", "grpc", "grpcs"}, p \in {0, OtherPort}}
         \cup {[form |-> "plain", host |-> 0, port |-> p] : p \in {0, OtherPort}}
         \cup {[form |-> "uri", params |-> [host |-> 0]],
               [form |-> "uri", params |-> [host |-> 0, engine |-> "legacy", provider |-> "ngrok"]],
               [form |-> "uri", params |-> [engine |-> "legacy"]]}

one(q, key, default) == IF key \in DOMAIN q THEN q[key] ELSE default
Unparsable(text) == text.form = "uri" /\ "host" \notin DOMAIN text.params
_parse_uri(q) ==
  LET engine == one(q, "engine", "native")
      provider == one(q, "provider", "local")
  IN GridLink(q.host, one(q, "port", default_port(engine)), one(q, "tls", provider \in {"cloudflare", "ngrok"}), provider, engine)
FromUrl(t) ==
  LET tls == t.scheme \in {"https", "grpcs"}
      engine == IF t.scheme \in {"grpc", "grpcs"} THEN "legacy" ELSE "native"
      port == IF t.port # 0 THEN t.port ELSE IF tls THEN 443 ELSE default_port(engine)
  IN GridLink(t.host, port, tls, IF tls THEN "tunnel" ELSE "local", engine)
parse(t) ==
  CASE t.form = "uri" -> _parse_uri(t.params)
    [] t.form = "url" -> FromUrl(t)
    [] t.form = "plain" -> GridLink(t.host, IF t.port # 0 THEN t.port ELSE 50061, FALSE, "local", "native")

\* Only the engine the caller gives counts when there is one; the command line
\* always gives one.
plan_join(l, engine) ==
  LET e == IF engine = "" THEN l.engine ELSE engine
      dials == [host |-> l.host, port |-> l.port]
  IN IF e = "native" THEN [worker |-> "native", scheme |-> IF l.tls THEN "https" ELSE "http"] @@ dials
                     ELSE [worker |-> "python", GRPC_USE_TLS |-> l.tls] @@ dials

-----------------------------------------------------------------------------
\* The text of a link that is shown has its URI in it.
share_block(l) == to_uri(l)
Exits(s, code) == sessions' = [sessions EXCEPT ![s] = [at |-> "ended", tunnel |-> 0, code |-> code]]
local_link(engine) == GridLink(0, default_port(engine), FALSE, "local", engine)
ExposeLocal(s, engine) ==
  /\ sessions[s].at = "new" /\ Exits(s, 0) /\ shared' = share_block(local_link(engine))
  /\ UNCHANGED <<cloudflared, ngrok_ready, tunnels, ngrok_api, plan>>
\* A new agent gets the port of the local API when no other one has it.
Popen(s, provider, engine, once) ==
  /\ Len(tunnels) < MaxTunnels /\ tunnels' = Append(tunnels, [provider |-> provider, runs |-> TRUE])
  /\ sessions' = [sessions EXCEPT ![s] = [at |-> "starting", tunnel |-> Len(tunnels) + 1, code |-> 0,
                                          engine |-> engine, once |-> once]]
  /\ ngrok_api' = IF provider = "ngrok" /\ ngrok_api = 0 THEN Len(tunnels) + 1 ELSE ngrok_api
\* A missing cloudflared is downloaded, whether --download was given or not:
\* the providers are made once, with the default.
start(s, provider, engine, once) ==
  /\ sessions[s].at = "new"
  /\ \/ provider = "cloudflare" /\ cloudflared' = TRUE /\ Popen(s, provider, engine, once)
     \/ provider = "cloudflare" /\ ~cloudflared /\ Exits(s, 3) /\ UNCHANGED <<cloudflared, tunnels, ngrok_api>>
     \/ provider = "ngrok" /\ ngrok_ready /\ Popen(s, provider, engine, once) /\ UNCHANGED cloudflared
     \/ provider = "ngrok" /\ ~ngrok_ready /\ Exits(s, 3) /\ UNCHANGED <<cloudflared, tunnels, ngrok_api>>
  /\ UNCHANGED <<ngrok_ready, shared, plan>>

Gone(t) == /\ tunnels' = [tunnels EXCEPT ![t].runs = FALSE]
           /\ ngrok_api' = IF ngrok_api = t THEN 0 ELSE ngrok_api
\* What the session takes for its own URL: the one its cloudflared printed, or
\* the one the local API reports, whichever agent that is.
parse_ngrok_public_url == ngrok_api
UrlOf(t) == IF tunnels[t].provider = "ngrok" THEN parse_ngrok_public_url ELSE t
\* stop: terminate, wait ten seconds, kill. With --once at once.
UrlAppears(s) ==
  LET t == sessions[s].tunnel IN
  /\ sessions[s].at = "starting" /\ UrlOf(t) # 0 /\ tunnels[t].runs
  /\ shared' = share_block(GridLink(UrlOf(t), 443, TRUE, tunnels[t].provider, sessions[s].engine))
  /\ IF sessions[s].once THEN Gone(t) /\ Exits(s, 0)
     ELSE sessions' = [sessions EXCEPT ![s].at = "shown"] /\ UNCHANGED <<tunnels, ngrok_api>>
  /\ UNCHANGED <<cloudflared, ngrok_ready, plan>>
\* The process ended, or the time is over at the next line it prints.
TunnelGivesUp(s) ==
  /\ sessions[s].at = "starting" /\ Gone(sessions[s].tunnel) /\ Exits(s, 3)
  /\ UNCHANGED <<cloudflared, ngrok_ready, shared, plan>>
\* Nobody watches the process of a link that was shown.
TunnelDies(t) == tunnels[t].runs /\ Gone(t) /\ UNCHANGED <<cloudflared, ngrok_ready, sessions, shared, plan>>
stop_session(s) ==
  /\ sessions[s].at = "shown" /\ Gone(sessions[s].tunnel) /\ Exits(s, 0)
  /\ UNCHANGED <<cloudflared, ngrok_ready, shared, plan>>

-----------------------------------------------------------------------------
_cmd_link ==
  /\ \E tls \in BOOLEAN, e \in {"native", "legacy"} :
       shared' = share_block(GridLink(0, default_port(e), tls, IF tls THEN "tunnel" ELSE "local", e))
  /\ UNCHANGED <<cloudflared, ngrok_ready, tunnels, ngrok_api, sessions, plan>>
\* Of the text shown, or of one from somewhere else.
_cmd_join(text, engine) ==
  /\ text # NoText /\ plan' = IF Unparsable(text) THEN NoPlan ELSE plan_join(parse(text), engine)
  /\ UNCHANGED <<cloudflared, ngrok_ready, tunnels, ngrok_api, sessions, shared>>

\* The plan is printed, and its worker started or not; no other step reads it, so they wait.
JoinEnds == plan # NoPlan /\ plan' = NoPlan /\ UNCHANGED <<cloudflared, ngrok_ready, tunnels, ngrok_api, sessions, shared>>

GridlinkNext ==
  \/ JoinEnds
  \/ /\ plan = NoPlan
     /\ \/ \E s \in Sessions :
             \/ \E e \in {"native", "legacy"} : ExposeLocal(s, e) \/ \E p \in {"cloudflare", "ngrok"}, o \in BOOLEAN : start(s, p, e, o)
             \/ UrlAppears(s) \/ TunnelGivesUp(s) \/ stop_session(s)
        \/ \E t \in DOMAIN tunnels : TunnelDies(t)
        \/ _cmd_link
        \* "" from a notebook.
        \/ \E text \in {shared} \cup Typed, e \in {"native", "legacy", ""} : _cmd_join(text, e)
=============================================================================
