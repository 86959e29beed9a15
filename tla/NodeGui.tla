-------------------------------- MODULE NodeGui --------------------------------
(* The desktop application of a worker (gui_launcher.py): worker daemons in   *)
(* threads of the window's process, the status thread, starting at login, and *)
(* updates. The window calls each method in a thread of its own.              *)
EXTENDS Integers, Sequences

CONSTANTS MaxConnects,     \* bounds the daemons of one process
          MaxLaunches

VARIABLES window,          \* "closed", "open" or "headless"
          server_locked,   \* DISTRIBAI_LOCK_SERVER
          daemons,         \* threads started: "running", "stopping" or "ended"
          daemon,          \* the one the window knows, 0 for None
          connected,
          watching,        \* the status thread's loop has not been stopped
          shown,           \* last status_update the page received
          update_url,      \* "unset" until a connection sets it
          package,         \* the downloaded file
          autostart,       \* the unit: "none", "at login", or "running" a second process
          sentinel,        \* ~/.distribai/.autostart_registered
          launches
nodeGuiVars == <<window, server_locked, daemons, daemon, connected, watching, shown, update_url, package,
                 autostart, sentinel, launches>>

Closed == /\ daemons' = << >> /\ daemon' = 0 /\ connected' = FALSE /\ watching' = FALSE /\ shown' = FALSE
          /\ update_url' = "unset"
NodeGuiInit ==
  /\ window = "closed" /\ server_locked = FALSE /\ daemons = << >> /\ daemon = 0 /\ connected = FALSE
  /\ watching = FALSE /\ shown = FALSE /\ update_url = "unset" /\ package = "none" /\ autostart = "none"
  /\ sentinel = FALSE /\ launches = 0

-----------------------------------------------------------------------------
\* A daemon the window knew before keeps running: nobody refers to it any more.
StartDaemon(from) == /\ daemons' = Append(from, "running") /\ daemon' = Len(from) + 1 /\ connected' = TRUE
\* An error of any kind leaves no URL.
_discover_update_url == update_url' \in {"none", "url"}
\* systemd and launchd start a second process at once, Windows at the next login.
SetAutoStart(enabled) == autostart' \in IF enabled THEN {"at login", "running"} ELSE {"none"}
_maybe_register_autostart(wanted, locked) ==
  IF wanted /\ ~sentinel
  THEN /\ sentinel' = TRUE /\ IF locked THEN SetAutoStart(TRUE) ELSE UNCHANGED autostart
  ELSE UNCHANGED <<sentinel, autostart>>

\* main: the status thread belongs to the window; a locked build connects by itself.
Launch ==
  /\ window = "closed" /\ launches < MaxLaunches /\ launches' = launches + 1
  /\ \E headless, locked, wanted \in BOOLEAN :
       /\ window' = (IF headless THEN "headless" ELSE "open") /\ server_locked' = locked /\ watching' = ~headless
       /\ IF locked THEN StartDaemon(<< >>) /\ _discover_update_url
                    ELSE daemons' = << >> /\ daemon' = 0 /\ connected' = FALSE /\ update_url' = "unset"
       /\ _maybe_register_autostart(wanted, locked)
  /\ shown' = FALSE /\ UNCHANGED package
Close ==
  /\ window # "closed" /\ window' = "closed" /\ Closed
  /\ UNCHANGED <<server_locked, package, autostart, sentinel, launches>>

\* (A locked build refuses another address; one without a port is refused too.)
connect ==
  /\ window = "open" /\ Len(daemons) < MaxConnects /\ StartDaemon(daemons) /\ _discover_update_url
  /\ UNCHANGED <<window, server_locked, watching, shown, package, autostart, sentinel, launches>>
\* The status thread is stopped for good, whether or not one connects again.
disconnect ==
  /\ window = "open" /\ ~server_locked
  /\ daemons' = [d \in DOMAIN daemons |-> IF d = daemon /\ daemons[d] = "running" THEN "stopping" ELSE daemons[d]]
  /\ daemon' = 0 /\ connected' = FALSE /\ watching' = FALSE
  /\ UNCHANGED <<window, server_locked, shown, update_url, package, autostart, sentinel, launches>>
\* run_daemon: a stopped daemon sees the flag at its next message or reconnection;
\* one that raises only prints. Neither touches connected.
DaemonEnds(d) ==
  /\ d \in DOMAIN daemons /\ daemons[d] # "ended" /\ daemons' = [daemons EXCEPT ![d] = "ended"]
  /\ UNCHANGED <<window, server_locked, daemon, connected, watching, shown, update_url, package, autostart, sentinel, launches>>
_start_status_updater ==
  /\ window = "open" /\ watching /\ daemon # 0 /\ shown # connected /\ shown' = connected
  /\ UNCHANGED <<window, server_locked, daemons, daemon, connected, watching, update_url, package, autostart, sentinel, launches>>
set_auto_start(enabled) ==
  /\ window = "open" /\ SetAutoStart(enabled)
  /\ UNCHANGED <<window, server_locked, daemons, daemon, connected, watching, shown, update_url, package, sentinel, launches>>

-----------------------------------------------------------------------------
\* One file for all downloads. The hash is asked for afterwards: no answer, no
\* comparison; a URL that was never set raises after the file is written.
check_for_updates == update_url = "url"
download_update ==
  /\ window = "open" /\ check_for_updates /\ package' \in {"none", "compared", "not compared"}
  /\ UNCHANGED <<window, server_locked, daemons, daemon, connected, watching, shown, update_url, autostart, sentinel, launches>>
\* SystemExit ends the thread of the call, not the window's process.
install_update ==
  /\ window = "open" /\ package # "none" /\ watching' = FALSE
  /\ UNCHANGED <<window, server_locked, daemons, daemon, connected, shown, update_url, package, autostart, sentinel, launches>>

NodeGuiNext ==
  \/ Launch \/ Close \/ connect \/ disconnect \/ (\E d \in DOMAIN daemons : DaemonEnds(d))
  \/ _start_status_updater \/ (\E e \in BOOLEAN : set_auto_start(e)) \/ download_update \/ install_update

=============================================================================
