-------------------------------- MODULE Console --------------------------------
(* The command line and the text interface (scripts/cli): background          *)
(* processes found again by a pid file, and the settings in desktop.json.     *)
(* Every console is a process of its own and nothing locks either file.       *)
EXTENDS Integers, Sequences

CONSTANTS Consoles,
          TUIs,            \* of Consoles: they stay, and are the parent of what they start
          MaxSpawned,      \* bounds the processes started
          MaxSettings      \* bounds the changes of the settings
ASSUME ConsolesAssumption == TUIs \subseteq Consoles

VARIABLES processes,       \* pid -> "running", "zombie" or "gone"
          parents,         \* pid -> console
          pid_file,        \* the pid it names, 0 for no file
          doing,           \* console -> the call it is in
          desktop_json,    \* limits, and the node_id, 0 before one is made
          opened,          \* console -> the settings it has read, or Unread
          settings_made
consoleVars == <<processes, parents, pid_file, doing, desktop_json, opened, settings_made>>

Nothing == [call |-> "none", pid |-> 0]
Unread == [limits |-> 0, node_id |-> 0, changed |-> FALSE]
ConsoleInit ==
  /\ processes = << >> /\ parents = << >> /\ pid_file = 0 /\ doing = [c \in Consoles |-> Nothing]
  /\ desktop_json = [limits |-> 0, node_id |-> 0] /\ opened = [c \in Consoles |-> Unread] /\ settings_made = 0

-----------------------------------------------------------------------------
\* A zombie counts as alive.
_pid_alive(pid) == pid # 0 /\ processes[pid] # "gone"
Calls(c, call, pid) == doing' = [doing EXCEPT ![c] = [call |-> call, pid |-> pid]]
Returns(c) == doing' = [doing EXCEPT ![c] = Nothing]

\* status: the file of a process that is gone is removed.
status(c, next) ==
  /\ doing[c] = Nothing
  /\ \/ _pid_alive(pid_file) /\ next /\ UNCHANGED pid_file
     \/ ~_pid_alive(pid_file) /\ pid_file' = 0 /\ UNCHANGED doing
StartChecks(c) ==
  /\ doing[c] = Nothing /\ ~_pid_alive(pid_file) /\ pid_file' = 0 /\ Calls(c, "spawn", 0)
  /\ UNCHANGED <<processes, parents, desktop_json, opened, settings_made>>
\* Popen also collects the zombies of earlier calls in the same console.
Spawn(c) ==
  /\ doing[c].call = "spawn" /\ Len(processes) < MaxSpawned /\ parents' = Append(parents, c)
  /\ processes' = Append([p \in DOMAIN processes |->
                            IF parents[p] = c /\ processes[p] = "zombie" THEN "gone" ELSE processes[p]], "running")
  /\ Calls(c, "record", Len(processes) + 1)
  /\ UNCHANGED <<pid_file, desktop_json, opened, settings_made>>
RecordPid(c) ==
  /\ doing[c].call = "record" /\ pid_file' = doing[c].pid /\ Returns(c)
  /\ UNCHANGED <<processes, parents, desktop_json, opened, settings_made>>

StopChecks(c) ==
  /\ status(c, Calls(c, "terminate", pid_file)) /\ pid_file # 0
  /\ UNCHANGED <<processes, parents, desktop_json, opened, settings_made>>
\* terminate and wait, which collects a zombie of its own; after ten seconds
\* kill, which is not waited for (the process is as good as dead).
Terminate(c) ==
  /\ doing[c].call = "terminate"
  /\ processes' = [processes EXCEPT ![doing[c].pid] =
                     IF @ # "gone" /\ parents[doing[c].pid] \in TUIs \ {c} THEN "zombie" ELSE "gone"]
  /\ Calls(c, "forget", doing[c].pid)
  /\ UNCHANGED <<parents, pid_file, desktop_json, opened, settings_made>>
\* Whatever pid the file names by now.
ForgetPid(c) ==
  /\ doing[c].call = "forget" /\ pid_file' = 0 /\ Returns(c)
  /\ UNCHANGED <<processes, parents, desktop_json, opened, settings_made>>

\* The child of a TUI is not waited for.
ProcessEnds(pid) ==
  /\ processes[pid] = "running"
  /\ processes' = [processes EXCEPT ![pid] = IF parents[pid] \in TUIs THEN "zombie" ELSE "gone"]
  /\ UNCHANGED <<parents, pid_file, doing, desktop_json, opened, settings_made>>
\* Ctrl-C, or the window closed; init collects the zombies.
ConsoleEnds(c) ==
  /\ doing' = [doing EXCEPT ![c] = Nothing] /\ opened' = [opened EXCEPT ![c] = Unread]
  /\ processes' = [p \in DOMAIN processes |-> IF parents[p] = c /\ processes[p] = "zombie" THEN "gone" ELSE processes[p]]
  /\ UNCHANGED <<parents, pid_file, desktop_json, settings_made>>

-----------------------------------------------------------------------------
\* get_config, then a change to the copy: limits, or the identity if it lacks one.
get_config(c) ==
  /\ opened[c] = Unread /\ settings_made < MaxSettings /\ settings_made' = settings_made + 1
  /\ \/ opened' = [opened EXCEPT ![c] = [limits |-> settings_made', node_id |-> desktop_json.node_id, changed |-> TRUE]]
     \/ desktop_json.node_id = 0 /\ opened' = [opened EXCEPT ![c] = [limits |-> desktop_json.limits,
                                                                     node_id |-> settings_made', changed |-> TRUE]]
  /\ UNCHANGED <<processes, parents, pid_file, doing, desktop_json>>
\* The whole file, as the console read it.
set_config(c) ==
  /\ opened[c].changed /\ desktop_json' = [limits |-> opened[c].limits, node_id |-> opened[c].node_id]
  /\ opened' = [opened EXCEPT ![c] = Unread]
  /\ UNCHANGED <<processes, parents, pid_file, doing, settings_made>>

ConsoleNext ==
  \/ \E c \in Consoles :
       \/ StartChecks(c) \/ Spawn(c) \/ RecordPid(c) \/ StopChecks(c) \/ Terminate(c) \/ ForgetPid(c)
       \/ ConsoleEnds(c) \/ get_config(c) \/ set_config(c)
  \/ \E pid \in DOMAIN processes : ProcessEnds(pid)
=============================================================================
