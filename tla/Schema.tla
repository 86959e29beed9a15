-------------------------------- MODULE Schema --------------------------------
(* How the databases get their tables: the versioned migrations of            *)
(* migrations.py, run by hand by several people, and the columns the          *)
(* orchestrator adds to its own database each time it starts (db/_base.py).   *)
(* executescript commits statement by statement, so a process that dies       *)
(* leaves half a script behind.                                               *)
EXTENDS Integers, Sequences, FiniteSets, SequencesExt

CONSTANTS Operators,       \* processes that run migrations.py on one file
          Columns,         \* the columns _apply_migrations ensures
          MaxMigrations,   \* bounds the calls of migrate_up and migrate_down
          MaxDeaths        \* bounds the processes that die half-way

VARIABLES objects,         \* tables <<t>> and columns <<t, c>> of the migrated file
          versions,        \* rows of schema_migrations
          script,          \* operator -> what its process is running
          rolledBack,      \* a rollback was run on this file
          columns,         \* of Columns, those the orchestrator's database has
          ensured,         \* columns _apply_migrations is through with
          boot,            \* "down", "starting" or "up"
          timestamps,      \* no row lacks its timestamps
          migrations, deaths
schemaVars == <<objects, versions, script, rolledBack, columns, ensured, boot, timestamps, migrations, deaths>>

-----------------------------------------------------------------------------
MIGRATIONS == <<
  << <<"jobs">>, <<"nodes">>, <<"credits">> >>,
  << <<"jobs", "current_step">>, <<"jobs", "progress_percent">>, <<"jobs", "assigned_to">> >>,
  << <<"nodes", "region">>, <<"nodes", "cpu_cores">>, <<"nodes", "memory_gb">>, <<"nodes", "gpu_model">>,
     <<"nodes", "gpu_vram_gb">> >>,
  << <<"node_settings">> >> >>
\* Version 2 has a script of comments, version 3 none: it is skipped.
DOWN == << << <<"jobs">>, <<"nodes">>, <<"credits">> >>, << >>, << >>, << <<"node_settings">> >> >>
Reversible == {1, 2, 4}
Latest == Len(MIGRATIONS)
Reading == [mode |-> "idle", todo |-> << >>, at |-> 1]

SchemaInit ==
  /\ objects = {} /\ versions = {} /\ script = [o \in Operators |-> Reading] /\ rolledBack = FALSE
  /\ columns \in SUBSET Columns /\ ensured = {} /\ boot = "down" /\ timestamps = FALSE
  /\ migrations = 0 /\ deaths = 0

migratedVars == <<objects, versions, script, rolledBack, migrations>>
liveVars == <<columns, ensured, boot, timestamps>>

-----------------------------------------------------------------------------
get_current_version == CHOOSE v \in versions \cup {0} : \A w \in versions : w <= v
Between(a, b) == [i \in 1 .. b - a |-> a + i]

migrate_up(o, target) ==
  /\ script[o].mode = "idle" /\ get_current_version < target /\ migrations < MaxMigrations
  /\ migrations' = migrations + 1
  /\ script' = [script EXCEPT ![o] = [mode |-> "up", todo |-> Between(get_current_version, target), at |-> 1]]
  /\ UNCHANGED <<objects, versions, rolledBack, deaths, liveVars>>
migrate_down(o, target) ==
  /\ script[o].mode = "idle" /\ get_current_version > target /\ migrations < MaxMigrations
  /\ migrations' = migrations + 1 /\ rolledBack' = TRUE
  /\ script' = [script EXCEPT ![o] = [mode |-> "down", at |-> 1,
       todo |-> SelectSeq(Reverse(Between(target, get_current_version)), LAMBDA v : v \in Reversible)]]
  /\ UNCHANGED <<objects, versions, deaths, liveVars>>

Running(o, mode) == script[o].mode = mode /\ script[o].todo # << >>
Step(o) == script' = [script EXCEPT ![o].at = @ + 1]
NextVersion(o) == script' = [script EXCEPT ![o].todo = Tail(@), ![o].at = 1]
\* A sqlite3.Error ends the run; what was executed stays.
Fails(o) == script' = [script EXCEPT ![o] = Reading]
Done(o) ==
  /\ script[o].mode # "idle" /\ script[o].todo = << >> /\ Fails(o)
  /\ UNCHANGED <<objects, versions, rolledBack, migrations, deaths, liveVars>>

UpStatement(o) ==
  /\ Running(o, "up") /\ script[o].at <= Len(MIGRATIONS[Head(script[o].todo)])
  /\ LET x == MIGRATIONS[Head(script[o].todo)][script[o].at] IN
     \/ Len(x) = 1 /\ objects' = objects \cup {x} /\ Step(o)                     \* CREATE TABLE IF NOT EXISTS
     \/ Len(x) = 2 /\ <<x[1]>> \in objects /\ x \notin objects /\ objects' = objects \cup {x} /\ Step(o)
     \/ Len(x) = 2 /\ (<<x[1]>> \notin objects \/ x \in objects) /\ Fails(o) /\ UNCHANGED objects
  /\ UNCHANGED <<versions, rolledBack, migrations, deaths, liveVars>>
\* (AnyTime would record a version before its script is through.)
AnyTime(o) == TRUE
ScriptIsThrough(o) == script[o].at > Len(MIGRATIONS[Head(script[o].todo)])
RecordVersion(o) ==
  /\ Running(o, "up") /\ ScriptIsThrough(o)
  /\ LET v == Head(script[o].todo) IN
     \/ v \notin versions /\ versions' = versions \cup {v} /\ NextVersion(o)
     \/ v \in versions /\ Fails(o) /\ UNCHANGED versions
  /\ UNCHANGED <<objects, rolledBack, migrations, deaths, liveVars>>

DownStatement(o) ==
  /\ Running(o, "down") /\ script[o].at <= Len(DOWN[Head(script[o].todo)]) /\ Step(o)
  /\ objects' = {x \in objects : x[1] # DOWN[Head(script[o].todo)][script[o].at][1]}
  /\ UNCHANGED <<versions, rolledBack, migrations, deaths, liveVars>>
ForgetVersion(o) ==
  /\ Running(o, "down") /\ script[o].at > Len(DOWN[Head(script[o].todo)]) /\ NextVersion(o)
  /\ versions' = versions \ {Head(script[o].todo)}
  /\ UNCHANGED <<objects, rolledBack, migrations, deaths, liveVars>>

-----------------------------------------------------------------------------
\* DBManagerBase.__init__: the schema script, then every column in turn, then
\* the missing timestamps in one transaction.
_init_schema ==
  /\ boot = "down" /\ boot' = "starting" /\ ensured' = {}
  /\ UNCHANGED <<columns, timestamps, deaths, migratedVars>>
_ensure_column(c) ==
  /\ boot = "starting" /\ c \notin ensured /\ ensured' = ensured \cup {c} /\ columns' = columns \cup {c}
  /\ UNCHANGED <<boot, timestamps, deaths, migratedVars>>
_apply_migrations ==
  /\ boot = "starting" /\ ensured = Columns /\ timestamps' = TRUE /\ boot' = "up"
  /\ UNCHANGED <<columns, ensured, deaths, migratedVars>>
Killed ==
  /\ deaths < MaxDeaths /\ deaths' = deaths + 1
  /\ \/ \E o \in Operators : script[o].mode # "idle" /\ Fails(o) /\ UNCHANGED liveVars
     \/ boot # "down" /\ boot' = "down" /\ UNCHANGED <<columns, ensured, timestamps, script>>
  /\ UNCHANGED <<objects, versions, rolledBack, migrations>>

SchemaNext ==
  \/ \E o \in Operators :
       \/ \E target \in 0 .. Latest : migrate_up(o, target) \/ migrate_down(o, target)
       \/ UpStatement(o) \/ RecordVersion(o) \/ DownStatement(o) \/ ForgetVersion(o) \/ Done(o)
  \/ _init_schema \/ (\E c \in Columns : _ensure_column(c)) \/ _apply_migrations \/ Killed

-----------------------------------------------------------------------------
\* However many people migrate one file at once and wherever their processes die, a version that
\* is recorded has all its tables and columns, as long as nobody rolled back; and an orchestrator
\* that came up has every column, from whatever older database and interrupted start
\* (migrations.py migrate_up, db/_base.py _apply_migrations).
RecordedMeansApplied ==
  /\ ~rolledBack => \A v \in versions : Range(MIGRATIONS[v]) \subseteq objects
  /\ boot = "up" => columns = Columns /\ timestamps
=============================================================================
