-------------------------------- MODULE MCParts --------------------------------
(* The components that share no state with one another, each over a small     *)
(* instance, in one exploration: a behaviour is about one of them, chosen at  *)
(* the start, and the others stay as they began. (Credits and Staking are two *)
(* users of one ledger module and of its variables.)                          *)
EXTENDS Voting, Credits, Staking, Executor, Diloco, Grpo, Admission, WorkerSession, Callbacks,
        ScriptHost, Aggregation, TrainingData, Schema, Schedule, NodeGui, ServerGui, Console,
        Gridlink, TrainerTranslate, KeyValueStore, Updates,
        JobDatabase, ClientSdk, Benchmarks, Monitoring, EventStreams, GridWorker

VARIABLE part

\* A machine with the docker daemon, one where it is down beside a working nsjail, one with the native trainer only.
PartsHosts == {[docker |-> "up", nsjail |-> "broken", native |-> FALSE], [docker |-> "down", nsjail |-> "works", native |-> FALSE],
               [docker |-> "missing", nsjail |-> "missing", native |-> TRUE]}
AnyHost == CHOOSE h \in PartsHosts : h.docker = "up"
PartsPayloads == {[form |-> "plain", layout |-> "a", value |-> 0, weight |-> 1], [form |-> "fallback", layout |-> "a", value |-> -9, weight |-> 2],
                  [form |-> "compressed", layout |-> "a", value |-> 1, weight |-> 1], [form |-> "broken", layout |-> "b", value |-> 1, weight |-> 1]}
PartsGradients == {<<1, -2, 2>>, <<3, 0>>}
AnySettings == resolve_training_settings("one", "negative", "cosine", "off")

\* Scripts that become a job, with the data of a loader, with half of it and without; and one for each
\* reason to refuse.
Layer(params, inside, scripts_it, in, out) == [params |-> params, inside |-> inside, scripts |-> scripts_it, in |-> in, out |-> out]
Linear == Layer(2, 0, TRUE, <<4>>, <<1>>)
Loader(yields, pairs, types) == [yields |-> yields, pairs |-> pairs, types |-> types, x |-> <<3>>, y |-> <<1>>]
Plain == [exists |-> TRUE, raises |-> FALSE, distributed |-> FALSE, mentions |-> FALSE, imports |-> FALSE, installed |-> FALSE,
          modules |-> <<Linear, Layer(1, 1, TRUE, <<2>>, <<2>>)>>, optimizers |-> <<[name |-> "sgd", lr |-> 10, momentum |-> 0]>>,
          losses |-> <<"MSELoss">>, loaders |-> << >>]
Loaded == [Plain EXCEPT !.distributed = TRUE, !.imports = TRUE, !.installed = TRUE, !.loaders = <<Loader(TRUE, TRUE, {"x", "y"})>>]
PartsScripts == {
  Plain, [Plain EXCEPT !.exists = FALSE], [Plain EXCEPT !.raises = TRUE], [Plain EXCEPT !.distributed = TRUE],
  Loaded,
  [Plain EXCEPT !.modules = <<Layer(0, 0, TRUE, << >>, << >>)>>],
  [Plain EXCEPT !.modules = <<Linear, Layer(3, 0, FALSE, <<2>>, <<2>>)>>],
  [Plain EXCEPT !.optimizers = << >>], [Plain EXCEPT !.losses = <<"NLLLoss">>],
  [Plain EXCEPT !.modules = <<Layer(3, 0, TRUE, << >>, << >>)>>],
  [Plain EXCEPT !.losses = <<"CrossEntropyLoss">>, !.loaders = <<Loader(FALSE, FALSE, {})>>],
  [Plain EXCEPT !.losses = << >>, !.loaders = <<Loader(TRUE, TRUE, {"x"})>>]}
PartsShapes == {<< >>, <<2>>}
NobodyAsks == [t \in Translations |-> [script |-> Plain, force |-> FALSE, target_shape |-> << >>, at |-> "asked", next |-> 1]]
\* Two releases of which the later has other files, a wheel, and what is refused.
Build(n, format, size, members, entries) == [release |-> n, format |-> format, size |-> size, members |-> members, entries |-> entries]
PartsBuilds == {Build(2, "archive", 2, "safe", {"a", "b"}), Build(3, "archive", 2, "safe", {"a"}), Build(3, "whl", 2, "safe", {}),
                Build(2, "exe", 0, "safe", {}), Build(3, "archive", 1, "unsafe", {"b"})}
\* A machine that can be a flagship or not; three clients behind two addresses.
Result(score, gpu, gb) == [score |-> score, gpu_used |-> gpu, max_usable_gb |-> gb, thermal_throttled |-> FALSE]
PartsMeasured == ("tensor" :> {Result(90, TRUE, 0), Result(10, FALSE, 0)}) @@ ("vram" :> {Result(60, FALSE, 8)})
                 @@ ("network" :> {Result(50, FALSE, 0), Result(5, FALSE, 0)}) @@ ("data_pipeline" :> {Result(80, FALSE, 0)})
PartsAddress == ("u" :> "x") @@ ("v" :> "x") @@ ("w" :> "y")
partsVars == <<part, votingVars, creditsVars, stakingVars, executorVars, dilocoVars, grpoVars, admissionVars, workerSessionVars, callbacksVars, scriptHostVars, aggregationVars, trainingDataVars, schemaVars, scheduleVars, nodeGuiVars, serverGuiVars, consoleVars, gridlinkVars, translateVars, keyValueVars, updatesVars, jobDatabaseVars, clientSdkVars, benchmarksVars, monitoringVars, eventStreamsVars, gridWorkerVars>>

\* Whatever the part does, the others do not change.
OthersStay ==
  /\ part # "voting" => UNCHANGED votingVars
  /\ part # "credits" => UNCHANGED <<sql, earning, drifted, faults, transferVars>>
  /\ part \notin {"credits", "staking"} => UNCHANGED ledgerVars
  /\ part # "staking" => UNCHANGED <<stakes, totals, vesting>>
  /\ part # "executor" => UNCHANGED executorVars
  /\ part # "diloco" => UNCHANGED dilocoVars
  /\ part # "grpo" => UNCHANGED grpoVars
  /\ part # "admission" => UNCHANGED admissionVars
  /\ part # "session" => UNCHANGED workerSessionVars
  /\ part # "callbacks" => UNCHANGED callbacksVars
  /\ part # "scripts" => UNCHANGED scriptHostVars
  /\ part # "aggregation" => UNCHANGED aggregationVars
  /\ part # "training data" => UNCHANGED trainingDataVars
  /\ part \notin {"migrations", "columns"} => UNCHANGED schemaVars
  /\ part = "migrations" => UNCHANGED liveVars
  /\ part = "columns" => UNCHANGED migratedVars
  /\ part # "schedule" => UNCHANGED scheduleVars
  /\ part # "node window" => UNCHANGED nodeGuiVars
  /\ part # "server window" => UNCHANGED serverGuiVars
  /\ part # "console" => UNCHANGED consoleVars
  /\ part # "gridlink" => UNCHANGED gridlinkVars
  /\ part # "translator" => UNCHANGED translateVars
  /\ part # "key-value store" => UNCHANGED keyValueVars
  /\ part # "updates" => UNCHANGED updatesVars
  /\ part # "job database" => UNCHANGED jobDatabaseVars
  /\ part # "client library" => UNCHANGED clientSdkVars
  /\ part # "benchmarks" => UNCHANGED benchmarksVars
  /\ part # "monitoring" => UNCHANGED monitoringVars
  /\ part # "event streams" => UNCHANGED eventStreamsVars
  /\ part # "grid worker" => UNCHANGED gridWorkerVars

\* One beginning for the parts the behaviour is not about.
PartsInit ==
  /\ part \in {"voting", "credits", "staking", "executor", "diloco", "grpo", "admission", "session", "callbacks",
               "scripts", "aggregation", "training data", "migrations", "columns", "schedule", "node window", "server window",
               "console", "gridlink", "translator", "key-value store", "updates", "job database", "client library",
               "benchmarks", "monitoring", "event streams", "grid worker"}
  /\ VotingInit /\ CreditsInit /\ StakingInit /\ DilocoInit /\ GrpoInit /\ AdmissionInit
  /\ WorkerSessionInit /\ CallbacksInit /\ AggregationInit /\ TrainingDataInit /\ ScheduleInit
  /\ NodeGuiInit /\ ConsoleInit
  /\ TranslateInit /\ (IF part = "translator" THEN asked[2].script = Loaded ELSE asked = NobodyAsks)
  /\ ExecutorInit /\ (part # "executor" => settings = AnySettings)
  /\ ScriptHostInit /\ (part # "scripts" => host = AnyHost)
  /\ SchemaInit /\ (part # "columns" => columns = {})
  /\ ServerGuiInit /\ (part # "server window" => env_file = "p")
  /\ GridlinkInit /\ (part # "gridlink" => cloudflared /\ ngrok_ready /\ tunnels = << >>)
  /\ KeyValueInit /\ (part # "key-value store" => server /\ used = "keys")
  /\ UpdatesInit /\ (part # "updates" => public_key = "set") /\ JobDatabaseInit
  /\ ClientSdkInit /\ (part # "client library" => client.session /\ api_key = "none" /\ enforced /\ reachable)
  /\ BenchmarksInit /\ MonitoringInit /\ EventStreamsInit
  /\ GridWorkerInit /\ (part # "grid worker" => node_id = [w \in Processes |-> First])

VotingPart == part = "voting" /\ VotingNext /\ OthersStay /\ UNCHANGED part
CreditsPart == part = "credits" /\ CreditsNext /\ OthersStay /\ UNCHANGED part
StakingPart == part = "staking" /\ StakingNext /\ OthersStay /\ UNCHANGED part
ExecutorPart == part = "executor" /\ ExecutorNext /\ OthersStay /\ UNCHANGED part
DilocoPart == part = "diloco" /\ DilocoNext /\ OthersStay /\ UNCHANGED part
GrpoPart == part = "grpo" /\ GrpoNext /\ OthersStay /\ UNCHANGED part
AdmissionPart == part = "admission" /\ AdmissionNext /\ OthersStay /\ UNCHANGED part
WorkerSessionPart == part = "session" /\ WorkerSessionNext /\ OthersStay /\ UNCHANGED part
CallbacksPart == part = "callbacks" /\ CallbacksNext /\ OthersStay /\ UNCHANGED part
ScriptHostPart == part = "scripts" /\ ScriptHostNext /\ OthersStay /\ UNCHANGED part
AggregationPart == part = "aggregation" /\ AggregationNext /\ OthersStay /\ UNCHANGED part
TrainingDataPart == part = "training data" /\ TrainingDataNext /\ OthersStay /\ UNCHANGED part
SchemaPart == part \in {"migrations", "columns"} /\ SchemaNext /\ OthersStay /\ UNCHANGED part
SchedulePart == part = "schedule" /\ ScheduleNext /\ OthersStay /\ UNCHANGED part
NodeGuiPart == part = "node window" /\ NodeGuiNext /\ OthersStay /\ UNCHANGED part
ServerGuiPart == part = "server window" /\ ServerGuiNext /\ OthersStay /\ UNCHANGED part
ConsolePart == part = "console" /\ ConsoleNext /\ OthersStay /\ UNCHANGED part
GridlinkPart == part = "gridlink" /\ GridlinkNext /\ OthersStay /\ UNCHANGED part
TrainerTranslatePart == part = "translator" /\ TranslateNext /\ OthersStay /\ UNCHANGED part
KeyValueStorePart == part = "key-value store" /\ KeyValueNext /\ OthersStay /\ UNCHANGED part
UpdatesPart == part = "updates" /\ UpdatesNext /\ OthersStay /\ UNCHANGED part
JobDatabasePart == part = "job database" /\ JobDatabaseNext /\ OthersStay /\ UNCHANGED part
ClientSdkPart == part = "client library" /\ ClientSdkNext /\ OthersStay /\ UNCHANGED part
BenchmarksPart == part = "benchmarks" /\ BenchmarksNext /\ OthersStay /\ UNCHANGED part
MonitoringPart == part = "monitoring" /\ MonitoringNext /\ OthersStay /\ UNCHANGED part
EventStreamsPart == part = "event streams" /\ EventStreamsNext /\ OthersStay /\ UNCHANGED part
GridWorkerPart == part = "grid worker" /\ GridWorkerNext /\ OthersStay /\ UNCHANGED part
PartsNext == VotingPart \/ CreditsPart \/ StakingPart \/ ExecutorPart \/ DilocoPart \/ GrpoPart \/ AdmissionPart \/ WorkerSessionPart \/ CallbacksPart \/ ScriptHostPart \/ AggregationPart \/ TrainingDataPart \/ SchemaPart \/ SchedulePart \/ NodeGuiPart \/ ServerGuiPart \/ ConsolePart \/ GridlinkPart \/ TrainerTranslatePart \/ KeyValueStorePart \/ UpdatesPart \/ JobDatabasePart \/ ClientSdkPart \/ BenchmarksPart \/ MonitoringPart \/ EventStreamsPart \/ GridWorkerPart
PartsSpec == PartsInit /\ [][PartsNext]_partsVars /\ WorkerSessionFairness
=============================================================================
