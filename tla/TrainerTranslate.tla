--------------------------- MODULE TrainerTranslate ---------------------------
(* tools/trainer_translate: a training script is run under observation in a   *)
(* child process, and what was seen of it becomes a job directory. Several    *)
(* translations may be asked for the same directory.                          *)
EXTENDS Naturals, Sequences, SequencesExt

CONSTANTS Translations,
          Scripts,         \* what the scripts do when they run, see observed
          Shapes           \* the target shapes a caller may give, << >> for none

VARIABLES asked,           \* translation -> its script, options, phase and, in the end, its report
          capture_json,    \* what its child wrote into the work directory: "none" before
          job_dir          \* file name -> the translation that wrote it, 0 for no file
translateVars == <<asked, capture_json, job_dir>>

Files == <<"model.pt", "x.bin", "y.bin", "job.json">>
NotCaptured == [status |-> "none", stage |-> "none"]
TranslateInit ==
  /\ asked \in [Translations -> [script: Scripts, force: BOOLEAN, target_shape: Shapes, at: {"asked"}, next: {1}]]
  /\ capture_json = [t \in Translations |-> NotCaptured]
  /\ job_dir = [f \in {Files[i] : i \in DOMAIN Files} |-> 0]

-----------------------------------------------------------------------------
Failure(status, stage) == [status |-> status, stage |-> stage]
\* A module the script imported counts, and the text of the script when the
\* package is there, a comment as much as an import.
detect_framework(s) == (s.mentions \/ s.imports) /\ s.installed
\* The shim: every question has the answer of a group of one, every collective
\* is the identity. A process group is refused where it is not installed.
install_single_rank(s) == detect_framework(s)
OwnGroup(s) == s.distributed /\ ~install_single_rank(s)

\* Modules with parameters that are in no other module; the largest is the
\* model, the first of the largest if there are several.
TopLevel(ms) == {i \in DOMAIN ms : ms[i].params > 0 /\ ms[i].inside = 0}
Model(ms) == ms[CHOOSE i \in TopLevel(ms) :
                  \A j \in TopLevel(ms) : ms[j].params < ms[i].params \/ (ms[j].params = ms[i].params /\ j >= i)]
Losses == [MSELoss |-> "mse", L1Loss |-> "l1", CrossEntropyLoss |-> "cross_entropy"]
Loss(s) == IF s.losses = << >> THEN "mse" ELSE Losses[Head(s.losses)]
\* The first batch of the first loader, else what the layers tell.
HasBatch(s) == s.loaders # << >> /\ Head(s.loaders).yields
InputShape(s, m) == IF HasBatch(s) THEN Head(s.loaders).x ELSE m.in
TargetShape(s, m, given) ==
  IF given # << >> THEN given ELSE IF HasBatch(s) THEN Head(s.loaders).y ELSE m.out
\* _save_batches: x first, and y only if x had a type the format knows.
Saved(s) == IF s.loaders = << >> \/ ~Head(s.loaders).pairs THEN << >>
            ELSE SelectSeq(<<"x.bin", "y.bin">>, LAMBDA f : "x" \in Head(s.loaders).types
                                                           /\ (f = "y.bin" => "y" \in Head(s.loaders).types))
Observed(s, m, given) ==
  [status |-> "ok", stage |-> "emit", optimizer |-> Head(s.optimizers), loss |-> Loss(s),
   target_dtype |-> IF Loss(s) = "cross_entropy" THEN "long" ELSE "float",
   input_shape |-> InputShape(s, m), target_shape |-> TargetShape(s, m, given), data |-> Saved(s)]
capture(s, given) ==
  LET ms == s.modules IN
  CASE OwnGroup(s) -> Failure("unsupported", "capture")
    [] ~OwnGroup(s) /\ s.raises -> Failure("needs_bugfix", "capture")
    [] ~OwnGroup(s) /\ ~s.raises /\ TopLevel(ms) = {} -> Failure("unsupported", "analyze")
    [] OTHER ->
         LET m == Model(ms) IN
         IF ~m.scripts THEN Failure("unsupported", "script")
         ELSE IF \/ s.optimizers = << >> \/ Head(s.optimizers).name \notin {"sgd", "adam", "adamw"}
                 \/ s.losses # << >> /\ Head(s.losses) \notin DOMAIN Losses
                 \/ InputShape(s, m) = << >> \/ TargetShape(s, m, given) = << >>
              THEN Failure("unsupported", "analyze") ELSE Observed(s, m, given)

\* job.json takes a default for what is missing and for what is zero: a plain
\* SGD (momentum 0) becomes one with 0.9. In thousandths.
OrDefault(value, default) == IF value = 0 THEN default ELSE value
Job(cap) == [optimizer |-> cap.optimizer.name, lr |-> OrDefault(cap.optimizer.lr, 10),
             momentum |-> OrDefault(cap.optimizer.momentum, 900), loss |-> cap.loss,
             target_dtype |-> cap.target_dtype, input_shape |-> cap.input_shape, target_shape |-> cap.target_shape,
             input |-> cap.data = <<"x.bin", "y.bin">>]
\* Each of model.pt, x.bin and y.bin that there is, then job.json.
Copied(cap) == SelectSeq(Files, LAMBDA f : f \in {"model.pt", "job.json"} \/ Contains(cap.data, f))

-----------------------------------------------------------------------------
Ends(t, report) == asked' = [asked EXCEPT ![t] = [at |-> "ended", report |-> report]]
\* The directory is looked at once, before the script runs.
translate(t) ==
  /\ asked[t].at = "asked"
  /\ IF ~asked[t].script.exists THEN Ends(t, Failure("needs_bugfix", "import"))
     ELSE IF (\E f \in DOMAIN job_dir : job_dir[f] # 0) /\ ~asked[t].force THEN Ends(t, Failure("internal", "emit"))
     ELSE asked' = [asked EXCEPT ![t].at = "capturing"]
  /\ UNCHANGED <<capture_json, job_dir>>
\* The child: it may also be killed by a limit or crash before it writes.
Captures(t) ==
  /\ asked[t].at = "capturing" /\ capture_json[t] = NotCaptured
  /\ capture_json' = [capture_json EXCEPT ![t] = capture(asked[t].script, asked[t].target_shape)]
  /\ UNCHANGED <<asked, job_dir>>
_run_capture(t) ==
  /\ asked[t].at = "capturing"
  /\ CASE capture_json[t] = NotCaptured -> Ends(t, Failure("internal", "capture"))
       [] capture_json[t].status = "ok" -> asked' = [asked EXCEPT ![t].at = "copying"]
       [] OTHER -> Ends(t, capture_json[t])
  /\ UNCHANGED <<capture_json, job_dir>>
Copy(t) ==
  LET files == Copied(capture_json[t]) IN
  /\ asked[t].at = "copying" /\ job_dir' = [job_dir EXCEPT ![files[asked[t].next]] = t]
  /\ IF asked[t].next < Len(files) THEN asked' = [asked EXCEPT ![t].next = @ + 1]
     ELSE Ends(t, Job(capture_json[t]))
  /\ UNCHANGED capture_json
\* A full disk or an interrupt ends it between two files; the work directory
\* goes, the files copied stay.
CopyFails(t) == asked[t].at = "copying" /\ Ends(t, Failure("interrupted", "emit")) /\ UNCHANGED <<capture_json, job_dir>>

TranslateNext == \E t \in Translations : translate(t) \/ Captures(t) \/ _run_capture(t) \/ Copy(t) \/ CopyFails(t)

=============================================================================
