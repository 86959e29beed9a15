------------------------------ MODULE TrainingData ------------------------------
(* What a worker trains on and what it uploads (executor.py,                  *)
(* gradient_compression.py): the host limits a task applies, the windows of a *)
(* language-model batch, and the gradients with their top-k form. Tokens are  *)
(* positions; a gradient is a vector of integers; a seed is what is left of   *)
(* the hash of the task's id.                                                 *)
EXTENDS Integers, Sequences, FiniteSetsExt

CONSTANTS TokenCounts,     \* lengths of the batch text
          SeqLens,         \* configured sequence lengths, 0 for none
          Seeds, Gradients,
          KeepOneIn,       \* 1 / (1 - DISTRIBAI_GRADIENT_SPARSITY)
          MaxTasks         \* bounds the tasks of one process
ASSUME TrainingDataAssumption == TokenCounts \subseteq Nat /\ SeqLens \subseteq Int /\ Seeds \subseteq Int

VARIABLES percent,         \* cpuPercent of desktop.json, as the last task read it
          nice,            \* the process's niceness
          batch,           \* the text and the windows made of it, or NoBatch
          upload,          \* the gradient file: dense and top-k form
          momentum_buffer, \* what was dropped; one compressor serves all tasks
          tasks_run
trainingDataVars == <<percent, nice, batch, upload, momentum_buffer, tasks_run>>

NoBatch == [tokens |-> 0, seq_len |-> 0, window |-> <<0, 0>>, target |-> <<0, 0>>]
NoUpload == [dense |-> << >>, sparse |-> << >>]
Zero(g) == [i \in DOMAIN g |-> 0]

TrainingDataInit ==
  /\ percent = 100 /\ nice = 0 /\ batch = NoBatch /\ upload = NoUpload /\ momentum_buffer = << >> /\ tasks_run = 0

-----------------------------------------------------------------------------
NoFile == -1
\* A missing file means 50, a value is clamped to 10..100. (What is not a number raises.)
get_resource_limits(raw) == IF raw = NoFile THEN 50 ELSE Max({10, Min({100, raw})})
\* nice() adds to what earlier tasks set; the kernel stops at 19.
apply_cpu_limit(limit) == IF limit >= 100 THEN nice ELSE Min({19, nice + Min({19, (100 - limit) \div 5})})

_load_batch_source == [tokens : TokenCounts, seq_len : {0}, window : {<<0, 0>>}, target : {<<0, 0>>}]
StartTask ==
  /\ batch = NoBatch /\ tasks_run < MaxTasks /\ tasks_run' = tasks_run + 1
  /\ \E raw \in {NoFile, 5, 100} : percent' = get_resource_limits(raw) /\ nice' = apply_cpu_limit(percent')
  /\ batch' \in _load_batch_source /\ upload' = NoUpload
  /\ UNCHANGED momentum_buffer

\* A short text is repeated; the target of a token is the next one.
Repeated(tokens) == IF tokens < 17 THEN 3 * tokens ELSE tokens
\* (WholeText would allow a window as long as the text.)
WholeText(n, configured) == IF configured = 0 THEN Min({32, Max({8, n})}) ELSE Max({1, Min({configured, n})})
SeqLen(n, configured) ==
  IF configured = 0 THEN Min({32, Max({8, n - 1})}) ELSE Max({1, Min({configured, n - 1})})
\* tokens[a : b] stops at the end of the text.
Positions(n, a, b) == <<a, Min({b, n})>>
_build_language_model_batch ==
  /\ batch.tokens > 0 /\ batch.seq_len = 0
  /\ \E configured \in SeqLens, seed \in Seeds, idx \in 0 .. 2 :
       LET n == Repeated(batch.tokens)
           seq_len == SeqLen(n, configured)
           start == (seed + idx * seq_len) % Max({1, n - seq_len - 1})
       IN batch' = [batch EXCEPT !.seq_len = seq_len, !.window = Positions(n, start, start + seq_len),
                                 !.target = Positions(n, start + 1, start + seq_len + 1)]
  /\ UNCHANGED <<percent, nice, upload, momentum_buffer, tasks_run>>

-----------------------------------------------------------------------------
Abs(x) == IF x < 0 THEN -x ELSE x
\* The largest k by magnitude; which of two equal ones is argpartition's choice.
TopK(g) ==
  {K \in SUBSET DOMAIN g : /\ Cardinality(K) = Max({1, Len(g) \div KeepOneIn})
                           /\ \A i \in K, j \in DOMAIN g \ K : Abs(g[i]) >= Abs(g[j])}
Remembered(g) == IF Len(momentum_buffer) = Len(g) THEN momentum_buffer ELSE Zero(g)
Kept(g, K) == [i \in DOMAIN g |-> IF i \in K THEN g[i] ELSE 0]
DeepGradientCompression(g, K) ==
  /\ upload' = [dense |-> g, sparse |-> Kept(g, K)]
  /\ momentum_buffer' = [i \in DOMAIN g |-> Remembered(g)[i] + g[i] - Kept(g, K)[i]]
\* NaN and infinity are refused (no gradient here); compression can be disabled.
_collect_gradients ==
  /\ batch.seq_len > 0 /\ upload = NoUpload
  /\ \E g \in Gradients :
       \/ \E K \in TopK(g) : DeepGradientCompression(g, K)
       \/ upload' = [dense |-> g, sparse |-> g] /\ UNCHANGED momentum_buffer
  /\ UNCHANGED <<percent, nice, batch, tasks_run>>
_write_gradients ==
  /\ upload # NoUpload /\ batch' = NoBatch /\ upload' = NoUpload
  /\ UNCHANGED <<percent, nice, momentum_buffer, tasks_run>>
PreparationError ==
  /\ batch # NoBatch /\ upload = NoUpload /\ batch' = NoBatch
  /\ UNCHANGED <<percent, nice, upload, momentum_buffer, tasks_run>>

TrainingDataNext ==
  StartTask \/ _build_language_model_batch \/ _collect_gradients \/ _write_gradients \/ PreparationError

-----------------------------------------------------------------------------
\* Every window of a text of three or more tokens is a full sequence and has a target for each of
\* its tokens, inside the text, whatever the length, the seed and the place in the batch
\* (_build_language_model_batch; one or two bytes make a window longer than its target).
EveryWindowHasItsTarget ==
  batch.seq_len > 0 /\ batch.tokens >= 3 =>
    /\ batch.window[2] - batch.window[1] = batch.seq_len
    /\ batch.target = <<batch.window[1] + 1, batch.window[2] + 1>>
=============================================================================
