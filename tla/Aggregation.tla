------------------------------ MODULE Aggregation ------------------------------
(* How gradients are averaged: the orchestrator's robust weighted mean for    *)
(* JSON payloads and its fallback over tensors (grpc_service.py, the worker's *)
(* byzantine_detector package), and the filters before a DiLoCo outer step.   *)
(* A gradient is one integer coordinate under a layout; means and distances   *)
(* are compared exactly, scaled by the number they would be divided by.       *)
EXTENDS Integers, Sequences, FiniteSetsExt, Functions

CONSTANTS Payloads,        \* [form, layout, value, weight]: what a worker may have uploaded
          MaxGradients,    \* bounds the gradients of a round
          TrimOneIn,       \* 1 / max_byzantine_fraction
          ReputationFrom,  \* gradients from which reputations are tracked (10)
          WeighFrom        \* gradients from which they weigh (20)
ASSUME AggregationAssumption ==
  /\ \A p \in Payloads : p.value \in Int /\ p.weight \in Nat \ {0}
  /\ TrimOneIn \in Nat /\ TrimOneIn > 2

VARIABLES node_gradients,  \* the payloads that could be loaded, in the order of the results
          outcome          \* the last aggregate: whose, and their weighted sum and total weight
aggregationVars == <<node_gradients, outcome>>

NoAggregate == [sources |-> {}, sum |-> 0, weight |-> 0, of |-> "none"]
AggregationInit ==
  node_gradients = << >> /\ outcome = NoAggregate

All == DOMAIN node_gradients
Value == [i \in All |-> node_gradients[i].value]
Values(S) == {Value[i] : i \in S}
\* Sorted by key, and by position where the key does not tell: a rank from 0, and who is at it.
Rank(key, S, i) == Cardinality({j \in S : key[j] < key[i] \/ (key[j] = key[i] /\ j < i)})
AtRank(key, S, k) == CHOOSE i \in S : Rank(key, S, i) = k

-----------------------------------------------------------------------------
\* A compressed gradient has a JSON-native form only as its fallback.
_gradient_payload_to_vector(p) == p.form \in {"plain", "fallback"}
\* As a tensor it is decompressed, unless its indices and values disagree.
_compressed_gradient_payload_to_tensor(p) == p.form # "broken"
\* A parameter is known by its name and shape: the layout of the first usable payload decides.
SameLayout(S) == {i \in S : node_gradients[i].layout = node_gradients[Min(S)].layout}

\* num_samples, or steps_completed, or one.
_result_weight(i) == node_gradients[i].weight

\* The weighted mean of some gradients. (OverEveryone divides by the weight of all of them.)
OverEveryone(S, weight) ==
  [sources |-> S, sum |-> SumFunction([i \in S |-> weight[i] * Value[i]]), weight |-> SumFunction(weight), of |-> "mean"]
Mean(S, weight) ==
  [sources |-> S, sum |-> SumFunction([i \in S |-> weight[i] * Value[i]]), weight |-> SumFunction([i \in S |-> weight[i]]), of |-> "mean"]

-----------------------------------------------------------------------------
\* Distances from the mean, times the number of gradients; their upper median. Beyond three
\* medians a gradient is left out, when there are more than three of them.
Distance == LET total == SumFunction(Value)
                from(i) == Cardinality(All) * Value[i] - total
            IN [i \in All |-> IF from(i) < 0 THEN 0 - from(i) ELSE from(i)]
Byzantine == LET median == Distance[AtRank(Distance, All, Cardinality(All) \div 2)]
             IN {i \in All : Cardinality(All) > 3 /\ Distance[i] > 3 * median}
PurePythonUsable == All # {} /\ SameLayout(All) = All /\ \A i \in All : _gradient_payload_to_vector(node_gradients[i])
_detect_byzantine_gradients_pure_python ==
  /\ PurePythonUsable
  /\ outcome' = [Mean(IF All \ Byzantine = {} THEN All ELSE All \ Byzantine, [i \in All |-> _result_weight(i)]) EXCEPT !.of = "pure"]

-----------------------------------------------------------------------------
\* TrimmedMean flags by position, not by value: the first and the last of the gradients.
Trim(n) == n \div TrimOneIn
TrimmedMean_detect_anomalies(S) ==
  {i \in S : Rank([j \in S |-> j], S, i) \notin Trim(Cardinality(S)) .. Cardinality(S) - Trim(Cardinality(S)) - 1}
TrimmedMean_aggregate(S) ==
  LET k == Trim(Cardinality(S))
  IN [Mean({i \in S : Rank(Value, S, i) \in k .. Cardinality(S) - k - 1}, [i \in S |-> 1]) EXCEPT !.of = "trimmed"]

\* Outliers by z-score lie above the median: at most half. A node whose norms jumped is flagged too.
Clustering_outliers(S) == {F \in SUBSET S : 2 * Cardinality(F) <= Cardinality(S)}
detect_turncoat_behavior(S) == SUBSET S

CoordinateWiseMedian_aggregate(S) ==
  [Mean({AtRank(Value, S, (Cardinality(S) - 1) \div 2)}, [i \in S |-> 1]) EXCEPT !.of = "median"]
\* What the profiles' histories made of the reputations: who passes the threshold, and of those
\* who is consistent. The weights are normalised over them; with none, the median of all.
ReputationWeightedAggregator_aggregate(S, passed, consistent) ==
  IF passed = {} THEN CoordinateWiseMedian_aggregate(S) ELSE Mean(passed, [i \in S |-> IF i \in consistent THEN 2 ELSE 1])

RobustAggregator_aggregate(S) ==
  IF Cardinality(S) < WeighFrom THEN {TrimmedMean_aggregate(S)}
  ELSE UNION {{ReputationWeightedAggregator_aggregate(S, passed, consistent) : consistent \in SUBSET passed} : passed \in SUBSET S}
RobustAggregator_detect_anomalies(S) ==
  IF Cardinality(S) >= ReputationFrom THEN {F \cup T : F \in Clustering_outliers(S), T \in detect_turncoat_behavior(S)} ELSE {TrimmedMean_detect_anomalies(S)}

\* The fallback drops what has another layout, and needs three gradients.
Tensors == LET usable == {i \in All : _compressed_gradient_payload_to_tensor(node_gradients[i])}
           IN IF usable = {} THEN {} ELSE SameLayout(usable)
_detect_byzantine_gradients ==
  /\ ~PurePythonUsable
  /\ IF Cardinality(Tensors) < 3 THEN outcome' = NoAggregate
     ELSE \E flagged \in RobustAggregator_detect_anomalies(Tensors) :
            outcome' \in IF Tensors \ flagged = {} THEN {NoAggregate} ELSE RobustAggregator_aggregate(Tensors \ flagged)

-----------------------------------------------------------------------------
\* FoolsGold scales a gradient down by its cosine similarity to the most similar other one: with
\* one coordinate, to nothing if another has its sign, and not at all otherwise.
FoolsGoldFilter == [i \in All |-> IF \E j \in All \ {i} : Value[j] * Value[i] > 0 THEN 0 ELSE Value[i]]
\* SignGuard drops those who disagree with the sign of the median, if most agree with it.
Sign(x) == IF x < 0 THEN -1 ELSE IF x > 0 THEN 1 ELSE 0
MedianSign ==
  LET middle(k) == FoolsGoldFilter[AtRank(FoolsGoldFilter, All, k \div 2)]
  IN Sign(middle(Cardinality(All) - 1) + middle(Cardinality(All)))
SignGuard ==
  LET agree == {i \in All : Sign(FoolsGoldFilter[i]) = MedianSign}
  IN IF 2 * Cardinality(agree) > Cardinality(All) THEN agree ELSE All
\* Buckets of two in random order, the last one maybe of one; the step averages the buckets.
BucketingClipping(kept) ==
  LET buckets == (Cardinality(kept) + 1) \div 2
      members(of, b) == {i \in kept : of[i] = b}
  IN {{members(of, b) : b \in 1 .. buckets} :
        of \in {f \in [kept -> 1 .. buckets] :
                  \A b \in 1 .. buckets : Cardinality(members(f, b)) \in (IF b = buckets THEN 1 .. 2 ELSE {2})}}
\* Each filter passes fewer than four gradients on as they are.
FilteredMean(buckets) ==
  [sources |-> SignGuard, of |-> "filtered", weight |-> 2 * Cardinality(buckets),
   sum |-> SumFunction([b \in buckets |->
             (IF Cardinality(b) = 1 THEN 2 ELSE 1) * SumFunction([i \in b |-> FoolsGoldFilter[i]])])]
defense_pipeline ==
  /\ Cardinality(All) >= 4
  /\ \E buckets \in (IF Cardinality(SignGuard) < 4 THEN {{{i} : i \in SignGuard}} ELSE BucketingClipping(SignGuard)) :
       outcome' = FilteredMean(buckets)

-----------------------------------------------------------------------------
GradientArrives ==
  /\ Len(node_gradients) < MaxGradients /\ outcome = NoAggregate
  /\ \E p \in Payloads : node_gradients' = Append(node_gradients, p)
  /\ UNCHANGED outcome
\* _check_and_aggregate, once there are enough; the next task's result may do it again.
_check_and_aggregate ==
  /\ outcome = NoAggregate /\ All # {} /\ UNCHANGED node_gradients
  /\ _detect_byzantine_gradients_pure_python \/ _detect_byzantine_gradients \/ defense_pipeline
NextRound == outcome # NoAggregate /\ outcome' = NoAggregate /\ node_gradients' = << >>
AggregationNext == GradientArrives \/ _check_and_aggregate \/ NextRound

-----------------------------------------------------------------------------
\* Whatever path it took, an aggregate is made of somebody's gradients and lies between the least
\* and the greatest of them (filtered gradients may shrink towards zero); the weighted mean keeps
\* more than half of the nodes (_detect_byzantine_gradients and what it calls, the filters).
AggregateLiesBetweenItsSources ==
  LET shrunk == IF outcome.of = "filtered" THEN {0} ELSE {}
      seen == Values(outcome.sources) \cup shrunk
  IN outcome # NoAggregate =>
       /\ outcome.sources # {} /\ outcome.weight > 0
       /\ outcome.weight * Min(seen) <= outcome.sum /\ outcome.sum <= outcome.weight * Max(seen)
       /\ outcome.of = "pure" => 2 * Cardinality(outcome.sources) > Cardinality(All)
=============================================================================
