---------------------------------- MODULE Grpo ----------------------------------
(* The rounds of group relative policy optimization as the server keeps them: *)
(* GrpoCoordinator (legacy/services_python/grpo_coordinator.py) and the       *)
(* handler of reports (grpc_service.py). Its caller starts and finalises      *)
(* rounds as it likes, any registered node reports for any round, as often    *)
(* as it likes. A reward is named by its report and its place in it, and its  *)
(* normalised advantage after it.                                             *)
EXTENDS Naturals, Sequences, SequencesExt, FiniteSets

CONSTANTS WorkerIds, OtherNodes, GroupSize,
          MaxRounds, MaxMessages   \* these bound the rounds, and the reports and finalisations
ASSUME GrpoAssumption == IsFiniteSet(WorkerIds) /\ GroupSize \in Nat

VARIABLES rounds,         \* worker_rewards of each round: the last report of each node, or <<>>
          reward_reports, \* every report that was taken
          completions,    \* every completion that was sent
          turn            \* numbers the reports and the finalisations
grpoVars == <<rounds, reward_reports, completions, turn>>

Reporters == WorkerIds \cup OtherNodes
worker_ids == SetToSeq(WorkerIds)

GrpoInit == rounds = <<>> /\ reward_reports = {} /\ completions = {} /\ turn = 0

\* Neither the status of the job nor an unfinished round keeps the caller from the next one.
start_round ==
  /\ Len(rounds) < MaxRounds /\ rounds' = Append(rounds, [w \in Reporters |-> <<>>])
  /\ UNCHANGED <<reward_reports, completions, turn>>

\* A session reports under its own id only; a report of an unknown round is dropped, one that
\* comes late or again replaces the one before.
Rewards(w, round, n) == [i \in 1 .. n |-> [by |-> w, round |-> round, at |-> turn, nth |-> i]]
handle_reward_report(w) ==
  \E round \in DOMAIN rounds, n \in 0 .. GroupSize :
    /\ rounds' = [rounds EXCEPT ![round][w] = Rewards(w, round, n)]
    /\ reward_reports' = reward_reports \cup {[by |-> w, round |-> round, at |-> turn, rewards |-> Rewards(w, round, n)]}
_handle_grpo_reward_report(w) ==
  turn < MaxMessages /\ turn' = turn + 1 /\ handle_reward_report(w) /\ UNCHANGED completions

\* The rewards of the job's workers are joined in the order of their ids and normalised together,
\* and each worker is sent the part that has as many places as it reported.
\* (TakesTheFirst forgets to move the index on.)
RewardsUpTo(worker_rewards, n) == FlattenSeq([i \in 1 .. n |-> worker_rewards[worker_ids[i]]])
all_rewards(worker_rewards) == RewardsUpTo(worker_rewards, Len(worker_ids))
TakesTheFirst(worker_rewards, w) == SubSeq(all_rewards(worker_rewards), 1, Len(worker_rewards[w]))
Slice(worker_rewards, w) ==
  LET idx == Len(RewardsUpTo(worker_rewards, (CHOOSE i \in DOMAIN worker_ids : worker_ids[i] = w) - 1))
  IN SubSeq(all_rewards(worker_rewards), idx + 1, idx + Len(worker_rewards[w]))
finalise_round ==
  /\ turn < MaxMessages /\ turn' = turn + 1
  /\ \E round \in DOMAIN rounds :
       completions' = completions \cup {[to |-> w, round |-> round, at |-> turn, advantages |-> Slice(rounds[round], w)] : w \in WorkerIds}
  /\ UNCHANGED <<rounds, reward_reports>>

GrpoNext == start_round \/ finalise_round \/ \E w \in Reporters : _handle_grpo_reward_report(w)

-----------------------------------------------------------------------------
\* The rewards are those of the worker's last report on the round before a time, or none.
LastReport(w, round, before, rewards) ==
  LET its == {r \in reward_reports : r.by = w /\ r.round = round /\ r.at < before}
  IN \/ its = {} /\ rewards = <<>>
     \/ \E r \in its : rewards = r.rewards /\ \A other \in its : other.at <= r.at

\* The advantages a worker is sent for a round are, place by place, those of the last report it made
\* on that round itself, however the reports of the group, of other nodes and on other rounds come in,
\* late, again, of whatever length or not at all, and however often rounds are finalised
\* (handle_reward_report, finalise_round).
AdvantagesAreOfTheLastReport == \A c \in completions : LastReport(c.to, c.round, c.at, c.advantages)
=============================================================================
