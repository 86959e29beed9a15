-------------------------------- MODULE Voting --------------------------------
(* The voting system (legacy/worker/src/daemon/voting_system.py) with its     *)
(* handlers and rows (services_python/admin_api/votes.py, db/_votes.py):      *)
(* accounts that earn, spend and delegate, rounds that are proposed, voted on *)
(* and closed, quadratic votes with their velocity limits, and credits spent  *)
(* on the priority of a job in three awaited steps. Signatures, receipts,     *)
(* comments and reputation decide nothing here and are left out.              *)
EXTENDS Integers, FiniteSets, FiniteSetsExt, Sequences

CONSTANTS Voters, Rounds, NoVoter,
          Earners, Callers, \* who is ever rewarded; who proposes, boosts and votes quadratically
          Earning,          \* credits of one job's reward
          VotePrice, ProposalFee,
          MinVoters, QuorumPct, ApprovalPct,  \* the QuorumConfig of the rounds
          MaxPerRound,      \* MAX_VOTES_PER_JOB
          MaxEarnings, MaxReceipts            \* bounds of the model
ASSUME VotingAssumption ==
  /\ NoVoter \notin Voters /\ Earners \subseteq Voters /\ Callers \subseteq Voters
  /\ Earning \in Nat /\ VotePrice \in Nat /\ ProposalFee \in Nat

VARIABLES account, round, receipt, priority, boosting, earnings
votingVars == <<account, round, receipt, priority, boosting, earnings>>

Options == <<"yes", "no">>
Cast == {"yes", "no", "none"}
RoundStatus == {"none", "pending", "approved", "rejected", "expired", "quorum_not_met", "gone"}

VotingTypeOK ==
  /\ account \in [Voters -> [open: BOOLEAN, balance: Nat, spent: Nat, cast: Nat,
                             to: Voters \cup {NoVoter}, delegates: SUBSET Voters]]
  /\ round \in [Rounds -> [st: RoundStatus, late: BOOLEAN, by: Voters \cup {NoVoter},
                           votes: [Voters -> Cast], winner: Cast]]
  /\ boosting \in [Voters -> {"no", "read", "spent", "refused"}] /\ earnings \in [Voters -> 0 .. MaxEarnings]

CreditAccount == [open |-> FALSE, balance |-> 0, spent |-> 0, cast |-> 0, to |-> NoVoter, delegates |-> {}]
Vote == [st |-> "none", late |-> FALSE, by |-> NoVoter, votes |-> [v \in Voters |-> "none"], winner |-> "none"]
VotingInit ==
  /\ account = [v \in Voters |-> CreditAccount] /\ round = [r \in Rounds |-> Vote]
  /\ receipt = <<>>
  /\ priority = [known |-> TRUE, total |-> 0, rows |-> [v \in Voters |-> 0]]
  /\ boosting = [v \in Voters |-> "no"]
  /\ earnings = [v \in Voters |-> 0]

-----------------------------------------------------------------------------
create_account(v) ==
  /\ ~account[v].open /\ account' = [account EXCEPT ![v].open = TRUE]
  /\ UNCHANGED <<round, receipt, priority, boosting, earnings>>

\* add_credits opens the account it rewards.
add_credits(v) ==
  /\ SumFunction(earnings) < MaxEarnings
  /\ earnings' = [earnings EXCEPT ![v] = @ + 1]
  /\ account' = [account EXCEPT ![v].open = TRUE, ![v].balance = @ + Earning]
  /\ UNCHANGED <<round, receipt, priority, boosting>>

CanSpend(v, amount) == amount > 0 /\ account[v].open /\ account[v].balance >= amount
\* What spend_credits does to the account it is allowed for.
Spend(acc, amount) == [acc EXCEPT !.balance = @ - amount, !.spent = @ + amount]

create_vote(v, r) ==
  /\ round[r].st = "none" /\ CanSpend(v, ProposalFee)
  /\ account' = [account EXCEPT ![v] = Spend(@, ProposalFee)]
  /\ round' = [round EXCEPT ![r].st = "pending", ![r].by = v]
  /\ UNCHANGED <<receipt, priority, boosting, earnings>>

\* cast_vote closes a round it finds late, and takes one paid vote of each voter.
cast_vote(v, r, o) ==
  /\ round[r].st = "pending"
  /\ UNCHANGED <<receipt, priority, boosting, earnings>>
  /\ IF round[r].late
     THEN round' = [round EXCEPT ![r].st = "expired"] /\ UNCHANGED account
     ELSE /\ round[r].votes[v] = "none" /\ CanSpend(v, VotePrice)
          /\ round' = [round EXCEPT ![r].votes[v] = o]
          /\ account' = [account EXCEPT ![v] = [Spend(account[v], VotePrice) EXCEPT !.cast = @ + 1]]

-----------------------------------------------------------------------------
(* finalize_vote *)
Turnout(r) == Cardinality({v \in Voters : round[r].votes[v] # "none"})
Accounts == {v \in Voters : account[v].open}

\* _tally_weighted: the balance of a voter and of those who delegated to it.
_tally_weighted(r) ==
  [o \in {"yes", "no"} |->
     LET weight(v) == account[v].balance + MapThenSumSet(LAMBDA d : account[d].balance, account[v].delegates)
     IN MapThenSumSet(weight, {v \in Voters : round[r].votes[v] = o})]

\* The round as finalize_vote leaves it; late rounds expire, thin ones wait.
Finalized(r) ==
  LET tally == _tally_weighted(r)
      total == tally["yes"] + tally["no"]
      winner == IF tally["yes"] >= tally["no"] THEN "yes" ELSE "no" IN
  IF round[r].late THEN [round[r] EXCEPT !.st = "expired"]
  ELSE IF Turnout(r) < MinVoters THEN round[r]
  ELSE IF 100 * Turnout(r) < QuorumPct * Cardinality(Accounts)
       THEN [round[r] EXCEPT !.st = "quorum_not_met"]
  ELSE IF total = 0 THEN round[r]
  ELSE IF 100 * tally[winner] >= ApprovalPct * total
       THEN [round[r] EXCEPT !.st = "approved", !.winner = winner]
  ELSE [round[r] EXCEPT !.st = "rejected"]

finalize_vote(r) ==
  /\ round[r].st = "pending"
  /\ round' = [round EXCEPT ![r] = Finalized(r)]
  /\ UNCHANGED <<account, receipt, priority, boosting, earnings>>

\* get_vote_status closes the late round it is asked for, expire_votes all of them.
get_vote_status(r) == round[r].late /\ finalize_vote(r)
expire_votes ==
  /\ round' = [r \in Rounds |-> IF round[r].st = "pending" /\ round[r].late
                 THEN [round[r] EXCEPT !.st = "expired"] ELSE round[r]]
  /\ UNCHANGED <<account, receipt, priority, boosting, earnings>>

cleanup_expired_votes ==
  /\ round' = [r \in Rounds |-> IF round[r].st = "expired" THEN [round[r] EXCEPT !.st = "gone"] ELSE round[r]]
  /\ UNCHANGED <<account, receipt, priority, boosting, earnings>>

RoundRunsLate(r) ==
  /\ round[r].st = "pending" /\ ~round[r].late
  /\ round' = [round EXCEPT ![r].late = TRUE]
  /\ UNCHANGED <<account, receipt, priority, boosting, earnings>>

-----------------------------------------------------------------------------
\* Sets of voters that a walk along the delegations does not leave; v is on the walk from d when it is in
\* each of them that holds d. (A walk that met itself would count too: there is none in a forest.)
Leads(S) == \A x \in S : account[x].to \in S \cup {NoVoter}
NextVoterOnly(v, d) == account[d].to = v
_would_create_cycle(v, d) == \A S \in SUBSET Voters : d \in S /\ Leads(S) => v \in S

delegate_vote(v, d) ==
  /\ account[v].open /\ account[d].open /\ v # d /\ ~_would_create_cycle(v, d)
  /\ account' = [a \in Voters |->
       IF a = v THEN [account[a] EXCEPT !.to = d]
       ELSE IF a = d THEN [account[a] EXCEPT !.delegates = @ \cup {v}]
       ELSE IF a = account[v].to THEN [account[a] EXCEPT !.delegates = @ \ {v}] ELSE account[a]]
  /\ UNCHANGED <<round, receipt, priority, boosting, earnings>>

revoke_delegation(v) ==
  /\ account[v].to # NoVoter
  /\ account' = [account EXCEPT ![v].to = NoVoter, ![account[v].to].delegates = @ \ {v}]
  /\ UNCHANGED <<round, receipt, priority, boosting, earnings>>

-----------------------------------------------------------------------------
calculate_quadratic_cost(n) == n * n

\* _check_vote_velocity counts the receipts of the last hour.
_check_vote_velocity(v, r) ==
  Len(SelectSeq(receipt, LAMBDA c : c.voter = v /\ c.round = r /\ c.recent)) < MaxPerRound

\* cast_quadratic_vote looks neither at the round's status nor at an earlier vote.
cast_quadratic_vote(v, r, o, n) ==
  /\ Len(receipt) < MaxReceipts
  /\ _check_vote_velocity(v, r) /\ CanSpend(v, calculate_quadratic_cost(n))
  /\ account' = [account EXCEPT ![v] = Spend(@, calculate_quadratic_cost(n))]
  /\ receipt' = Append(receipt, [voter |-> v, round |-> r, option |-> o, votes |-> n, recent |-> TRUE])
  /\ round' = IF round[r].st \in {"none", "gone"} THEN round ELSE [round EXCEPT ![r].votes[v] = o]
  /\ UNCHANGED <<priority, boosting, earnings>>

HourPasses ==
  /\ \E i \in DOMAIN receipt : receipt[i].recent
  /\ receipt' = [i \in DOMAIN receipt |-> [receipt[i] EXCEPT !.recent = FALSE]]
  /\ UNCHANGED <<account, round, priority, boosting, earnings>>

-----------------------------------------------------------------------------
(* VotesHandler.vote_v1: read the job, spend in memory, then write the rows. *)
vote_v1(v) ==
  /\ boosting[v] = "no" /\ priority.known /\ boosting' = [boosting EXCEPT ![v] = "read"]
  /\ UNCHANGED <<account, round, receipt, priority, earnings>>

spend_on_job(v) ==
  /\ boosting[v] = "read"
  /\ IF CanSpend(v, VotePrice)
     THEN /\ account' = [account EXCEPT ![v] = Spend(@, VotePrice)]
          /\ boosting' = [boosting EXCEPT ![v] = "spent"]
     ELSE UNCHANGED account /\ boosting' = [boosting EXCEPT ![v] = "no"]
  /\ UNCHANGED <<round, receipt, priority, earnings>>

record_vote_unchecked(p, v) ==
  [p EXCEPT !.rows[v] = @ + VotePrice, !.total = IF p.known THEN @ + VotePrice ELSE @]
\* record_vote: the row and the job's total in one transaction. The row refers to the job
\* and foreign keys are on: once the job is gone the insert raises and nothing is written.
record_vote(p, v) ==
  IF p.known THEN [p EXCEPT !.rows[v] = @ + VotePrice, !.total = @ + VotePrice] ELSE p

\* vote_v1 lets the error through, and nobody gives the credits back.
record_on_job(v) ==
  /\ boosting[v] = "spent"
  /\ boosting' = [boosting EXCEPT ![v] = IF priority.known THEN "no" ELSE "refused"]
  /\ priority' = record_vote(priority, v)
  /\ UNCHANGED <<account, round, receipt, earnings>>

\* clear_completed_jobs deletes the job, unless a vote refers to it: then the delete raises
\* and its transaction is undone.
JobCleared ==
  /\ priority.known /\ \A v \in Voters : priority.rows[v] = 0
  /\ priority' = [priority EXCEPT !.known = FALSE, !.total = 0]
  /\ UNCHANGED <<account, round, receipt, boosting, earnings>>

VotingNext ==
  \/ \E v \in Voters :
       \/ create_account(v) \/ revoke_delegation(v) \/ spend_on_job(v) \/ record_on_job(v)
       \/ \E d \in Voters : delegate_vote(v, d)
       \/ \E r \in Rounds, o \in {"yes", "no"} : cast_vote(v, r, o)
  \/ \E v \in Earners : add_credits(v)
  \/ \E v \in Callers :
       \/ vote_v1(v)
       \/ \E r \in Rounds : create_vote(v, r) \/ \E n \in 1 .. 2 : cast_quadratic_vote(v, r, "no", n)
  \/ \E r \in Rounds : finalize_vote(r) \/ get_vote_status(r) \/ RoundRunsLate(r)
  \/ expire_votes \/ cleanup_expired_votes \/ HourPasses \/ JobCleared

-----------------------------------------------------------------------------
\* Whoever delegates, changes its mind or revokes, in whatever order: nobody ends up voting
\* for itself through others, and the delegates of an account are exactly those who point
\* to it, so no balance is weighed twice (delegate_vote, _would_create_cycle, _tally_weighted).
DelegationIsAForest ==
  /\ \A v, d \in Voters : v \in account[d].delegates <=> account[v].to = d
  /\ \A v \in Voters : account[v].to # NoVoter =>
       \E S \in SUBSET Voters : account[v].to \in S /\ Leads(S) /\ v \notin S

\* What an account has spent is what its votes, proposals, quadratic votes and job boosts
\* cost, and it spends only what it earned (spend_credits and every caller). A boost that was
\* paid for and has no row is under way, or was refused because its job went in between; a
\* job that is gone has no rows (vote_v1, record_vote, clear_completed_jobs).
VotesArePaidFor ==
  \A v \in Voters :
    LET mine == {i \in DOMAIN receipt : receipt[i].voter = v} IN
    /\ account[v].balance = Earning * earnings[v] - account[v].spent
    /\ account[v].spent =
         VotePrice * account[v].cast + ProposalFee * Cardinality({r \in Rounds : round[r].by = v})
         + MapThenSumSet(LAMBDA i : calculate_quadratic_cost(receipt[i].votes), mine)
         + priority.rows[v] + (IF boosting[v] \in {"spent", "refused"} THEN VotePrice ELSE 0)
    /\ priority.rows[v] # 0 => priority.known
    /\ boosting[v] = "refused" => ~priority.known
=============================================================================
