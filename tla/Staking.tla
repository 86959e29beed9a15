-------------------------------- MODULE Staking --------------------------------
(* EnhancedCreditLedger (legacy/worker/src/daemon/credit_ledger.py): stakes   *)
(* of one contributor, their release, slashing and vesting on top of the      *)
(* signed ledger. get_balance counts every record that names the contributor, *)
(* the ones that only report a stake included. A yield is one credit or none. *)
EXTENDS CreditLedger

CONSTANTS MaxRecords, MaxStakes   \* bounds of the model

VARIABLES stakes,        \* [amount, slashed, locked]
          totals,        \* total_staked, total_slashed
          vesting        \* per schedule: the amount of a release, and how many were paid
stakingVars == <<ledgerVars, stakes, totals, vesting>>

Releases == 2   \* vesting_months
Who == "contributor"
Record(amount) == LedgerRecord(Who, amount)

StakingInit ==
  /\ LedgerInit
  /\ stakes = <<>> /\ totals = [staked |-> 0, slashed |-> 0] /\ vesting = <<>>

get_staked_amount == FoldLeft(LAMBDA sum, s : sum + s.amount, 0, stakes)
Room(n) == Len(records) + n <= MaxRecords

credit == /\ Room(1) /\ append(<<Record(4)>>) /\ UNCHANGED <<stakes, totals, vesting>>
append_batch ==
  /\ Room(2) /\ records' = records \o <<Record(0), Record(0)>>
  /\ LET filled == Filled(<<Record(0), Record(0)>>) IN
     heads' = IF filled # <<>> /\ Last(filled) = Len(records') THEN filled ELSE Append(filled, Len(records'))
  /\ UNCHANGED <<stakes, totals, vesting>>
StakingFinalize == force_finalize /\ UNCHANGED <<stakes, totals, vesting>>

\* stake checks what get_balance leaves beside the stakes, and records the amount.
stake(amount) ==
  /\ Room(1) /\ Len(stakes) < MaxStakes
  /\ amount <= get_balance(Who) - get_staked_amount
  /\ stakes' = Append(stakes, [amount |-> amount, slashed |-> 0, locked |-> TRUE])
  /\ totals' = [totals EXCEPT !.staked = @ + amount]
  /\ append(<<Record(amount)>>)

LockEnds(i) ==
  /\ stakes[i].locked /\ stakes' = [stakes EXCEPT ![i].locked = FALSE]
  /\ UNCHANGED <<ledgerVars, totals, vesting>>

\* unstake pays a yield and reports the release: by index the whole amount; the oldest unlocked
\* one less what was slashed, which slash has already taken off.
Unstaked(i, byIndex) == IF byIndex THEN stakes[i].amount ELSE stakes[i].amount - stakes[i].slashed
unstake(i, byIndex, yield) ==
  /\ Room(2) /\ ~stakes[i].locked
  /\ ~byIndex => \A k \in 1 .. i - 1 : stakes[k].locked
  /\ stakes' = RemoveAt(stakes, i)
  /\ totals' = [totals EXCEPT !.staked = @ - Unstaked(i, byIndex)]
  /\ append(<<Record(yield), Record(Unstaked(i, byIndex))>>)
  /\ UNCHANGED vesting

\* slash takes the fraction, in halves, of every stake.
Slashed(s, halves) == [s EXCEPT !.amount = @ - (@ * halves) \div 2, !.slashed = @ + (s.amount * halves) \div 2]
slash(halves) ==
  LET taken == FoldLeft(LAMBDA sum, s : sum + (s.amount * halves) \div 2, 0, stakes) IN
  /\ Room(1) /\ stakes # <<>>
  /\ stakes' = [i \in DOMAIN stakes |-> Slashed(stakes[i], halves)]
  /\ totals' = [staked |-> totals.staked - taken, slashed |-> totals.slashed + taken]
  /\ append(<<Record(taken)>>) /\ UNCHANGED vesting

\* create_vesting_schedule files the schedule before it locks the credits, which may be refused.
create_vesting_schedule(amount) ==
  /\ vesting = <<>> /\ vesting' = <<[each |-> amount \div Releases, paid |-> 0]>>
  /\ \/ stake(amount)
     \/ amount > get_balance(Who) - get_staked_amount /\ UNCHANGED <<ledgerVars, stakes, totals>>

process_vesting_releases ==
  /\ Room(1) /\ vesting # <<>> /\ vesting[1].paid < Releases
  /\ vesting' = [vesting EXCEPT ![1].paid = @ + 1]
  /\ append(<<Record(vesting[1].each)>>) /\ UNCHANGED <<stakes, totals>>

StakingNext ==
  \/ credit \/ append_batch \/ StakingFinalize
  \/ (\E amount \in {4} : (stake(amount) /\ UNCHANGED vesting) \/ create_vesting_schedule(amount))
  \/ \E i \in DOMAIN stakes : LockEnds(i) \/ \E byIndex \in BOOLEAN, yield \in {0, 1} : unstake(i, byIndex, yield)
  \/ (\E halves \in {1, 2} : slash(halves)) \/ process_vesting_releases

-----------------------------------------------------------------------------
\* What the totals say is what the stakes hold, until a slashed stake is released by age;
\* nothing leaves a stake but by slashing (stake, slash).
TotalsFollowStakes ==
  /\ totals.staked >= get_staked_amount
  /\ (\A i \in DOMAIN stakes : stakes[i].slashed = 0) /\ totals.slashed = 0 => totals.staked = get_staked_amount
=============================================================================
