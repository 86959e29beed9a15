-------------------------------- MODULE Credits --------------------------------
(* Credits of the Python orchestrator: the SQL rows (db/_credits.py), the     *)
(* signed ledger in memory that mirrors them (orchestrator_grpc.py), and the  *)
(* transfers between nodes (credit_transfers.py). An earn runs in a thread,   *)
(* memory first; a transfer runs on the event loop while threads go on.       *)
EXTENDS CreditLedger

CONSTANTS Holders,            \* the nodes that hold credits
          Amounts,            \* the sizes of a transfer; an earn is of 2
          MaxTransfersPerHour,
          MaxCreditRows, MaxCreditFaults  \* bounds of the model
ASSUME CreditsAssumption == IsFiniteSet(Holders) /\ Amounts \subseteq Int

VARIABLES
  sql,        \* credit_ledger rows: [who, kind, amount]
  earning,    \* per node: its earn is in memory and not yet in SQL
  xfer,       \* the transfer at hand and the step it is at
  waiting,    \* pending_transfers
  history,    \* transfer_history
  recent,     \* node_transfer_counts, of the last hour
  drifted,    \* a write of one ledger failed since the boot
  faults, persisted  \* failures so far; transfers written since the boot

creditsVars == <<ledgerVars, sql, earning, xfer, waiting, history, recent, drifted, faults, persisted>>
transferVars == <<xfer, waiting, history, recent, persisted>>

NoTransfer == [pc |-> "idle", from |-> "none", to |-> "none", amount |-> 0]

CreditsInit ==
  /\ LedgerInit
  /\ sql = <<>> /\ earning = [n \in Holders |-> FALSE]
  /\ xfer = NoTransfer /\ waiting = 0 /\ history = 0 /\ persisted = 0
  /\ recent = [n \in Holders |-> 0]
  /\ drifted = FALSE /\ faults = 0

Row(n, kind, amount) == [who |-> n, kind |-> kind, amount |-> amount]
get_node_credits(n) == Balance(sql, n)
Fail == faults < MaxCreditFaults /\ faults' = faults + 1 /\ drifted' = TRUE
NoFault == UNCHANGED <<drifted, faults>>

\* record_credit_earn: the signed record first ...
record_credit_earn_ledger(n) ==
  /\ ~earning[n] /\ Len(sql) < MaxCreditRows /\ Len(records) < MaxCreditRows
  /\ append(<<LedgerRecord(n, 2)>>)
  /\ earning' = [earning EXCEPT ![n] = TRUE]
  /\ UNCHANGED <<sql, transferVars>> /\ NoFault

\* ... then the row, by add_credits, which may fail.
add_credits_row(n) ==
  /\ earning[n] /\ earning' = [earning EXCEPT ![n] = FALSE]
  /\ \/ sql' = Append(sql, Row(n, "earn", 2)) /\ NoFault
     \/ Fail /\ UNCHANGED sql
  /\ UNCHANGED <<ledgerVars, transferVars>>

-----------------------------------------------------------------------------
\* validate_transfer_atomic and create_transfer: the record is made pending before it is written.
create_transfer(from, to, amount) ==
  /\ xfer.pc = "idle" /\ from # to /\ amount > 0 /\ Len(sql) + 2 <= MaxCreditRows
  /\ get_node_credits(from) >= amount /\ recent[from] < MaxTransfersPerHour
  /\ xfer' = [pc |-> "persist", from |-> from, to |-> to, amount |-> amount]
  /\ recent' = [recent EXCEPT ![from] = @ + 1]
  /\ waiting' = waiting + 1 /\ history' = history + 1
  /\ UNCHANGED <<ledgerVars, sql, earning, persisted>> /\ NoFault

\* transfer_credits_between_nodes: both rows in one transaction.
BothRows(x) == <<Row(x.from, "transfer_out", -x.amount), Row(x.to, "transfer_in", x.amount)>>
ReceivedOnly(x) == <<Row(x.to, "transfer_in", x.amount)>>
TransferRows(x) == BothRows(x)

persist_transfer ==
  /\ xfer.pc = "persist" /\ get_node_credits(xfer.from) >= xfer.amount
  /\ sql' = sql \o TransferRows(xfer) /\ persisted' = persisted + 1
  /\ xfer' = [xfer EXCEPT !.pc = "mirror"]
  /\ UNCHANGED <<ledgerVars, earning, waiting, history, recent>> /\ NoFault

\* _rollback_transfer_record, when the balance is gone or the write fails; the velocity counts stay.
_rollback_transfer_record ==
  /\ xfer.pc = "persist" /\ xfer' = NoTransfer
  /\ waiting' = waiting - 1 /\ history' = history - 1
  /\ \/ get_node_credits(xfer.from) < xfer.amount /\ UNCHANGED faults
     \/ faults < MaxCreditFaults /\ faults' = faults + 1
  /\ UNCHANGED <<ledgerVars, sql, earning, recent, drifted, persisted>>

\* _mirror_transfer_to_signed_ledger appends both records, or fails after none or one of
\* them; the transfer is confirmed all the same.
_mirror_transfer(n) ==
  LET both == <<LedgerRecord(xfer.from, -xfer.amount), LedgerRecord(xfer.to, xfer.amount)>> IN
  /\ xfer.pc = "mirror"
  /\ IF n = 2 THEN NoFault ELSE Fail
  /\ append(SubSeq(both, 1, n))
  /\ xfer' = NoTransfer /\ waiting' = waiting - 1
  /\ UNCHANGED <<sql, earning, history, recent, persisted>>

HourOver ==
  /\ recent # [n \in Holders |-> 0] /\ xfer.pc = "idle"
  /\ recent' = [n \in Holders |-> 0]
  /\ UNCHANGED <<ledgerVars, sql, earning, xfer, waiting, history, persisted>> /\ NoFault

-----------------------------------------------------------------------------
Replayed(rows) == [i \in DOMAIN rows |-> LedgerRecord(rows[i].who, rows[i].amount)]
EarnsReplayed(rows) == Replayed(SelectSeq(rows, LAMBDA r : r.kind = "earn"))
\* _replay_signed_ledger_from_sql appends a record for each row.
_replay_signed_ledger_from_sql(rows) == Replayed(rows)

\* The orchestrator dies and boots: what was in memory comes from the rows again.
Reboot ==
  /\ faults < MaxCreditFaults /\ faults' = faults + 1
  /\ records' = _replay_signed_ledger_from_sql(sql)
  /\ heads' = FoldLeftDomain(LAMBDA old, i : SignedAt(i, old), <<>>, sql)
  /\ earning' = [n \in Holders |-> FALSE] /\ drifted' = FALSE
  /\ xfer' = NoTransfer /\ waiting' = 0 /\ history' = 0 /\ persisted' = 0
  /\ recent' = [n \in Holders |-> 0]
  /\ UNCHANGED sql

CreditsNext ==
  \/ \E n \in Holders : record_credit_earn_ledger(n) \/ add_credits_row(n)
  \/ \E from, to \in Holders, amount \in Amounts : create_transfer(from, to, amount)
  \/ persist_transfer \/ _rollback_transfer_record \/ (\E n \in 0 .. 2 : _mirror_transfer(n))
  \/ HourOver \/ Reboot

-----------------------------------------------------------------------------
\* The nodes ledger_parity_summary reports.
Drift == {n \in Holders : get_balance(n) # get_node_credits(n)}

\* Once nothing is under way, the signed ledger and the rows agree on every balance unless a
\* write has failed since the boot; booting again always brings them together
\* (record_credit_earn, _mirror_transfer_to_signed_ledger, _replay_signed_ledger_from_sql).
DriftNeedsAFailure ==
  xfer.pc = "idle" /\ (\A n \in Holders : ~earning[n]) /\ ~drifted => Drift = {}

\* Transfers move credits and make none: the rows add up to what was earned, no balance is
\* negative, and a transfer that was rolled back leaves no trace in the pending ones or in
\* the history (transfer_credits_between_nodes, _rollback_transfer_record).
TransfersConserve ==
  /\ MapThenSumSet(get_node_credits, Holders) = 2 * Cardinality({i \in DOMAIN sql : sql[i].kind = "earn"})
  /\ \A n \in Holders : get_node_credits(n) >= 0
  /\ xfer.pc = "idle" => waiting = 0 /\ history = persisted
=============================================================================
