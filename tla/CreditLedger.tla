----------------------------- MODULE CreditLedger -----------------------------
(* The signed ledger (legacy/worker/src/daemon/credit_ledger.py): records are *)
(* appended to a hash chain, batches of them close with a signed Merkle root, *)
(* and inclusion proofs are read off the tree. Hashes are perfect: the hash   *)
(* of a string holds the string, that of two hashes the two; a root tells its *)
(* leaves, so a signed head is known by its size.                             *)
EXTENDS Integers, Sequences, SequencesExt, FiniteSetsExt

CONSTANTS BatchSize   \* batch_size

VARIABLES records,    \* [who, amount] each
          heads       \* sizes of the signed heads
ledgerVars == <<records, heads>>

LedgerInit == records = <<>> /\ heads = <<>>

LedgerRecord(who, amount) == [who |-> who, amount |-> amount]
Signed == IF heads = <<>> THEN 0 ELSE Last(heads)
\* current_batch holds what is not under a signed head yet.
current_batch == Len(records) - Signed

SignedAt(n, old) == IF n - (IF old = <<>> THEN 0 ELSE Last(old)) >= BatchSize THEN Append(old, n) ELSE old
\* The heads after records are appended one by one: append closes the batch it fills.
Filled(rs) == FoldLeftDomain(LAMBDA old, i : SignedAt(Len(records) + i, old), heads, rs)
append(rs) == records' = records \o rs /\ heads' = Filled(rs)

force_finalize ==
  /\ current_batch > 0
  /\ heads' = Append(heads, Len(records)) /\ UNCHANGED records

\* What the amounts of one holder add up to.
Balance(rows, who) == MapThenSumSet(LAMBDA i : rows[i].amount, {i \in DOMAIN rows : rows[i].who = who})
get_balance(who) == Balance(records, who)

\* Before the first head only the links are checked; afterwards the root of all records must
\* be the one signed last, which it is not in the middle of a batch.
verify_chain_integrity == heads = <<>> \/ Last(heads) = Len(records)

-----------------------------------------------------------------------------
(* MerkleTree *)
Sha256(bytes) == <<bytes>>
Combined(l, r) == <<l, r>>   \* of one hash behind the other

\* The data of a record; what _compute_record_hash makes of it, with its index; the record's hash, the leaf.
Data(i) == <<"data", "of", i>>
Payload(i) == <<"record", "at", i, Data(i)>>
Leaf(i) == Sha256(Payload(i))

\* _build_tree, level by level up to the level of the root alone; the last node of an odd level is
\* paired with itself. (Behind <<>> TLC keeps the list it has evaluated, not the expression.)
PairUp(nodes) ==
  <<>> \o [i \in 1 .. (Len(nodes) + 1) \div 2 |->
          Combined(nodes[2 * i - 1], IF 2 * i <= Len(nodes) THEN nodes[2 * i] ELSE nodes[2 * i - 1])]
_build_tree(n) ==
  LET level[k \in 0 .. n] == IF k = 0 THEN [i \in 1 .. n |-> Leaf(i)]
                             ELSE LET nodes == level[k - 1] IN IF Len(nodes) = 1 THEN nodes ELSE PairUp(nodes)
  IN level
RootOf(n) == _build_tree(n)[n][1]

\* _find_parent searches by value: a repeated node and its twin are one, and have one parent.
_find_parent(nodes, x) == CHOOSE p \in nodes : Len(p) = 2 /\ x \in {p[1], p[2]}

FirstChild(parent, x) == parent[1]
\* The sibling a proof names at one level.
SiblingIn(parent, x) == IF parent[1] = x THEN parent[2] ELSE parent[1]

\* get_proof of the leaf at a position counted from 0: up to the root, a sibling for each step.
get_proof(n, index) ==
  LET tree == _build_tree(n)
      nodes == UNION {Range(tree[k]) : k \in 1 .. n}
      root == tree[n][1]
      node[k \in 0 .. n] == IF k = 0 THEN Leaf(index + 1)
                            ELSE LET below == node[k - 1] IN IF below = root THEN root ELSE _find_parent(nodes, below)
      height == Cardinality({k \in 0 .. n : node[k] # root})
  IN <<>> \o [k \in 1 .. height |-> SiblingIn(node[k], node[k - 1])]

\* index >> i, for each level a proof of some length goes through.
Shifted(index, height) ==
  LET shifted[i \in 0 .. height] == IF i = 0 THEN index ELSE shifted[i - 1] \div 2
  IN shifted

\* verify_proof hashes the data, then takes one bit of the index per level.
verify_proof(root, data, proof, index) ==
  LET place == Shifted(index, Len(proof))
      computed_hash[i \in 0 .. Len(proof)] ==
        IF i = 0 THEN Sha256(data)
        ELSE IF place[i - 1] % 2 = 0 THEN Combined(computed_hash[i - 1], proof[i])
                                     ELSE Combined(proof[i], computed_hash[i - 1])
  IN root = computed_hash[Len(proof)]

\* verify_record and verify_credit: a proof from all records against the root signed last.
verify_record(index, data) ==
  heads # <<>> /\ verify_proof(RootOf(Last(heads)), data, get_proof(Len(records), index), index)

-----------------------------------------------------------------------------
\* At every size the ledger passes through, odd levels included, the proof of each record
\* verifies what the record's hash was made of and nothing else: no other record's, no hash,
\* and not the data alone; and it does so at its place and not at the next (MerkleTree.get_proof,
\* verify_proof). So once a head covers all records, verify_record accepts it, but not the
\* data that it is documented to be called with.
ProofsVerify ==
  LET n == Len(records)
      root == RootOf(n) IN
  \A index \in 0 .. n - 1 :
    LET proof == get_proof(n, index) IN
    /\ \A i \in 1 .. n : /\ verify_proof(root, Payload(i), proof, index) <=> i = index + 1
                         /\ ~verify_proof(root, Data(i), proof, index) /\ ~verify_proof(root, Leaf(i), proof, index)
    /\ n > 1 => ~verify_proof(root, Payload(index + 1), proof, (index + 1) % n)
    /\ heads # <<>> /\ Last(heads) = n => verify_record(index, Payload(index + 1)) /\ ~verify_record(index, Data(index + 1))
=============================================================================
