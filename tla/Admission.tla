------------------------------- MODULE Admission -------------------------------
(* How a machine becomes a node: the token-bucket limiter in front of the     *)
(* HTTP API (rate_limiter.py), proof-of-work challenges (poc_challenge.py),   *)
(* the account heuristics (sybil_detector.py), the v1  and gRPC registration   *)
(* handlers, and the worker's side of it (registration.py). An address stands *)
(* for a client of the limiter and for the account's IP.                       *)
EXTENDS Naturals, Sequences, FiniteSets, Functions, FiniteSetsExt, SequencesExt, TLC

CONSTANTS Addresses, Machines, ChallengeIds,
          Capacity, RefillRate, BlockDuration, MaxBuckets, ViolationLimit, StaleAfter,
          ChallengeExpiry, MaxAttempts, MaxPerAddress, MaxPerHardware, ReasonsTooMany,
          MaxTime, MaxServed            \* bounds: the clock, the requests let through

VARIABLES now,
          buckets,      \* per address with a bucket: its tokens and when they were counted
          access_times, \* the addresses of _bucket_access_times, least recently used first
          violations, blocked_clients,
          challenges,   \* open challenges: when they expire, failed attempts
          completed_challenges,
          accounts,      \* per address: the machines recorded for it; per machine: its flags
          asking,       \* per machine: the challenge it works on and where it asks
          served,       \* requests let through per address, and the addresses whose bucket was dropped early
          grants        \* tokens issued: to which machine, for which challenge, from where
admissionVars == <<now, buckets, access_times, violations, blocked_clients, challenges,
                   completed_challenges, accounts, asking, served, grants>>

ASSUME AdmissionAssumption ==
  Capacity \in Nat /\ RefillRate \in Nat /\ MaxPerAddress \in Nat /\ "stream" \notin Addresses

NoAsking == [challenge |-> "none", address |-> "none"]

AdmissionInit ==
  /\ now = 0 /\ buckets = << >> /\ access_times = << >> /\ blocked_clients = << >>
  /\ violations = [a \in Addresses |-> 0]
  /\ challenges = << >> /\ completed_challenges = {} /\ grants = {}
  /\ accounts = [of |-> [a \in Addresses |-> {}], all |-> {}, reasons |-> [m \in Machines |-> 0]]
  /\ asking = [m \in Machines |-> NoAsking]
  /\ served = [count |-> [a \in Addresses |-> 0], evicted |-> {}]

limiterVars == <<buckets, access_times, violations, blocked_clients, served>>

\* A dictionary with d[k] = v.
Entered(d, k, v) == [x \in DOMAIN d \cup {k} |-> IF x = k THEN v ELSE d[x]]

-----------------------------------------------------------------------------
\* Refill since the last count, never above the capacity.
consume(b) == Min({Capacity, b.tokens + (now - b.last_update) * RefillRate})

\* _enforce_limits drops the least recently used buckets beyond the limit; _cleanup does not
\* keep access_times in step, so an address there may have no bucket, and del raises.
Excess == Cardinality(DOMAIN buckets) - MaxBuckets
Oldest == SubSeq(access_times, 1, Min({Len(access_times), Excess}))
_enforce_limits ==
  IF Cardinality(DOMAIN buckets) <= MaxBuckets
  THEN [ok |-> TRUE, buckets |-> buckets, dropped |-> << >>]
  ELSE LET missing == {i \in DOMAIN Oldest : Oldest[i] \notin DOMAIN buckets}
           dropped == IF missing = {} THEN Oldest ELSE SubSeq(Oldest, 1, Min(missing) - 1)
       IN [ok |-> missing = {}, buckets |-> Restrict(buckets, DOMAIN buckets \ Range(dropped)), dropped |-> dropped]

MovedToEnd(order, a) == Append(SelectSeq(order, LAMBDA x : x # a), a)

\* One request through rate_limit_middleware, up to the decision; the lock is held throughout.
is_allowed(a, allowed) ==
  LET limits == _enforce_limits
      order == SubSeq(access_times, Len(limits.dropped) + 1, Len(access_times))
      counted == [x \in Addresses |-> IF x \in Range(limits.dropped) THEN 0 ELSE violations[x]]
      blocked == a \in DOMAIN blocked_clients /\ now < blocked_clients[a]
      bucket == IF a \in DOMAIN limits.buckets THEN limits.buckets[a] ELSE [tokens |-> Capacity, last_update |-> now]
      has == consume(bucket)
      tries == (IF a \in DOMAIN blocked_clients THEN 0 ELSE counted[a]) + (IF allowed THEN 0 ELSE 1)
      blocks == DOMAIN blocked_clients \ {a}
  IN /\ served' = [count |-> [served.count EXCEPT ![a] = @ + (IF allowed THEN 1 ELSE 0)],
                   evicted |-> served.evicted \cup Range(limits.dropped)]
     /\ \/ \* the limiter raises and the request fails, or the address is blocked
           /\ ~allowed /\ (~limits.ok \/ blocked)
           /\ buckets' = limits.buckets /\ access_times' = order /\ violations' = counted
           /\ UNCHANGED blocked_clients
        \/ /\ limits.ok /\ ~blocked /\ (allowed <=> has >= 1)
           /\ buckets' = Entered(limits.buckets, a, [tokens |-> IF allowed THEN has - 1 ELSE has, last_update |-> now])
           /\ access_times' = MovedToEnd(order, a)
           /\ violations' = [counted EXCEPT ![a] = tries]
           /\ blocked_clients' = IF ~allowed /\ tries >= ViolationLimit
                                 THEN Entered(blocked_clients, a, now + BlockDuration)
                                 ELSE Restrict(blocked_clients, blocks)

RequestRefused(a) ==
  /\ is_allowed(a, FALSE)
  /\ UNCHANGED <<now, challenges, completed_challenges, accounts, asking, grants>>
ServedInAll == FoldFunction(LAMBDA n, sum : n + sum, 0, served.count)
RequestServed(a) ==
  /\ ServedInAll < MaxServed
  /\ is_allowed(a, TRUE)

\* The limiter's cleanup task: blocks that ended and buckets not touched for long.
_cleanup ==
  LET stale == {a \in DOMAIN buckets : buckets[a].last_update + StaleAfter < now}
  IN /\ buckets' = Restrict(buckets, DOMAIN buckets \ stale)
     /\ blocked_clients' = Restrict(blocked_clients, {a \in DOMAIN blocked_clients : blocked_clients[a] > now})
     /\ served' = [served EXCEPT !.evicted = @ \cup {a \in stale : consume(buckets[a]) < Capacity}]
     /\ UNCHANGED <<now, access_times, violations, challenges, completed_challenges, accounts, asking, grants>>

-----------------------------------------------------------------------------
\* POST /v1/nodes/challenge: an unused id is minted, and it does not matter which; the worker starts
\* to look for a nonce.
Unused == ChallengeIds \ (DOMAIN challenges \cup completed_challenges \cup {asking[m].challenge : m \in Machines})
Challenge == [expires_at |-> now + ChallengeExpiry, attempts |-> 0]
generate_challenge(m, a) ==
  /\ asking[m] = NoAsking /\ RequestServed(a) /\ Unused # {}
  /\ LET c == CHOOSE c \in Unused : TRUE
     IN /\ challenges' = Entered(challenges, c, Challenge)
        /\ asking' = [asking EXCEPT ![m] = [challenge |-> c, address |-> a]]
  /\ UNCHANGED <<now, completed_challenges, accounts, grants>>

\* verify_solution, with a nonce that solves the challenge or does not.
Open(c) == c \in DOMAIN challenges /\ now <= challenges[c].expires_at
Solves(c, solved) == solved /\ Open(c) /\ challenges[c].attempts < MaxAttempts /\ c \notin completed_challenges
Remaining(c, solved) ==
  IF c \notin DOMAIN challenges \/ c \in completed_challenges THEN challenges
  ELSE IF ~Open(c) \/ Solves(c, solved) \/ challenges[c].attempts >= MaxAttempts
       THEN Restrict(challenges, DOMAIN challenges \ {c})
       ELSE [challenges EXCEPT ![c].attempts = @ + 1]
verify_solution(c, solved) ==
  /\ challenges' = Remaining(c, solved)
  /\ completed_challenges' = IF Solves(c, solved) THEN completed_challenges \cup {c} ELSE completed_challenges

\* analyze_account: the address must have room, and the accounts is recorded either way. No
\* worker sends a fingerprint, so all machines share one; every growth of the crowd is one more reason.
\* (CountsLate compares before counting the newcomer.)
CountsLate(a) == Cardinality(accounts.of[a]) <= MaxPerAddress
check_registration_allowed(a) == Cardinality(accounts.of[a]) < MaxPerAddress
record_account_creation(m, a) ==
  LET there == accounts.of[a] \cup {m}
      all == accounts.all \cup {m}
      crowded == Cardinality(there) > MaxPerAddress
      shared == Cardinality(all) > MaxPerHardware
  IN [of |-> [accounts.of EXCEPT ![a] = there], all |-> all,
      reasons |-> [x \in Machines |->
                     Min({ReasonsTooMany, accounts.reasons[x] + (IF crowded /\ x \in there THEN 1 ELSE 0)
                                            + (IF shared /\ x \in all /\ m \notin accounts.all THEN 1 ELSE 0)})]]
Suspicious(after, m) == after.reasons[m] >= ReasonsTooMany /\ Cardinality(after.all) > MaxPerHardware

\* POST /v1/nodes/register-enhanced; the node row may fail to be written, and the answer be lost.
register_node_enhanced(m, solved) ==
  LET c == asking[m].challenge
      a == asking[m].address
      after == record_account_creation(m, a)
  IN /\ asking[m] # NoAsking /\ RequestServed(a) /\ verify_solution(c, solved)
     /\ IF Solves(c, solved)
        THEN /\ accounts' = after
             /\ \/ /\ check_registration_allowed(a) /\ ~Suspicious(after, m)
                   /\ grants' = grants \cup {[to |-> m, challenge |-> c, from |-> a]}
                \/ UNCHANGED grants
        ELSE UNCHANGED <<accounts, grants>>
     /\ \/ asking' = [asking EXCEPT ![m] = NoAsking]
        \/ UNCHANGED asking           \* the answer is lost and the request sent again
     /\ UNCHANGED now
\* The gRPC handshake checks the challenge only.
HandleRegisterByChallenge(m, solved) ==
  /\ asking[m] # NoAsking /\ verify_solution(asking[m].challenge, solved)
  /\ grants' = IF Solves(asking[m].challenge, solved)
               THEN grants \cup {[to |-> m, challenge |-> asking[m].challenge, from |-> "stream"]} ELSE grants
  /\ asking' = [asking EXCEPT ![m] = NoAsking]
  /\ UNCHANGED <<now, limiterVars, accounts>>
\* The worker finds no nonce, or gives the challenge up on a refused or failed request.
GivesUp(m) ==
  /\ asking[m] # NoAsking /\ asking' = [asking EXCEPT ![m] = NoAsking]
  /\ UNCHANGED <<now, limiterVars, challenges, completed_challenges, accounts, grants>>

TimePasses == now < MaxTime /\ now' = now + 1
  /\ UNCHANGED <<limiterVars, challenges, completed_challenges, accounts, asking, grants>>

AdmissionNext ==
  \/ \E a \in Addresses : RequestRefused(a)
  \/ \E m \in Machines :
       \/ \E a \in Addresses : generate_challenge(m, a)
       \/ \E solved \in BOOLEAN : register_node_enhanced(m, solved) \/ HandleRegisterByChallenge(m, solved)
       \/ GivesUp(m)
  \/ _cleanup \/ TimePasses

-----------------------------------------------------------------------------
\* However requests are repeated, lost and interleaved: a solved challenge buys one token, an
\* address gets tokens for at most MaxPerAddress machines over HTTP, and no address has more
\* requests served than a full bucket and its refills, unless its bucket was evicted before it
\* was full again (is_allowed, _enforce_limits, _cleanup, verify_solution, analyze_account).
OneTokenPerChallenge == \A g, h \in grants : g.challenge = h.challenge => g = h
AddressIsNotCrowded == \A a \in Addresses : Cardinality({g.to : g \in {x \in grants : x.from = a}}) <= MaxPerAddress
WithinTheRate == \A a \in Addresses \ served.evicted : served.count[a] <= Capacity + RefillRate * now
AdmissionIsEarned == OneTokenPerChallenge /\ AddressIsNotCrowded /\ WithinTheRate
=============================================================================
