------------------------------- MODULE SumProofs -------------------------------
(***************************************************************************)
(* What holds of sums over accounts and rows, of sequences joined end to   *)
(* end and of the Merkle tree: the votes of Voting are paid for, the two   *)
(* ledgers of Credits agree, conserve credits and prove their records, the *)
(* rewards that Grpo normalises together come back to the workers that     *)
(* reported them, and what Aggregation makes of gradients lies between     *)
(* them.                                                                   *)
(*                                                                         *)
(* The lemmas first: how SumFunction, MapThenSumSet and FlattenSeq behave  *)
(* when one summand or part changes. The folds they are defined with are   *)
(* recursive functions that CHOOSE gives, so each fact about a fold is     *)
(* proved for the set of all numbers it holds for (SetInduction), the      *)
(* library's theorems of induction taking an operator that TLAPS cannot    *)
(* instantiate.                                                            *)
(***************************************************************************)
EXTENDS Voting, Credits, Grpo, Aggregation, FiniteSetTheorems, SequenceTheorems, WellFoundedInduction, TLAPS

-----------------------------------------------------------------------------
(* Induction over the naturals, with the set of the numbers a fact holds for. *)
LEMMA SetInduction ==
  ASSUME NEW Good \in SUBSET Nat, 0 \in Good, \A n \in Good : n + 1 \in Good
  PROVE  \A n \in Nat : n \in Good
<1>1. ASSUME Nat \ Good # {} PROVE FALSE
  <2>1. PICK n \in Nat \ Good : \A m \in Nat \ Good : ~(<<m, n>> \in OpToRel(<, Nat))
    BY <1>1, NatLessThanWellFounded, WFMin
  <2>2. n # 0 /\ n - 1 \in Nat
    OBVIOUS
  <2>3. <<n - 1, n>> \in OpToRel(<, Nat)
    BY <2>2 DEF OpToRel
  <2>4. n - 1 \in Good
    BY <2>1, <2>2, <2>3
  <2> QED
    BY <2>2, <2>4
<1> QED
  BY <1>1

-----------------------------------------------------------------------------
(* Sums over a finite set, an element at a time. *)
Pick(s) == CHOOSE x \in s : TRUE
Rest(s) == s \ {Pick(s)}
\* g gives every part of S its sum of f.
SumsTo(f, S, g) == g = [s \in SUBSET S |-> IF s = {} THEN 0 ELSE f[Pick(s)] + g[Rest(s)]]
Sums(f, S, g) == IsFiniteSet(S) /\ f \in [S -> Int] /\ SumsTo(f, S, g)
TheSums(f, S) == CHOOSE g : Sums(f, S, g)

\* A set that is not empty has the element that is picked.
LEMMA PickIsOne == ASSUME NEW s, s # {} PROVE Pick(s) \in s
  BY DEF Pick

\* Without it a finite set is smaller by one.
LEMMA RestIsSmaller ==
  ASSUME NEW S, IsFiniteSet(S), NEW s \in SUBSET S, s # {}
  PROVE  /\ Pick(s) \in s /\ Pick(s) \in S /\ Rest(s) \in SUBSET S
         /\ IsFiniteSet(s) /\ Cardinality(s) \in Nat \ {0} /\ Cardinality(Rest(s)) = Cardinality(s) - 1
<1>1. Pick(s) \in s
  BY PickIsOne
<1>2. IsFiniteSet(s) /\ Cardinality(s) \in Nat /\ Cardinality(s) # 0
  BY FS_Subset, FS_CardinalityType, FS_EmptySet
<1> QED
  BY <1>1, <1>2, FS_RemoveElement DEF Rest

\* There is a function that gives the sum over every subset.
LEMMA SumsExist ==
  ASSUME NEW S, IsFiniteSet(S), NEW f \in [S -> Int]
  PROVE  \E g : Sums(f, S, g)
<1> DEFINE Small(n) == {s \in SUBSET S : Cardinality(s) <= n}
           Good == {n \in Nat : \E g \in [Small(n) -> Int] :
                      \A s \in Small(n) : g[s] = IF s = {} THEN 0 ELSE f[Pick(s)] + g[Rest(s)]}
<1>1. \A s \in SUBSET S : IsFiniteSet(s) /\ Cardinality(s) \in Nat
  BY FS_Subset, FS_CardinalityType
<1>2. 0 \in Good
  <2>1. \A s \in Small(0) : s = {}
    BY <1>1, FS_EmptySet
  <2> DEFINE g == [s \in Small(0) |-> 0]
  <2>2. g \in [Small(0) -> Int] /\ \A s \in Small(0) : g[s] = IF s = {} THEN 0 ELSE f[Pick(s)] + g[Rest(s)]
    BY <2>1
  <2> QED
    BY <2>2
<1>3. ASSUME NEW n \in Good PROVE n + 1 \in Good
  <2>1. PICK g \in [Small(n) -> Int] : \A s \in Small(n) : g[s] = IF s = {} THEN 0 ELSE f[Pick(s)] + g[Rest(s)]
    OBVIOUS
  <2> DEFINE h == [s \in Small(n + 1) |-> IF s = {} THEN 0 ELSE f[Pick(s)] + g[Rest(s)]]
  <2>2. ASSUME NEW s \in Small(n + 1), s # {} PROVE Pick(s) \in S /\ Rest(s) \in Small(n) /\ f[Pick(s)] \in Int /\ g[Rest(s)] \in Int
    BY <2>1, <2>2, <1>1, RestIsSmaller
  <2>3. h \in [Small(n + 1) -> Int]
    BY <2>2
  <2>4. \A s \in Small(n) : s \in Small(n + 1) /\ h[s] = g[s]
    BY <2>1, <1>1
  <2>5. \A s \in Small(n + 1) : h[s] = IF s = {} THEN 0 ELSE f[Pick(s)] + h[Rest(s)]
    BY <2>2, <2>4
  <2>6. \E k \in [Small(n + 1) -> Int] : \A s \in Small(n + 1) : k[s] = IF s = {} THEN 0 ELSE f[Pick(s)] + k[Rest(s)]
    <3> HIDE DEF h, Small
    <3> QED
      BY <2>3, <2>5
  <2>7. n + 1 \in Nat
    OBVIOUS
  <2> HIDE DEF Small
  <2> QED
    BY <2>6, <2>7
<1>4. Cardinality(S) \in Good
  <2> HIDE DEF Good
  <2>1. Good \in SUBSET Nat
    BY DEF Good
  <2> QED
    BY <1>1, <1>2, <1>3, <2>1, SetInduction
<1>5. \A s \in SUBSET S : s \in Small(Cardinality(S))
  BY FS_Subset, FS_CardinalityType
<1>6. PICK g \in [Small(Cardinality(S)) -> Int] :
        \A s \in Small(Cardinality(S)) : g[s] = IF s = {} THEN 0 ELSE f[Pick(s)] + g[Rest(s)]
  BY <1>4
<1>7. Small(Cardinality(S)) = SUBSET S
  BY <1>5
<1> HIDE DEF Small
<1>8. g = [s \in SUBSET S |-> IF s = {} THEN 0 ELSE f[Pick(s)] + g[Rest(s)]]
  BY <1>6, <1>7
<1> QED
  BY <1>8 DEF Sums, SumsTo

\* The sums over integers are integers.
LEMMA SumIsInt ==
  ASSUME NEW S, NEW f, NEW g, Sums(f, S, g)
  PROVE  \A s \in SUBSET S : g[s] \in Int
<1>0. IsFiniteSet(S) /\ f \in [S -> Int]
  BY DEF Sums
<1> DEFINE Good == {n \in Nat : \A s \in SUBSET S : Cardinality(s) = n => g[s] \in Int}
<1>1. \A s \in SUBSET S : IsFiniteSet(s) /\ Cardinality(s) \in Nat
  BY <1>0, FS_Subset, FS_CardinalityType
<1>2. \A s \in SUBSET S : g[s] = IF s = {} THEN 0 ELSE f[Pick(s)] + g[Rest(s)]
  BY DEF Sums, SumsTo
<1>3. 0 \in Good
  <2>1. \A s \in SUBSET S : Cardinality(s) = 0 => s = {}
    BY <1>1, FS_EmptySet
  <2>2. \A s \in SUBSET S : s = {} => g[s] = 0
    BY <1>2
  <2> QED
    BY <2>1, <2>2
<1>4. ASSUME NEW n \in Good PROVE n + 1 \in Good
  <2> SUFFICES ASSUME NEW s \in SUBSET S, Cardinality(s) = n + 1 PROVE g[s] \in Int
    OBVIOUS
  <2>1. n \in Nat /\ \A t \in SUBSET S : Cardinality(t) = n => g[t] \in Int
    OBVIOUS
  <2> HIDE DEF Good
  <2>2. CASE s = {}
    BY <1>2, <2>2
  <2>3. CASE s # {}
    <3>1. Pick(s) \in S /\ Rest(s) \in SUBSET S /\ Cardinality(Rest(s)) = n
      BY <1>0, <2>1, <2>3, RestIsSmaller
    <3>2. f[Pick(s)] \in Int /\ g[Rest(s)] \in Int
      BY <1>0, <2>1, <3>1
    <3> QED
      BY <1>2, <2>3, <3>2
  <2> QED
    BY <2>2, <2>3
<1>5. ASSUME NEW s \in SUBSET S PROVE Cardinality(s) \in Good
  <2> HIDE DEF Good
  <2>1. Good \in SUBSET Nat
    BY DEF Good
  <2> QED
    BY <1>1, <1>3, <1>4, <2>1, SetInduction
<1>6. ASSUME NEW s \in SUBSET S PROVE g[s] \in Int
  <2>1. \A t \in SUBSET S : Cardinality(t) = Cardinality(s) => g[t] \in Int
    BY <1>5
  <2> QED
    BY <2>1
<1> QED
  BY <1>6

\* Whatever order the elements are taken in, and whatever else is in S, the sum is the same.
LEMMA SumOneOut ==
  ASSUME NEW S, NEW f, NEW g, Sums(f, S, g)
  PROVE  \A s \in SUBSET S : g[s] \in Int /\ \A x \in s : g[s] = f[x] + g[s \ {x}]
<1>0. IsFiniteSet(S) /\ f \in [S -> Int]
  BY DEF Sums
<1> DEFINE Good == {n \in Nat : \A s \in SUBSET S : Cardinality(s) = n =>
                                   g[s] \in Int /\ \A x \in s : g[s] = f[x] + g[s \ {x}]}
<1>1. \A s \in SUBSET S : IsFiniteSet(s) /\ Cardinality(s) \in Nat
  BY <1>0, FS_Subset, FS_CardinalityType
<1>2. \A s \in SUBSET S : g[s] = IF s = {} THEN 0 ELSE f[Pick(s)] + g[Rest(s)]
  BY DEF Sums, SumsTo
<1>3. 0 \in Good
  BY <1>1, <1>2, FS_EmptySet
<1>4. ASSUME NEW n \in Good PROVE n + 1 \in Good
  <2> SUFFICES ASSUME NEW s \in SUBSET S, Cardinality(s) = n + 1
               PROVE  g[s] \in Int /\ \A x \in s : g[s] = f[x] + g[s \ {x}]
    OBVIOUS
  <2>0. n \in Nat /\ \A t \in SUBSET S : Cardinality(t) = n => g[t] \in Int /\ \A x \in t : g[t] = f[x] + g[t \ {x}]
    OBVIOUS
  <2> HIDE DEF Good
  <2>1. s # {}
    <3>1. n + 1 # 0
      BY <2>0
    <3> QED
      BY <3>1, FS_EmptySet
  <2>2. \A x \in s : s \ {x} \in SUBSET S /\ Cardinality(s \ {x}) = n /\ f[x] \in Int
    BY <1>0, <1>1, <2>0, FS_RemoveElement
  <2>3. \A x \in s : g[s \ {x}] \in Int /\ \A y \in s \ {x} : g[s \ {x}] = f[y] + g[(s \ {x}) \ {y}]
    BY <2>0, <2>2
  <2>4. PICK p \in s : p = Pick(s)
    BY <2>1, PickIsOne
  <2>5. g[s] = f[p] + g[s \ {p}] /\ g[s] \in Int
    <3>1. g[s] = f[p] + g[s \ {p}]
      BY <1>2, <2>1, <2>4 DEF Rest
    <3> QED
      BY <3>1, SumIsInt
  <2>6. ASSUME NEW x \in s, x # p PROVE g[s] = f[x] + g[s \ {x}]
    <3>1. g[s \ {p}] = f[x] + g[(s \ {p}) \ {x}] /\ g[s \ {x}] = f[p] + g[(s \ {x}) \ {p}]
      <4>1. x \in s \ {p} /\ p \in s \ {x}
        BY <2>6
      <4>2. /\ \A y \in s \ {p} : g[s \ {p}] = f[y] + g[(s \ {p}) \ {y}]
            /\ \A y \in s \ {x} : g[s \ {x}] = f[y] + g[(s \ {x}) \ {y}]
        BY <2>3
      <4>3. g[s \ {p}] = f[x] + g[(s \ {p}) \ {x}]
        BY <4>1, <4>2, Zenon
      <4>4. g[s \ {x}] = f[p] + g[(s \ {x}) \ {p}]
        BY <4>1, <4>2, Zenon
      <4> QED
        BY <4>3, <4>4
    <3>2. (s \ {p}) \ {x} = (s \ {x}) \ {p} /\ (s \ {p}) \ {x} \in SUBSET S
      OBVIOUS
    <3>3. g[(s \ {p}) \ {x}] \in Int
      BY <3>2, SumIsInt
    <3> QED
      <4>1. f[x] \in Int /\ f[p] \in Int
        BY <2>2
      <4>2. PICK rest \in Int : rest = g[(s \ {p}) \ {x}]
        BY <3>3
      <4>3. g[s \ {p}] = f[x] + rest /\ g[s \ {x}] = f[p] + rest
        BY <3>1, <3>2, <4>2
      <4> QED
        BY <2>5, <4>1, <4>3
  <2> QED
    BY <2>5, <2>6
<1>5. ASSUME NEW s \in SUBSET S PROVE Cardinality(s) \in Good
  <2> HIDE DEF Good
  <2>1. Good \in SUBSET Nat
    BY DEF Good
  <2> QED
    BY <1>1, <1>3, <1>4, <2>1, SetInduction
<1> QED
  BY <1>1, <1>5

\* Only the elements summed over matter.
LEMMA SumsAgree ==
  ASSUME NEW S, NEW f, NEW g, Sums(f, S, g), NEW R, NEW h, NEW k, Sums(h, R, k),
         NEW part \in SUBSET S, part \in SUBSET R, \A x \in part : f[x] = h[x]
  PROVE  g[part] = k[part]
<1>0. IsFiniteSet(S) /\ f \in [S -> Int] /\ IsFiniteSet(R) /\ h \in [R -> Int]
  BY DEF Sums
<1> DEFINE Good == {n \in Nat : \A s \in SUBSET part : Cardinality(s) = n => g[s] = k[s]}
<1>1. \A s \in SUBSET part : s \in SUBSET S /\ s \in SUBSET R /\ IsFiniteSet(s) /\ Cardinality(s) \in Nat
  BY <1>0, FS_Subset, FS_CardinalityType
<1>2. \A s \in SUBSET part : /\ g[s] = (IF s = {} THEN 0 ELSE f[Pick(s)] + g[Rest(s)])
                             /\ k[s] = (IF s = {} THEN 0 ELSE h[Pick(s)] + k[Rest(s)])
  <2>1. \A s \in SUBSET S : g[s] = IF s = {} THEN 0 ELSE f[Pick(s)] + g[Rest(s)]
    BY DEF Sums, SumsTo
  <2>2. \A s \in SUBSET R : k[s] = IF s = {} THEN 0 ELSE h[Pick(s)] + k[Rest(s)]
    BY DEF Sums, SumsTo
  <2> QED
    BY <1>1, <2>1, <2>2
<1>3. 0 \in Good
  <2>1. \A s \in SUBSET part : Cardinality(s) = 0 => s = {}
    BY <1>1, FS_EmptySet
  <2> QED
    BY <1>2, <2>1
<1>4. ASSUME NEW n \in Good PROVE n + 1 \in Good
  <2> SUFFICES ASSUME NEW s \in SUBSET part, Cardinality(s) = n + 1 PROVE g[s] = k[s]
    OBVIOUS
  <2>1. n \in Nat /\ \A t \in SUBSET part : Cardinality(t) = n => g[t] = k[t]
    OBVIOUS
  <2> HIDE DEF Good
  <2>2. CASE s = {}
    BY <1>2, <2>2
  <2>3. CASE s # {}
    <3>1. IsFiniteSet(part)
      BY <1>0, FS_Subset
    <3>2. Pick(s) \in part /\ Rest(s) \in SUBSET part /\ Cardinality(Rest(s)) = n
      BY <2>1, <2>3, <3>1, RestIsSmaller
    <3> QED
      BY <1>2, <2>1, <2>3, <3>2
  <2> QED
    BY <2>2, <2>3
<1>5. ASSUME NEW s \in SUBSET part PROVE Cardinality(s) \in Good
  <2> HIDE DEF Good
  <2>1. Good \in SUBSET Nat
    BY DEF Good
  <2> QED
    BY <1>1, <1>3, <1>4, <2>1, SetInduction
<1>6. \A t \in SUBSET part : Cardinality(t) = Cardinality(part) => g[t] = k[t]
  BY <1>5
<1> QED
  BY <1>6

\* What the library's sum of a function is.
LEMMA SumFunctionIs ==
  ASSUME NEW S, IsFiniteSet(S), NEW f \in [S -> Int]
  PROVE  \E g : Sums(f, S, g) /\ SumFunction(f) = g[S]
<1>1. Sums(f, S, TheSums(f, S))
  BY SumsExist DEF TheSums
<1>2. SumFunction(f) = TheSums(f, S)[S]
  BY DEF TheSums, Sums, SumsTo, SumFunction, SumFunctionOnSet, FoldFunctionOnSet, MapThenFoldSet, Pick, Rest
<1> QED
  BY <1>1, <1>2

\* A sum of integers is one, and 0 over nothing.
LEMMA SumType ==
  ASSUME NEW S, IsFiniteSet(S), NEW f \in [S -> Int]
  PROVE  SumFunction(f) \in Int /\ (S = {} => SumFunction(f) = 0)
<1>1. PICK g : Sums(f, S, g) /\ SumFunction(f) = g[S]
  BY SumFunctionIs
<1>2. S = {} => g[S] = 0
  BY <1>1 DEF Sums, SumsTo
<1> QED
  BY <1>1, <1>2, SumIsInt

\* h sums one element more than f.
OneMore(S, f, x, h) ==
  /\ IsFiniteSet(S) /\ f \in [S -> Int] /\ x \notin S
  /\ h \in [S \cup {x} -> Int] /\ \A y \in S : h[y] = f[y]

\* A sum with one summand more.
LEMMA SumWithOneMore ==
  ASSUME NEW S, NEW f, NEW x, NEW h, OneMore(S, f, x, h)
  PROVE  SumFunction(h) = SumFunction(f) + h[x]
<1>0. /\ IsFiniteSet(S) /\ f \in [S -> Int] /\ x \notin S
      /\ h \in [S \cup {x} -> Int] /\ \A y \in S : h[y] = f[y]
  BY DEF OneMore
<1>m. PICK more : more = S \cup {x}
  OBVIOUS
<1>1. PICK g : Sums(f, S, g) /\ SumFunction(f) = g[S]
  BY <1>0, SumFunctionIs
<1>2. IsFiniteSet(more) /\ x \in more /\ more \in SUBSET more /\ S \in SUBSET more /\ S \in SUBSET S /\ more \ {x} = S
  BY <1>0, <1>m, FS_AddElement
<1>3. PICK k : Sums(h, more, k) /\ SumFunction(h) = k[more]
  BY <1>0, <1>m, <1>2, SumFunctionIs
<1>4. \A s \in SUBSET more : k[s] \in Int /\ \A y \in s : k[s] = h[y] + k[s \ {y}]
  BY <1>3, SumOneOut
<1>5. k[more] = h[x] + k[S]
  BY <1>2, <1>4
<1>6. k[S] = g[S]
  BY <1>0, <1>m, <1>1, <1>2, <1>3, SumsAgree
<1>7. h[x] \in Int /\ SumFunction(f) \in Int
  BY <1>0, <1>m, <1>2, SumType
<1> QED
  BY <1>1, <1>3, <1>5, <1>6, <1>7

\* A sum with one summand changed.
LEMMA SumWithOneChanged ==
  ASSUME NEW S, IsFiniteSet(S), NEW f \in [S -> Int], NEW x \in S,
         NEW h \in [S -> Int], \A y \in S \ {x} : h[y] = f[y]
  PROVE  SumFunction(h) = SumFunction(f) - f[x] + h[x]
<1> DEFINE less == [y \in S \ {x} |-> f[y]]
<1>1. IsFiniteSet(S \ {x}) /\ less \in [S \ {x} -> Int] /\ (S \ {x}) \cup {x} = S
  BY FS_RemoveElement
<1>2. (\A y \in S \ {x} : f[y] = less[y]) /\ (\A y \in S \ {x} : h[y] = less[y])
  OBVIOUS
<1> HIDE DEF less
<1>3. SumFunction(f) = SumFunction(less) + f[x] /\ SumFunction(h) = SumFunction(less) + h[x]
  BY <1>1, <1>2, SumWithOneMore DEF OneMore
<1>4. SumFunction(less) \in Int /\ f[x] \in Int /\ h[x] \in Int
  BY <1>1, SumType
<1> QED
  BY <1>3, <1>4

\* A sum of zeros.
LEMMA SumOfZeros ==
  ASSUME NEW S, IsFiniteSet(S), NEW f \in [S -> Int], \A x \in S : f[x] = 0
  PROVE  SumFunction(f) = 0
<1>1. PICK g : Sums(f, S, g) /\ SumFunction(f) = g[S]
  BY SumFunctionIs
<1> DEFINE Good == {n \in Nat : \A s \in SUBSET S : Cardinality(s) = n => g[s] = 0}
<1>2. \A s \in SUBSET S : g[s] = IF s = {} THEN 0 ELSE f[Pick(s)] + g[Rest(s)]
  BY <1>1 DEF Sums, SumsTo
<1>3. 0 \in Good
  <2>1. ASSUME NEW s \in SUBSET S, Cardinality(s) = 0 PROVE g[s] = 0
    BY <1>2, <2>1, FS_EmptySet, FS_Subset
  <2> QED
    BY <2>1
<1>4. ASSUME NEW n \in Good PROVE n + 1 \in Good
  <2>1. ASSUME NEW s \in SUBSET S, Cardinality(s) = n + 1 PROVE g[s] = 0
    <3>1. s # {}
      <4>1. n + 1 # 0
        OBVIOUS
      <4> QED
        BY <2>1, <4>1, FS_EmptySet
    <3>2. Pick(s) \in S /\ Rest(s) \in SUBSET S /\ Cardinality(Rest(s)) = n
      BY <2>1, <3>1, RestIsSmaller
    <3>3. f[Pick(s)] = 0 /\ g[Rest(s)] = 0
      BY <3>2
    <3> QED
      BY <1>2, <3>1, <3>3
  <2> QED
    BY <2>1
<1>5. Cardinality(S) \in Nat
  BY FS_CardinalityType
<1> HIDE DEF Good
<1>6. Good \in SUBSET Nat
  BY DEF Good
<1>7. Cardinality(S) \in Good
  BY <1>3, <1>4, <1>5, <1>6, SetInduction
<1> QED
  BY <1>1, <1>7 DEF Good

-----------------------------------------------------------------------------
(* Voting: what an account has spent is what its votes cost. *)
AccountRow == [open : BOOLEAN, balance : Int, spent : Int, cast : Int, to : Voters \cup {NoVoter}, delegates : SUBSET Voters]
RoundRow == [st : RoundStatus, late : BOOLEAN, by : Voters \cup {NoVoter}, votes : [Voters -> Cast], winner : Cast]
Receipt == [voter : Voters, round : Rounds, option : {"yes", "no"}, votes : 1 .. 2, recent : BOOLEAN]

VotingSpec == VotingInit /\ [][VotingNext]_votingVars

BoostState == {"no", "read", "spent", "refused"}
VotingTypes ==
  /\ account \in [Voters -> AccountRow] /\ earnings \in [Voters -> Nat]
  /\ round \in [Rounds -> RoundRow] /\ receipt \in Seq(Receipt)
  /\ boosting \in [Voters -> BoostState]
  /\ priority \in [known : BOOLEAN, total : Int, rows : [Voters -> Int]]

Proposed(v) == {r \in Rounds : round[r].by = v}
Mine(rs, v) == {i \in DOMAIN rs : rs[i].voter = v}
Bought(rs, v) == MapThenSumSet(LAMBDA i : calculate_quadratic_cost(rs[i].votes), Mine(rs, v))
Boosted(v) == IF boosting[v] \in {"spent", "refused"} THEN VotePrice ELSE 0

\* Rounds that were never proposed are nobody's, and nobody has proposed infinitely many.
ProposalsInOrder ==
  /\ \A r \in Rounds : round[r].st = "none" => round[r].by = NoVoter
  /\ \A v \in Voters : IsFiniteSet(Proposed(v))
Owed(v) ==
  VotePrice * account[v].cast + ProposalFee * Cardinality(Proposed(v)) + Bought(receipt, v) + priority.rows[v] + Boosted(v)
Paid(v) == account[v].balance = Earning * earnings[v] - account[v].spent /\ account[v].spent = Owed(v)
PaidInv == VotingTypes /\ ProposalsInOrder /\ \A v \in Voters : Paid(v)

\* Only a job that is there has rows, and only one that is gone has had a boost refused.
RowsHaveTheirJob ==
  \A v \in Voters : (priority.rows[v] # 0 => priority.known) /\ (boosting[v] = "refused" => ~priority.known)

\* What one or two votes cost is a number.
LEMMA CostType == \A n \in 1 .. 2 : calculate_quadratic_cost(n) \in Int
  BY DEF calculate_quadratic_cost

CostsAre(rs, S, g) ==
  g = [s \in SUBSET S |-> IF s = {} THEN 0 ELSE calculate_quadratic_cost(rs[Pick(s)].votes) + g[Rest(s)]]
TheCosts(rs, S) == CHOOSE g : CostsAre(rs, S, g)

\* The costs of receipts as a sum.
LEMMA CostsSum ==
  ASSUME NEW rs, NEW S, IsFiniteSet(S), NEW f \in [S -> Int],
         \A i \in S : f[i] = calculate_quadratic_cost(rs[i].votes)
  PROVE  MapThenSumSet(LAMBDA i : calculate_quadratic_cost(rs[i].votes), S) = SumFunction(f)
<1>1. ASSUME NEW k PROVE Sums(f, S, k) <=> CostsAre(rs, S, k)
  <2>1. \A s \in SUBSET S : s # {} => f[Pick(s)] = calculate_quadratic_cost(rs[Pick(s)].votes)
    BY PickIsOne
  <2>2. [s \in SUBSET S |-> IF s = {} THEN 0 ELSE f[Pick(s)] + k[Rest(s)]]
        = [s \in SUBSET S |-> IF s = {} THEN 0 ELSE calculate_quadratic_cost(rs[Pick(s)].votes) + k[Rest(s)]]
    BY <2>1
  <2> QED
    BY <2>2 DEF Sums, SumsTo, CostsAre
<1>2. \E k : CostsAre(rs, S, k)
  BY <1>1, SumsExist
<1>3. PICK g : g = TheCosts(rs, S) /\ Sums(f, S, g)
  <2>1. CostsAre(rs, S, TheCosts(rs, S))
    BY <1>2 DEF TheCosts
  <2> QED
    BY <1>1, <2>1
<1>4. MapThenSumSet(LAMBDA i : calculate_quadratic_cost(rs[i].votes), S) = g[S]
  BY <1>3 DEF MapThenSumSet, MapThenFoldSet, Pick, Rest, TheCosts, CostsAre
<1>5. PICK h : Sums(f, S, h) /\ SumFunction(f) = h[S]
  BY SumFunctionIs
<1>6. S \in SUBSET S
  OBVIOUS
<1>7. g[S] = h[S]
  BY <1>3, <1>5, <1>6, SumsAgree
<1> QED
  BY <1>4, <1>5, <1>7

\* What the receipts of v cost, as a function of their places.
CostOf(rs, v) == [i \in Mine(rs, v) |-> calculate_quadratic_cost(rs[i].votes)]

\* What a voter's receipts cost is a sum over the receipts of that voter.
LEMMA BoughtIs ==
  ASSUME NEW rs \in Seq(Receipt), NEW v
  PROVE  /\ IsFiniteSet(Mine(rs, v)) /\ Mine(rs, v) \in SUBSET (1 .. Len(rs))
         /\ CostOf(rs, v) \in [Mine(rs, v) -> Int]
         /\ Bought(rs, v) = SumFunction(CostOf(rs, v)) /\ Bought(rs, v) \in Int
<1>1. Mine(rs, v) \in SUBSET (1 .. Len(rs)) /\ IsFiniteSet(Mine(rs, v))
  <2>1. Mine(rs, v) \in SUBSET (1 .. Len(rs)) /\ Len(rs) \in Nat
    BY DEF Mine
  <2>2. IsFiniteSet(1 .. Len(rs))
    BY <2>1, FS_Interval
  <2> QED
    BY <2>1, <2>2, FS_Subset
<1>2. CostOf(rs, v) \in [Mine(rs, v) -> Int] /\ \A i \in Mine(rs, v) : CostOf(rs, v)[i] = calculate_quadratic_cost(rs[i].votes)
  <2>1. \A i \in 1 .. Len(rs) : rs[i] \in Receipt
    OBVIOUS
  <2>2. \A i \in Mine(rs, v) : rs[i].votes \in 1 .. 2
    BY <1>1, <2>1 DEF Receipt
  <2>3. \A i \in Mine(rs, v) : calculate_quadratic_cost(rs[i].votes) \in Int
    BY <2>2, CostType
  <2> QED
    BY <2>3 DEF CostOf
<1>3. Bought(rs, v) = SumFunction(CostOf(rs, v))
  BY <1>1, <1>2, CostsSum DEF Bought
<1> QED
  BY <1>1, <1>2, <1>3, SumType

\* Receipts with the same voters and votes cost the same.
LEMMA BoughtSame ==
  ASSUME NEW rs \in Seq(Receipt), NEW qs \in Seq(Receipt), Len(qs) = Len(rs),
         \A i \in 1 .. Len(rs) : qs[i].voter = rs[i].voter /\ qs[i].votes = rs[i].votes, NEW v
  PROVE  Bought(qs, v) = Bought(rs, v)
<1>1. Mine(qs, v) = Mine(rs, v)
  BY DEF Mine
<1>2. \A i \in Mine(rs, v) : calculate_quadratic_cost(qs[i].votes) = calculate_quadratic_cost(rs[i].votes)
  BY BoughtIs
<1>3. CostOf(qs, v) = CostOf(rs, v)
  BY <1>1, <1>2 DEF CostOf
<1> QED
  BY <1>3, BoughtIs

\* A new receipt costs its voter what it says, and nobody else.
LEMMA BoughtMore ==
  ASSUME NEW rs \in Seq(Receipt), NEW c \in Receipt
  PROVE  /\ Append(rs, c) \in Seq(Receipt)
         /\ Bought(Append(rs, c), c.voter) = Bought(rs, c.voter) + calculate_quadratic_cost(c.votes)
         /\ \A v \in Voters \ {c.voter} : Bought(Append(rs, c), v) = Bought(rs, v)
<1>0. Append(rs, c) \in Seq(Receipt)
  OBVIOUS
<1>1. PICK qs \in Seq(Receipt) : qs = Append(rs, c)
  BY <1>0
<1>2. PICK n \in Nat : n = Len(rs) + 1
  OBVIOUS
<1>3. /\ DOMAIN qs = DOMAIN rs \cup {n} /\ n \notin DOMAIN rs
      /\ qs[n] = c /\ \A i \in DOMAIN rs : qs[i] = rs[i]
  BY <1>1, <1>2
<1>4. Bought(qs, c.voter) = Bought(rs, c.voter) + calculate_quadratic_cost(c.votes)
  <2>1. Mine(qs, c.voter) = Mine(rs, c.voter) \cup {n} /\ n \notin Mine(rs, c.voter)
    BY <1>3 DEF Mine
  <2>2. \A i \in Mine(rs, c.voter) : CostOf(qs, c.voter)[i] = CostOf(rs, c.voter)[i]
    <3>1. \A i \in Mine(rs, c.voter) : qs[i] = rs[i]
      BY <1>3 DEF Mine
    <3> QED
      BY <2>1, <3>1 DEF CostOf
  <2>3. CostOf(qs, c.voter)[n] = calculate_quadratic_cost(c.votes)
    BY <1>3, <2>1 DEF CostOf
  <2>4. PICK f \in [Mine(rs, c.voter) -> Int] : f = CostOf(rs, c.voter)
    BY BoughtIs
  <2>5. PICK h \in [Mine(rs, c.voter) \cup {n} -> Int] : h = CostOf(qs, c.voter)
    BY <2>1, BoughtIs
  <2>6. IsFiniteSet(Mine(rs, c.voter)) /\ Bought(qs, c.voter) = SumFunction(h) /\ Bought(rs, c.voter) = SumFunction(f)
    BY <2>4, <2>5, BoughtIs
  <2>7. SumFunction(h) = SumFunction(f) + h[n]
    <3>1. \A i \in Mine(rs, c.voter) : h[i] = f[i]
      BY <2>2, <2>4, <2>5
    <3>2. OneMore(Mine(rs, c.voter), f, n, h)
      BY <2>1, <2>6, <3>1 DEF OneMore
    <3> QED
      BY <3>2, SumWithOneMore
  <2> QED
    BY <2>3, <2>5, <2>6, <2>7
<1>5. ASSUME NEW v \in Voters \ {c.voter} PROVE Bought(qs, v) = Bought(rs, v)
  <2>1. Mine(qs, v) = Mine(rs, v)
    BY <1>3 DEF Mine
  <2>2. \A i \in Mine(rs, v) : qs[i] = rs[i]
    BY <1>3 DEF Mine
  <2>3. CostOf(qs, v) = CostOf(rs, v)
    BY <2>1, <2>2 DEF CostOf
  <2> QED
    BY <2>3, BoughtIs
<1> QED
  BY <1>1, <1>4, <1>5

\* What Paid compares, for one voter, unchanged.
Untouched(v) ==
  /\ account'[v].balance = account[v].balance /\ account'[v].spent = account[v].spent /\ account'[v].cast = account[v].cast
  /\ earnings'[v] = earnings[v] /\ Proposed(v)' = Proposed(v) /\ Bought(receipt', v) = Bought(receipt, v)
  /\ priority'.rows[v] = priority.rows[v] /\ Boosted(v)' = Boosted(v)

\* An account nobody touches stays paid.
LEMMA UntouchedIsPaid == ASSUME NEW v, Paid(v), Untouched(v) PROVE Paid(v)'
  BY DEF Paid, Owed, Untouched

\* The numbers of one voter, as numbers.
LEMMA PaidNumbers ==
  ASSUME VotingTypes, ProposalsInOrder, NEW v \in Voters
  PROVE  /\ account[v] \in AccountRow /\ account[v].balance \in Int /\ account[v].spent \in Int /\ account[v].cast \in Int
         /\ earnings[v] \in Int /\ Cardinality(Proposed(v)) \in Int /\ Bought(receipt, v) \in Int
         /\ priority.rows[v] \in Int /\ Boosted(v) \in Int
         /\ VotePrice \in Int /\ ProposalFee \in Int /\ Earning \in Int
<1>1. account[v] \in AccountRow
  BY DEF VotingTypes
<1>2. account[v].balance \in Int /\ account[v].spent \in Int /\ account[v].cast \in Int
  BY <1>1 DEF AccountRow
<1>3. earnings[v] \in Int /\ priority.rows[v] \in Int /\ Boosted(v) \in Int
  BY VotingAssumption DEF VotingTypes, Boosted
<1>4. Cardinality(Proposed(v)) \in Int
  BY FS_CardinalityType DEF ProposalsInOrder
<1>5. Bought(receipt, v) \in Int
  BY BoughtIs DEF VotingTypes
<1> QED
  BY <1>1, <1>2, <1>3, <1>4, <1>5, VotingAssumption

\* One more of something, at its price.
LEMMA OneMoreAtThePrice == \A price, n \in Int : price * (n + 1) = price * n + price
  OBVIOUS

\* What spending does to an account.
LEMMA SpentRow ==
  ASSUME NEW acc \in AccountRow, NEW amount \in Int
  PROVE  /\ Spend(acc, amount) \in AccountRow /\ Spend(acc, amount).balance = acc.balance - amount
         /\ Spend(acc, amount).spent = acc.spent + amount /\ Spend(acc, amount).cast = acc.cast
<1>1. Spend(acc, amount) = [acc EXCEPT !.balance = acc.balance - amount, !.spent = acc.spent + amount]
  BY DEF Spend
<1>2. Spend(acc, amount) = [open |-> acc.open, balance |-> acc.balance - amount, spent |-> acc.spent + amount,
                            cast |-> acc.cast, to |-> acc.to, delegates |-> acc.delegates]
  BY <1>1 DEF AccountRow
<1>3. acc.balance - amount \in Int /\ acc.spent + amount \in Int
  BY DEF AccountRow
<1> QED
  BY <1>2, <1>3 DEF AccountRow

\* Steps that change only what delegations and the opening of accounts are about.
LEMMA AccountsReshaped ==
  ASSUME PaidInv, UNCHANGED <<round, receipt, priority, boosting, earnings>>, account' \in [Voters -> AccountRow],
         \A v \in Voters : /\ account'[v].balance = account[v].balance
                           /\ account'[v].spent = account[v].spent /\ account'[v].cast = account[v].cast
  PROVE  PaidInv'
<1>1. VotingTypes' /\ ProposalsInOrder'
  BY DEF PaidInv, VotingTypes, ProposalsInOrder, Proposed
<1>2. \A v \in Voters : Untouched(v)
  BY DEF Untouched, Proposed, Boosted
<1> QED
  BY <1>1, <1>2, UntouchedIsPaid DEF PaidInv

\* Steps that change only the course of rounds.
LEMMA RoundsMoveOn ==
  ASSUME PaidInv, UNCHANGED <<account, receipt, priority, boosting, earnings>>, round' \in [Rounds -> RoundRow],
         \A r \in Rounds : round'[r].by = round[r].by /\ (round'[r].st = "none" => round[r].st = "none")
  PROVE  PaidInv'
<1>1. \A v : Proposed(v)' = Proposed(v)
  BY DEF Proposed
<1>2. VotingTypes' /\ ProposalsInOrder'
  BY <1>1 DEF PaidInv, VotingTypes, ProposalsInOrder
<1>3. \A v \in Voters : Untouched(v)
  BY <1>1 DEF Untouched, Boosted
<1> QED
  BY <1>2, <1>3, UntouchedIsPaid DEF PaidInv

\* An account with another 'open'.
LEMMA OpenedRow ==
  ASSUME NEW acc \in AccountRow, NEW open
  PROVE  [acc EXCEPT !.open = open] = [open |-> open, balance |-> acc.balance, spent |-> acc.spent,
                                       cast |-> acc.cast, to |-> acc.to, delegates |-> acc.delegates]
  BY DEF AccountRow

\* Opening an account keeps every account paid.
LEMMA OpensAnAccount == \A v \in Voters : PaidInv /\ create_account(v) => PaidInv'
<1> SUFFICES ASSUME PaidInv, NEW v \in Voters, create_account(v) PROVE PaidInv'
  OBVIOUS
<1>1. account \in [Voters -> AccountRow]
  BY DEF PaidInv, VotingTypes
<1>2. account' = [account EXCEPT ![v] = [account[v] EXCEPT !.open = TRUE]]
  BY DEF create_account
<1>3. PICK row : row = [account[v] EXCEPT !.open = TRUE]
  OBVIOUS
<1>4. /\ row \in AccountRow /\ row.balance = account[v].balance
      /\ row.spent = account[v].spent /\ row.cast = account[v].cast
  <2>1. PICK acc \in AccountRow : acc = account[v]
    BY <1>1
  <2>2. row = [open |-> TRUE, balance |-> acc.balance, spent |-> acc.spent,
               cast |-> acc.cast, to |-> acc.to, delegates |-> acc.delegates]
    BY <1>3, <2>1, OpenedRow
  <2>3. acc = account[v] /\ row \in AccountRow
    BY <2>1, <2>2 DEF AccountRow
  <2> QED
    BY <2>2, <2>3
<1>5. account' = [account EXCEPT ![v] = row]
  BY <1>2, <1>3
<1>6. account' \in [Voters -> AccountRow] /\ \A a \in Voters : account'[a] = IF a = v THEN row ELSE account[a]
  BY <1>1, <1>4, <1>5
<1> QED
  BY <1>4, <1>6, AccountsReshaped DEF create_account

\* Delegations leave balance, spending and votes of an account alone.
LEMMA EdgesSet ==
  ASSUME NEW acc \in AccountRow
  PROVE  /\ \A t \in Voters \cup {NoVoter} :
               /\ [acc EXCEPT !.to = t] \in AccountRow /\ [acc EXCEPT !.to = t].balance = acc.balance
               /\ [acc EXCEPT !.to = t].spent = acc.spent /\ [acc EXCEPT !.to = t].cast = acc.cast
         /\ \A D \in SUBSET Voters :
               /\ [acc EXCEPT !.delegates = D] \in AccountRow /\ [acc EXCEPT !.delegates = D].balance = acc.balance
               /\ [acc EXCEPT !.delegates = D].spent = acc.spent /\ [acc EXCEPT !.delegates = D].cast = acc.cast
  BY DEF AccountRow

\* Delegating keeps every account paid.
LEMMA Delegates == \A v, d \in Voters : PaidInv /\ delegate_vote(v, d) => PaidInv'
<1> SUFFICES ASSUME PaidInv, NEW v \in Voters, NEW d \in Voters, delegate_vote(v, d) PROVE PaidInv'
  OBVIOUS
<1>1. \A a \in Voters : account[a] \in AccountRow
  BY DEF PaidInv, VotingTypes
<1>2. account' = [a \in Voters |->
         IF a = v THEN [account[a] EXCEPT !.to = d]
         ELSE IF a = d THEN [account[a] EXCEPT !.delegates = @ \cup {v}]
         ELSE IF a = account[v].to THEN [account[a] EXCEPT !.delegates = @ \ {v}] ELSE account[a]]
  BY DEF delegate_vote
<1>4. \A a \in Voters : account[a].delegates \in SUBSET Voters
  BY <1>1 DEF AccountRow
<1>5. ASSUME NEW a \in Voters
      PROVE  /\ account'[a] \in AccountRow /\ account'[a].balance = account[a].balance
             /\ account'[a].spent = account[a].spent /\ account'[a].cast = account[a].cast
  <2>1. CASE a = v
    <3>1. account'[a] = [account[a] EXCEPT !.to = d]
      BY <1>2, <2>1
    <3> QED
      BY <1>1, <3>1, EdgesSet
  <2>2. CASE a # v /\ a = d
    <3>1. PICK D \in SUBSET Voters : D = account[a].delegates \cup {v}
      BY <1>4
    <3>2. account'[a] = [account[a] EXCEPT !.delegates = D]
      BY <1>2, <2>2, <3>1
    <3> QED
      BY <1>1, <3>2, EdgesSet
  <2>3. CASE a # v /\ a # d /\ a = account[v].to
    <3>1. PICK D \in SUBSET Voters : D = account[a].delegates \ {v}
      BY <1>4
    <3>2. account'[a] = [account[a] EXCEPT !.delegates = D]
      BY <1>2, <2>3, <3>1
    <3> QED
      BY <1>1, <3>2, EdgesSet
  <2>4. CASE a # v /\ a # d /\ a # account[v].to
    BY <1>1, <1>2, <2>4
  <2> QED
    BY <2>1, <2>2, <2>3, <2>4
<1>6. account' \in [Voters -> AccountRow]
  BY <1>2, <1>5
<1> QED
  BY <1>5, <1>6, AccountsReshaped DEF delegate_vote

\* Revoking a delegation keeps every account paid.
LEMMA Revokes == \A v \in Voters : PaidInv /\ revoke_delegation(v) => PaidInv'
<1> SUFFICES ASSUME PaidInv, NEW v \in Voters, revoke_delegation(v) PROVE PaidInv'
  OBVIOUS
<1>1. \A a \in Voters : account[a] \in AccountRow
  BY DEF PaidInv, VotingTypes
<1>2. PICK d \in Voters : d = account[v].to
  BY <1>1 DEF revoke_delegation, AccountRow
<1>3. PICK acc \in AccountRow : acc = account[v]
  BY <1>1
<1>4. PICK left \in AccountRow : /\ left = [acc EXCEPT !.to = NoVoter] /\ left.balance = acc.balance
                                 /\ left.spent = acc.spent /\ left.cast = acc.cast
  BY EdgesSet
<1>5. PICK mid : mid = [account EXCEPT ![v] = left]
  OBVIOUS
<1>6. mid \in [Voters -> AccountRow] /\ \A a \in Voters : mid[a] = IF a = v THEN left ELSE account[a]
  BY <1>5 DEF PaidInv, VotingTypes
<1>7. PICK was \in AccountRow : was = mid[d]
  BY <1>6
<1>8. account' = [mid EXCEPT ![d] = [was EXCEPT !.delegates = was.delegates \ {v}]]
  BY <1>2, <1>3, <1>4, <1>5, <1>7 DEF revoke_delegation
<1>9. PICK row \in AccountRow : /\ row = [was EXCEPT !.delegates = was.delegates \ {v}] /\ row.balance = was.balance
                                /\ row.spent = was.spent /\ row.cast = was.cast
  <2>1. was.delegates \ {v} \in SUBSET Voters
    BY DEF AccountRow
  <2> QED
    BY <2>1, EdgesSet
<1>10. account' \in [Voters -> AccountRow] /\ \A a \in Voters : account'[a] = IF a = d THEN row ELSE mid[a]
  BY <1>6, <1>8, <1>9
<1>11. ASSUME NEW a \in Voters
       PROVE  /\ account'[a].balance = account[a].balance
              /\ account'[a].spent = account[a].spent /\ account'[a].cast = account[a].cast
  <2>1. mid[a].balance = account[a].balance /\ mid[a].spent = account[a].spent /\ mid[a].cast = account[a].cast
    BY <1>3, <1>4, <1>6
  <2> QED
    BY <1>7, <1>9, <1>10, <2>1
<1> QED
  BY <1>10, <1>11, AccountsReshaped DEF revoke_delegation

\* Finalizing a round keeps every account paid.
LEMMA Finalizes == \A r \in Rounds : PaidInv /\ finalize_vote(r) => PaidInv'
<1> SUFFICES ASSUME PaidInv, NEW r \in Rounds, finalize_vote(r) PROVE PaidInv'
  OBVIOUS
<1>1. round \in [Rounds -> RoundRow]
  BY DEF PaidInv, VotingTypes
<1>2. /\ Finalized(r) \in RoundRow /\ Finalized(r).by = round[r].by
      /\ Finalized(r).st = "none" => round[r].st = "none"
  <2>1. \/ \E st \in {"expired", "quorum_not_met", "rejected"} : Finalized(r) = [round[r] EXCEPT !.st = st]
        \/ Finalized(r) = round[r]
        \/ \E w \in {"yes", "no"} : Finalized(r) = [round[r] EXCEPT !.st = "approved", !.winner = w]
    BY DEF Finalized
  <2>2. {"yes", "no"} \subseteq Cast /\ {"expired", "quorum_not_met", "approved", "rejected"} \subseteq RoundStatus
    BY DEF Cast, RoundStatus
  <2>3. PICK row \in RoundRow : row = round[r]
    BY <1>1
  <2>4. CASE \E st \in {"expired", "quorum_not_met", "rejected"} : Finalized(r) = [round[r] EXCEPT !.st = st]
    <3>1. PICK st \in {"expired", "quorum_not_met", "rejected"} : Finalized(r) = [row EXCEPT !.st = st]
      BY <2>3, <2>4
    <3>2. st \in RoundStatus /\ st # "none"
      BY <2>2
    <3>3. [row EXCEPT !.st = st] \in RoundRow /\ [row EXCEPT !.st = st].by = row.by /\ [row EXCEPT !.st = st].st = st
      BY <3>2 DEF RoundRow
    <3> QED
      BY <2>3, <3>1, <3>2, <3>3
  <2>5. CASE \E w \in {"yes", "no"} : Finalized(r) = [round[r] EXCEPT !.st = "approved", !.winner = w]
    <3>1. PICK w \in {"yes", "no"} : Finalized(r) = [row EXCEPT !.st = "approved", !.winner = w]
      BY <2>3, <2>5
    <3>2. w \in Cast /\ "approved" \in RoundStatus
      BY <2>2
    <3>3. Finalized(r) = [st |-> "approved", late |-> row.late, by |-> row.by, votes |-> row.votes, winner |-> w]
      BY <3>1 DEF RoundRow
    <3> QED
      BY <2>3, <3>2, <3>3 DEF RoundRow
  <2> QED
    BY <2>1, <2>3, <2>4, <2>5
<1>3. round' = [round EXCEPT ![r] = Finalized(r)]
  BY DEF finalize_vote
<1> QED
  BY <1>1, <1>2, <1>3, RoundsMoveOn DEF finalize_vote

\* A round with another status.
LEMMA RoundSet ==
  ASSUME NEW row \in RoundRow, NEW st \in RoundStatus
  PROVE  [row EXCEPT !.st = st] \in RoundRow /\ [row EXCEPT !.st = st].by = row.by /\ [row EXCEPT !.st = st].st = st
  BY DEF RoundRow

\* A round with another 'late'.
LEMMA LateSet ==
  ASSUME NEW row \in RoundRow, NEW late
  PROVE  [row EXCEPT !.late = late] = [st |-> row.st, late |-> late, by |-> row.by, votes |-> row.votes, winner |-> row.winner]
  BY DEF RoundRow

\* Rounds that run out keep every account paid.
LEMMA Expires ==
  ASSUME PaidInv, expire_votes \/ cleanup_expired_votes \/ \E r \in Rounds : RoundRunsLate(r)
  PROVE  PaidInv'
<1>1. \A r \in Rounds : round[r] \in RoundRow
  BY DEF PaidInv, VotingTypes
<1>2. \A r \in Rounds : round[r].st # "none" => [round[r] EXCEPT !.st = "expired"] \in RoundRow
                       /\ [round[r] EXCEPT !.st = "expired"].by = round[r].by /\ [round[r] EXCEPT !.st = "expired"].st = "expired"
  BY <1>1, RoundSet DEF RoundStatus
<1>3. \A r \in Rounds : [round[r] EXCEPT !.st = "gone"] \in RoundRow
                       /\ [round[r] EXCEPT !.st = "gone"].by = round[r].by /\ [round[r] EXCEPT !.st = "gone"].st = "gone"
  BY <1>1, RoundSet DEF RoundStatus
<1>4. CASE expire_votes
  <2>1. round' = [r \in Rounds |-> IF round[r].st = "pending" /\ round[r].late
                                     THEN [round[r] EXCEPT !.st = "expired"] ELSE round[r]]
    BY <1>4 DEF expire_votes
  <2>2. /\ round' \in [Rounds -> RoundRow]
        /\ \A r \in Rounds : round'[r].by = round[r].by /\ (round'[r].st = "none" => round[r].st = "none")
    BY <1>1, <1>2, <2>1
  <2> QED
    BY <1>4, <2>2, RoundsMoveOn DEF expire_votes
<1>5. CASE cleanup_expired_votes
  <2>1. round' = [r \in Rounds |-> IF round[r].st = "expired" THEN [round[r] EXCEPT !.st = "gone"] ELSE round[r]]
    BY <1>5 DEF cleanup_expired_votes
  <2>2. /\ round' \in [Rounds -> RoundRow]
        /\ \A r \in Rounds : round'[r].by = round[r].by /\ (round'[r].st = "none" => round[r].st = "none")
    BY <1>1, <1>3, <2>1
  <2> QED
    BY <1>5, <2>2, RoundsMoveOn DEF cleanup_expired_votes
<1>6. ASSUME NEW r \in Rounds, RoundRunsLate(r) PROVE PaidInv'
  <2>0. PICK old \in RoundRow : old = round[r]
    BY <1>1
  <2>1. PICK row \in RoundRow : row = [old EXCEPT !.late = TRUE] /\ row.by = old.by /\ row.st = old.st
    <3>1. PICK row : row = [old EXCEPT !.late = TRUE]
      OBVIOUS
    <3>2. row = [st |-> old.st, late |-> TRUE, by |-> old.by, votes |-> old.votes, winner |-> old.winner]
      BY <3>1, LateSet
    <3>3. row \in RoundRow /\ row.by = old.by /\ row.st = old.st
      BY <3>2 DEF RoundRow
    <3> QED
      BY <3>1, <3>3
  <2>2. round' = [round EXCEPT ![r] = row]
    BY <1>6, <2>0, <2>1 DEF RoundRunsLate
  <2>3. /\ round' \in [Rounds -> RoundRow]
        /\ \A q \in Rounds : round'[q].by = round[q].by /\ (round'[q].st = "none" => round[q].st = "none")
    BY <2>0, <2>1, <2>2 DEF PaidInv, VotingTypes
  <2> QED
    BY <1>6, <2>3, RoundsMoveOn DEF RoundRunsLate
<1> QED
  BY <1>4, <1>5, <1>6

\* An account with another balance.
LEMMA BalanceSet ==
  ASSUME NEW acc \in AccountRow, NEW balance
  PROVE  [acc EXCEPT !.balance = balance] = [open |-> acc.open, balance |-> balance, spent |-> acc.spent,
                                             cast |-> acc.cast, to |-> acc.to, delegates |-> acc.delegates]
  BY DEF AccountRow

\* Earning keeps every account paid.
LEMMA Earns == \A v \in Voters : PaidInv /\ add_credits(v) => PaidInv'
<1> SUFFICES ASSUME PaidInv, NEW v \in Voters, add_credits(v) PROVE PaidInv'
  OBVIOUS
<1>t. VotingTypes /\ ProposalsInOrder /\ \A a \in Voters : Paid(a)
  BY DEF PaidInv
<1>1. PICK acc \in AccountRow : acc = account[v]
  BY <1>t DEF VotingTypes
<1>2. PICK sum \in Int : sum = acc.balance + Earning
  BY VotingAssumption DEF AccountRow
<1>3. PICK row \in AccountRow : row = [open |-> TRUE, balance |-> sum, spent |-> acc.spent,
                                      cast |-> acc.cast, to |-> acc.to, delegates |-> acc.delegates]
  BY DEF AccountRow
<1>4. account' = [account EXCEPT ![v] = row]
  <2>1. account' = [account EXCEPT ![v].open = TRUE, ![v].balance = @ + Earning]
    BY DEF add_credits
  <2>2. PICK opened \in AccountRow : opened = [open |-> TRUE, balance |-> acc.balance, spent |-> acc.spent,
                                      cast |-> acc.cast, to |-> acc.to, delegates |-> acc.delegates]
    BY DEF AccountRow
  <2>3. opened = [acc EXCEPT !.open = TRUE]
    BY <2>2, OpenedRow
  <2>4. row = [opened EXCEPT !.balance = sum]
    <3>1. row = [open |-> opened.open, balance |-> sum, spent |-> opened.spent,
                 cast |-> opened.cast, to |-> opened.to, delegates |-> opened.delegates]
      BY <1>3, <2>2
    <3> QED
      BY <3>1, BalanceSet
  <2>5. opened.balance = acc.balance
    BY <2>2
  <2>6. account'[v] = row /\ \A a \in Voters \ {v} : account'[a] = account[a]
    BY <1>t, <1>1, <1>2, <2>1, <2>3, <2>4, <2>5 DEF VotingTypes
  <2>7. account' = [a \in Voters |-> account'[a]]
    BY <1>t, <2>1 DEF VotingTypes
  <2> QED
    BY <1>t, <2>6, <2>7 DEF VotingTypes
<1>5. /\ account' \in [Voters -> AccountRow] /\ account'[v] = row /\ \A a \in Voters \ {v} : account'[a] = account[a]
      /\ earnings' \in [Voters -> Nat] /\ earnings'[v] = earnings[v] + 1 /\ \A a \in Voters \ {v} : earnings'[a] = earnings[a]
  <2>1. account \in [Voters -> AccountRow] /\ earnings \in [Voters -> Nat] /\ earnings' = [earnings EXCEPT ![v] = earnings[v] + 1]
    BY <1>t DEF VotingTypes, add_credits
  <2>2. /\ account' \in [Voters -> AccountRow] /\ account'[v] = row
        /\ \A a \in Voters \ {v} : account'[a] = account[a]
    BY <1>4, <2>1
  <2>3. /\ earnings' \in [Voters -> Nat] /\ earnings'[v] = earnings[v] + 1
        /\ \A a \in Voters \ {v} : earnings'[a] = earnings[a]
    BY <2>1
  <2> QED
    BY <2>2, <2>3
<1>6. UNCHANGED <<round, receipt, priority, boosting>>
  BY DEF add_credits
<1>7. VotingTypes' /\ ProposalsInOrder'
  BY <1>t, <1>5, <1>6 DEF VotingTypes, ProposalsInOrder, Proposed
<1>8. \A a \in Voters : Proposed(a)' = Proposed(a) /\ Boosted(a)' = Boosted(a)
  BY <1>6 DEF Proposed, Boosted
<1>9. ASSUME NEW a \in Voters PROVE Paid(a)'
  <2>1. CASE a # v
    BY <1>t, <1>5, <1>6, <1>8, <2>1, UntouchedIsPaid DEF Untouched
  <2>2. CASE a = v
    <3>1. row.balance = acc.balance + Earning /\ row.spent = acc.spent /\ row.cast = acc.cast
      BY <1>2, <1>3
    <3>2. Earning * (earnings[v] + 1) = Earning * earnings[v] + Earning
      BY <1>t, PaidNumbers, OneMoreAtThePrice
    <3>3. PICK n \in Int : n = Earning * earnings[v]
      BY <1>t, PaidNumbers
    <3>4. acc.balance = n - acc.spent /\ acc.balance \in Int /\ acc.spent \in Int /\ Earning \in Int
      BY <1>t, <1>1, <3>3, PaidNumbers DEF Paid
    <3>5. row.balance = (n + Earning) - row.spent
      BY <3>1, <3>4
    <3>6. account'[v].balance = Earning * earnings'[v] - account'[v].spent
      BY <1>5, <3>2, <3>3, <3>5
    <3>7. account'[v].spent = VotePrice * account'[v].cast + ProposalFee * Cardinality(Proposed(v)) + Bought(receipt, v)
                              + priority.rows[v] + Boosted(v)
      BY <1>t, <1>1, <1>5, <3>1 DEF Paid, Owed
    <3> QED
      BY <1>6, <1>8, <2>2, <3>6, <3>7 DEF Paid, Owed
  <2> QED
    BY <2>1, <2>2
<1> QED
  BY <1>7, <1>9 DEF PaidInv

\* A step of v that costs it an amount, and owes it for something.
LEMMA SpendsFor ==
  ASSUME PaidInv, VotingTypes', ProposalsInOrder', NEW v \in Voters, NEW amount \in Int, earnings' = earnings,
         account'[v].balance = account[v].balance - amount, account'[v].spent = account[v].spent + amount,
         Owed(v)' = Owed(v) + amount, \A a \in Voters \ {v} : Untouched(a)
  PROVE  PaidInv'
<1>1. VotingTypes /\ ProposalsInOrder /\ \A a \in Voters : Paid(a)
  BY DEF PaidInv
<1>2. PICK n \in Int : n = Earning * earnings[v]
  BY <1>1, PaidNumbers
<1>3. account[v].balance = n - account[v].spent /\ account[v].balance \in Int /\ account[v].spent \in Int
  BY <1>1, <1>2, PaidNumbers DEF Paid
<1>4. account'[v].balance = n - account'[v].spent
  BY <1>3
<1>5. account'[v].spent = Owed(v)'
  BY <1>1 DEF Paid
<1>6. Paid(v)'
  BY <1>2, <1>4, <1>5 DEF Paid
<1>7. \A a \in Voters \ {v} : Paid(a)'
  BY <1>1, UntouchedIsPaid
<1> QED
  BY <1>6, <1>7 DEF PaidInv

\* What an account should have spent is a number.
LEMMA OwedType == ASSUME VotingTypes, ProposalsInOrder, NEW v \in Voters PROVE Owed(v) \in Int
<1>1. VotePrice * account[v].cast \in Int /\ ProposalFee * Cardinality(Proposed(v)) \in Int
  BY PaidNumbers
<1> QED
  BY <1>1, PaidNumbers DEF Owed

\* What spending does to the accounts.
LEMMA AccountSpent ==
  ASSUME VotingTypes, NEW v \in Voters, NEW amount \in Int, account' = [account EXCEPT ![v] = Spend(@, amount)]
  PROVE  /\ account' \in [Voters -> AccountRow]
         /\ account'[v].balance = account[v].balance - amount /\ account'[v].spent = account[v].spent + amount
         /\ account'[v].cast = account[v].cast /\ \A a \in Voters \ {v} : account'[a] = account[a]
<1>1. account \in [Voters -> AccountRow]
  BY DEF VotingTypes
<1>2. PICK row \in AccountRow : /\ row = Spend(account[v], amount) /\ row.balance = account[v].balance - amount
                               /\ row.spent = account[v].spent + amount /\ row.cast = account[v].cast
  BY <1>1, SpentRow
<1>3. account' = [account EXCEPT ![v] = row]
  BY <1>2
<1> QED
  BY <1>1, <1>2, <1>3

\* A round with a proposer.
LEMMA ProposedRow ==
  ASSUME NEW row \in RoundRow, NEW st, NEW by
  PROVE  [row EXCEPT !.st = st, !.by = by] = [st |-> st, late |-> row.late, by |-> by, votes |-> row.votes, winner |-> row.winner]
<1>1. PICK mid : mid = [row EXCEPT !.st = st]
  OBVIOUS
<1>2. mid = [st |-> st, late |-> row.late, by |-> row.by, votes |-> row.votes, winner |-> row.winner]
  BY <1>1 DEF RoundRow
<1>3. [row EXCEPT !.st = st, !.by = by] = [mid EXCEPT !.by = by]
  BY <1>1
<1>4. [mid EXCEPT !.by = by] = [st |-> st, late |-> row.late, by |-> by, votes |-> row.votes, winner |-> row.winner]
  BY <1>2
<1> QED
  BY <1>3, <1>4

\* Proposing keeps every account paid.
LEMMA Proposes == \A v \in Voters, r \in Rounds : PaidInv /\ create_vote(v, r) => PaidInv'
<1> SUFFICES ASSUME PaidInv, NEW v \in Voters, NEW r \in Rounds, create_vote(v, r) PROVE PaidInv'
  OBVIOUS
<1>t. VotingTypes /\ ProposalsInOrder /\ ProposalFee \in Int
  BY VotingAssumption DEF PaidInv
<1>1. account' = [account EXCEPT ![v] = Spend(@, ProposalFee)] /\ UNCHANGED <<receipt, priority, boosting, earnings>>
  BY DEF create_vote
<1>2. PICK row \in RoundRow : row = [round[r] EXCEPT !.st = "pending", !.by = v] /\ row.by = v /\ row.st = "pending"
  <2>1. PICK old \in RoundRow : old = round[r]
    BY <1>t DEF VotingTypes
  <2>2. PICK row \in RoundRow : row = [st |-> "pending", late |-> old.late, by |-> v, votes |-> old.votes, winner |-> old.winner]
    BY DEF RoundRow, RoundStatus
  <2>3. row = [old EXCEPT !.st = "pending", !.by = v]
    BY <2>2, ProposedRow
  <2> QED
    BY <2>1, <2>2, <2>3
<1>3. round' = [round EXCEPT ![r] = row]
  <2>1. round' = [round EXCEPT ![r].st = "pending", ![r].by = v]
    BY DEF create_vote
  <2> QED
    BY <1>t, <1>2, <2>1 DEF VotingTypes
<1>4. round' \in [Rounds -> RoundRow] /\ round'[r] = row /\ \A q \in Rounds \ {r} : round'[q] = round[q]
  BY <1>t, <1>3 DEF VotingTypes
<1>5. round[r].by = NoVoter
  BY <1>t DEF create_vote, ProposalsInOrder
<1>6. Proposed(v)' = Proposed(v) \cup {r} /\ r \notin Proposed(v) /\ \A a \in Voters \ {v} : Proposed(a)' = Proposed(a)
  BY <1>2, <1>4, <1>5, VotingAssumption, ZenonT(40) DEF Proposed
<1>7. PICK mine : mine = Proposed(v) /\ IsFiniteSet(mine) /\ r \notin mine
  BY <1>t, <1>6 DEF ProposalsInOrder
<1>8. IsFiniteSet(Proposed(v)') /\ Cardinality(Proposed(v)') = Cardinality(Proposed(v)) + 1
  BY <1>6, <1>7, FS_AddElement
<1>9. ProposalsInOrder'
  <2>1. \A q \in Rounds : round'[q].st = "none" => round'[q].by = NoVoter
    BY <1>t, <1>2, <1>4 DEF ProposalsInOrder
  <2>2. \A a \in Voters : IsFiniteSet(Proposed(a)')
    BY <1>t, <1>6, <1>8 DEF ProposalsInOrder
  <2> QED
    BY <2>1, <2>2 DEF ProposalsInOrder
<1>10. /\ account' \in [Voters -> AccountRow]
       /\ account'[v].balance = account[v].balance - ProposalFee /\ account'[v].spent = account[v].spent + ProposalFee
       /\ account'[v].cast = account[v].cast /\ \A a \in Voters \ {v} : account'[a] = account[a]
  BY <1>t, <1>1, AccountSpent
<1>11. VotingTypes'
  BY <1>t, <1>1, <1>4, <1>10 DEF VotingTypes
<1>12. \A a \in Voters : Boosted(a)' = Boosted(a)
  BY <1>1 DEF Boosted
<1>13. \A a \in Voters \ {v} : Untouched(a)
  BY <1>1, <1>6, <1>10, <1>12 DEF Untouched
<1>14. Owed(v)' = Owed(v) + ProposalFee
  <2>1. PICK n \in Int : n = Cardinality(Proposed(v))
    BY <1>t, PaidNumbers
  <2>2. ProposalFee * Cardinality(Proposed(v)') = ProposalFee * n + ProposalFee
    BY <1>t, <1>8, <2>1, OneMoreAtThePrice
  <2>3. PICK fees \in Int : fees = ProposalFee * n
    BY <1>t, <2>1
  <2>4. PICK votes \in Int : votes = VotePrice * account[v].cast
    BY <1>t, PaidNumbers
  <2>5. Owed(v) = votes + fees + Bought(receipt, v) + priority.rows[v] + Boosted(v)
    BY <2>1, <2>3, <2>4 DEF Owed
  <2>6. Owed(v)' = votes + (fees + ProposalFee) + Bought(receipt, v) + priority.rows[v] + Boosted(v)
    BY <1>1, <1>10, <1>12, <2>2, <2>3, <2>4 DEF Owed
  <2> QED
    BY <1>t, <2>5, <2>6, PaidNumbers
<1> QED
  BY <1>1, <1>9, <1>10, <1>11, <1>13, <1>14, <1>t, SpendsFor

\* A round with other votes.
LEMMA VotesSet ==
  ASSUME NEW row \in RoundRow, NEW votes \in [Voters -> Cast]
  PROVE  /\ [row EXCEPT !.votes = votes] \in RoundRow
         /\ [row EXCEPT !.votes = votes].by = row.by /\ [row EXCEPT !.votes = votes].st = row.st
  BY DEF RoundRow

\* What a vote does to the rounds.
LEMMA RoundVoted ==
  ASSUME VotingTypes, NEW v \in Voters, NEW r \in Rounds, NEW o \in {"yes", "no"},
         round' = [round EXCEPT ![r].votes[v] = o]
  PROVE  /\ round' \in [Rounds -> RoundRow]
         /\ \A q \in Rounds : round'[q].by = round[q].by /\ round'[q].st = round[q].st
<1>1. round \in [Rounds -> RoundRow]
  BY DEF VotingTypes
<1>2. PICK row \in RoundRow : row = round[r]
  BY <1>1
<1>3. PICK votes : votes = [row.votes EXCEPT ![v] = o]
  OBVIOUS
<1>4. votes \in [Voters -> Cast]
  BY <1>3 DEF RoundRow, Cast
<1>5. PICK new \in RoundRow : new = [row EXCEPT !.votes = votes] /\ new.by = row.by /\ new.st = row.st
  BY <1>4, VotesSet
<1>6. round' = [round EXCEPT ![r] = new]
  BY <1>2, <1>3, <1>5
<1> QED
  BY <1>1, <1>2, <1>5, <1>6

\* Rounds with the same proposers and statuses cost the same.
LEMMA SameRoundsInOrder ==
  ASSUME ProposalsInOrder, \A q \in Rounds : round'[q].by = round[q].by /\ round'[q].st = round[q].st
  PROVE  ProposalsInOrder' /\ \A v : Proposed(v)' = Proposed(v)
<1>1. \A v : Proposed(v)' = Proposed(v)
  BY DEF Proposed
<1> QED
  BY <1>1 DEF ProposalsInOrder

\* An account with another number of votes.
LEMMA CastSet ==
  ASSUME NEW acc \in AccountRow, NEW n \in Int
  PROVE  /\ [acc EXCEPT !.cast = n] \in AccountRow /\ [acc EXCEPT !.cast = n].balance = acc.balance
         /\ [acc EXCEPT !.cast = n].spent = acc.spent /\ [acc EXCEPT !.cast = n].cast = n
  BY DEF AccountRow

\* Casting a vote keeps every account paid.
LEMMA Casts == \A v \in Voters, r \in Rounds, o \in {"yes", "no"} : PaidInv /\ cast_vote(v, r, o) => PaidInv'
<1> SUFFICES ASSUME PaidInv, NEW v \in Voters, NEW r \in Rounds, NEW o \in {"yes", "no"}, cast_vote(v, r, o)
             PROVE  PaidInv'
  OBVIOUS
<1>t. VotingTypes /\ ProposalsInOrder /\ VotePrice \in Int /\ round \in [Rounds -> RoundRow] /\ account \in [Voters -> AccountRow]
  BY VotingAssumption DEF PaidInv, VotingTypes
<1>1. UNCHANGED <<receipt, priority, boosting, earnings>>
  BY DEF cast_vote
<1>2. CASE round[r].late
  <2>1. round' = [round EXCEPT ![r].st = "expired"] /\ UNCHANGED account
    BY <1>2 DEF cast_vote
  <2>2. PICK row \in RoundRow : row = [round[r] EXCEPT !.st = "expired"] /\ row.by = round[r].by /\ row.st = "expired"
    <3>1. PICK old \in RoundRow : old = round[r]
      BY <1>t
    <3>2. "expired" \in RoundStatus
      BY DEF RoundStatus
    <3> QED
      BY <3>1, <3>2, RoundSet
  <2>3. round' = [round EXCEPT ![r] = row]
    BY <2>1, <2>2
  <2>4. round' \in [Rounds -> RoundRow] /\ round'[r] = row /\ \A q \in Rounds \ {r} : round'[q] = round[q]
    BY <1>t, <2>3
  <2>5. \A q \in Rounds : round'[q].by = round[q].by /\ (round'[q].st = "none" => round[q].st = "none")
    BY <2>2, <2>4
  <2> QED
    BY <1>1, <2>1, <2>4, <2>5, RoundsMoveOn
<1>3. CASE ~round[r].late
  <2>1. /\ round' = [round EXCEPT ![r].votes[v] = o]
        /\ account' = [account EXCEPT ![v] = [Spend(account[v], VotePrice) EXCEPT !.cast = account[v].cast + 1]]
    <3>1. /\ round' = [round EXCEPT ![r].votes[v] = o]
          /\ account' = [account EXCEPT ![v] = [Spend(account[v], VotePrice) EXCEPT !.cast = Spend(account[v], VotePrice).cast + 1]]
      BY <1>3 DEF cast_vote
    <3> QED
      BY <1>t, <3>1, SpentRow
  <2>2. /\ round' \in [Rounds -> RoundRow]
        /\ \A q \in Rounds : round'[q].by = round[q].by /\ round'[q].st = round[q].st
    BY <1>t, <2>1, RoundVoted
  <2>3. ProposalsInOrder' /\ \A a : Proposed(a)' = Proposed(a)
    BY <1>t, <2>2, SameRoundsInOrder
  <2>4. PICK paid \in AccountRow : /\ paid = Spend(account[v], VotePrice) /\ paid.balance = account[v].balance - VotePrice
                                   /\ paid.spent = account[v].spent + VotePrice /\ paid.cast = account[v].cast
    BY <1>t, SpentRow
  <2>5. account[v].cast + 1 \in Int
    BY <1>t, PaidNumbers
  <2>6. PICK row \in AccountRow : /\ row = [paid EXCEPT !.cast = account[v].cast + 1] /\ row.balance = paid.balance
                                  /\ row.spent = paid.spent /\ row.cast = account[v].cast + 1
    BY <2>5, CastSet
  <2>7. account' = [account EXCEPT ![v] = row]
    BY <2>1, <2>4, <2>6
  <2>8. account' \in [Voters -> AccountRow] /\ account'[v] = row /\ \A a \in Voters \ {v} : account'[a] = account[a]
    BY <1>t, <2>7
  <2>9. VotingTypes'
    BY <1>t, <1>1, <2>2, <2>8 DEF VotingTypes
  <2>10. \A a \in Voters : Boosted(a)' = Boosted(a)
    BY <1>1 DEF Boosted
  <2>11. \A a \in Voters \ {v} : Untouched(a)
    BY <1>1, <2>3, <2>8, <2>10 DEF Untouched
  <2>12. Owed(v)' = Owed(v) + VotePrice
    <3>1. PICK n \in Int : n = account[v].cast
      BY <1>t, PaidNumbers
    <3>2. VotePrice * account'[v].cast = VotePrice * n + VotePrice
      BY <1>t, <2>6, <2>8, <3>1, OneMoreAtThePrice
    <3>3. PICK votes \in Int : votes = VotePrice * n
      BY <1>t, <3>1
    <3>4. PICK fees \in Int : fees = ProposalFee * Cardinality(Proposed(v))
      BY <1>t, PaidNumbers
    <3>5. Owed(v) = votes + fees + Bought(receipt, v) + priority.rows[v] + Boosted(v)
      BY <3>1, <3>3, <3>4 DEF Owed
    <3>6. Owed(v)' = (votes + VotePrice) + fees + Bought(receipt, v) + priority.rows[v] + Boosted(v)
      BY <1>1, <2>3, <2>10, <3>2, <3>3, <3>4 DEF Owed
    <3> QED
      BY <1>t, <3>5, <3>6, PaidNumbers
  <2> QED
    BY <1>1, <1>t, <2>3, <2>4, <2>6, <2>8, <2>9, <2>11, <2>12, SpendsFor, ZenonT(40)
<1> QED
  BY <1>2, <1>3

\* Buying votes keeps every account paid.
LEMMA BuysVotes ==
  \A v \in Voters, r \in Rounds, n \in 1 .. 2 : PaidInv /\ cast_quadratic_vote(v, r, "no", n) => PaidInv'
<1> SUFFICES ASSUME PaidInv, NEW v \in Voters, NEW r \in Rounds, NEW n \in 1 .. 2, cast_quadratic_vote(v, r, "no", n)
             PROVE  PaidInv'
  OBVIOUS
<1>t. VotingTypes /\ ProposalsInOrder
  BY DEF PaidInv
<1>1. PICK cost \in Int : cost = calculate_quadratic_cost(n)
  BY CostType
<1>2. /\ account' = [account EXCEPT ![v] = Spend(@, cost)] /\ UNCHANGED <<priority, boosting, earnings>>
      /\ round' = round \/ round' = [round EXCEPT ![r].votes[v] = "no"]
  BY <1>1 DEF cast_quadratic_vote
<1>3. PICK c \in Receipt : /\ c = [voter |-> v, round |-> r, option |-> "no", votes |-> n, recent |-> TRUE]
                           /\ c.voter = v /\ c.votes = n
  <2>1. PICK option \in {"yes", "no"}, fresh \in BOOLEAN : option = "no" /\ fresh = TRUE
    OBVIOUS
  <2>2. PICK c : c = [voter |-> v, round |-> r, option |-> option, votes |-> n, recent |-> fresh]
    OBVIOUS
  <2>3. c \in Receipt /\ c.voter = v /\ c.votes = n
    BY <2>2 DEF Receipt
  <2> QED
    BY <2>1, <2>2, <2>3
<1>4. receipt' = Append(receipt, c)
  BY <1>3 DEF cast_quadratic_vote
<1>5. /\ receipt' \in Seq(Receipt) /\ Bought(receipt', v) = Bought(receipt, v) + cost
      /\ \A a \in Voters \ {v} : Bought(receipt', a) = Bought(receipt, a)
  BY <1>t, <1>1, <1>3, <1>4, BoughtMore DEF VotingTypes
<1>6. /\ round' \in [Rounds -> RoundRow]
      /\ \A q \in Rounds : round'[q].by = round[q].by /\ round'[q].st = round[q].st
  <2>1. CASE round' = round
    BY <1>t, <2>1 DEF VotingTypes
  <2>2. CASE round' = [round EXCEPT ![r].votes[v] = "no"]
    BY <1>t, <2>2, RoundVoted
  <2> QED
    BY <1>2, <2>1, <2>2
<1>7. ProposalsInOrder' /\ \A a : Proposed(a)' = Proposed(a)
  BY <1>t, <1>6, SameRoundsInOrder
<1>8. /\ account' \in [Voters -> AccountRow]
      /\ account'[v].balance = account[v].balance - cost /\ account'[v].spent = account[v].spent + cost
      /\ account'[v].cast = account[v].cast /\ \A a \in Voters \ {v} : account'[a] = account[a]
  BY <1>t, <1>2, AccountSpent
<1>9. VotingTypes'
  BY <1>t, <1>2, <1>5, <1>6, <1>8 DEF VotingTypes
<1>10. \A a \in Voters : Boosted(a)' = Boosted(a)
  BY <1>2 DEF Boosted
<1>11. \A a \in Voters \ {v} : Untouched(a)
  BY <1>2, <1>5, <1>7, <1>8, <1>10 DEF Untouched
<1>12. Owed(v)' = Owed(v) + cost
  <2>1. PICK votes \in Int : votes = VotePrice * account[v].cast
    BY <1>t, PaidNumbers
  <2>2. PICK fees \in Int : fees = ProposalFee * Cardinality(Proposed(v))
    BY <1>t, PaidNumbers
  <2>3. Owed(v) = votes + fees + Bought(receipt, v) + priority.rows[v] + Boosted(v)
    BY <2>1, <2>2 DEF Owed
  <2>4. Owed(v)' = votes + fees + (Bought(receipt, v) + cost) + priority.rows[v] + Boosted(v)
    BY <1>2, <1>5, <1>7, <1>8, <1>10, <2>1, <2>2 DEF Owed
  <2> QED
    BY <1>t, <2>3, <2>4, PaidNumbers
<1> QED
  BY <1>2, <1>7, <1>8, <1>9, <1>11, <1>12, SpendsFor

\* An hour that passes keeps every account paid.
LEMMA HourKeepsCosts == PaidInv /\ HourPasses => PaidInv'
<1> SUFFICES ASSUME PaidInv, HourPasses PROVE PaidInv'
  OBVIOUS
<1>t. VotingTypes /\ ProposalsInOrder /\ receipt \in Seq(Receipt)
  BY DEF PaidInv, VotingTypes
<1>1. UNCHANGED <<account, round, priority, boosting, earnings>>
  BY DEF HourPasses
<1>2. PICK n \in Nat : n = Len(receipt)
  BY <1>t
<1>3. \A i \in 1 .. n : receipt[i] \in Receipt
  BY <1>t, <1>2
<1>4. receipt' = [i \in 1 .. n |-> [receipt[i] EXCEPT !.recent = FALSE]]
  BY <1>t, <1>2 DEF HourPasses
<1>5. ASSUME NEW c \in Receipt
      PROVE  /\ [c EXCEPT !.recent = FALSE] \in Receipt
             /\ [c EXCEPT !.recent = FALSE].voter = c.voter /\ [c EXCEPT !.recent = FALSE].votes = c.votes
  <2>1. PICK fresh \in BOOLEAN : fresh = FALSE
    OBVIOUS
  <2>2. PICK d : d = [c EXCEPT !.recent = fresh]
    OBVIOUS
  <2>3. d = [voter |-> c.voter, round |-> c.round, option |-> c.option, votes |-> c.votes, recent |-> fresh]
    BY <2>2 DEF Receipt
  <2>4. d \in Receipt /\ d.voter = c.voter /\ d.votes = c.votes
    BY <2>3 DEF Receipt
  <2> QED
    BY <2>1, <2>2, <2>4
<1>6. \A i \in 1 .. n : receipt'[i] \in Receipt /\ receipt'[i].voter = receipt[i].voter /\ receipt'[i].votes = receipt[i].votes
  BY <1>3, <1>4, <1>5
<1>7. receipt' \in Seq(Receipt) /\ Len(receipt') = Len(receipt)
  <2>1. PICK qs : qs = receipt'
    OBVIOUS
  <2>2. qs \in [1 .. n -> Receipt]
    BY <1>4, <1>6, <2>1
  <2>3. qs \in Seq(Receipt) /\ Len(qs) = n
    BY <2>2
  <2> QED
    BY <1>2, <2>1, <2>3
<1>8. \A v : Bought(receipt', v) = Bought(receipt, v)
  BY <1>t, <1>2, <1>6, <1>7, BoughtSame
<1>9. \A v : Proposed(v)' = Proposed(v) /\ Boosted(v)' = Boosted(v)
  BY <1>1 DEF Proposed, Boosted
<1>10. VotingTypes' /\ ProposalsInOrder'
  BY <1>t, <1>1, <1>7, <1>9 DEF VotingTypes, ProposalsInOrder
<1>11. \A v \in Voters : Untouched(v)
  BY <1>1, <1>8, <1>9 DEF Untouched
<1> QED
  BY <1>10, <1>11, UntouchedIsPaid DEF PaidInv

\* Steps on a job's boost that cost nothing and record nothing.
LEMMA BoostMovesOn ==
  ASSUME PaidInv, UNCHANGED <<account, round, receipt, earnings>>,
         priority' \in [known : BOOLEAN, total : Int, rows : [Voters -> Int]], priority'.rows = priority.rows,
         boosting' \in [Voters -> BoostState], \A v \in Voters : Boosted(v)' = Boosted(v)
  PROVE  PaidInv'
<1>1. VotingTypes' /\ ProposalsInOrder' /\ \A v : Proposed(v)' = Proposed(v)
  BY DEF PaidInv, VotingTypes, ProposalsInOrder, Proposed
<1>2. \A v \in Voters : Untouched(v)
  BY <1>1 DEF Untouched
<1> QED
  BY <1>1, <1>2, UntouchedIsPaid DEF PaidInv

\* Reading a job's priority keeps every account paid.
LEMMA ReadsAJob == \A v \in Voters : PaidInv /\ vote_v1(v) => PaidInv'
<1> SUFFICES ASSUME PaidInv, NEW v \in Voters, vote_v1(v) PROVE PaidInv'
  OBVIOUS
<1>1. boosting \in [Voters -> BoostState] /\ boosting' = [boosting EXCEPT ![v] = "read"] /\ boosting[v] = "no"
  BY DEF PaidInv, VotingTypes, vote_v1
<1>2. boosting' \in [Voters -> BoostState] /\ \A a \in Voters : boosting'[a] \in {"spent", "refused"} <=> boosting[a] \in {"spent", "refused"}
  BY <1>1 DEF BoostState
<1>3. \A a \in Voters : Boosted(a)' = Boosted(a)
  BY <1>2 DEF Boosted
<1> QED
  BY <1>2, <1>3, BoostMovesOn DEF vote_v1, PaidInv, VotingTypes

\* Spending on a job keeps every account paid.
LEMMA SpendsOnAJob == \A v \in Voters : PaidInv /\ spend_on_job(v) => PaidInv'
<1> SUFFICES ASSUME PaidInv, NEW v \in Voters, spend_on_job(v) PROVE PaidInv'
  OBVIOUS
<1>t. VotingTypes /\ ProposalsInOrder /\ VotePrice \in Int /\ boosting \in [Voters -> BoostState]
  BY VotingAssumption DEF PaidInv, VotingTypes
<1>1. boosting[v] = "read" /\ UNCHANGED <<round, receipt, priority, earnings>>
  BY DEF spend_on_job
<1>2. CASE ~CanSpend(v, VotePrice)
  <2>1. UNCHANGED account /\ boosting' = [boosting EXCEPT ![v] = "no"]
    BY <1>2 DEF spend_on_job
  <2>2. boosting' \in [Voters -> BoostState] /\ \A a \in Voters : boosting'[a] \in {"spent", "refused"} <=> boosting[a] \in {"spent", "refused"}
    BY <1>t, <1>1, <2>1 DEF BoostState
  <2>3. \A a \in Voters : Boosted(a)' = Boosted(a)
    BY <2>2 DEF Boosted
  <2> QED
    BY <1>t, <1>1, <2>1, <2>2, <2>3, BoostMovesOn DEF VotingTypes
<1>3. CASE CanSpend(v, VotePrice)
  <2>1. account' = [account EXCEPT ![v] = Spend(@, VotePrice)] /\ boosting' = [boosting EXCEPT ![v] = "spent"]
    BY <1>3 DEF spend_on_job
  <2>2. /\ account' \in [Voters -> AccountRow]
        /\ account'[v].balance = account[v].balance - VotePrice /\ account'[v].spent = account[v].spent + VotePrice
        /\ account'[v].cast = account[v].cast /\ \A a \in Voters \ {v} : account'[a] = account[a]
    BY <1>t, <2>1, AccountSpent
  <2>3. /\ boosting' \in [Voters -> BoostState] /\ boosting'[v] = "spent"
        /\ \A a \in Voters \ {v} : boosting'[a] = boosting[a]
    BY <1>t, <2>1 DEF BoostState
  <2>4. Boosted(v) = 0 /\ Boosted(v)' = VotePrice /\ \A a \in Voters \ {v} : Boosted(a)' = Boosted(a)
    BY <1>1, <2>3 DEF Boosted
  <2>5. ProposalsInOrder' /\ \A a : Proposed(a)' = Proposed(a)
    BY <1>t, <1>1 DEF ProposalsInOrder, Proposed
  <2>6. VotingTypes'
    BY <1>t, <1>1, <2>2, <2>3 DEF VotingTypes
  <2>7. \A a \in Voters \ {v} : Untouched(a)
    BY <1>1, <2>2, <2>4, <2>5 DEF Untouched
  <2>8. Owed(v)' = Owed(v) + VotePrice
    <3>1. PICK votes \in Int : votes = VotePrice * account[v].cast
      BY <1>t, PaidNumbers
    <3>2. PICK fees \in Int : fees = ProposalFee * Cardinality(Proposed(v))
      BY <1>t, PaidNumbers
    <3>3. Owed(v) = votes + fees + Bought(receipt, v) + priority.rows[v] + 0
      BY <2>4, <3>1, <3>2 DEF Owed
    <3>4. Owed(v)' = votes + fees + Bought(receipt, v) + priority.rows[v] + VotePrice
      BY <1>1, <2>2, <2>4, <2>5, <3>1, <3>2 DEF Owed
    <3> QED
      BY <1>t, <3>3, <3>4, PaidNumbers
  <2> QED
    BY <1>t, <1>1, <2>2, <2>5, <2>6, <2>7, <2>8, SpendsFor
<1> QED
  BY <1>2, <1>3

\* A priority with another row, or known by now, and its total.
LEMMA PriorityRow ==
  ASSUME NEW p, NEW known, NEW total, NEW rows, p = [known |-> known, total |-> total, rows |-> rows],
         NEW v, NEW m, NEW n, NEW k
  PROVE  /\ [p EXCEPT !.rows[v] = n, !.total = m] = [known |-> known, total |-> m, rows |-> [rows EXCEPT ![v] = n]]
         /\ [p EXCEPT !.known = k, !.total = m] = [known |-> k, total |-> m, rows |-> rows]
<1>1. PICK new : new = [rows EXCEPT ![v] = n]
  OBVIOUS
<1>2. PICK q : q = [known |-> known, total |-> total, rows |-> new]
  OBVIOUS
<1>3. [p EXCEPT !.rows = new] = q /\ [q EXCEPT !.total = m] = [known |-> known, total |-> m, rows |-> new]
  BY <1>2
<1>4. [p EXCEPT !.rows[v] = n, !.total = m] = [[p EXCEPT !.rows = new] EXCEPT !.total = m]
  BY <1>1
<1>5. PICK u : u = [known |-> k, total |-> total, rows |-> rows]
  OBVIOUS
<1>6. [p EXCEPT !.known = k] = u /\ [u EXCEPT !.total = m] = [known |-> k, total |-> m, rows |-> rows]
  BY <1>5
<1>7. [p EXCEPT !.known = k, !.total = m] = [[p EXCEPT !.known = k] EXCEPT !.total = m]
  OBVIOUS
<1> QED
  BY <1>1, <1>3, <1>4, <1>6, <1>7

\* Recording a boost keeps every account paid.
LEMMA RecordsOnAJob == \A v \in Voters : PaidInv /\ record_on_job(v) => PaidInv'
<1> SUFFICES ASSUME PaidInv, NEW v \in Voters, record_on_job(v) PROVE PaidInv'
  OBVIOUS
<1>t. VotingTypes /\ ProposalsInOrder /\ VotePrice \in Int /\ \A a \in Voters : Paid(a)
  BY VotingAssumption DEF PaidInv
<1>0. boosting[v] = "spent" /\ UNCHANGED <<account, round, receipt, earnings>>
  BY DEF record_on_job
<1>r. CASE ~priority.known
  <2>1. boosting' = [boosting EXCEPT ![v] = "refused"] /\ priority' = priority
    BY <1>r DEF record_on_job, record_vote
  <2>2. boosting' \in [Voters -> BoostState] /\ \A a \in Voters : boosting'[a] \in {"spent", "refused"} <=> boosting[a] \in {"spent", "refused"}
    BY <1>t, <1>0, <2>1 DEF VotingTypes, BoostState
  <2>3. \A a \in Voters : Boosted(a)' = Boosted(a)
    BY <2>2 DEF Boosted
  <2> QED
    BY <1>t, <1>0, <2>1, <2>2, <2>3, BoostMovesOn DEF VotingTypes
<1> SUFFICES ASSUME priority.known PROVE PaidInv'
  BY <1>r
<1>1. /\ boosting[v] = "spent" /\ boosting' = [boosting EXCEPT ![v] = "no"] /\ UNCHANGED <<account, round, receipt, earnings>>
      /\ priority' = [priority EXCEPT !.rows[v] = @ + VotePrice, !.total = @ + VotePrice]
  BY <1>0 DEF record_on_job, record_vote
<1>2. PICK known \in BOOLEAN, total \in Int, rows \in [Voters -> Int] : priority = [known |-> known, total |-> total, rows |-> rows]
  BY <1>t DEF VotingTypes
<1>3. PICK new \in [Voters -> Int] : new = [rows EXCEPT ![v] = rows[v] + VotePrice]
  <2>1. rows[v] + VotePrice \in Int
    BY <1>t
  <2> QED
    BY <2>1
<1>4. PICK sum \in Int : priority' = [known |-> known, total |-> sum, rows |-> new]
  <2>1. PICK sum \in Int : sum = priority.total + VotePrice
    BY <1>t, <1>2
  <2>2. PICK n : n = rows[v] + VotePrice
    OBVIOUS
  <2>3. priority' = [priority EXCEPT !.rows[v] = n, !.total = sum]
    BY <1>1, <1>2, <2>1, <2>2
  <2> QED
    BY <1>2, <1>3, <2>1, <2>2, <2>3, PriorityRow
<1>5. /\ priority' \in [known : BOOLEAN, total : Int, rows : [Voters -> Int]]
      /\ priority'.rows = new /\ priority.rows = rows
  BY <1>2, <1>4
<1>6. new[v] = rows[v] + VotePrice /\ \A a \in Voters \ {v} : new[a] = rows[a]
  BY <1>3
<1>7. /\ boosting' \in [Voters -> BoostState] /\ boosting'[v] = "no"
      /\ \A a \in Voters \ {v} : boosting'[a] = boosting[a]
  BY <1>t, <1>1 DEF VotingTypes, BoostState
<1>8. Boosted(v) = VotePrice /\ Boosted(v)' = 0 /\ \A a \in Voters \ {v} : Boosted(a)' = Boosted(a)
  BY <1>1, <1>7 DEF Boosted
<1>9. ProposalsInOrder' /\ \A a : Proposed(a)' = Proposed(a)
  BY <1>t, <1>1 DEF ProposalsInOrder, Proposed
<1>10. VotingTypes'
  BY <1>t, <1>1, <1>5, <1>7 DEF VotingTypes
<1>11. \A a \in Voters \ {v} : Paid(a)'
  BY <1>t, <1>1, <1>5, <1>6, <1>8, <1>9, UntouchedIsPaid DEF Untouched
<1>12. Paid(v)'
  <2>1. PICK votes \in Int : votes = VotePrice * account[v].cast
    BY <1>t, PaidNumbers
  <2>2. PICK fees \in Int : fees = ProposalFee * Cardinality(Proposed(v))
    BY <1>t, PaidNumbers
  <2>3. Owed(v) = votes + fees + Bought(receipt, v) + rows[v] + VotePrice
    BY <1>5, <1>8, <2>1, <2>2 DEF Owed
  <2>4. Owed(v)' = votes + fees + Bought(receipt, v) + (rows[v] + VotePrice) + 0
    BY <1>1, <1>5, <1>6, <1>8, <1>9, <2>1, <2>2 DEF Owed
  <2>5. Bought(receipt, v) \in Int /\ rows[v] \in Int
    BY <1>t, <1>2, PaidNumbers
  <2>6. Owed(v)' = Owed(v)
    BY <1>t, <2>3, <2>4, <2>5
  <2> QED
    BY <1>t, <1>1, <2>6 DEF Paid
<1> QED
  BY <1>9, <1>10, <1>11, <1>12 DEF PaidInv

\* Clearing a job keeps every account paid.
LEMMA JobIsCleared == PaidInv /\ JobCleared => PaidInv'
<1> SUFFICES ASSUME PaidInv, JobCleared PROVE PaidInv'
  OBVIOUS
<1>1. priority' = [priority EXCEPT !.known = FALSE, !.total = 0] /\ UNCHANGED <<account, round, receipt, boosting, earnings>>
  BY DEF JobCleared
<1>2. PICK known \in BOOLEAN, total \in Int, rows \in [Voters -> Int] : priority = [known |-> known, total |-> total, rows |-> rows]
  BY DEF PaidInv, VotingTypes
<1>3. priority' = [known |-> FALSE, total |-> 0, rows |-> rows]
  BY <1>1, <1>2, PriorityRow
<1>4. priority' \in [known : BOOLEAN, total : Int, rows : [Voters -> Int]] /\ priority'.rows = rows /\ priority.rows = rows
  BY <1>2, <1>3
<1>5. \A v \in Voters : Boosted(v)' = Boosted(v)
  BY <1>1 DEF Boosted
<1> QED
  BY <1>1, <1>4, <1>5, BoostMovesOn DEF PaidInv, VotingTypes

\* Every account is paid at first.
LEMMA NothingOwedAtFirst == VotingInit => PaidInv
<1> SUFFICES ASSUME VotingInit PROVE PaidInv
  OBVIOUS
<1>1. /\ \A v \in Voters : account[v].balance = 0 /\ account[v].spent = 0 /\ account[v].cast = 0
      /\ \A v \in Voters : priority.rows[v] = 0 /\ earnings[v] = 0 /\ Boosted(v) = 0
      /\ receipt = <<>> /\ \A r \in Rounds : round[r].by = NoVoter
  BY DEF VotingInit, CreditAccount, Vote, Boosted
<1>2. VotingTypes
  <2>1. CreditAccount \in AccountRow
    BY DEF CreditAccount, AccountRow
  <2>2. Vote \in RoundRow
    BY DEF Vote, RoundRow, RoundStatus, Cast
  <2>3. priority \in [known : BOOLEAN, total : Int, rows : [Voters -> Int]]
    BY DEF VotingInit
  <2>4. /\ account \in [Voters -> AccountRow] /\ earnings \in [Voters -> Nat] /\ round \in [Rounds -> RoundRow]
        /\ boosting \in [Voters -> BoostState] /\ receipt \in Seq(Receipt)
    BY <2>1, <2>2 DEF VotingInit, BoostState
  <2> QED
    BY <2>3, <2>4 DEF VotingTypes
<1>3. \A v \in Voters : Proposed(v) = {}
  BY <1>1, VotingAssumption DEF Proposed
<1>4. ProposalsInOrder
  BY <1>1, <1>3, FS_EmptySet DEF ProposalsInOrder
<1>5. ASSUME NEW v \in Voters PROVE Paid(v)
  <2>1. Bought(receipt, v) = 0
    <3>1. Mine(receipt, v) = {} /\ receipt \in Seq(Receipt)
      BY <1>1 DEF Mine
    <3>2. Bought(receipt, v) = SumFunction(CostOf(receipt, v))
      BY <3>1, BoughtIs
    <3>3. CostOf(receipt, v) \in [{} -> Int]
      BY <3>1, BoughtIs
    <3>4. SumFunction(CostOf(receipt, v)) = 0
      <4>1. PICK f \in [{} -> Int] : f = CostOf(receipt, v)
        BY <3>3
      <4>2. PICK g : Sums(f, {}, g) /\ SumFunction(f) = g[{}]
        BY FS_EmptySet, SumFunctionIs
      <4>3. g[{}] = 0
        BY <4>2 DEF Sums, SumsTo
      <4> QED
        BY <4>1, <4>2, <4>3
    <3> QED
      BY <3>2, <3>4
  <2>2. Cardinality(Proposed(v)) = 0
    BY <1>3, FS_EmptySet
  <2>3. VotePrice * 0 = 0 /\ ProposalFee * 0 = 0 /\ Earning * 0 = 0
    BY VotingAssumption
  <2> QED
    BY <1>1, <2>1, <2>2, <2>3 DEF Paid, Owed
<1> QED
  BY <1>2, <1>4, <1>5 DEF PaidInv

\* Every step keeps every account paid.
LEMMA EveryStepIsPaid == PaidInv /\ [VotingNext]_votingVars => PaidInv'
<1> SUFFICES ASSUME PaidInv, [VotingNext]_votingVars PROVE PaidInv'
  OBVIOUS
<1>1. CASE UNCHANGED votingVars
  <2>1. UNCHANGED <<account, round, receipt, priority, boosting, earnings>>
    BY <1>1 DEF votingVars
  <2> QED
    BY <2>1, AccountsReshaped DEF PaidInv, VotingTypes
<1>2. ASSUME NEW v \in Voters,
             \/ create_account(v) \/ revoke_delegation(v) \/ spend_on_job(v) \/ record_on_job(v)
             \/ \E d \in Voters : delegate_vote(v, d)
             \/ \E r \in Rounds, o \in {"yes", "no"} : cast_vote(v, r, o)
      PROVE  PaidInv'
  BY <1>2, OpensAnAccount, Revokes, SpendsOnAJob, RecordsOnAJob, Delegates, Casts
<1>3. ASSUME NEW v \in Earners, add_credits(v) PROVE PaidInv'
  BY <1>3, Earns, VotingAssumption
<1>4. ASSUME NEW v \in Callers,
             \/ vote_v1(v)
             \/ \E r \in Rounds : create_vote(v, r) \/ \E n \in 1 .. 2 : cast_quadratic_vote(v, r, "no", n)
      PROVE  PaidInv'
  BY <1>4, ReadsAJob, Proposes, BuysVotes, VotingAssumption
<1>5. ASSUME NEW r \in Rounds, finalize_vote(r) \/ get_vote_status(r) \/ RoundRunsLate(r) PROVE PaidInv'
  BY <1>5, Finalizes, Expires DEF get_vote_status
<1>6. CASE expire_votes \/ cleanup_expired_votes \/ HourPasses \/ JobCleared
  BY <1>6, Expires, HourKeepsCosts, JobIsCleared
<1> QED
  BY <1>1, <1>2, <1>3, <1>4, <1>5, <1>6 DEF VotingNext

\* A row is written only for a job that is there, and a job with rows is not deleted.
LEMMA RowsKeepTheirJob == PaidInv /\ RowsHaveTheirJob /\ [VotingNext]_votingVars => RowsHaveTheirJob'
<1> SUFFICES ASSUME PaidInv, RowsHaveTheirJob, [VotingNext]_votingVars PROVE RowsHaveTheirJob'
  OBVIOUS
<1>t. /\ boosting \in [Voters -> BoostState] /\ priority \in [known : BOOLEAN, total : Int, rows : [Voters -> Int]]
  BY DEF PaidInv, VotingTypes
<1>1. CASE priority' = priority /\ \A a \in Voters : boosting'[a] = "refused" => boosting[a] = "refused"
  BY <1>1 DEF RowsHaveTheirJob
<1>2. CASE UNCHANGED <<priority, boosting>>
  BY <1>2 DEF RowsHaveTheirJob
<1>3. ASSUME NEW v \in Voters, record_on_job(v) PROVE RowsHaveTheirJob'
  <2>1. CASE priority.known
    <3>1. /\ boosting' = [boosting EXCEPT ![v] = "no"]
          /\ priority' = [priority EXCEPT !.rows[v] = @ + VotePrice, !.total = @ + VotePrice]
      BY <1>3, <2>1 DEF record_on_job, record_vote
    <3>2. priority'.known /\ \A a \in Voters : boosting'[a] = boosting[a] \/ boosting'[a] = "no"
      BY <1>t, <2>1, <3>1
    <3> QED
      BY <2>1, <3>2 DEF RowsHaveTheirJob
  <2>2. CASE ~priority.known
    <3>1. priority' = priority
      BY <1>3, <2>2 DEF record_on_job, record_vote
    <3> QED
      BY <2>2, <3>1 DEF RowsHaveTheirJob
  <2> QED
    BY <2>1, <2>2
<1>4. ASSUME NEW v \in Voters, vote_v1(v) \/ spend_on_job(v) PROVE RowsHaveTheirJob'
  <2>1. priority' = priority /\ \E to \in {"no", "read", "spent"} : boosting' = [boosting EXCEPT ![v] = to]
    BY <1>4 DEF vote_v1, spend_on_job
  <2> QED
    BY <1>t, <1>1, <2>1
<1>5. CASE JobCleared
  <2>1. /\ priority' = [priority EXCEPT !.known = FALSE, !.total = 0] /\ boosting' = boosting
        /\ \A v \in Voters : priority.rows[v] = 0
    BY <1>5 DEF JobCleared
  <2>2. priority'.known = FALSE /\ priority'.rows = priority.rows
    BY <1>t, <2>1
  <2> QED
    BY <2>1, <2>2 DEF RowsHaveTheirJob
<1>6. ASSUME NEW v \in Voters,
             \/ create_account(v) \/ revoke_delegation(v) \/ add_credits(v)
             \/ \E d \in Voters : delegate_vote(v, d)
             \/ \E r \in Rounds : create_vote(v, r) \/ \E o \in {"yes", "no"} : cast_vote(v, r, o)
             \/ \E r \in Rounds, n \in 1 .. 2 : cast_quadratic_vote(v, r, "no", n)
      PROVE  RowsHaveTheirJob'
  BY <1>2, <1>6 DEF create_account, revoke_delegation, add_credits, delegate_vote, create_vote, cast_vote, cast_quadratic_vote
<1>7. CASE \/ \E r \in Rounds : finalize_vote(r) \/ get_vote_status(r) \/ RoundRunsLate(r)
           \/ expire_votes \/ cleanup_expired_votes \/ HourPasses \/ UNCHANGED votingVars
  BY <1>2, <1>7 DEF finalize_vote, get_vote_status, RoundRunsLate, expire_votes, cleanup_expired_votes, HourPasses, votingVars
<1> QED
  BY <1>3, <1>4, <1>5, <1>6, <1>7, VotingAssumption DEF VotingNext

\* Paid accounts whose rows have their job are what the property asks for.
LEMMA PaidIsPaidFor == PaidInv /\ RowsHaveTheirJob => VotesArePaidFor
  BY DEF PaidInv, Paid, Owed, Boosted, Proposed, Bought, Mine, RowsHaveTheirJob, VotesArePaidFor

\* Every vote, proposal, quadratic vote and boost is paid for out of what was earned, a boost without a row is
\* under way or was refused because its job had been deleted, and no row outlives its job, for any numbers of
\* voters, rounds and receipts and any prices.
THEOREM VotesArePaid == VotingSpec => []VotesArePaidFor
<1>1. VotingInit => PaidInv /\ RowsHaveTheirJob
  BY NothingOwedAtFirst DEF VotingInit, RowsHaveTheirJob
<1>2. PaidInv /\ RowsHaveTheirJob /\ [VotingNext]_votingVars => (PaidInv /\ RowsHaveTheirJob)'
  BY EveryStepIsPaid, RowsKeepTheirJob
<1>3. PaidInv /\ RowsHaveTheirJob => VotesArePaidFor
  BY PaidIsPaidFor
<1> QED
  BY <1>1, <1>2, <1>3, PTL DEF VotingSpec

-----------------------------------------------------------------------------
(* Credits: the rows of the two ledgers, a row at a time. *)
CreditRecord == [who : Holders, amount : Int]
CreditRow == [who : Holders, kind : {"earn", "transfer_out", "transfer_in"}, amount : Int]
CreditsSpec == CreditsInit /\ [][CreditsNext]_creditsVars

\* Rows 1 to n, each of an amount.
Listed(rs, n) == n \in Nat /\ DOMAIN rs = 1 .. n /\ \A i \in 1 .. n : rs[i].amount \in Int
OneRowMore(rs, n, qs) ==
  Listed(rs, n) /\ DOMAIN qs = 1 .. n + 1 /\ qs[n + 1].amount \in Int /\ \A i \in 1 .. n : qs[i] = rs[i]

RowsOf(rs, w) == {i \in DOMAIN rs : rs[i].who = w}
AmountOf(rs, w) == [i \in RowsOf(rs, w) |-> rs[i].amount]

AmountsAre(rs, S, g) == g = [s \in SUBSET S |-> IF s = {} THEN 0 ELSE rs[Pick(s)].amount + g[Rest(s)]]
TheAmounts(rs, S) == CHOOSE g : AmountsAre(rs, S, g)

\* The amounts of rows as a sum.
LEMMA AmountsSum ==
  ASSUME NEW rs, NEW S, IsFiniteSet(S), NEW f \in [S -> Int], \A i \in S : f[i] = rs[i].amount
  PROVE  MapThenSumSet(LAMBDA i : rs[i].amount, S) = SumFunction(f)
<1>1. ASSUME NEW k PROVE Sums(f, S, k) <=> AmountsAre(rs, S, k)
  <2>1. \A s \in SUBSET S : s # {} => f[Pick(s)] = rs[Pick(s)].amount
    BY PickIsOne
  <2>2. [s \in SUBSET S |-> IF s = {} THEN 0 ELSE f[Pick(s)] + k[Rest(s)]]
        = [s \in SUBSET S |-> IF s = {} THEN 0 ELSE rs[Pick(s)].amount + k[Rest(s)]]
    BY <2>1
  <2> QED
    BY <2>2 DEF Sums, SumsTo, AmountsAre
<1>2. \E k : AmountsAre(rs, S, k)
  BY <1>1, SumsExist
<1>3. PICK g : g = TheAmounts(rs, S) /\ Sums(f, S, g)
  <2>1. AmountsAre(rs, S, TheAmounts(rs, S))
    BY <1>2 DEF TheAmounts
  <2> QED
    BY <1>1, <2>1
<1>4. MapThenSumSet(LAMBDA i : rs[i].amount, S) = g[S]
  BY <1>3 DEF MapThenSumSet, MapThenFoldSet, Pick, Rest, TheAmounts, AmountsAre
<1>5. PICK h : Sums(f, S, h) /\ SumFunction(f) = h[S]
  BY SumFunctionIs
<1>6. S \in SUBSET S
  OBVIOUS
<1>7. g[S] = h[S]
  BY <1>3, <1>5, <1>6, SumsAgree
<1> QED
  BY <1>4, <1>5, <1>7

\* A balance is a sum over the rows of its holder.
LEMMA BalanceIs ==
  ASSUME NEW rs, NEW n, Listed(rs, n), NEW w
  PROVE  /\ IsFiniteSet(RowsOf(rs, w)) /\ RowsOf(rs, w) \in SUBSET (1 .. n)
         /\ AmountOf(rs, w) \in [RowsOf(rs, w) -> Int]
         /\ Balance(rs, w) = SumFunction(AmountOf(rs, w)) /\ Balance(rs, w) \in Int
<1>1. RowsOf(rs, w) \in SUBSET (1 .. n) /\ IsFiniteSet(RowsOf(rs, w))
  <2>1. RowsOf(rs, w) \in SUBSET (1 .. n) /\ n \in Nat
    BY DEF RowsOf, Listed
  <2>2. IsFiniteSet(1 .. n)
    BY <2>1, FS_Interval
  <2> QED
    BY <2>1, <2>2, FS_Subset
<1>2. AmountOf(rs, w) \in [RowsOf(rs, w) -> Int] /\ \A i \in RowsOf(rs, w) : AmountOf(rs, w)[i] = rs[i].amount
  BY <1>1 DEF AmountOf, Listed
<1>3. Balance(rs, w) = SumFunction(AmountOf(rs, w))
  BY <1>1, <1>2, AmountsSum DEF Balance, RowsOf
<1> QED
  BY <1>1, <1>2, <1>3, SumType

\* The same amounts of the same holders, whatever else the rows say.
LEMMA BalanceSame ==
  ASSUME NEW rs, NEW n, Listed(rs, n), NEW qs, DOMAIN qs = 1 .. n,
         \A i \in 1 .. n : qs[i].who = rs[i].who /\ qs[i].amount = rs[i].amount, NEW w
  PROVE  Balance(qs, w) = Balance(rs, w)
<1>1. Listed(qs, n) /\ RowsOf(qs, w) = RowsOf(rs, w)
  BY DEF Listed, RowsOf
<1>2. \A i \in RowsOf(rs, w) : qs[i].amount = rs[i].amount
  BY BalanceIs
<1>3. AmountOf(qs, w) = AmountOf(rs, w)
  BY <1>1, <1>2 DEF AmountOf
<1> QED
  BY <1>1, <1>3, BalanceIs

\* A new row changes the balance of its holder by its amount.
LEMMA BalanceMore ==
  ASSUME NEW rs, NEW n, NEW qs, OneRowMore(rs, n, qs), NEW w
  PROVE  Balance(qs, w) = Balance(rs, w) + (IF qs[n + 1].who = w THEN qs[n + 1].amount ELSE 0)
<1>0. /\ Listed(rs, n) /\ Listed(qs, n + 1) /\ n + 1 \notin DOMAIN rs /\ DOMAIN qs = DOMAIN rs \cup {n + 1}
      /\ \A i \in DOMAIN rs : qs[i] = rs[i]
  BY DEF OneRowMore, Listed
<1>1. PICK last : last = n + 1
  OBVIOUS
<1>2. CASE qs[last].who # w
  <2>1. RowsOf(qs, w) = RowsOf(rs, w) /\ \A i \in RowsOf(rs, w) : qs[i] = rs[i]
    BY <1>0, <1>1, <1>2 DEF RowsOf
  <2>2. AmountOf(qs, w) = AmountOf(rs, w)
    BY <2>1 DEF AmountOf
  <2> QED
    BY <1>0, <1>1, <1>2, <2>2, BalanceIs
<1>3. CASE qs[last].who = w
  <2>1. /\ RowsOf(qs, w) = RowsOf(rs, w) \cup {last} /\ last \notin RowsOf(rs, w)
        /\ \A i \in RowsOf(rs, w) : qs[i] = rs[i]
    BY <1>0, <1>1, <1>3 DEF RowsOf
  <2>2. PICK f \in [RowsOf(rs, w) -> Int] : f = AmountOf(rs, w)
    BY <1>0, BalanceIs
  <2>3. PICK h \in [RowsOf(rs, w) \cup {last} -> Int] : h = AmountOf(qs, w)
    BY <1>0, <2>1, BalanceIs
  <2>4. h[last] = qs[last].amount /\ \A i \in RowsOf(rs, w) : h[i] = f[i]
    BY <2>1, <2>2, <2>3 DEF AmountOf
  <2>5. OneMore(RowsOf(rs, w), f, last, h)
    BY <1>0, <2>1, <2>4, BalanceIs DEF OneMore
  <2>6. SumFunction(h) = SumFunction(f) + h[last]
    BY <2>5, SumWithOneMore
  <2> QED
    BY <1>0, <1>1, <1>3, <2>2, <2>3, <2>4, <2>6, BalanceIs
<1> QED
  BY <1>1, <1>2, <1>3

\* An appended row is one row more.
LEMMA RowAdded ==
  ASSUME NEW X, \A x \in X : x.amount \in Int, NEW rs \in Seq(X), NEW c \in X
  PROVE  /\ Listed(rs, Len(rs)) /\ Append(rs, c) \in Seq(X) /\ OneRowMore(rs, Len(rs), Append(rs, c))
         /\ Append(rs, c)[Len(rs) + 1] = c
<1>1. PICK n \in Nat : n = Len(rs)
  OBVIOUS
<1>2. DOMAIN rs = 1 .. n /\ \A i \in 1 .. n : rs[i] \in X
  BY <1>1
<1>0. Append(rs, c) \in Seq(X)
  OBVIOUS
<1>3. PICK qs \in Seq(X) : qs = Append(rs, c)
  BY <1>0
<1>4. DOMAIN qs = 1 .. n + 1 /\ qs[n + 1] = c /\ \A i \in 1 .. n : qs[i] = rs[i]
  BY <1>1, <1>3
<1> QED
  BY <1>1, <1>2, <1>3, <1>4 DEF Listed, OneRowMore

\* A sequence of one element.
LEMMA SeqOfOne == ASSUME NEW X, NEW t \in Seq(X), Len(t) = 1 PROVE t = <<t[1]>>
  OBVIOUS

\* One or two records appended are appended one by one.
LEMMA SeqsOfOneAndTwo ==
  ASSUME NEW X, NEW rs \in Seq(X), NEW a \in X, NEW b \in X
  PROVE  /\ rs \o <<a>> = Append(rs, a) /\ rs \o <<a, b>> = Append(Append(rs, a), b)
         /\ rs \o SubSeq(<<a, b>>, 1, 0) = rs /\ rs \o SubSeq(<<a, b>>, 1, 1) = Append(rs, a)
         /\ rs \o SubSeq(<<a, b>>, 1, 2) = Append(Append(rs, a), b)
<1>1. rs \o <<a>> = Append(rs, a) /\ rs \o <<a, b>> = Append(Append(rs, a), b) /\ rs \o <<>> = rs
  OBVIOUS
<1>2. SubSeq(<<a, b>>, 1, 0) = <<>> /\ SubSeq(<<a, b>>, 1, 1) = <<a>> /\ SubSeq(<<a, b>>, 1, 2) = <<a, b>>
  <2>1. SubSeq(<<a, b>>, 1, 0) = <<>>
    OBVIOUS
  <2>0. <<a, b>> \in Seq(X)
    OBVIOUS
  <2>s. PICK s \in Seq(X) : s = <<a, b>> /\ Len(s) = 2 /\ s[1] = a
    BY <2>0
  <2>2. SubSeq(<<a, b>>, 1, 1) = <<a>>
    <3>1. PICK t \in Seq(X) : t = SubSeq(s, 1, 1) /\ Len(t) = 1 /\ t[1] = s[1]
      <4>1. SubSeq(s, 1, 1) \in Seq(X) /\ Len(SubSeq(s, 1, 1)) = 1 /\ SubSeq(s, 1, 1)[1] = s[1]
        BY <2>s
      <4> QED
        BY <4>1
    <3>2. t = <<t[1]>>
      BY <3>1, SeqOfOne
    <3> QED
      BY <2>s, <3>1, <3>2
  <2>3. SubSeq(<<a, b>>, 1, 2) = <<a, b>>
    <3>1. SubSeq(s, 1, Len(s)) = s
      BY SubSeqFull
    <3> QED
      BY <2>s, <3>1
  <2> QED
    BY <2>1, <2>2, <2>3
<1> QED
  BY <1>1, <1>2

-----------------------------------------------------------------------------
(* What all holders have together. *)
Held(rs) == [n \in Holders |-> Balance(rs, n)]
Earned(rs) == {i \in DOMAIN rs : rs[i].kind = "earn"}

HeldAre(rs, g) == g = [s \in SUBSET Holders |-> IF s = {} THEN 0 ELSE Balance(rs, Pick(s)) + g[Rest(s)]]
TheHeld(rs) == CHOOSE g : HeldAre(rs, g)

\* All balances together as a sum over the holders.
LEMMA HeldIs ==
  ASSUME NEW n, Listed(sql, n)
  PROVE  Held(sql) \in [Holders -> Int] /\ MapThenSumSet(get_node_credits, Holders) = SumFunction(Held(sql))
<1>0. PICK f \in [Holders -> Int] : f = Held(sql)
  BY BalanceIs DEF Held
<1>s. IsFiniteSet(Holders) /\ Holders \in SUBSET Holders /\ \A h \in Holders : f[h] = Balance(sql, h)
  BY <1>0, CreditsAssumption DEF Held
<1>1. ASSUME NEW k PROVE Sums(f, Holders, k) <=> HeldAre(sql, k)
  <2>1. \A s \in SUBSET Holders : s # {} => f[Pick(s)] = Balance(sql, Pick(s))
    BY <1>s, PickIsOne
  <2>2. [s \in SUBSET Holders |-> IF s = {} THEN 0 ELSE f[Pick(s)] + k[Rest(s)]]
        = [s \in SUBSET Holders |-> IF s = {} THEN 0 ELSE Balance(sql, Pick(s)) + k[Rest(s)]]
    BY <2>1
  <2> QED
    BY <1>s, <2>2 DEF Sums, SumsTo, HeldAre
<1>2. \E k : HeldAre(sql, k)
  BY <1>1, <1>s, SumsExist
<1>3. PICK g : g = TheHeld(sql) /\ Sums(f, Holders, g)
  <2>1. HeldAre(sql, TheHeld(sql))
    BY <1>2 DEF TheHeld
  <2> QED
    BY <1>1, <2>1
<1>4. MapThenSumSet(get_node_credits, Holders) = g[Holders]
  BY <1>3 DEF MapThenSumSet, MapThenFoldSet, Pick, Rest, TheHeld, HeldAre, get_node_credits
<1>5. PICK h : Sums(f, Holders, h) /\ SumFunction(f) = h[Holders]
  BY <1>s, SumFunctionIs
<1>6. g[Holders] = h[Holders]
  BY <1>3, <1>5, <1>s, SumsAgree
<1> QED
  BY <1>0, <1>4, <1>5, <1>6

\* A new row changes all balances together by its amount.
LEMMA HeldMore ==
  ASSUME NEW rs, NEW n, NEW qs, OneRowMore(rs, n, qs), qs[n + 1].who \in Holders
  PROVE  SumFunction(Held(qs)) = SumFunction(Held(rs)) + qs[n + 1].amount
<1>0. Listed(rs, n) /\ Listed(qs, n + 1) /\ IsFiniteSet(Holders) /\ qs[n + 1].amount \in Int
  BY CreditsAssumption DEF OneRowMore, Listed
<1>1. PICK who \in Holders : who = qs[n + 1].who
  OBVIOUS
<1>2. PICK f \in [Holders -> Int] : f = Held(rs)
  BY <1>0, BalanceIs DEF Held
<1>3. PICK h \in [Holders -> Int] : h = Held(qs)
  BY <1>0, BalanceIs DEF Held
<1>4. h[who] = f[who] + qs[n + 1].amount /\ \A w \in Holders \ {who} : h[w] = f[w]
  <2>1. \A w \in Holders : Balance(qs, w) = Balance(rs, w) + (IF qs[n + 1].who = w THEN qs[n + 1].amount ELSE 0)
    BY BalanceMore
  <2>2. \A w \in Holders : h[w] = f[w] + (IF who = w THEN qs[n + 1].amount ELSE 0)
    BY <1>1, <1>2, <1>3, <2>1 DEF Held
  <2> QED
    BY <1>2, <1>3, <2>2
<1>5. SumFunction(h) = SumFunction(f) - f[who] + h[who]
  BY <1>0, <1>4, SumWithOneChanged
<1>6. SumFunction(f) \in Int /\ f[who] \in Int
  BY <1>0, SumType
<1> QED
  BY <1>0, <1>2, <1>3, <1>4, <1>5, <1>6

\* A new row is one earn more if it is one.
LEMMA EarnedMore ==
  ASSUME NEW rs, NEW n, NEW qs, OneRowMore(rs, n, qs)
  PROVE  /\ Cardinality(Earned(rs)) \in Nat
         /\ Cardinality(Earned(qs)) = Cardinality(Earned(rs)) + (IF qs[n + 1].kind = "earn" THEN 1 ELSE 0)
<1>1. /\ n \in Nat /\ DOMAIN rs = 1 .. n /\ DOMAIN qs = DOMAIN rs \cup {n + 1} /\ n + 1 \notin DOMAIN rs
      /\ \A i \in DOMAIN rs : qs[i] = rs[i]
  BY DEF OneRowMore, Listed
<1>2. IsFiniteSet(Earned(rs)) /\ Cardinality(Earned(rs)) \in Nat
  <2>1. Earned(rs) \in SUBSET (1 .. n) /\ IsFiniteSet(1 .. n)
    BY <1>1, FS_Interval DEF Earned
  <2> QED
    BY <2>1, FS_Subset, FS_CardinalityType
<1>3. Earned(qs) = IF qs[n + 1].kind = "earn" THEN Earned(rs) \cup {n + 1} ELSE Earned(rs)
  BY <1>1 DEF Earned
<1>4. n + 1 \notin Earned(rs)
  BY <1>1 DEF Earned
<1> QED
  BY <1>2, <1>3, <1>4, FS_AddElement

-----------------------------------------------------------------------------
(* Credits: what the two ledgers hold, and what is on the way between them. *)
CreditsTypes ==
  /\ sql \in Seq(CreditRow) /\ records \in Seq(CreditRecord) /\ earning \in [Holders -> BOOLEAN]
  /\ xfer \in [pc : {"idle", "persist", "mirror"}, from : Holders \cup {"none"}, to : Holders \cup {"none"}, amount : Int]
  /\ waiting \in Int /\ history \in Int /\ persisted \in Int
  /\ xfer.pc # "idle" => xfer.from \in Holders /\ xfer.to \in Holders /\ xfer.from # xfer.to /\ xfer.amount > 0

\* In the signed ledger and not yet in the rows: an earn; the debit and the credit of a transfer.
Due(n) == IF earning[n] THEN 2 ELSE 0
Moved(n) ==
  IF xfer.pc # "mirror" THEN 0
  ELSE IF n = xfer.from THEN xfer.amount ELSE IF n = xfer.to THEN -xfer.amount ELSE 0

Conserved == /\ SumFunction(Held(sql)) = 2 * Cardinality(Earned(sql))
             /\ \A n \in Holders : Balance(sql, n) >= 0
Counted == /\ waiting = (IF xfer.pc = "idle" THEN 0 ELSE 1)
           /\ history = persisted + (IF xfer.pc = "persist" THEN 1 ELSE 0)
Mirrored == ~drifted => \A n \in Holders : Balance(records, n) = Balance(sql, n) + Due(n) + Moved(n)
CreditsInv == CreditsTypes /\ Conserved /\ Counted /\ Mirrored

\* What a new row changes in the SQL ledger.
LEMMA RowsMore ==
  ASSUME NEW rs \in Seq(CreditRow), NEW c \in CreditRow
  PROVE  /\ Append(rs, c) \in Seq(CreditRow)
         /\ \A w : Balance(rs, w) \in Int /\ Balance(Append(rs, c), w) = Balance(rs, w) + (IF c.who = w THEN c.amount ELSE 0)
         /\ SumFunction(Held(rs)) \in Int /\ SumFunction(Held(Append(rs, c))) = SumFunction(Held(rs)) + c.amount
         /\ Cardinality(Earned(rs)) \in Nat
         /\ Cardinality(Earned(Append(rs, c))) = Cardinality(Earned(rs)) + (IF c.kind = "earn" THEN 1 ELSE 0)
<1>1. \A x \in CreditRow : x.amount \in Int /\ x.who \in Holders
  BY DEF CreditRow
<1>2. PICK n, qs : /\ n = Len(rs) /\ qs = Append(rs, c) /\ qs \in Seq(CreditRow)
                   /\ Listed(rs, n) /\ OneRowMore(rs, n, qs) /\ qs[n + 1] = c
  BY <1>1, RowAdded, ZenonT(40)
<1>m. OneRowMore(rs, n, qs)
  BY <1>2
<1>3. \A w : Balance(rs, w) \in Int /\ Balance(qs, w) = Balance(rs, w) + (IF c.who = w THEN c.amount ELSE 0)
  <2> TAKE w
  <2>1. Balance(rs, w) \in Int
    BY <1>2, BalanceIs
  <2>2. Balance(qs, w) = Balance(rs, w) + (IF qs[n + 1].who = w THEN qs[n + 1].amount ELSE 0)
    BY <1>m, BalanceMore
  <2> QED
    BY <1>2, <2>1, <2>2
<1>4. SumFunction(Held(qs)) = SumFunction(Held(rs)) + c.amount
  BY <1>1, <1>2, HeldMore, ZenonT(40)
<1>5. SumFunction(Held(rs)) \in Int
  <2>1. PICK f \in [Holders -> Int] : f = Held(rs)
    BY <1>3 DEF Held
  <2> QED
    BY <2>1, SumType, CreditsAssumption
<1>6. /\ Cardinality(Earned(rs)) \in Nat
      /\ Cardinality(Earned(qs)) = Cardinality(Earned(rs)) + (IF c.kind = "earn" THEN 1 ELSE 0)
  <2>1. /\ Cardinality(Earned(rs)) \in Nat
        /\ Cardinality(Earned(qs)) = Cardinality(Earned(rs)) + (IF qs[n + 1].kind = "earn" THEN 1 ELSE 0)
    BY <1>2, EarnedMore
  <2> QED
    BY <1>2, <2>1
<1> QED
  BY <1>2, <1>3, <1>4, <1>5, <1>6

\* What a new record changes in the signed ledger.
LEMMA RecordsMore ==
  ASSUME NEW rs \in Seq(CreditRecord), NEW c \in CreditRecord
  PROVE  /\ Append(rs, c) \in Seq(CreditRecord)
         /\ \A w : Balance(rs, w) \in Int /\ Balance(Append(rs, c), w) = Balance(rs, w) + (IF c.who = w THEN c.amount ELSE 0)
<1>1. \A x \in CreditRecord : x.amount \in Int
  BY DEF CreditRecord
<1>2. PICK n, qs : /\ n = Len(rs) /\ qs = Append(rs, c) /\ qs \in Seq(CreditRecord)
                   /\ Listed(rs, n) /\ OneRowMore(rs, n, qs) /\ qs[n + 1] = c
  BY <1>1, RowAdded, ZenonT(40)
<1>m. OneRowMore(rs, n, qs)
  BY <1>2
<1>3. \A w : Balance(rs, w) \in Int /\ Balance(qs, w) = Balance(rs, w) + (IF c.who = w THEN c.amount ELSE 0)
  <2> TAKE w
  <2>1. Balance(rs, w) \in Int
    BY <1>2, BalanceIs
  <2>2. Balance(qs, w) = Balance(rs, w) + (IF qs[n + 1].who = w THEN qs[n + 1].amount ELSE 0)
    BY <1>m, BalanceMore
  <2> QED
    BY <1>2, <2>1, <2>2
<1> QED
  BY <1>2, <1>3

\* A record and its fields.
LEMMA RecordOf ==
  ASSUME NEW n \in Holders, NEW amount \in Int
  PROVE  /\ LedgerRecord(n, amount) \in CreditRecord
         /\ LedgerRecord(n, amount).who = n /\ LedgerRecord(n, amount).amount = amount
  BY DEF LedgerRecord, CreditRecord

\* A row and its fields.
LEMMA RowOf ==
  ASSUME NEW n \in Holders, NEW amount \in Int, NEW kind \in {"earn", "transfer_out", "transfer_in"}
  PROVE  /\ Row(n, kind, amount) \in CreditRow /\ Row(n, kind, amount).who = n
         /\ Row(n, kind, amount).amount = amount /\ Row(n, kind, amount).kind = kind
  BY DEF Row, CreditRow

\* Balances are integers.
LEMMA BalancesAreInt ==
  ASSUME CreditsTypes, NEW w PROVE Balance(sql, w) \in Int /\ Balance(records, w) \in Int
<1>1. Listed(sql, Len(sql)) /\ Listed(records, Len(records))
  <2>1. \A x \in CreditRow : x.amount \in Int
    BY DEF CreditRow
  <2>2. \A x \in CreditRecord : x.amount \in Int
    BY DEF CreditRecord
  <2> QED
    BY <2>1, <2>2 DEF Listed, CreditsTypes
<1> QED
  BY <1>1, BalanceIs

\* The record of an earn keeps both ledgers accounted for.
LEMMA EarnsInMemory == \A n \in Holders : CreditsInv /\ record_credit_earn_ledger(n) => CreditsInv'
<1> SUFFICES ASSUME CreditsInv, NEW n \in Holders, record_credit_earn_ledger(n) PROVE CreditsInv'
  OBVIOUS
<1>t. CreditsTypes /\ Conserved /\ Counted /\ Mirrored
  BY DEF CreditsInv
<1>1. /\ ~earning[n] /\ earning' = [earning EXCEPT ![n] = TRUE] /\ records' = records \o <<LedgerRecord(n, 2)>>
      /\ UNCHANGED <<sql, xfer, waiting, history, recent, persisted, drifted>>
  BY DEF record_credit_earn_ledger, append, transferVars, NoFault
<1>2. PICK c \in CreditRecord : c = LedgerRecord(n, 2) /\ c.who = n /\ c.amount = 2
  BY RecordOf
<1>3. records' = Append(records, c)
  BY <1>t, <1>1, <1>2, SeqsOfOneAndTwo DEF CreditsTypes
<1>4. /\ records' \in Seq(CreditRecord)
      /\ \A w : Balance(records, w) \in Int /\ Balance(records', w) = Balance(records, w) + (IF n = w THEN 2 ELSE 0)
  BY <1>t, <1>2, <1>3, RecordsMore DEF CreditsTypes
<1>5. earning' \in [Holders -> BOOLEAN] /\ earning'[n] /\ \A w \in Holders \ {n} : earning'[w] = earning[w]
  BY <1>t, <1>1 DEF CreditsTypes
<1>6. CreditsTypes' /\ Conserved' /\ Counted'
  BY <1>t, <1>1, <1>4, <1>5 DEF CreditsTypes, Conserved, Counted
<1>7. Mirrored'
  <2> SUFFICES ASSUME ~drifted', NEW w \in Holders
               PROVE  Balance(records', w) = Balance(sql', w) + Due(w)' + Moved(w)'
    BY DEF Mirrored
  <2>1. Balance(records, w) = Balance(sql, w) + Due(w) + Moved(w)
    BY <1>t, <1>1 DEF Mirrored
  <2>2. Moved(w)' = Moved(w) /\ Moved(w) \in Int /\ Balance(sql, w) \in Int
    BY <1>t, <1>1, BalancesAreInt DEF Moved, CreditsTypes
  <2>3. Due(w)' = Due(w) + (IF n = w THEN 2 ELSE 0) /\ Due(w) \in Int
    BY <1>1, <1>5 DEF Due
  <2> QED
    BY <1>1, <1>4, <2>1, <2>2, <2>3
<1> QED
  BY <1>6, <1>7 DEF CreditsInv

\* The row of an earn, written or not, keeps both ledgers accounted for.
LEMMA EarnsInRows == \A n \in Holders : CreditsInv /\ add_credits_row(n) => CreditsInv'
<1> SUFFICES ASSUME CreditsInv, NEW n \in Holders, add_credits_row(n) PROVE CreditsInv'
  OBVIOUS
<1>t. CreditsTypes /\ Conserved /\ Counted /\ Mirrored
  BY DEF CreditsInv
<1>1. /\ earning[n] /\ earning' = [earning EXCEPT ![n] = FALSE]
      /\ UNCHANGED <<records, xfer, waiting, history, recent, persisted>>
  BY DEF add_credits_row, ledgerVars, transferVars
<1>2. earning' \in [Holders -> BOOLEAN] /\ ~earning'[n] /\ \A w \in Holders \ {n} : earning'[w] = earning[w]
  BY <1>t, <1>1 DEF CreditsTypes
<1>3. CASE drifted' /\ UNCHANGED sql
  <2>1. CreditsTypes' /\ Conserved' /\ Counted'
    BY <1>t, <1>1, <1>2, <1>3 DEF CreditsTypes, Conserved, Counted
  <2> QED
    BY <1>3, <2>1 DEF CreditsInv, Mirrored
<1>4. CASE sql' = Append(sql, Row(n, "earn", 2)) /\ UNCHANGED drifted
  <2>1. PICK c \in CreditRow : c = Row(n, "earn", 2) /\ c.who = n /\ c.amount = 2 /\ c.kind = "earn"
    BY RowOf
  <2>2. /\ sql' \in Seq(CreditRow)
        /\ \A w : Balance(sql, w) \in Int /\ Balance(sql', w) = Balance(sql, w) + (IF n = w THEN 2 ELSE 0)
        /\ SumFunction(Held(sql)) \in Int /\ SumFunction(Held(sql')) = SumFunction(Held(sql)) + 2
        /\ Cardinality(Earned(sql)) \in Nat /\ Cardinality(Earned(sql')) = Cardinality(Earned(sql)) + 1
    BY <1>t, <1>4, <2>1, RowsMore DEF CreditsTypes
  <2>3. CreditsTypes' /\ Counted'
    BY <1>t, <1>1, <1>2, <2>2 DEF CreditsTypes, Counted
  <2>4. Conserved'
    BY <1>t, <2>2 DEF Conserved
  <2>5. Mirrored'
    <3> SUFFICES ASSUME ~drifted', NEW w \in Holders
                 PROVE  Balance(records', w) = Balance(sql', w) + Due(w)' + Moved(w)'
      BY DEF Mirrored
    <3>1. Balance(records, w) = Balance(sql, w) + Due(w) + Moved(w)
      BY <1>t, <1>4 DEF Mirrored
    <3>2. Moved(w)' = Moved(w) /\ Moved(w) \in Int
      BY <1>t, <1>1 DEF Moved, CreditsTypes
    <3>3. Due(w) = Due(w)' + (IF n = w THEN 2 ELSE 0) /\ Due(w)' \in Int
      BY <1>1, <1>2 DEF Due
    <3> QED
      BY <1>1, <2>2, <3>1, <3>2, <3>3
  <2> QED
    BY <2>3, <2>4, <2>5 DEF CreditsInv
<1> QED
  BY <1>3, <1>4 DEF add_credits_row, Fail, NoFault

\* A transfer that starts keeps both ledgers accounted for.
LEMMA TransferStarts ==
  \A from, to \in Holders, amount \in Amounts : CreditsInv /\ create_transfer(from, to, amount) => CreditsInv'
<1> SUFFICES ASSUME CreditsInv, NEW from \in Holders, NEW to \in Holders, NEW amount \in Amounts,
                    create_transfer(from, to, amount)
             PROVE  CreditsInv'
  OBVIOUS
<1>t. CreditsTypes /\ Conserved /\ Counted /\ Mirrored /\ amount \in Int
  BY CreditsAssumption DEF CreditsInv
<1>1. /\ xfer.pc = "idle" /\ from # to /\ amount > 0
      /\ xfer' = [pc |-> "persist", from |-> from, to |-> to, amount |-> amount]
      /\ waiting' = waiting + 1 /\ history' = history + 1 /\ UNCHANGED <<records, sql, earning, persisted, drifted>>
  BY DEF create_transfer, ledgerVars, NoFault
<1>2. /\ xfer' \in [pc : {"idle", "persist", "mirror"}, from : Holders \cup {"none"}, to : Holders \cup {"none"}, amount : Int]
      /\ xfer'.pc = "persist" /\ xfer'.from = from /\ xfer'.to = to /\ xfer'.amount = amount
  BY <1>t, <1>1
<1>3. CreditsTypes' /\ Counted'
  BY <1>t, <1>1, <1>2 DEF CreditsTypes, Counted
<1>4. Conserved' /\ Mirrored'
  BY <1>t, <1>1, <1>2 DEF Conserved, Mirrored, Due, Moved
<1> QED
  BY <1>3, <1>4 DEF CreditsInv

\* A transfer that is written or refused keeps both ledgers accounted for.
LEMMA TransferIsWritten == CreditsInv /\ persist_transfer => CreditsInv'
<1> SUFFICES ASSUME CreditsInv, persist_transfer PROVE CreditsInv'
  OBVIOUS
<1>t. CreditsTypes /\ Conserved /\ Counted /\ Mirrored
  BY DEF CreditsInv
<1>1. /\ xfer.pc = "persist" /\ Balance(sql, xfer.from) >= xfer.amount
      /\ sql' = sql \o <<Row(xfer.from, "transfer_out", -xfer.amount), Row(xfer.to, "transfer_in", xfer.amount)>>
      /\ persisted' = persisted + 1 /\ xfer' = [xfer EXCEPT !.pc = "mirror"]
      /\ UNCHANGED <<records, earning, waiting, history, drifted>>
  BY DEF persist_transfer, TransferRows, BothRows, get_node_credits, ledgerVars, NoFault
<1>2. PICK from \in Holders, to \in Holders, amount \in Int, minus \in Int :
        /\ from = xfer.from /\ to = xfer.to /\ from # to
        /\ amount = xfer.amount /\ minus = -xfer.amount /\ amount > 0 /\ minus + amount = 0
  BY <1>t, <1>1 DEF CreditsTypes
<1>3. PICK out \in CreditRow : out = Row(from, "transfer_out", minus) /\ out.who = from /\ out.amount = minus /\ out.kind # "earn"
  BY <1>2, RowOf
<1>4. PICK in \in CreditRow : in = Row(to, "transfer_in", amount) /\ in.who = to /\ in.amount = amount /\ in.kind # "earn"
  BY <1>2, RowOf
<1>5. PICK mid : mid = Append(sql, out)
  OBVIOUS
<1>6. /\ mid \in Seq(CreditRow)
      /\ \A w : Balance(sql, w) \in Int /\ Balance(mid, w) = Balance(sql, w) + (IF from = w THEN minus ELSE 0)
      /\ SumFunction(Held(sql)) \in Int /\ SumFunction(Held(mid)) = SumFunction(Held(sql)) + minus
      /\ Cardinality(Earned(sql)) \in Nat /\ Cardinality(Earned(mid)) = Cardinality(Earned(sql))
  <2>1. sql \in Seq(CreditRow)
    BY <1>t DEF CreditsTypes
  <2> QED
    BY <1>3, <1>5, <2>1, RowsMore
<1>7. sql' = Append(mid, in)
  <2>1. sql \in Seq(CreditRow)
    BY <1>t DEF CreditsTypes
  <2>2. sql' = sql \o <<out, in>>
    BY <1>1, <1>2, <1>3, <1>4
  <2> QED
    BY <1>5, <2>1, <2>2, SeqsOfOneAndTwo
<1>8. /\ sql' \in Seq(CreditRow)
      /\ \A w : Balance(sql', w) = Balance(mid, w) + (IF to = w THEN amount ELSE 0)
      /\ SumFunction(Held(sql')) = SumFunction(Held(mid)) + amount /\ Cardinality(Earned(sql')) = Cardinality(Earned(mid))
  BY <1>4, <1>6, <1>7, RowsMore
<1>9. \A w : Balance(sql', w) = Balance(sql, w) + (IF from = w THEN minus ELSE IF to = w THEN amount ELSE 0)
  <2> TAKE w
  <2>0. PICK b \in Int : b = Balance(sql, w)
    BY <1>6
  <2>1. CASE w = from
    <3>1. Balance(mid, w) = b + minus
      BY <1>6, <2>0, <2>1
    <3>2. Balance(sql', w) = Balance(mid, w) + 0
      BY <1>2, <1>8, <2>1
    <3> QED
      BY <2>0, <2>1, <3>1, <3>2
  <2>2. CASE w = to
    <3>1. Balance(mid, w) = b + 0
      BY <1>2, <1>6, <2>0, <2>2
    <3>2. Balance(sql', w) = Balance(mid, w) + amount
      BY <1>8, <2>2
    <3> QED
      BY <1>2, <2>0, <2>2, <3>1, <3>2
  <2>3. CASE w # from /\ w # to
    <3>1. Balance(mid, w) = b + 0
      BY <1>6, <2>0, <2>3
    <3>2. Balance(sql', w) = Balance(mid, w) + 0
      BY <1>8, <2>3
    <3> QED
      BY <2>0, <2>3, <3>1, <3>2
  <2> QED
    BY <2>1, <2>2, <2>3
<1>10. /\ xfer' \in [pc : {"idle", "persist", "mirror"}, from : Holders \cup {"none"}, to : Holders \cup {"none"}, amount : Int]
       /\ xfer'.pc = "mirror" /\ xfer'.from = from /\ xfer'.to = to /\ xfer'.amount = amount
  BY <1>t, <1>1, <1>2 DEF CreditsTypes
<1>11. CreditsTypes' /\ Counted'
  BY <1>t, <1>1, <1>2, <1>8, <1>10 DEF CreditsTypes, Counted
<1>12. Conserved'
  <2>1. SumFunction(Held(sql')) = 2 * Cardinality(Earned(sql'))
    BY <1>t, <1>2, <1>6, <1>8, SMTT(30) DEF Conserved
  <2>2. \A w \in Holders : Balance(sql', w) >= 0
    <3> TAKE w \in Holders
    <3>0. PICK b \in Int : b = Balance(sql, w) /\ b >= 0
      BY <1>t, <1>6 DEF Conserved
    <3>1. CASE w = from
      <4>1. b >= amount
        BY <1>1, <1>2, <3>0, <3>1
      <4>2. Balance(sql', w) = b + minus
        BY <1>9, <3>0, <3>1
      <4> QED
        BY <1>2, <4>1, <4>2
    <3>2. CASE w # from
      BY <1>2, <1>9, <3>0, <3>2
    <3> QED
      BY <3>1, <3>2
  <2> QED
    BY <2>1, <2>2 DEF Conserved
<1>13. Mirrored'
  <2> SUFFICES ASSUME ~drifted', NEW w \in Holders
               PROVE  Balance(records', w) = Balance(sql', w) + Due(w)' + Moved(w)'
    BY DEF Mirrored
  <2>1. Balance(records, w) = Balance(sql, w) + Due(w) + Moved(w)
    BY <1>t, <1>1 DEF Mirrored
  <2>2. Moved(w) = 0 /\ Moved(w)' = (IF from = w THEN amount ELSE IF to = w THEN minus ELSE 0)
    BY <1>1, <1>2, <1>10 DEF Moved
  <2>3. Due(w)' = Due(w) /\ Due(w) \in Int
    BY <1>1 DEF Due
  <2>4. Balance(sql, w) \in Int
    BY <1>6
  <2>5. Balance(sql', w) = Balance(sql, w) + (IF from = w THEN minus ELSE IF to = w THEN amount ELSE 0)
    BY <1>9
  <2> QED
    BY <1>1, <1>2, <2>1, <2>2, <2>3, <2>4, <2>5, SMTT(30)
<1> QED
  BY <1>11, <1>12, <1>13 DEF CreditsInv

\* No transfer is a state of a transfer.
LEMMA NoTransferIs ==
  /\ NoTransfer \in [pc : {"idle", "persist", "mirror"}, from : Holders \cup {"none"}, to : Holders \cup {"none"}, amount : Int]
  /\ NoTransfer.pc = "idle"
  BY DEF NoTransfer

\* A transfer that is rolled back keeps both ledgers accounted for.
LEMMA TransferIsRolledBack == CreditsInv /\ _rollback_transfer_record => CreditsInv'
<1> SUFFICES ASSUME CreditsInv, _rollback_transfer_record PROVE CreditsInv'
  OBVIOUS
<1>t. CreditsTypes /\ Conserved /\ Counted /\ Mirrored
  BY DEF CreditsInv
<1>1. /\ xfer.pc = "persist" /\ xfer' = NoTransfer /\ waiting' = waiting - 1 /\ history' = history - 1
      /\ UNCHANGED <<records, sql, earning, drifted, persisted>>
  BY DEF _rollback_transfer_record, ledgerVars
<1>2. CreditsTypes' /\ Counted'
  BY <1>t, <1>1, NoTransferIs DEF CreditsTypes, Counted
<1>3. Conserved' /\ Mirrored'
  BY <1>t, <1>1, NoTransferIs DEF Conserved, Mirrored, Due, Moved
<1> QED
  BY <1>2, <1>3 DEF CreditsInv

\* A transfer mirrored wholly, half or not at all keeps both ledgers accounted for.
LEMMA TransferIsMirrored == \A n \in 0 .. 2 : CreditsInv /\ _mirror_transfer(n) => CreditsInv'
<1> SUFFICES ASSUME CreditsInv, NEW n \in 0 .. 2, _mirror_transfer(n) PROVE CreditsInv'
  OBVIOUS
<1>t. CreditsTypes /\ Conserved /\ Counted /\ Mirrored
  BY DEF CreditsInv
<1>1. /\ xfer.pc = "mirror" /\ xfer' = NoTransfer /\ waiting' = waiting - 1
      /\ records' = records \o SubSeq(<<LedgerRecord(xfer.from, -xfer.amount), LedgerRecord(xfer.to, xfer.amount)>>, 1, n)
      /\ IF n = 2 THEN UNCHANGED drifted ELSE drifted'
      /\ UNCHANGED <<sql, earning, history, persisted>>
  BY DEF _mirror_transfer, append, NoFault, Fail
<1>2. PICK from \in Holders, to \in Holders, amount \in Int, minus \in Int :
        /\ from = xfer.from /\ to = xfer.to /\ from # to
        /\ amount = xfer.amount /\ minus = -xfer.amount /\ amount > 0 /\ minus + amount = 0
  BY <1>t, <1>1 DEF CreditsTypes
<1>3. PICK out \in CreditRecord : out = LedgerRecord(from, minus) /\ out.who = from /\ out.amount = minus
  BY <1>2, RecordOf
<1>4. PICK in \in CreditRecord : in = LedgerRecord(to, amount) /\ in.who = to /\ in.amount = amount
  BY <1>2, RecordOf
<1>5. PICK mid : mid = Append(records, out)
  OBVIOUS
<1>6. records' = IF n = 0 THEN records ELSE IF n = 1 THEN mid ELSE Append(mid, in)
  <2>1. records \in Seq(CreditRecord)
    BY <1>t DEF CreditsTypes
  <2>2. records' = records \o SubSeq(<<out, in>>, 1, n)
    BY <1>1, <1>2, <1>3, <1>4
  <2> QED
    BY <1>5, <2>1, <2>2, SeqsOfOneAndTwo
<1>7. /\ mid \in Seq(CreditRecord)
      /\ \A w : Balance(records, w) \in Int /\ Balance(mid, w) = Balance(records, w) + (IF from = w THEN minus ELSE 0)
  <2>1. records \in Seq(CreditRecord)
    BY <1>t DEF CreditsTypes
  <2> QED
    BY <1>3, <1>5, <2>1, RecordsMore
<1>8. /\ Append(mid, in) \in Seq(CreditRecord)
      /\ \A w : Balance(Append(mid, in), w) = Balance(mid, w) + (IF to = w THEN amount ELSE 0)
  BY <1>4, <1>7, RecordsMore
<1>9. records' \in Seq(CreditRecord)
  BY <1>t, <1>6, <1>7, <1>8 DEF CreditsTypes
<1>10. CreditsTypes' /\ Counted' /\ Conserved'
  BY <1>t, <1>1, <1>9, NoTransferIs DEF CreditsTypes, Counted, Conserved
<1>11. Mirrored'
  <2> SUFFICES ASSUME ~drifted', NEW w \in Holders
               PROVE  Balance(records', w) = Balance(sql', w) + Due(w)' + Moved(w)'
    BY DEF Mirrored
  <2>0. n = 2 /\ ~drifted
    BY <1>1
  <2>1. Balance(records, w) = Balance(sql, w) + Due(w) + Moved(w)
    BY <1>t, <2>0 DEF Mirrored
  <2>2. Moved(w)' = 0 /\ Moved(w) = (IF from = w THEN amount ELSE IF to = w THEN minus ELSE 0)
    BY <1>1, <1>2, NoTransferIs DEF Moved
  <2>3. Due(w)' = Due(w) /\ Due(w) \in Int
    BY <1>1 DEF Due
  <2>4. Balance(sql, w) \in Int /\ Balance(records, w) \in Int
    BY <1>t, BalancesAreInt
  <2>5. Balance(records', w) = Balance(records, w) + (IF from = w THEN minus ELSE 0) + (IF to = w THEN amount ELSE 0)
    <3>1. records' = Append(mid, in)
      BY <1>6, <2>0
    <3>2. Balance(mid, w) = Balance(records, w) + (IF from = w THEN minus ELSE 0)
      BY <1>7
    <3>3. Balance(Append(mid, in), w) = Balance(mid, w) + (IF to = w THEN amount ELSE 0)
      BY <1>8
    <3> QED
      BY <3>1, <3>2, <3>3
  <2>6. PICK b \in Int, due \in Int : b = Balance(sql, w) /\ due = Due(w) /\ Due(w)' = due /\ sql' = sql
    BY <1>1, <2>3, <2>4
  <2>7. CASE w = from
    BY <1>2, <2>1, <2>2, <2>5, <2>6, <2>7
  <2>8. CASE w = to
    BY <1>2, <2>1, <2>2, <2>5, <2>6, <2>8
  <2>9. CASE w # from /\ w # to
    BY <2>1, <2>2, <2>5, <2>6, <2>9
  <2> QED
    BY <2>7, <2>8, <2>9
<1> QED
  BY <1>10, <1>11 DEF CreditsInv

\* A boot keeps both ledgers accounted for.
LEMMA BootReplays == CreditsInv /\ Reboot => CreditsInv'
<1> SUFFICES ASSUME CreditsInv, Reboot PROVE CreditsInv'
  OBVIOUS
<1>t. CreditsTypes /\ Conserved /\ sql \in Seq(CreditRow)
  BY DEF CreditsInv, CreditsTypes
<1>1. /\ records' = Replayed(sql) /\ earning' = [h \in Holders |-> FALSE] /\ xfer' = NoTransfer
      /\ waiting' = 0 /\ history' = 0 /\ persisted' = 0 /\ UNCHANGED sql
  BY DEF Reboot, _replay_signed_ledger_from_sql
<1>2. PICK n \in Nat : n = Len(sql)
  BY <1>t
<1>3. DOMAIN sql = 1 .. n /\ \A i \in 1 .. n : sql[i] \in CreditRow
  BY <1>t, <1>2
<1>4. \A i \in 1 .. n : sql[i].who \in Holders /\ sql[i].amount \in Int
  BY <1>3 DEF CreditRow
<1>5. PICK rs : rs = records' /\ rs = [i \in 1 .. n |-> LedgerRecord(sql[i].who, sql[i].amount)]
  BY <1>1, <1>3 DEF Replayed
<1>6. \A i \in 1 .. n : rs[i] \in CreditRecord /\ rs[i].who = sql[i].who /\ rs[i].amount = sql[i].amount
  BY <1>4, <1>5, RecordOf
<1>7. rs \in Seq(CreditRecord) /\ DOMAIN rs = 1 .. n
  BY <1>2, <1>5, <1>6
<1>8. \A w : Balance(rs, w) = Balance(sql, w)
  <2> TAKE w
  <2>1. Listed(sql, n)
    BY <1>3, <1>4 DEF Listed
  <2> QED
    BY <1>6, <1>7, <2>1, BalanceSame
<1>9. earning' \in [Holders -> BOOLEAN] /\ \A w \in Holders : ~earning'[w]
  BY <1>1
<1>10. CreditsTypes' /\ Counted' /\ Conserved'
  BY <1>t, <1>1, <1>5, <1>7, <1>9, NoTransferIs DEF CreditsTypes, Counted, Conserved
<1>11. Mirrored'
  <2> SUFFICES ASSUME NEW w \in Holders PROVE Balance(records', w) = Balance(sql', w) + Due(w)' + Moved(w)'
    BY DEF Mirrored
  <2>1. Due(w)' = 0 /\ Moved(w)' = 0 /\ Balance(sql, w) \in Int
    BY <1>t, <1>1, <1>9, NoTransferIs, BalancesAreInt DEF Due, Moved
  <2> QED
    BY <1>1, <1>5, <1>8, <2>1
<1> QED
  BY <1>10, <1>11 DEF CreditsInv

\* Both ledgers are accounted for at first.
LEMMA CreditsBegin == CreditsInit => CreditsInv
<1> SUFFICES ASSUME CreditsInit PROVE CreditsInv
  OBVIOUS
<1>1. /\ records = <<>> /\ sql = <<>> /\ earning = [h \in Holders |-> FALSE] /\ xfer = NoTransfer
      /\ waiting = 0 /\ history = 0 /\ persisted = 0
  BY DEF CreditsInit, LedgerInit
<1>2. Listed(sql, 0) /\ Listed(records, 0)
  BY <1>1 DEF Listed
<1>3. \A w : Balance(sql, w) = 0 /\ Balance(records, w) = 0
  <2>1. ASSUME NEW rs, rs = <<>>, NEW w PROVE Balance(rs, w) = 0
    <3>1. Listed(rs, 0) /\ RowsOf(rs, w) = {}
      BY <2>1 DEF Listed, RowsOf
    <3>2. PICK f \in [RowsOf(rs, w) -> Int] : f = AmountOf(rs, w) /\ Balance(rs, w) = SumFunction(f) /\ IsFiniteSet(RowsOf(rs, w))
      BY <3>1, BalanceIs
    <3> QED
      BY <3>1, <3>2, SumType
  <2> QED
    BY <1>1, <2>1
<1>4. CreditsTypes
  BY <1>1, NoTransferIs DEF CreditsTypes
<1>5. Conserved
  <2>1. Earned(sql) = {} /\ Cardinality(Earned(sql)) = 0
    <3>1. Earned(sql) = {}
      BY <1>1 DEF Earned
    <3> QED
      BY <3>1, FS_EmptySet
  <2>2. SumFunction(Held(sql)) = 0
    <3>1. PICK f : f = Held(sql)
      OBVIOUS
    <3>2. \A h \in Holders : f[h] = 0
      BY <1>3, <3>1 DEF Held
    <3>3. f \in [Holders -> Int]
      BY <3>1, <3>2 DEF Held
    <3> QED
      BY <3>1, <3>2, <3>3, SumOfZeros, CreditsAssumption
  <2> QED
    BY <1>3, <2>1, <2>2 DEF Conserved
<1>6. Counted /\ Mirrored
  BY <1>1, <1>3, NoTransferIs DEF Counted, Mirrored, Due, Moved
<1> QED
  BY <1>4, <1>5, <1>6 DEF CreditsInv

\* Every step keeps both ledgers accounted for.
LEMMA CreditsKept == CreditsInv /\ [CreditsNext]_creditsVars => CreditsInv'
<1> SUFFICES ASSUME CreditsInv, [CreditsNext]_creditsVars PROVE CreditsInv'
  OBVIOUS
<1>1. CASE UNCHANGED creditsVars
  <2>1. UNCHANGED <<records, sql, earning, xfer, waiting, history, drifted, persisted>>
    BY <1>1 DEF creditsVars, ledgerVars
  <2> QED
    BY <2>1 DEF CreditsInv, CreditsTypes, Conserved, Counted, Mirrored, Due, Moved
<1>2. CASE HourOver
  <2>1. UNCHANGED <<records, sql, earning, xfer, waiting, history, drifted, persisted>>
    BY <1>2 DEF HourOver, ledgerVars, NoFault
  <2> QED
    BY <2>1 DEF CreditsInv, CreditsTypes, Conserved, Counted, Mirrored, Due, Moved
<1>3. ASSUME NEW n \in Holders, record_credit_earn_ledger(n) \/ add_credits_row(n) PROVE CreditsInv'
  BY <1>3, EarnsInMemory, EarnsInRows
<1>4. ASSUME NEW from \in Holders, NEW to \in Holders, NEW amount \in Amounts, create_transfer(from, to, amount)
      PROVE  CreditsInv'
  BY <1>4, TransferStarts
<1>5. CASE persist_transfer \/ _rollback_transfer_record \/ Reboot
  BY <1>5, TransferIsWritten, TransferIsRolledBack, BootReplays
<1>6. ASSUME NEW n \in 0 .. 2, _mirror_transfer(n) PROVE CreditsInv'
  BY <1>6, TransferIsMirrored
<1> QED
  BY <1>1, <1>2, <1>3, <1>4, <1>5, <1>6 DEF CreditsNext

\* Whatever fails and wherever the orchestrator dies, the rows of any number of holders add up to
\* what was earned and no balance is negative (transfer_credits_between_nodes, _rollback_transfer_record).
THEOREM TransfersAreConserved == CreditsSpec => []TransfersConserve
<1>1. CreditsInit => CreditsInv
  BY CreditsBegin
<1>2. CreditsInv /\ [CreditsNext]_creditsVars => CreditsInv'
  BY CreditsKept
<1>3. CreditsInv => TransfersConserve
  <2> SUFFICES ASSUME CreditsInv PROVE TransfersConserve
    OBVIOUS
  <2>1. Listed(sql, Len(sql))
    <3>1. \A x \in CreditRow : x.amount \in Int
      BY DEF CreditRow
    <3> QED
      BY <3>1 DEF Listed, CreditsInv, CreditsTypes
  <2>2. MapThenSumSet(get_node_credits, Holders) = SumFunction(Held(sql))
    BY <2>1, HeldIs
  <2>3. /\ SumFunction(Held(sql)) = 2 * Cardinality({i \in DOMAIN sql : sql[i].kind = "earn"})
        /\ \A n \in Holders : get_node_credits(n) >= 0
    BY DEF CreditsInv, Conserved, Earned, get_node_credits
  <2>4. xfer.pc = "idle" => waiting = 0 /\ history = persisted
    BY DEF CreditsInv, CreditsTypes, Counted
  <2> QED
    BY <2>2, <2>3, <2>4 DEF TransfersConserve
<1> QED
  BY <1>1, <1>2, <1>3, PTL DEF CreditsSpec

\* For any number of holders, earns and transfers: unless a write failed since the boot, the two ledgers
\* agree once nothing is under way (record_credit_earn, _mirror_transfer_to_signed_ledger).
THEOREM LedgersAgree == CreditsSpec => []DriftNeedsAFailure
<1>1. CreditsInit => CreditsInv
  BY CreditsBegin
<1>2. CreditsInv /\ [CreditsNext]_creditsVars => CreditsInv'
  BY CreditsKept
<1>3. CreditsInv => DriftNeedsAFailure
  <2> SUFFICES ASSUME CreditsInv, xfer.pc = "idle", \A n \in Holders : ~earning[n], ~drifted, NEW n \in Holders
               PROVE  get_balance(n) = get_node_credits(n)
    BY DEF DriftNeedsAFailure, Drift
  <2>1. Balance(records, n) = Balance(sql, n) + 0 + 0
    BY DEF CreditsInv, Mirrored, Due, Moved
  <2>2. Balance(sql, n) \in Int
    BY BalancesAreInt DEF CreditsInv
  <2> QED
    BY <2>1, <2>2 DEF get_balance, get_node_credits
<1> QED
  BY <1>1, <1>2, <1>3, PTL DEF CreditsSpec

-----------------------------------------------------------------------------
(* The Merkle tree: its functions are recursive, and each is what its         *)
(* equation says because the equation can be solved up to any level. No node  *)
(* is met twice, so a search by value finds the one parent, the walk of a     *)
(* proof climbs a level at a time, and each of its siblings tells the level   *)
(* above apart from a pair in the other order or of another hash.             *)
ShiftedFrom(index, m, f) == f = [i \in 0 .. m |-> IF i = 0 THEN index ELSE f[i - 1] \div 2]
BuiltFrom(leaves, m, T) ==
  T = [k \in 0 .. m |-> IF k = 0 THEN leaves
                        ELSE IF Len(T[k - 1]) = 1 THEN T[k - 1] ELSE PairUp(T[k - 1])]
WalkedFrom(x, root, nodes, m, w) ==
  w = [k \in 0 .. m |-> IF k = 0 THEN x ELSE IF w[k - 1] = root THEN root ELSE _find_parent(nodes, w[k - 1])]
HashedFrom(x, proof, place, m, h) ==
  h = [i \in 0 .. m |-> IF i = 0 THEN x ELSE IF place[i - 1] % 2 = 0 THEN Combined(h[i - 1], proof[i])
                                             ELSE Combined(proof[i], h[i - 1])]

\* Induction up to a bound, with the set of the numbers a fact holds for.
LEMMA InductionUpTo ==
  ASSUME NEW n \in Nat, NEW Good, 0 \in Good, \A m \in 0 .. n - 1 : m \in Good => m + 1 \in Good
  PROVE  \A m \in 0 .. n : m \in Good
<1> DEFINE Reached == {m \in Nat : m <= n => m \in Good}
<1>1. 0 \in Reached /\ \A m \in Reached : m + 1 \in Reached
  OBVIOUS
<1>2. \A m \in Nat : m \in Reached
  <2> HIDE DEF Reached
  <2>1. Reached \in SUBSET Nat
    BY DEF Reached
  <2> QED
    BY <1>1, <2>1, SetInduction
<1> QED
  BY <1>2

\* Halving a number level after level.
LEMMA ShiftsExist == ASSUME NEW index, NEW n \in Nat PROVE \E f : ShiftedFrom(index, n, f)
<1> DEFINE Good == {m \in Nat : \E f : ShiftedFrom(index, m, f)}
<1>1. 0 \in Good
  <2>1. ShiftedFrom(index, 0, [k \in 0 .. 0 |-> index])
    BY DEF ShiftedFrom
  <2> QED
    BY <2>1
<1>2. ASSUME NEW m \in Good PROVE m + 1 \in Good
  <2>1. PICK f : ShiftedFrom(index, m, f)
    OBVIOUS
  <2> DEFINE g == [k \in 0 .. m + 1 |-> IF k = m + 1 THEN f[m] \div 2 ELSE f[k]]
  <2>2. ShiftedFrom(index, m + 1, g)
    BY <2>1 DEF ShiftedFrom
  <2> QED
    BY <2>2
<1> HIDE DEF Good
<1>3. Good \in SUBSET Nat
  BY DEF Good
<1>4. n \in Good
  BY <1>1, <1>2, <1>3, SetInduction
<1> QED
  BY <1>4 DEF Good

\* Building a tree level after level.
LEMMA TreesExist == ASSUME NEW leaves, NEW n \in Nat PROVE \E f : BuiltFrom(leaves, n, f)
<1> DEFINE Good == {m \in Nat : \E f : BuiltFrom(leaves, m, f)}
<1>1. 0 \in Good
  <2>1. BuiltFrom(leaves, 0, [k \in 0 .. 0 |-> leaves])
    BY DEF BuiltFrom
  <2> QED
    BY <2>1
<1>2. ASSUME NEW m \in Good PROVE m + 1 \in Good
  <2>1. PICK f : BuiltFrom(leaves, m, f)
    OBVIOUS
  <2> DEFINE g == [k \in 0 .. m + 1 |-> IF k = m + 1 THEN IF Len(f[m]) = 1 THEN f[m] ELSE PairUp(f[m]) ELSE f[k]]
  <2>2. BuiltFrom(leaves, m + 1, g)
    BY <2>1 DEF BuiltFrom
  <2> QED
    BY <2>2
<1> HIDE DEF Good
<1>3. Good \in SUBSET Nat
  BY DEF Good
<1>4. n \in Good
  BY <1>1, <1>2, <1>3, SetInduction
<1> QED
  BY <1>4 DEF Good

\* Walking up to the root.
LEMMA WalksExist == ASSUME NEW x, NEW root, NEW nodes, NEW n \in Nat PROVE \E f : WalkedFrom(x, root, nodes, n, f)
<1> DEFINE Good == {m \in Nat : \E f : WalkedFrom(x, root, nodes, m, f)}
<1>1. 0 \in Good
  <2>1. WalkedFrom(x, root, nodes, 0, [k \in 0 .. 0 |-> x])
    BY DEF WalkedFrom
  <2> QED
    BY <2>1
<1>2. ASSUME NEW m \in Good PROVE m + 1 \in Good
  <2>1. PICK f : WalkedFrom(x, root, nodes, m, f)
    OBVIOUS
  <2> DEFINE g == [k \in 0 .. m + 1 |-> IF k = m + 1 THEN IF f[m] = root THEN root ELSE _find_parent(nodes, f[m]) ELSE f[k]]
  <2>2. WalkedFrom(x, root, nodes, m + 1, g)
    BY <2>1 DEF WalkedFrom
  <2> QED
    BY <2>2
<1> HIDE DEF Good
<1>3. Good \in SUBSET Nat
  BY DEF Good
<1>4. n \in Good
  BY <1>1, <1>2, <1>3, SetInduction
<1> QED
  BY <1>4 DEF Good

\* Hashing along a proof.
LEMMA HashesExist == ASSUME NEW x, NEW proof, NEW place, NEW n \in Nat PROVE \E f : HashedFrom(x, proof, place, n, f)
<1> DEFINE Good == {m \in Nat : \E f : HashedFrom(x, proof, place, m, f)}
<1>1. 0 \in Good
  <2>1. HashedFrom(x, proof, place, 0, [k \in 0 .. 0 |-> x])
    BY DEF HashedFrom
  <2> QED
    BY <2>1
<1>2. ASSUME NEW m \in Good PROVE m + 1 \in Good
  <2>1. PICK f : HashedFrom(x, proof, place, m, f)
    OBVIOUS
  <2> DEFINE g == [k \in 0 .. m + 1 |-> IF k = m + 1 THEN IF place[m] % 2 = 0 THEN Combined(f[m], proof[m + 1]) ELSE Combined(proof[m + 1], f[m]) ELSE f[k]]
  <2>2. HashedFrom(x, proof, place, m + 1, g)
    BY <2>1 DEF HashedFrom
  <2> QED
    BY <2>2
<1> HIDE DEF Good
<1>3. Good \in SUBSET Nat
  BY DEF Good
<1>4. n \in Good
  BY <1>1, <1>2, <1>3, SetInduction
<1> QED
  BY <1>4 DEF Good

\* What Shifted is.
LEMMA ShiftedIs ==
  ASSUME NEW index, NEW n \in Nat
  PROVE  /\ Shifted(index, n)[0] = index
         /\ \A i \in 1 .. n : Shifted(index, n)[i] = Shifted(index, n)[i - 1] \div 2
<1>1. ShiftedFrom(index, n, Shifted(index, n))
  BY ShiftsExist DEF Shifted, ShiftedFrom
<1> QED
  BY <1>1 DEF ShiftedFrom

\* What _build_tree is.
LEMMA TreeIs ==
  ASSUME NEW n \in Nat
  PROVE  LET T == _build_tree(n)
         IN /\ T[0] = [i \in 1 .. n |-> Leaf(i)]
            /\ \A k \in 1 .. n : T[k] = IF Len(T[k - 1]) = 1 THEN T[k - 1] ELSE PairUp(T[k - 1])
<1> DEFINE leaves == [i \in 1 .. n |-> Leaf(i)]
<1>1. \E f : BuiltFrom(leaves, n, f)
  BY TreesExist
<1>2. BuiltFrom(leaves, n, _build_tree(n))
  BY <1>1 DEF _build_tree, BuiltFrom
<1>3. PICK T : T = _build_tree(n) /\ BuiltFrom(leaves, n, T)
  BY <1>2
<1>4. T[0] = leaves
  BY <1>3 DEF BuiltFrom
<1>5. \A k \in 1 .. n : T[k] = IF Len(T[k - 1]) = 1 THEN T[k - 1] ELSE PairUp(T[k - 1])
  <2> HIDE DEF leaves
  <2>1. T = [k \in 0 .. n |-> IF k = 0 THEN leaves ELSE IF Len(T[k - 1]) = 1 THEN T[k - 1] ELSE PairUp(T[k - 1])]
    BY <1>3 DEF BuiltFrom
  <2> QED
    BY <2>1
<1> QED
  BY <1>3, <1>4, <1>5

\* How long a list is.
LEMMA LenOf == ASSUME NEW m \in Nat, NEW s, s = [i \in 1 .. m |-> s[i]] PROVE Len(s) = m
<1> DEFINE R == {s[i] : i \in 1 .. m}
<1>1. s \in [1 .. m -> R]
  OBVIOUS
<1>2. s \in Seq(R)
  BY <1>1, SeqDef
<1> QED
  BY <1>2, LenProperties

\* A list and its length.
IsList(s) == Len(s) \in Nat \ {0} /\ s = [i \in 1 .. Len(s) |-> s[i]]

\* A list has a length.
LEMMA ListLen == ASSUME NEW s, IsList(s) PROVE Len(s) \in Nat /\ Len(s) >= 1
<1>1. Len(s) \in Nat \ {0}
  BY DEF IsList
<1> QED
  BY <1>1

\* A level that is not the last one.
LEMMA TwoOrMore == \A m \in Nat : m >= 1 /\ m # 1 => m >= 2
OBVIOUS

\* The length of the next level.
LEMMA Halved ==
  \A m \in Nat : LET half == (m + 1) \div 2
                 IN half \in Nat /\ 2 * half <= m + 1 /\ m <= 2 * half /\ (m >= 2 => half >= 1 /\ half + 1 <= m)
OBVIOUS

\* The last place of a level is below the last place of the next.
LEMMA HalvedTwice == \A m \in Nat : m >= 2 => (m - 1) \div 2 = (m + 1) \div 2 - 1 /\ ((m + 1) \div 2 = 1 => m = 2)
OBVIOUS

\* A place of a level and the places below it.
LEMMA Doubled ==
  \A m \in Nat, i \in Nat :
    LET half == (m + 1) \div 2 t == IF 2 * i + 1 < m THEN 2 * i + 1 ELSE 2 * i
    IN i \in 0 .. half - 1 => 2 * i \in 0 .. m - 1 /\ t \in 0 .. m - 1 /\ i + 1 \in 1 .. half
OBVIOUS

\* A list behind an empty one.
LEMMA BehindNothing ==
  ASSUME NEW m \in Nat, NEW f, f = [i \in 1 .. m |-> f[i]]
  PROVE  <<>> \o f = f
<1>1. PICK S : S = {f[i] : i \in 1 .. m}
  OBVIOUS
<1>2. f \in [1 .. m -> S]
  BY <1>1
<1>3. f \in Seq(S)
  BY <1>2
<1> QED
  BY <1>3

\* The list of the pairs of a list.
LEMMA PairsAre ==
  ASSUME NEW nodes, IsList(nodes)
  PROVE  LET pairs == PairUp(nodes) m == Len(nodes)
         IN /\ IsList(pairs) /\ Len(pairs) = (m + 1) \div 2
            /\ \A i \in 1 .. (m + 1) \div 2 :
                 pairs[i] = Combined(nodes[2 * i - 1], IF 2 * i <= m THEN nodes[2 * i] ELSE nodes[2 * i - 1])
<1>1. PICK m : m = Len(nodes) /\ m \in Nat \ {0}
  BY DEF IsList
<1>2. PICK half : half = (m + 1) \div 2 /\ half \in Nat \ {0}
  BY <1>1
<1>3. PICK pairs : /\ pairs = PairUp(nodes)
                   /\ pairs = [i \in 1 .. half |-> Combined(nodes[2 * i - 1], IF 2 * i <= m THEN nodes[2 * i] ELSE nodes[2 * i - 1])]
  <2>1. PICK f : f = [i \in 1 .. half |-> Combined(nodes[2 * i - 1], IF 2 * i <= m THEN nodes[2 * i] ELSE nodes[2 * i - 1])]
    OBVIOUS
  <2>2. f = [i \in 1 .. half |-> f[i]]
    BY <2>1
  <2>3. PairUp(nodes) = <<>> \o f
    BY <1>1, <1>2, <2>1 DEF PairUp
  <2> QED
    BY <1>2, <2>1, <2>2, <2>3, BehindNothing
<1>4. pairs = [i \in 1 .. half |-> pairs[i]]
  BY <1>3
<1>5. Len(pairs) = half
  BY <1>2, <1>4, LenOf
<1> QED
  BY <1>1, <1>2, <1>3, <1>4, <1>5 DEF IsList

\* What a tree of n leaves with its root at some level is like.
Grown(n, top, T) ==
  /\ Len(T[0]) = n /\ \A i \in 1 .. n : T[0][i] = Leaf(i)
  /\ \A k \in 0 .. n : IsList(T[k])
  /\ \A k \in 0 .. top - 1 :
       LET m == Len(T[k])
       IN /\ m >= 2 /\ Len(T[k + 1]) = (m + 1) \div 2
          /\ \A i \in 1 .. (m + 1) \div 2 :
               T[k + 1][i] = Combined(T[k][2 * i - 1], IF 2 * i <= m THEN T[k][2 * i] ELSE T[k][2 * i - 1])
  /\ Len(T[top]) = 1
  /\ \A k \in top .. n : T[k] = T[top]

\* Every tree has its root at some level: a level of more than one node is longer than the next.
LEMMA TreeGrows == ASSUME NEW n \in Nat \ {0} PROVE \E top \in 0 .. n : Grown(n, top, _build_tree(n))
<1>1. PICK T : /\ T = _build_tree(n) /\ T[0] = [i \in 1 .. n |-> Leaf(i)]
               /\ \A k \in 1 .. n : T[k] = IF Len(T[k - 1]) = 1 THEN T[k - 1] ELSE PairUp(T[k - 1])
  BY TreeIs
<1>2. \A k \in 0 .. n - 1 : T[k + 1] = IF Len(T[k]) = 1 THEN T[k] ELSE PairUp(T[k])
  <2> TAKE k \in 0 .. n - 1
  <2>1. k + 1 \in 1 .. n /\ (k + 1) - 1 = k
    OBVIOUS
  <2> QED
    BY <1>1, <2>1
<1>3. Len(T[0]) = n /\ IsList(T[0]) /\ \A i \in 1 .. n : T[0][i] = Leaf(i)
  <2>1. T[0] = [i \in 1 .. n |-> T[0][i]]
    BY <1>1
  <2>2. Len(T[0]) = n
    BY <2>1, LenOf
  <2> QED
    BY <1>1, <2>1, <2>2 DEF IsList
<1> DEFINE Good == {k \in 0 .. n : IsList(T[k]) /\ (Len(T[k]) = 1 \/ Len(T[k]) <= n - k)}
<1>4. 0 \in Good
  BY <1>3
<1>5. ASSUME NEW k \in 0 .. n - 1, k \in Good PROVE k + 1 \in Good
  <2>1. CASE Len(T[k]) = 1
    BY <1>2, <1>5, <2>1
  <2>2. CASE Len(T[k]) # 1
    <3> DEFINE m == Len(T[k])
               half == (m + 1) \div 2
    <3>1. m \in Nat /\ m >= 2 /\ m <= n - k
      <4>1. IsList(T[k]) /\ (m = 1 \/ m <= n - k)
        BY <1>5
      <4>2. m \in Nat /\ m >= 1
        BY <4>1, ListLen
      <4>3. m # 1 /\ (m = 1 \/ m <= n - k)
        BY <2>2, <4>1
      <4> HIDE DEF m
      <4> QED
        BY <4>2, <4>3
    <3>2. half \in Nat /\ half + 1 <= m
      BY <3>1, Halved
    <3>3. T[k + 1] = PairUp(T[k])
      BY <1>2, <2>2
    <3>4. IsList(T[k + 1]) /\ Len(T[k + 1]) = half
      BY <1>5, <3>1, <3>3, PairsAre
    <3>5. half <= n - (k + 1)
      <4> HIDE DEF m, half
      <4> QED
        BY <3>1, <3>2
    <3>6. k + 1 \in 0 .. n
      OBVIOUS
    <3>7. Len(T[k + 1]) <= n - (k + 1)
      BY <3>4, <3>5
    <3> QED
      BY <3>4, <3>6, <3>7
  <2> QED
    BY <2>1, <2>2
<1>6. \A k \in 0 .. n : k \in Good
  <2> HIDE DEF Good
  <2> QED
    BY <1>4, <1>5, InductionUpTo
<1> DEFINE Tops == {k \in 0 .. n : Len(T[k]) = 1}
<1>7. n \in Tops
  <2>1. n \in Good
    BY <1>6
  <2>2. IsList(T[n]) /\ (Len(T[n]) = 1 \/ Len(T[n]) <= n - n)
    BY <2>1
  <2>3. Len(T[n]) \in Nat /\ Len(T[n]) >= 1
    BY <2>2, ListLen
  <2> QED
    BY <2>2, <2>3
<1>8. PICK top \in Tops : \A k \in 0 .. top - 1 : k \notin Tops
  <2>1. PICK k \in Tops : \A j \in Tops : ~(<<j, k>> \in OpToRel(<, Nat))
    <3>1. Tops \in SUBSET Nat
      OBVIOUS
    <3> HIDE DEF Tops
    <3> QED
      BY <1>7, <3>1, NatLessThanWellFounded, WFMin
  <2>2. ASSUME NEW j \in 0 .. k - 1 PROVE j \notin Tops
    <3>1. j \in Nat /\ k \in Nat /\ j < k
      OBVIOUS
    <3>2. <<j, k>> \in OpToRel(<, Nat)
      BY <3>1 DEF OpToRel
    <3> QED
      BY <2>1, <3>2
  <2> QED
    BY <2>2
<1>9. \A k \in 0 .. top - 1 : Len(T[k]) >= 2 /\ T[k + 1] = PairUp(T[k])
  <2> TAKE k \in 0 .. top - 1
  <2>1. k \in 0 .. n - 1 /\ k \in 0 .. n
    BY <1>8
  <2>2. Len(T[k]) # 1
    BY <1>8, <2>1
  <2>3. IsList(T[k])
    BY <1>6, <2>1
  <2>4. Len(T[k]) \in Nat /\ Len(T[k]) >= 1
    BY <2>3, ListLen
  <2>5. T[k + 1] = PairUp(T[k])
    BY <1>2, <2>1, <2>2
  <2>6. Len(T[k]) >= 2
    <3>1. PICK m : m = Len(T[k]) /\ m \in Nat /\ m >= 1 /\ m # 1
      BY <2>2, <2>4
    <3>2. m >= 2
      BY <3>1, TwoOrMore
    <3> QED
      BY <3>1, <3>2
  <2> QED
    BY <2>5, <2>6
<1>10. \A k \in top .. n : T[k] = T[top]
  <2> DEFINE Same == {j \in 0 .. n - top : T[top + j] = T[top]}
  <2>1. 0 \in Same
    OBVIOUS
  <2>2. ASSUME NEW j \in 0 .. (n - top) - 1, j \in Same PROVE j + 1 \in Same
    <3>1. top + j \in 0 .. n - 1 /\ (top + j) + 1 = top + (j + 1)
      OBVIOUS
    <3> QED
      BY <1>2, <1>8, <2>2, <3>1
  <2>3. \A j \in 0 .. n - top : j \in Same
    <3> HIDE DEF Same
    <3>1. n - top \in Nat
      OBVIOUS
    <3> QED
      BY <2>1, <2>2, <3>1, InductionUpTo
  <2> TAKE k \in top .. n
  <2>4. k - top \in 0 .. n - top /\ top + (k - top) = k
    OBVIOUS
  <2> QED
    BY <2>3, <2>4
<1>11. \A k \in 0 .. top - 1 :
         LET m == Len(T[k])
         IN /\ m >= 2 /\ Len(T[k + 1]) = (m + 1) \div 2
            /\ \A i \in 1 .. (m + 1) \div 2 :
                 T[k + 1][i] = Combined(T[k][2 * i - 1], IF 2 * i <= m THEN T[k][2 * i] ELSE T[k][2 * i - 1])
  <2> TAKE k \in 0 .. top - 1
  <2>1. IsList(T[k]) /\ Len(T[k]) >= 2 /\ T[k + 1] = PairUp(T[k])
    BY <1>6, <1>9
  <2> QED
    BY <2>1, PairsAre
<1> QED
  BY <1>1, <1>3, <1>6, <1>8, <1>10, <1>11 DEF Grown

\* A leaf is no pair, and a pair tells its parts.
LEMMA Shapes ==
  ASSUME NEW i, NEW l, NEW r, NEW l2, NEW r2
  PROVE  /\ Leaf(i) # Combined(l, r) /\ Len(Combined(l, r)) = 2 /\ Len(Leaf(i)) = 1
         /\ Combined(l, r)[1] = l /\ Combined(l, r)[2] = r
         /\ Combined(l, r) = Combined(l2, r2) => l = l2 /\ r = r2
<1>1. Len(Combined(l, r)) = 2 /\ Len(Leaf(i)) = 1
  BY DEF Leaf, Sha256, Combined
<1> QED
  BY <1>1 DEF Leaf, Sha256, Combined

\* Strings with one hash are one string.
LEMMA HashesDiffer == ASSUME NEW a, NEW b, Sha256(a) = Sha256(b) PROVE a = b
<1>1. Sha256(a)[1] = a /\ Sha256(b)[1] = b
  BY DEF Sha256
<1> QED
  BY <1>1

\* The payloads of two records differ, and differ from data and from hashes.
LEMMA PayloadsDiffer ==
  ASSUME NEW i, NEW j
  PROVE  /\ Payload(i) = Payload(j) => i = j
         /\ Payload(i) # Data(j) /\ Payload(i) # Leaf(j)
<1>1. Payload(i)[3] = i /\ Payload(j)[3] = j
  BY DEF Payload
<1>2. Len(Payload(i)) = 4 /\ Len(Data(j)) = 3 /\ Len(Leaf(j)) = 1
  BY DEF Payload, Data, Leaf, Sha256
<1> QED
  BY <1>1, <1>2

\* Two leaves with one hash are of one record.
LEMMA LeavesDiffer == ASSUME NEW i, NEW j, Leaf(i) = Leaf(j) PROVE i = j
  BY HashesDiffer, PayloadsDiffer DEF Leaf

\* The node at a level and a place counted from 0, as an index is.
At(T, k, i) == T[k][i + 1]
Places(T, k) == 0 .. Len(T[k]) - 1
\* Where the second child of a place is: a last node without a twin is its own.
Twin(T, k, i) == IF 2 * i + 1 < Len(T[k]) THEN 2 * i + 1 ELSE 2 * i

\* The node of a place is the pair of its two children.
Pairs(T, k, i) ==
  /\ i \in Nat
  /\ At(T, k + 1, i) = Combined(At(T, k, 2 * i), At(T, k, Twin(T, k, i)))
  /\ 2 * i \in Places(T, k) /\ Twin(T, k, i) \in Places(T, k) /\ Twin(T, k, i) \in {2 * i, 2 * i + 1}
  /\ 2 * i + 1 \in Places(T, k) => Twin(T, k, i) = 2 * i + 1

\* A level of two nodes or more and the one above.
Halves(m, half) == m \in Nat /\ m >= 2 /\ half = (m + 1) \div 2

\* The nodes above the leaves.
LEMMA Parents ==
  ASSUME NEW n \in Nat \ {0}, NEW top \in 0 .. n, NEW T, Grown(n, top, T), NEW k \in 0 .. top - 1
  PROVE  /\ Halves(Len(T[k]), Len(T[k + 1]))
         /\ \A i \in Places(T, k + 1) : Pairs(T, k, i)
<1>1. PICK m : m = Len(T[k]) /\ m \in Nat /\ m >= 2
  <2>1. k \in 0 .. n
    OBVIOUS
  <2>2. Len(T[k]) >= 2
    BY DEF Grown
  <2>3. IsList(T[k])
    BY <2>1 DEF Grown
  <2> QED
    BY <2>2, <2>3, ListLen
<1>2. PICK half : half = (m + 1) \div 2 /\ half \in Nat /\ half = Len(T[k + 1])
  BY <1>1, Halved DEF Grown
<1>3. \A j \in 1 .. half : T[k + 1][j] = Combined(T[k][2 * j - 1], IF 2 * j <= m THEN T[k][2 * j] ELSE T[k][2 * j - 1])
  BY <1>1, <1>2 DEF Grown
<1>4. ASSUME NEW i \in Places(T, k + 1) PROVE Pairs(T, k, i)
  <2>1. i \in 0 .. half - 1
    BY <1>2 DEF Places
  <2>2. PICK t : t = Twin(T, k, i) /\ t = IF 2 * i + 1 < m THEN 2 * i + 1 ELSE 2 * i
    BY <1>1 DEF Twin
  <2>3. i \in Nat /\ 2 * i \in 0 .. m - 1 /\ t \in 0 .. m - 1
    <3>1. i \in Nat /\ i \in 0 .. (m + 1) \div 2 - 1
      BY <1>2, <2>1
    <3>2. 2 * i \in 0 .. m - 1 /\ (IF 2 * i + 1 < m THEN 2 * i + 1 ELSE 2 * i) \in 0 .. m - 1
      BY <1>1, <3>1, Doubled
    <3> QED
      BY <2>2, <3>1, <3>2
  <2>4. i + 1 \in 1 .. half /\ 2 * (i + 1) - 1 = 2 * i + 1 /\ 2 * (i + 1) = (2 * i + 1) + 1
    BY <1>2, <2>1
  <2>5. T[k + 1][i + 1] = Combined(T[k][2 * i + 1], IF (2 * i + 1) + 1 <= m THEN T[k][(2 * i + 1) + 1] ELSE T[k][2 * i + 1])
    BY <1>3, <2>4
  <2>6. T[k + 1][i + 1] = Combined(T[k][2 * i + 1], T[k][t + 1])
    <3>1. CASE 2 * i + 1 < m
      BY <1>1, <2>1, <2>2, <2>5, <3>1
    <3>2. CASE ~(2 * i + 1 < m)
      BY <1>1, <2>1, <2>2, <2>5, <3>2
    <3> QED
      BY <3>1, <3>2
  <2>7. Places(T, k) = 0 .. m - 1
    BY <1>1 DEF Places
  <2>8. t \in {2 * i, 2 * i + 1} /\ (2 * i + 1 \in 0 .. m - 1 => t = 2 * i + 1)
    BY <1>1, <2>2, <2>3
  <2>9. At(T, k + 1, i) = Combined(At(T, k, 2 * i), At(T, k, t))
    BY <2>6 DEF At
  <2> QED
    BY <2>2, <2>3, <2>7, <2>8, <2>9 DEF Pairs
<1>5. Halves(m, half)
  BY <1>1, <1>2 DEF Halves
<1> QED
  BY <1>1, <1>2, <1>4, <1>5

\* The places of a level and their nodes, leaves included.
LEMMA Leaves ==
  ASSUME NEW n \in Nat \ {0}, NEW top \in 0 .. n, NEW T, Grown(n, top, T)
  PROVE  /\ Places(T, 0) = 0 .. n - 1 /\ \A i \in 0 .. n - 1 : At(T, 0, i) = Leaf(i + 1)
         /\ Places(T, top) = {0}
         /\ \A k \in 0 .. top : Places(T, k) \in SUBSET Nat
<1>1. \A k \in 0 .. n : Len(T[k]) \in Nat
  BY ListLen DEF Grown
<1>2. \A k \in 0 .. top : Places(T, k) \in SUBSET Nat
  BY <1>1 DEF Places
<1>3. Places(T, 0) = 0 .. n - 1 /\ Places(T, top) = {0}
  BY DEF Places, Grown
<1>4. \A i \in 0 .. n - 1 : At(T, 0, i) = Leaf(i + 1)
  BY DEF At, Grown
<1> QED
  BY <1>2, <1>3, <1>4

\* No node is met twice: two equal pairs have equal first children, down to the leaves.
LEMMA NodesDiffer ==
  ASSUME NEW n \in Nat \ {0}, NEW top \in 0 .. n, NEW T, Grown(n, top, T)
  PROVE  \A j, k \in 0 .. top : \A a \in Places(T, j), b \in Places(T, k) : At(T, j, a) = At(T, k, b) => j = k /\ a = b
<1> DEFINE Good == {j \in 0 .. top : \A k \in 0 .. top : \A a \in Places(T, j), b \in Places(T, k) :
                                       At(T, j, a) = At(T, k, b) => j = k /\ a = b}
<1>1. ASSUME NEW k \in 1 .. top, NEW b \in Places(T, k)
      PROVE  /\ At(T, k, b) = Combined(At(T, k - 1, 2 * b), At(T, k - 1, Twin(T, k - 1, b)))
             /\ b \in Nat /\ 2 * b \in Places(T, k - 1)
  <2>2. PICK j \in 0 .. top - 1 : j = k - 1 /\ j + 1 = k
    <3>1. k - 1 \in 0 .. top - 1 /\ (k - 1) + 1 = k
      OBVIOUS
    <3> QED
      BY <3>1
  <2>3. /\ At(T, j + 1, b) = Combined(At(T, j, 2 * b), At(T, j, Twin(T, j, b)))
        /\ 2 * b \in Places(T, j)
    <3>1. b \in Places(T, j + 1)
      BY <2>2
    <3>2. Pairs(T, j, b)
      BY <3>1, Parents
    <3> QED
      BY <3>2 DEF Pairs
  <2>4. b \in Nat
    BY Leaves
  <2> QED
    BY <2>2, <2>3, <2>4
<1>2. 0 \in Good
  <2> SUFFICES ASSUME NEW k \in 0 .. top, NEW a \in Places(T, 0), NEW b \in Places(T, k), At(T, 0, a) = At(T, k, b)
               PROVE  0 = k /\ a = b
    OBVIOUS
  <2>1. a \in 0 .. n - 1 /\ At(T, 0, a) = Leaf(a + 1)
    BY Leaves
  <2>2. CASE k = 0
    <3>1. b \in 0 .. n - 1 /\ At(T, 0, b) = Leaf(b + 1)
      BY <2>2, Leaves
    <3>2. a + 1 = b + 1
      BY <2>1, <2>2, <3>1, LeavesDiffer
    <3> QED
      BY <2>1, <2>2, <3>1, <3>2
  <2>3. CASE k # 0
    <3>1. k \in 1 .. top
      BY <2>3
    <3> QED
      BY <1>1, <2>1, <3>1, Shapes
  <2> QED
    BY <2>2, <2>3
<1>3. ASSUME NEW j \in 0 .. top - 1, j \in Good PROVE j + 1 \in Good
  <2> SUFFICES ASSUME NEW k \in 0 .. top, NEW a \in Places(T, j + 1), NEW b \in Places(T, k), At(T, j + 1, a) = At(T, k, b)
               PROVE  j + 1 = k /\ a = b
    OBVIOUS
  <2>1. /\ At(T, j + 1, a) = Combined(At(T, j, 2 * a), At(T, j, Twin(T, j, a)))
        /\ a \in Nat /\ 2 * a \in Places(T, j)
    <3>1. j + 1 \in 1 .. top /\ (j + 1) - 1 = j
      OBVIOUS
    <3> QED
      BY <1>1, <3>1
  <2>2. CASE k = 0
    BY <2>1, <2>2, Leaves, Shapes
  <2>3. CASE k # 0
    <3>1. k \in 1 .. top /\ k - 1 \in 0 .. top
      BY <2>3
    <3>2. /\ At(T, k, b) = Combined(At(T, k - 1, 2 * b), At(T, k - 1, Twin(T, k - 1, b)))
          /\ b \in Nat /\ 2 * b \in Places(T, k - 1)
      BY <1>1, <3>1
    <3>3. At(T, j, 2 * a) = At(T, k - 1, 2 * b)
      BY <2>1, <3>2, Shapes
    <3>4. j = k - 1 /\ 2 * a = 2 * b
      BY <1>3, <2>1, <3>1, <3>2, <3>3
    <3> QED
      BY <2>1, <3>1, <3>2, <3>4
  <2> QED
    BY <2>2, <2>3
<1>4. \A j \in 0 .. top : j \in Good
  <2> HIDE DEF Good
  <2> QED
    BY <1>2, <1>3, InductionUpTo
<1> QED
  BY <1>4

\* An index is even or odd.
LEMMA Parity ==
  \A i \in Nat : /\ i \div 2 \in Nat
                 /\ \/ i % 2 = 0 /\ i = 2 * (i \div 2)
                    \/ i % 2 = 1 /\ i = 2 * (i \div 2) + 1
OBVIOUS

\* A place and the place of its parent.
IsAbove(T, k, i, q) ==
  /\ i \in Nat /\ q \in Nat /\ q = i \div 2 /\ q \in Places(T, k + 1)
  /\ \/ i % 2 = 0 /\ i = 2 * q
     \/ i % 2 = 1 /\ i = 2 * q + 1 /\ Twin(T, k, q) = i
  /\ i + 1 \in Places(T, k) /\ i % 2 = 0 => Twin(T, k, q) = i + 1

\* Half of an index is the place of the parent.
LEMMA PlaceAbove ==
  ASSUME NEW n \in Nat \ {0}, NEW top \in 0 .. n, NEW T, Grown(n, top, T), NEW k \in 0 .. top - 1, NEW i \in Places(T, k)
  PROVE  IsAbove(T, k, i, i \div 2)
<1>0. Halves(Len(T[k]), Len(T[k + 1]))
  BY Parents
<1>1. PICK m : m = Len(T[k]) /\ m \in Nat /\ m >= 2 /\ Len(T[k + 1]) = (m + 1) \div 2
  BY <1>0 DEF Halves
<1>2. PICK half : half = (m + 1) \div 2 /\ half = Len(T[k + 1]) /\ half \in Nat /\ m <= 2 * half /\ 2 * half <= m + 1
  BY <1>1, Halved
<1>3. Places(T, k) = 0 .. m - 1 /\ Places(T, k + 1) = 0 .. half - 1
  BY <1>1, <1>2 DEF Places
<1>4. PICK p : p = i \div 2 /\ p \in Nat /\ i \in Nat /\ i \in 0 .. m - 1
               /\ ((i % 2 = 0 /\ i = 2 * p) \/ (i % 2 = 1 /\ i = 2 * p + 1))
  <2>1. i \in 0 .. m - 1
    BY <1>3
  <2>2. i \in Nat
    BY <1>1, <2>1
  <2> QED
    BY <2>1, <2>2, Parity
<1>5. p \in 0 .. half - 1
  <2>1. 2 * p <= i /\ i <= m - 1
    BY <1>1, <1>4
  <2>2. p \in Nat /\ half \in Nat /\ 2 * p + 1 <= 2 * half
    <3>1. p \in Nat /\ i \in Nat
      BY <1>4
    <3>2. m \in Nat /\ half \in Nat /\ m <= 2 * half
      BY <1>1, <1>2
    <3> QED
      BY <2>1, <3>1, <3>2
  <2> QED
    BY <2>2
<1>6. p \in Places(T, k + 1)
  BY <1>3, <1>5
<1>7. 2 * p + 1 \in Places(T, k) => Twin(T, k, p) = 2 * p + 1
  <2>1. Pairs(T, k, p)
    BY <1>6, Parents
  <2> QED
    BY <2>1 DEF Pairs
<1> QED
  BY <1>4, <1>6, <1>7 DEF IsAbove

\* The pairs of a tree, one by one.
LEMMA NodesAre ==
  ASSUME NEW n \in Nat \ {0}, NEW top \in 1 .. n, NEW T, Grown(n, top, T)
  PROVE  LET nodes == UNION {Range(T[k]) : k \in 1 .. n}
         IN /\ \A k \in 1 .. top : \A i \in Places(T, k) : At(T, k, i) \in nodes
            /\ \A p \in nodes : \E k \in 1 .. top : \E i \in Places(T, k) : p = At(T, k, i)
<1>0. \A k \in 1 .. n : Len(T[k]) \in Nat /\ DOMAIN T[k] = 1 .. Len(T[k])
  <2> TAKE k \in 1 .. n
  <2>1. IsList(T[k])
    BY DEF Grown
  <2>2. Len(T[k]) \in Nat /\ T[k] = [i \in 1 .. Len(T[k]) |-> T[k][i]]
    BY <2>1, ListLen DEF IsList
  <2> QED
    BY <2>2
<1>1. \A k \in 1 .. n : Range(T[k]) = {At(T, k, i) : i \in Places(T, k)}
  <2> TAKE k \in 1 .. n
  <2>1. PICK m : m = Len(T[k]) /\ m \in Nat /\ DOMAIN T[k] = 1 .. m
    BY <1>0
  <2>2. Range(T[k]) = {T[k][j] : j \in 1 .. m}
    BY <2>1 DEF Range
  <2>3. Places(T, k) = 0 .. m - 1
    BY <2>1 DEF Places
  <2>4. ASSUME NEW j \in 1 .. m PROVE \E i \in 0 .. m - 1 : T[k][j] = T[k][i + 1]
    <3>1. j - 1 \in 0 .. m - 1 /\ (j - 1) + 1 = j
      BY <2>1
    <3> QED
      BY <3>1
  <2>5. ASSUME NEW i \in 0 .. m - 1 PROVE i + 1 \in 1 .. m
    BY <2>1
  <2> QED
    BY <2>2, <2>3, <2>4, <2>5 DEF At
<1>2. ASSUME NEW k \in 1 .. top, NEW i \in Places(T, k) PROVE At(T, k, i) \in UNION {Range(T[j]) : j \in 1 .. n}
  <2>1. k \in 1 .. n
    OBVIOUS
  <2> QED
    BY <1>1, <2>1
<1>3. ASSUME NEW p \in UNION {Range(T[j]) : j \in 1 .. n}
      PROVE  \E k \in 1 .. top : \E i \in Places(T, k) : p = At(T, k, i)
  <2>1. PICK k \in 1 .. n : p \in Range(T[k])
    OBVIOUS
  <2>2. PICK i \in Places(T, k) : p = At(T, k, i)
    BY <1>1, <2>1
  <2>3. CASE k \in 1 .. top
    BY <2>2, <2>3
  <2>4. CASE k \notin 1 .. top
    <3>1. k \in top .. n /\ top \in 1 .. top
      BY <2>4
    <3>2. T[k] = T[top]
      BY <3>1 DEF Grown
    <3> QED
      BY <2>2, <3>1, <3>2 DEF At, Places
  <2> QED
    BY <2>3, <2>4
<1> QED
  BY <1>2, <1>3

\* The search finds the one pair a node below the root is in.
LEMMA ParentFound ==
  ASSUME NEW n \in Nat \ {0}, NEW top \in 0 .. n, NEW T, Grown(n, top, T), NEW k \in 0 .. top - 1, NEW i \in Places(T, k)
  PROVE  _find_parent(UNION {Range(T[j]) : j \in 1 .. n}, At(T, k, i)) = At(T, k + 1, i \div 2)
<1> DEFINE x == At(T, k, i)
           parent == At(T, k + 1, i \div 2)
<1>0. PICK nodes : nodes = UNION {Range(T[j]) : j \in 1 .. n}
  OBVIOUS
<1>1. top \in 1 .. n /\ k + 1 \in 1 .. top
  OBVIOUS
<1>2. PICK q : /\ q = i \div 2 /\ q \in Places(T, k + 1) /\ i \in Nat
               /\ i = 2 * q \/ (i = 2 * q + 1 /\ Twin(T, k, q) = i)
  <2>1. IsAbove(T, k, i, i \div 2)
    BY PlaceAbove
  <2> QED
    BY <2>1 DEF IsAbove
<1>3. parent = Combined(At(T, k, 2 * q), At(T, k, Twin(T, k, q)))
  <2>1. Pairs(T, k, q)
    BY <1>2, Parents
  <2> QED
    BY <1>2, <2>1 DEF Pairs
<1>4. parent \in nodes
  BY <1>0, <1>1, <1>2, NodesAre
<1>5. Len(parent) = 2 /\ x \in {parent[1], parent[2]}
  BY <1>2, <1>3, Shapes
<1>6. ASSUME NEW p \in nodes, Len(p) = 2, x \in {p[1], p[2]} PROVE p = parent
  <2>1. PICK l \in 1 .. top : \E b \in Places(T, l) : p = At(T, l, b)
    BY <1>0, <1>1, NodesAre
  <2>2. PICK j \in 0 .. top - 1 : l = j + 1
    <3>1. l - 1 \in 0 .. top - 1 /\ l = (l - 1) + 1
      OBVIOUS
    <3> QED
      BY <3>1
  <2>3. PICK b \in Places(T, j + 1) : p = At(T, j + 1, b)
    BY <2>1, <2>2
  <2>4. PICK t : t = Twin(T, j, b)
    OBVIOUS
  <2>5. /\ p = Combined(At(T, j, 2 * b), At(T, j, t))
        /\ 2 * b \in Places(T, j) /\ t \in Places(T, j) /\ t \in {2 * b, 2 * b + 1}
    <3>1. Pairs(T, j, b)
      BY <2>3, Parents
    <3> QED
      BY <2>3, <2>4, <3>1 DEF Pairs
  <2>6. x = At(T, j, 2 * b) \/ x = At(T, j, t)
    BY <1>6, <2>5, Shapes
  <2>7. j = k /\ i \in {2 * b, 2 * b + 1}
    <3>1. j \in 0 .. top /\ k \in 0 .. top
      OBVIOUS
    <3> QED
      BY <2>5, <2>6, <3>1, NodesDiffer
  <2>8. b \in Nat
    <3>1. j + 1 \in 0 .. top
      OBVIOUS
    <3> QED
      BY <3>1, Leaves
  <2>9. b = i \div 2
    BY <2>7, <2>8
  <2> QED
    BY <2>3, <2>7, <2>9
<1>7. _find_parent(nodes, x) = parent
  <2> HIDE DEF x, parent
  <2> QED
    BY <1>4, <1>5, <1>6 DEF _find_parent
<1> QED
  BY <1>0, <1>7

\* The sibling a proof names, and on which side it is; only a last node is its own sibling.
LEMMA Siblings ==
  ASSUME NEW n \in Nat \ {0}, NEW top \in 0 .. n, NEW T, Grown(n, top, T), NEW k \in 0 .. top - 1, NEW i \in Places(T, k)
  PROVE  LET x == At(T, k, i)
             parent == At(T, k + 1, i \div 2)
             sibling == SiblingIn(parent, x)
         IN /\ \/ i % 2 = 0 /\ parent = Combined(x, sibling)
               \/ i % 2 = 1 /\ parent = Combined(sibling, x) /\ sibling # x
            /\ i + 1 \in Places(T, k) /\ i % 2 = 0 => sibling # x
<1> DEFINE x == At(T, k, i)
           parent == At(T, k + 1, i \div 2)
           sibling == SiblingIn(parent, x)
<1>1. PICK q : /\ q = i \div 2 /\ q \in Places(T, k + 1) /\ i \in Nat
               /\ \/ i % 2 = 0 /\ i = 2 * q
                  \/ i % 2 = 1 /\ i = 2 * q + 1 /\ Twin(T, k, q) = i
               /\ i + 1 \in Places(T, k) /\ i % 2 = 0 => Twin(T, k, q) = i + 1
  <2>1. IsAbove(T, k, i, i \div 2)
    BY PlaceAbove
  <2> QED
    BY <2>1 DEF IsAbove
<1>2. PICK t : t = Twin(T, k, q)
  OBVIOUS
<1>3. /\ parent = Combined(At(T, k, 2 * q), At(T, k, t))
      /\ 2 * q \in Places(T, k) /\ t \in Places(T, k)
  <2>1. Pairs(T, k, q)
    BY <1>1, Parents
  <2> QED
    BY <1>1, <1>2, <2>1 DEF Pairs
<1>4. parent[1] = At(T, k, 2 * q) /\ parent[2] = At(T, k, t)
  BY <1>3, Shapes
<1>5. \A a, b \in Places(T, k) : At(T, k, a) = At(T, k, b) => a = b
  <2>1. k \in 0 .. top
    OBVIOUS
  <2> QED
    BY <2>1, NodesDiffer
<1>6. CASE i % 2 = 0
  <2>1. i = 2 * q
    BY <1>1, <1>6
  <2>2. sibling = At(T, k, t)
    BY <1>4, <2>1 DEF SiblingIn
  <2>3. ASSUME i + 1 \in Places(T, k) PROVE sibling # x
    <3>1. t = i + 1 /\ t # i
      BY <1>1, <1>2, <1>6, <2>3
    <3> QED
      BY <1>3, <1>5, <2>2, <3>1
  <2> QED
    BY <1>3, <1>6, <2>1, <2>2, <2>3
<1>7. CASE i % 2 = 1
  <2>1. t = i /\ 2 * q # i
    BY <1>1, <1>2, <1>7
  <2>2. x # At(T, k, 2 * q)
    BY <1>3, <1>5, <2>1
  <2>3. sibling = At(T, k, 2 * q)
    BY <1>4, <2>2 DEF SiblingIn
  <2> QED
    BY <1>3, <1>7, <2>1, <2>2, <2>3
<1> QED
  BY <1>1, <1>6, <1>7

\* A climb: the places a leaf and its ancestors have, and the siblings a proof names.
Rising(T, top, place) ==
  /\ \A k \in 0 .. top : place[k] \in Nat /\ place[k] \in Places(T, k)
  /\ \A k \in 0 .. top - 1 : place[k + 1] = place[k] \div 2
Climb(T, top, place, proof) ==
  /\ Len(proof) = top
  /\ \A k \in 0 .. top - 1 :
       LET x == At(T, k, place[k]) parent == At(T, k + 1, place[k + 1])
       IN /\ \/ place[k] % 2 = 0 /\ parent = Combined(x, proof[k + 1])
             \/ place[k] % 2 = 1 /\ parent = Combined(proof[k + 1], x) /\ proof[k + 1] # x
          /\ place[k] + 1 \in Places(T, k) /\ place[k] % 2 = 0 => proof[k + 1] # x

\* Shifting an index follows the ancestors of its leaf.
LEMMA ShiftsRise ==
  ASSUME NEW n \in Nat \ {0}, NEW top \in 0 .. n, NEW T, Grown(n, top, T), NEW index \in 0 .. n - 1,
         NEW h \in top .. n
  PROVE  Rising(T, top, Shifted(index, h))
<1>0. h \in Nat
  OBVIOUS
<1>1. PICK place : /\ place = Shifted(index, h) /\ place[0] = index
                   /\ \A k \in 1 .. h : place[k] = place[k - 1] \div 2
  BY <1>0, ShiftedIs
<1>2. \A k \in 0 .. top - 1 : place[k + 1] = place[k] \div 2
  <2> TAKE k \in 0 .. top - 1
  <2>1. k + 1 \in 1 .. h /\ (k + 1) - 1 = k
    OBVIOUS
  <2> QED
    BY <1>1, <2>1
<1> DEFINE Good == {k \in 0 .. top : place[k] \in Nat /\ place[k] \in Places(T, k)}
<1>3. 0 \in Good
  BY <1>1, Leaves
<1>4. ASSUME NEW k \in 0 .. top - 1, k \in Good PROVE k + 1 \in Good
  <2>1. IsAbove(T, k, place[k], place[k] \div 2)
    BY <1>4, PlaceAbove
  <2>2. place[k + 1] \in Nat /\ place[k + 1] \in Places(T, k + 1)
    BY <1>2, <2>1 DEF IsAbove
  <2> QED
    BY <2>2
<1>5. \A k \in 0 .. top : k \in Good
  <2> HIDE DEF Good
  <2> QED
    BY <1>3, <1>4, InductionUpTo
<1> QED
  BY <1>1, <1>2, <1>5 DEF Rising

\* A walk along a climb, which takes a step at each level below the root.
Walked(n, T, top, place, node) ==
  /\ \A k \in 0 .. top : node[k] = At(T, k, place[k])
  /\ {k \in 0 .. n : node[k] # At(T, top, 0)} = 0 .. top - 1

\* The walk of get_proof climbs from the leaf to the root.
LEMMA WalkClimbs ==
  ASSUME NEW n \in Nat \ {0}, NEW top \in 0 .. n, NEW T, Grown(n, top, T), NEW place, Rising(T, top, place),
         NEW nodes, nodes = UNION {Range(T[j]) : j \in 1 .. n},
         NEW node, WalkedFrom(At(T, 0, place[0]), At(T, top, 0), nodes, n, node)
  PROVE  Walked(n, T, top, place, node)
<1> DEFINE root == At(T, top, 0)
<1>1. /\ node[0] = At(T, 0, place[0])
      /\ \A k \in 0 .. n - 1 : node[k + 1] = IF node[k] = root THEN root ELSE _find_parent(nodes, node[k])
  <2> HIDE DEF root
  <2>1. node = [k \in 0 .. n |-> IF k = 0 THEN At(T, 0, place[0])
                                 ELSE IF node[k - 1] = root THEN root ELSE _find_parent(nodes, node[k - 1])]
    BY DEF WalkedFrom, root
  <2>2. ASSUME NEW k \in 0 .. n - 1 PROVE node[k + 1] = IF node[k] = root THEN root ELSE _find_parent(nodes, node[k])
    <3>1. k + 1 \in 0 .. n /\ k + 1 # 0 /\ (k + 1) - 1 = k
      OBVIOUS
    <3> QED
      BY <2>1, <3>1
  <2>3. node[0] = At(T, 0, place[0])
    <3>1. 0 \in 0 .. n
      OBVIOUS
    <3> QED
      BY <2>1, <3>1
  <2> QED
    BY <2>2, <2>3
<1>2. place[top] = 0
  BY Leaves DEF Rising
<1>3. ASSUME NEW k \in 0 .. top, At(T, k, place[k]) = root PROVE k = top
  <2>1. top \in 0 .. top /\ place[top] \in Places(T, top) /\ place[k] \in Places(T, k)
    BY DEF Rising
  <2> QED
    BY <1>2, <1>3, <2>1, NodesDiffer
<1> DEFINE Good == {k \in 0 .. top : node[k] = At(T, k, place[k])}
<1>4. 0 \in Good
  BY <1>1
<1>5. ASSUME NEW k \in 0 .. top - 1, k \in Good PROVE k + 1 \in Good
  <2>1. k \in 0 .. top /\ k # top /\ k \in 0 .. n - 1 /\ k + 1 \in 0 .. top
    OBVIOUS
  <2>2. node[k] = At(T, k, place[k]) /\ node[k] # root
    BY <1>3, <1>5, <2>1
  <2>3. node[k + 1] = _find_parent(nodes, At(T, k, place[k]))
    BY <1>1, <2>1, <2>2
  <2>4. place[k] \in Places(T, k) /\ place[k + 1] = place[k] \div 2
    BY <2>1 DEF Rising
  <2>5. _find_parent(nodes, At(T, k, place[k])) = At(T, k + 1, place[k] \div 2)
    BY <2>4, ParentFound
  <2> QED
    BY <2>1, <2>3, <2>4, <2>5
<1>6. \A k \in 0 .. top : node[k] = At(T, k, place[k])
  <2>1. \A k \in 0 .. top : k \in Good
    <3> HIDE DEF Good
    <3> QED
      BY <1>4, <1>5, InductionUpTo
  <2> QED
    BY <2>1
<1> DEFINE Still == {j \in 0 .. n - top : node[top + j] = root}
<1>7. 0 \in Still
  BY <1>2, <1>6
<1>8. ASSUME NEW j \in 0 .. (n - top) - 1, j \in Still PROVE j + 1 \in Still
  <2>1. top + j \in 0 .. n - 1 /\ (top + j) + 1 = top + (j + 1)
    OBVIOUS
  <2>2. node[top + j] = root
    BY <1>8
  <2>3. node[(top + j) + 1] = root
    BY <1>1, <2>1, <2>2
  <2> QED
    BY <2>1, <2>3
<1>9. \A k \in top .. n : node[k] = root
  <2>1. \A j \in 0 .. n - top : j \in Still
    <3> HIDE DEF Still
    <3>1. n - top \in Nat
      OBVIOUS
    <3> QED
      BY <1>7, <1>8, <3>1, InductionUpTo
  <2> TAKE k \in top .. n
  <2>2. k - top \in 0 .. n - top /\ top + (k - top) = k
    OBVIOUS
  <2> QED
    BY <2>1, <2>2
<1>10. {k \in 0 .. n : node[k] # root} = 0 .. top - 1
  <2>1. ASSUME NEW k \in 0 .. top - 1 PROVE k \in 0 .. n /\ node[k] # root
    <3>1. k \in 0 .. top /\ k # top /\ k \in 0 .. n
      OBVIOUS
    <3> QED
      BY <1>3, <1>6, <3>1
  <2>2. ASSUME NEW k \in 0 .. n, node[k] # root PROVE k \in 0 .. top - 1
    <3>1. k \notin top .. n
      BY <1>9, <2>2
    <3> QED
      BY <3>1
  <2> HIDE DEF root
  <2>3. 0 .. top - 1 \subseteq {k \in 0 .. n : node[k] # root}
    BY <2>1
  <2>4. {k \in 0 .. n : node[k] # root} \subseteq 0 .. top - 1
    BY <2>2
  <2> QED
    BY <2>3, <2>4
<1> QED
  BY <1>6, <1>10 DEF Walked

\* The walk a proof is read off.
ReadOff(n, index, T, root, w) ==
  /\ WalkedFrom(Leaf(index + 1), root, UNION {Range(T[j]) : j \in 1 .. n}, n, w)
  /\ get_proof(n, index) = [k \in 1 .. Cardinality({k \in 0 .. n : w[k] # root}) |-> SiblingIn(w[k], w[k - 1])]

\* What get_proof is.
LEMMA ProofIs ==
  ASSUME NEW n \in Nat, NEW index, NEW T, T = _build_tree(n), NEW root, root = T[n][1]
  PROVE  \E w : ReadOff(n, index, T, root, w)
<1> DEFINE nodes == UNION {Range(T[j]) : j \in 1 .. n}
           node == CHOOSE w : w = [k \in 0 .. n |-> IF k = 0 THEN Leaf(index + 1)
                                                    ELSE IF w[k - 1] = root THEN root ELSE _find_parent(nodes, w[k - 1])]
<1>1. WalkedFrom(Leaf(index + 1), root, nodes, n, node)
  <2> HIDE DEF nodes
  <2>1. \E w : WalkedFrom(Leaf(index + 1), root, nodes, n, w)
    BY WalksExist
  <2> QED
    BY <2>1 DEF WalkedFrom
<1>2. get_proof(n, index) = [k \in 1 .. Cardinality({k \in 0 .. n : node[k] # root}) |-> SiblingIn(node[k], node[k - 1])]
  <2>1. get_proof(n, index) = <<>> \o [k \in 1 .. Cardinality({k \in 0 .. n : node[k] # root}) |-> SiblingIn(node[k], node[k - 1])]
    BY DEF get_proof
  <2> HIDE DEF node
  <2>2. Cardinality({k \in 0 .. n : node[k] # root}) \in Nat
    <3>1. {k \in 0 .. n : node[k] # root} \subseteq 0 .. n /\ IsFiniteSet(0 .. n)
      BY FS_Interval
    <3> QED
      BY <3>1, FS_Subset, FS_CardinalityType
  <2>3. PICK f : f = [k \in 1 .. Cardinality({k \in 0 .. n : node[k] # root}) |-> SiblingIn(node[k], node[k - 1])]
    OBVIOUS
  <2>4. f = [k \in 1 .. Cardinality({k \in 0 .. n : node[k] # root}) |-> f[k]]
    BY <2>3
  <2> QED
    BY <2>1, <2>2, <2>3, <2>4, BehindNothing
<1> HIDE DEF node
<1> QED
  BY <1>1, <1>2 DEF ReadOff

\* The proof that get_proof gives climbs from its leaf to the root.
LEMMA ProofClimbs ==
  ASSUME NEW n \in Nat \ {0}, NEW top \in 0 .. n, NEW T, T = _build_tree(n), Grown(n, top, T),
         NEW index \in 0 .. n - 1, NEW place, Rising(T, top, place), place[0] = index
  PROVE  /\ RootOf(n) = At(T, top, 0)
         /\ Climb(T, top, place, get_proof(n, index))
<1>1. T[n] = T[top]
  <2>1. n \in top .. n
    OBVIOUS
  <2> QED
    BY <2>1 DEF Grown
<1>2. PICK root : root = At(T, top, 0) /\ root = T[n][1]
  BY <1>1 DEF At
<1>3. Leaf(index + 1) = At(T, 0, place[0])
  BY Leaves
<1>4. PICK w : ReadOff(n, index, T, root, w)
  BY <1>2, ProofIs
<1>5. PICK nodes : nodes = UNION {Range(T[j]) : j \in 1 .. n}
  OBVIOUS
<1>6. WalkedFrom(At(T, 0, place[0]), At(T, top, 0), nodes, n, w)
  BY <1>2, <1>3, <1>4, <1>5 DEF ReadOff
<1>7. Walked(n, T, top, place, w)
  BY <1>5, <1>6, WalkClimbs
<1>8. \A k \in 0 .. top : w[k] = At(T, k, place[k])
  BY <1>7 DEF Walked
<1>9. {k \in 0 .. n : w[k] # root} = 0 .. top - 1
  BY <1>2, <1>7 DEF Walked
<1>10. Cardinality(0 .. top - 1) = top
  BY FS_Interval
<1>11. PICK proof : proof = get_proof(n, index) /\ proof = [k \in 1 .. top |-> SiblingIn(w[k], w[k - 1])]
  BY <1>4, <1>9, <1>10 DEF ReadOff
<1>12. Len(proof) = top
  <2>1. proof = [k \in 1 .. top |-> proof[k]]
    BY <1>11
  <2> QED
    BY <2>1, LenOf
<1>13. ASSUME NEW k \in 0 .. top - 1
       PROVE  /\ proof[k + 1] = SiblingIn(At(T, k + 1, place[k + 1]), At(T, k, place[k]))
              /\ place[k] \in Places(T, k) /\ place[k + 1] = place[k] \div 2
  <2>1. k + 1 \in 1 .. top /\ (k + 1) - 1 = k /\ k \in 0 .. top /\ k + 1 \in 0 .. top
    OBVIOUS
  <2>2. proof[k + 1] = SiblingIn(w[k + 1], w[k])
    BY <1>11, <2>1
  <2> QED
    BY <1>8, <2>1, <2>2 DEF Rising
<1>14. Climb(T, top, place, proof)
  <2>1. ASSUME NEW k \in 0 .. top - 1
        PROVE  LET x == At(T, k, place[k]) parent == At(T, k + 1, place[k + 1])
               IN /\ \/ place[k] % 2 = 0 /\ parent = Combined(x, proof[k + 1])
                     \/ place[k] % 2 = 1 /\ parent = Combined(proof[k + 1], x) /\ proof[k + 1] # x
                  /\ place[k] + 1 \in Places(T, k) /\ place[k] % 2 = 0 => proof[k + 1] # x
    <3>1. PICK i \in Places(T, k) : i = place[k] /\ place[k + 1] = i \div 2
      BY <1>13
    <3>2. proof[k + 1] = SiblingIn(At(T, k + 1, i \div 2), At(T, k, i))
      BY <1>13, <3>1
    <3> QED
      BY <3>1, <3>2, Siblings
  <2> QED
    BY <1>12, <2>1 DEF Climb
<1>15. RootOf(n) = root
  BY <1>2 DEF RootOf
<1> QED
  BY <1>2, <1>11, <1>14, <1>15

\* What verify_proof is.
LEMMA VerificationIs ==
  ASSUME NEW root, NEW data, NEW proof, NEW index, NEW top, top = Len(proof), top \in Nat,
         NEW place, place = Shifted(index, top)
  PROVE  \E h : /\ HashedFrom(Sha256(data), proof, place, top, h)
                /\ verify_proof(root, data, proof, index) <=> root = h[top]
<1> DEFINE hash == CHOOSE h : h = [i \in 0 .. top |->
                                     IF i = 0 THEN Sha256(data)
                                     ELSE IF place[i - 1] % 2 = 0 THEN Combined(h[i - 1], proof[i])
                                                                  ELSE Combined(proof[i], h[i - 1])]
<1>1. HashedFrom(Sha256(data), proof, place, top, hash)
  <2>1. \E h : HashedFrom(Sha256(data), proof, place, top, h)
    BY HashesExist
  <2> QED
    BY <2>1 DEF HashedFrom
<1>2. verify_proof(root, data, proof, index) <=> root = hash[top]
  BY DEF verify_proof
<1> HIDE DEF hash
<1> QED
  BY <1>1, <1>2

\* The hashes level by level.
LEMMA HashesAre ==
  ASSUME NEW top \in Nat, NEW x, NEW proof, NEW place, NEW h, HashedFrom(x, proof, place, top, h)
  PROVE  /\ h[0] = x
         /\ \A k \in 0 .. top - 1 : h[k + 1] = IF place[k] % 2 = 0 THEN Combined(h[k], proof[k + 1])
                                                                   ELSE Combined(proof[k + 1], h[k])
<1>1. h = [i \in 0 .. top |-> IF i = 0 THEN x ELSE IF place[i - 1] % 2 = 0 THEN Combined(h[i - 1], proof[i])
                                                   ELSE Combined(proof[i], h[i - 1])]
  BY DEF HashedFrom
<1>2. ASSUME NEW k \in 0 .. top - 1
      PROVE  h[k + 1] = IF place[k] % 2 = 0 THEN Combined(h[k], proof[k + 1]) ELSE Combined(proof[k + 1], h[k])
  <2>1. k + 1 \in 0 .. top /\ k + 1 # 0 /\ (k + 1) - 1 = k
    OBVIOUS
  <2> QED
    BY <1>1, <2>1
<1>3. h[0] = x
  <2>1. 0 \in 0 .. top
    OBVIOUS
  <2> QED
    BY <1>1, <2>1
<1> QED
  BY <1>2, <1>3

\* At its own place a proof hashes to each node of the climb.
LEMMA OwnPlace ==
  ASSUME NEW top \in Nat, NEW T, NEW place, NEW proof, Climb(T, top, place, proof),
         NEW h, HashedFrom(At(T, 0, place[0]), proof, place, top, h)
  PROVE  \A k \in 0 .. top : h[k] = At(T, k, place[k])
<1> DEFINE Good == {k \in 0 .. top : h[k] = At(T, k, place[k])}
<1>1. 0 \in Good
  BY HashesAre
<1>2. ASSUME NEW k \in 0 .. top - 1, k \in Good PROVE k + 1 \in Good
  <2>1. h[k + 1] = IF place[k] % 2 = 0 THEN Combined(h[k], proof[k + 1]) ELSE Combined(proof[k + 1], h[k])
    BY HashesAre
  <2>2. h[k] = At(T, k, place[k])
    BY <1>2
  <2>3. CASE place[k] % 2 = 0
    <3>1. At(T, k + 1, place[k + 1]) = Combined(At(T, k, place[k]), proof[k + 1])
      BY <2>3 DEF Climb
    <3> QED
      BY <2>1, <2>2, <2>3, <3>1
  <2>4. CASE place[k] % 2 # 0
    <3>1. At(T, k + 1, place[k + 1]) = Combined(proof[k + 1], At(T, k, place[k]))
      BY <2>4 DEF Climb
    <3> QED
      BY <2>1, <2>2, <2>4, <3>1
  <2> QED
    BY <2>3, <2>4
<1>3. \A k \in 0 .. top : k \in Good
  <2> HIDE DEF Good
  <2> QED
    BY <1>1, <1>2, InductionUpTo
<1> QED
  BY <1>3

\* A hash that has left the climb does not come back to it.
LEMMA OffTheClimb ==
  ASSUME NEW top \in Nat, NEW T, NEW place, NEW proof, Climb(T, top, place, proof),
         NEW x, NEW other, NEW h, HashedFrom(x, proof, other, top, h),
         NEW k \in 0 .. top - 1, h[k] # At(T, k, place[k])
  PROVE  h[k + 1] # At(T, k + 1, place[k + 1])
<1> DEFINE y == At(T, k, place[k])
           parent == At(T, k + 1, place[k + 1])
           s == proof[k + 1]
<1>1. h[k + 1] = Combined(h[k], s) \/ h[k + 1] = Combined(s, h[k])
  BY HashesAre
<1>2. parent = Combined(y, s) \/ parent = Combined(s, y)
  BY DEF Climb
<1> HIDE DEF y, parent, s
<1>3. h[k] # y
  BY DEF y
<1>4. h[k + 1] # parent
  BY <1>1, <1>2, <1>3, Shapes
<1> QED
  BY <1>4 DEF parent

\* A tree of two leaves or more has levels below its root.
LEMMA TwoLeaves ==
  ASSUME NEW n \in Nat \ {0}, n > 1, NEW top \in 0 .. n, NEW T, Grown(n, top, T)
  PROVE  top \in 1 .. n /\ 0 \in 0 .. top - 1 /\ top - 1 \in 0 .. top - 1
<1>1. top # 0
  BY DEF Grown
<1> QED
  BY <1>1

\* What starts off the climb never reaches the root.
LEMMA OtherData ==
  ASSUME NEW top \in Nat, NEW T, NEW place, NEW proof, Climb(T, top, place, proof),
         NEW x, x # At(T, 0, place[0]), NEW other, NEW h, HashedFrom(x, proof, other, top, h)
  PROVE  h[top] # At(T, top, place[top])
<1> DEFINE Good == {k \in 0 .. top : h[k] # At(T, k, place[k])}
<1>1. 0 \in Good
  BY HashesAre
<1>2. ASSUME NEW k \in 0 .. top - 1, k \in Good PROVE k + 1 \in Good
  BY <1>2, OffTheClimb
<1>3. \A k \in 0 .. top : k \in Good
  <2> HIDE DEF Good
  <2> QED
    BY <1>1, <1>2, InductionUpTo
<1> QED
  BY <1>3

\* The next leaf of the tree is on the other side at the first level.
LEMMA NextLeaf ==
  ASSUME NEW n \in Nat \ {0}, NEW top \in 1 .. n, NEW T, Grown(n, top, T),
         NEW place, Rising(T, top, place), NEW proof, Climb(T, top, place, proof),
         NEW other, other[0] = place[0] + 1, place[0] + 1 \in 0 .. n - 1,
         NEW h, HashedFrom(At(T, 0, place[0]), proof, other, top, h)
  PROVE  h[top] # At(T, top, place[top])
<1>0. 0 \in 0 .. top - 1 /\ 0 + 1 = 1 /\ top \in Nat /\ 0 \in 0 .. top
  OBVIOUS
<1> DEFINE x == At(T, 0, place[0])
           parent == At(T, 1, place[1])
<1>1. place[0] \in Nat /\ place[0] + 1 \in Places(T, 0)
  BY <1>0, Leaves DEF Rising
<1>2. /\ \/ place[0] % 2 = 0 /\ parent = Combined(x, proof[1])
         \/ place[0] % 2 = 1 /\ parent = Combined(proof[1], x)
      /\ proof[1] # x
  BY <1>0, <1>1 DEF Climb
<1>3. h[0] = x /\ h[1] = IF other[0] % 2 = 0 THEN Combined(h[0], proof[1]) ELSE Combined(proof[1], h[0])
  BY <1>0, HashesAre
<1>4. other[0] % 2 = 0 <=> place[0] % 2 = 1
  BY <1>1
<1>5. h[1] # parent
  <2> HIDE DEF x, parent
  <2>1. CASE place[0] % 2 = 0
    <3>1. h[1] = Combined(proof[1], x) /\ parent = Combined(x, proof[1])
      BY <1>2, <1>3, <1>4, <2>1
    <3> QED
      BY <1>2, <3>1, Shapes
  <2>2. CASE place[0] % 2 # 0
    <3>1. h[1] = Combined(x, proof[1]) /\ parent = Combined(proof[1], x)
      BY <1>2, <1>3, <1>4, <2>2
    <3> QED
      BY <1>2, <3>1, Shapes
  <2> QED
    BY <2>1, <2>2
<1> DEFINE Good == {j \in 0 .. top - 1 : h[j + 1] # At(T, j + 1, place[j + 1])}
<1>6. 0 \in Good
  BY <1>0, <1>5
<1>7. ASSUME NEW j \in 0 .. (top - 1) - 1, j \in Good PROVE j + 1 \in Good
  <2>1. PICK k \in 0 .. top - 1 : k = j + 1
    OBVIOUS
  <2>2. h[k] # At(T, k, place[k])
    BY <1>7, <2>1
  <2>3. h[k + 1] # At(T, k + 1, place[k + 1])
    BY <1>0, <2>2, OffTheClimb
  <2> QED
    BY <2>1, <2>3
<1>8. top - 1 \in Good
  <2> HIDE DEF Good
  <2>1. top - 1 \in Nat /\ top - 1 \in 0 .. top - 1
    OBVIOUS
  <2> QED
    BY <1>6, <1>7, <2>1, InductionUpTo
<1>9. (top - 1) + 1 = top
  OBVIOUS
<1> QED
  BY <1>8, <1>9

\* The last leaf is the second below the root, or below the pairs of last nodes on the way to it; the
\* first leaf is at place 0 all the way.
LEMMA LastLeaf ==
  ASSUME NEW n \in Nat \ {0}, NEW top \in 1 .. n, NEW T, Grown(n, top, T),
         NEW place, Rising(T, top, place), place[0] = n - 1, NEW proof, Climb(T, top, place, proof),
         NEW other, \A k \in 0 .. top - 1 : other[k] = 0,
         NEW h, HashedFrom(At(T, 0, place[0]), proof, other, top, h)
  PROVE  h[top] # At(T, top, place[top])
<1> DEFINE Good == {k \in 0 .. top : place[k] = Len(T[k]) - 1}
<1>1. 0 \in Good
  BY DEF Grown
<1>2. ASSUME NEW k \in 0 .. top - 1, k \in Good PROVE k + 1 \in Good
  <2>0. Halves(Len(T[k]), Len(T[k + 1]))
    BY Parents
  <2>1. PICK m : m = Len(T[k]) /\ m \in Nat /\ m >= 2 /\ Len(T[k + 1]) = (m + 1) \div 2
    BY <2>0 DEF Halves
  <2>2. place[k] = m - 1 /\ place[k + 1] = place[k] \div 2
    BY <1>2, <2>1 DEF Rising
  <2>3. (m - 1) \div 2 = (m + 1) \div 2 - 1
    BY <2>1, HalvedTwice
  <2>4. place[k + 1] = Len(T[k + 1]) - 1
    BY <2>1, <2>2, <2>3
  <2> QED
    BY <2>4
<1>3. \A k \in 0 .. top : k \in Good
  <2> HIDE DEF Good
  <2> QED
    BY <1>1, <1>2, InductionUpTo
<1>4. PICK k \in 0 .. top - 1 : k + 1 = top
  <2>1. top - 1 \in 0 .. top - 1 /\ (top - 1) + 1 = top
    OBVIOUS
  <2> QED
    BY <2>1
<1>5. place[k] = 1
  <2>0. Halves(Len(T[k]), Len(T[k + 1]))
    BY Parents
  <2>1. PICK m : m = Len(T[k]) /\ m \in Nat /\ m >= 2 /\ Len(T[k + 1]) = (m + 1) \div 2
    BY <2>0 DEF Halves
  <2>2. (m + 1) \div 2 = 1
    BY <1>4, <2>1 DEF Grown
  <2>3. m = 2
    BY <2>1, <2>2, HalvedTwice
  <2>4. place[k] = Len(T[k]) - 1
    <3>1. k \in 0 .. top
      OBVIOUS
    <3> QED
      BY <1>3, <3>1
  <2>5. place[k] = m - 1
    BY <2>1, <2>4
  <2> QED
    BY <2>3, <2>5
<1>6. /\ At(T, k + 1, place[k + 1]) = Combined(proof[k + 1], At(T, k, place[k]))
      /\ proof[k + 1] # At(T, k, place[k])
  <2>1. place[k] % 2 = 1 /\ place[k] % 2 # 0
    BY <1>5
  <2> QED
    BY <2>1 DEF Climb
<1>7. h[k + 1] = Combined(h[k], proof[k + 1])
  <2>1. other[k] % 2 = 0
    <3>1. other[k] = 0
      OBVIOUS
    <3> QED
      BY <3>1
  <2> QED
    BY <2>1, HashesAre
<1>8. h[k + 1] # At(T, k + 1, place[k + 1])
  BY <1>6, <1>7, Shapes
<1> QED
  BY <1>4, <1>8

\* Shifting zero.
LEMMA ShiftedZero == ASSUME NEW n \in Nat PROVE \A k \in 0 .. n : Shifted(0, n)[k] = 0
<1>1. PICK f : f = Shifted(0, n) /\ f[0] = 0 /\ \A k \in 1 .. n : f[k] = f[k - 1] \div 2
  BY ShiftedIs
<1> DEFINE Good == {k \in 0 .. n : f[k] = 0}
<1>2. 0 \in Good
  BY <1>1
<1>3. ASSUME NEW k \in 0 .. n - 1, k \in Good PROVE k + 1 \in Good
  <2>1. k + 1 \in 1 .. n /\ (k + 1) - 1 = k
    OBVIOUS
  <2>2. f[k + 1] = f[k] \div 2 /\ f[k] = 0
    BY <1>1, <1>3, <2>1
  <2> QED
    BY <2>1, <2>2
<1>4. \A k \in 0 .. n : k \in Good
  <2> HIDE DEF Good
  <2> QED
    BY <1>2, <1>3, InductionUpTo
<1> QED
  BY <1>1, <1>4

\* What holds of one record: its proof verifies at its place, not at the next one, and nothing else's there.
Verifies(n, index) ==
  LET proof == get_proof(n, index)
  IN /\ verify_proof(RootOf(n), Payload(index + 1), proof, index)
     /\ n > 1 => ~verify_proof(RootOf(n), Payload(index + 1), proof, (index + 1) % n)
     /\ \A data : verify_proof(RootOf(n), data, proof, index) => data = Payload(index + 1)

\* Every proof of every tree verifies where it should and nowhere next to it.
LEMMA EveryProofVerifies == \A n \in Nat \ {0} : \A index \in 0 .. n - 1 : Verifies(n, index)
<1> SUFFICES ASSUME NEW n \in Nat \ {0}, NEW index \in 0 .. n - 1 PROVE Verifies(n, index)
  OBVIOUS
<1>1. PICK T, top : T = _build_tree(n) /\ top \in 0 .. n /\ Grown(n, top, T)
  <2>1. PICK top \in 0 .. n : Grown(n, top, _build_tree(n))
    BY TreeGrows
  <2> QED
    BY <2>1
<1>2. top \in Nat /\ top \in top .. n /\ n \in Nat /\ index \in Nat
  BY <1>1
<1>3. PICK place : place = Shifted(index, top) /\ Rising(T, top, place) /\ place[0] = index
  BY <1>1, <1>2, ShiftsRise, ShiftedIs
<1>4. PICK proof : proof = get_proof(n, index) /\ RootOf(n) = At(T, top, 0) /\ Climb(T, top, place, proof)
  BY <1>1, <1>3, ProofClimbs
<1>5. PICK x : x = Sha256(Payload(index + 1)) /\ x = At(T, 0, place[0])
  BY <1>1, <1>3, Leaves DEF Leaf
<1>d. PICK data : data = Payload(index + 1) /\ x = Sha256(data)
  BY <1>5
<1>6. Len(proof) = top
  BY <1>4 DEF Climb
<1>7. place[top] = 0
  <2>1. top \in 0 .. top
    BY <1>2
  <2> QED
    BY <1>1, <2>1, <1>3, Leaves DEF Rising
<1>8. verify_proof(RootOf(n), data, proof, index)
  <2>1. PICK h : /\ HashedFrom(Sha256(data), proof, place, top, h)
                 /\ verify_proof(RootOf(n), data, proof, index) <=> RootOf(n) = h[top]
    BY <1>2, <1>3, <1>6, VerificationIs
  <2>2. h[top] = At(T, top, place[top])
    <3>0. HashedFrom(At(T, 0, place[0]), proof, place, top, h)
      BY <1>5, <1>d, <2>1
    <3>1. top \in 0 .. top
      BY <1>2
    <3> QED
      BY <1>2, <1>4, <3>0, <3>1, OwnPlace
  <2> QED
    BY <1>4, <1>7, <2>1, <2>2
<1>9. ASSUME n > 1 PROVE ~verify_proof(RootOf(n), data, proof, (index + 1) % n)
  <2>1. PICK next : next = (index + 1) % n
    OBVIOUS
  <2>2. PICK other : other = Shifted(next, top)
    OBVIOUS
  <2>3. PICK h : /\ HashedFrom(Sha256(data), proof, other, top, h)
                 /\ verify_proof(RootOf(n), data, proof, next) <=> RootOf(n) = h[top]
    <3>1. top \in Nat /\ top = Len(proof)
      BY <1>2, <1>6
    <3> QED
      BY SMTT(30), <2>2, <3>1, VerificationIs
  <2>4. top \in 1 .. n
    BY <1>1, <1>9, TwoLeaves
  <2>5. HashedFrom(At(T, 0, place[0]), proof, other, top, h)
    BY <1>5, <1>d, <2>3
  <2>6. CASE index + 1 \in 0 .. n - 1
    <3>1. next = index + 1
      BY <1>2, <2>1, <2>6
    <3>2. other[0] = place[0] + 1
      BY <1>2, <1>3, <2>2, <3>1, ShiftedIs
    <3>3. h[top] # At(T, top, place[top])
      BY <1>1, <1>3, <1>4, <2>4, <2>5, <2>6, <3>2, NextLeaf
    <3> QED
      BY <1>4, <1>7, <2>1, <2>3, <3>3
  <2>7. CASE index + 1 \notin 0 .. n - 1
    <3>1. index = n - 1 /\ next = 0
      <4>1. index = n - 1
        BY <1>2, <2>7
      <4>2. next = n % n
        BY <1>2, <2>1, <4>1
      <4> QED
        BY <1>2, <4>1, <4>2
    <3>2. \A k \in 0 .. top - 1 : other[k] = 0
      <4>1. \A k \in 0 .. top : other[k] = 0
        BY <1>2, <2>2, <3>1, ShiftedZero
      <4> QED
        BY <1>2, <4>1
    <3>3. h[top] # At(T, top, place[top])
      BY <1>1, <1>3, <1>4, <2>4, <2>5, <3>1, <3>2, LastLeaf
    <3> QED
      BY <1>4, <1>7, <2>1, <2>3, <3>3
  <2> QED
    BY <2>6, <2>7
<1>10. ASSUME NEW claimed, verify_proof(RootOf(n), claimed, proof, index) PROVE claimed = data
  <2>1. PICK h : /\ HashedFrom(Sha256(claimed), proof, place, top, h)
                 /\ verify_proof(RootOf(n), claimed, proof, index) <=> RootOf(n) = h[top]
    BY <1>2, <1>3, <1>6, VerificationIs
  <2>2. h[top] = At(T, top, place[top])
    BY <1>4, <1>7, <1>10, <2>1
  <2>3. Sha256(claimed) = At(T, 0, place[0])
    BY <1>2, <1>4, <2>1, <2>2, OtherData
  <2> QED
    BY <1>5, <1>d, <2>3, HashesDiffer
<1> QED
  BY <1>4, <1>d, <1>8, <1>9, <1>10 DEF Verifies

\* Whatever the number of records.
LEMMA LedgerVerifies == Len(records) \in Nat => ProofsVerify
<1> SUFFICES ASSUME Len(records) \in Nat PROVE ProofsVerify
  OBVIOUS
<1>1. PICK n \in Nat : n = Len(records)
  OBVIOUS
<1>2. ASSUME NEW index \in 0 .. n - 1 PROVE Verifies(n, index)
  <2>1. n \in Nat \ {0}
    BY <1>1
  <2> QED
    BY <2>1, EveryProofVerifies
<1>3. ASSUME NEW index \in 0 .. n - 1
      PROVE  \A i \in 1 .. n : /\ verify_proof(RootOf(n), Payload(i), get_proof(n, index), index) <=> i = index + 1
                               /\ ~verify_proof(RootOf(n), Data(i), get_proof(n, index), index)
                               /\ ~verify_proof(RootOf(n), Leaf(i), get_proof(n, index), index)
  BY <1>2, <1>3, PayloadsDiffer DEF Verifies
<1>4. ASSUME NEW index \in 0 .. n - 1, heads # <<>>, Last(heads) = n
      PROVE  verify_record(index, Payload(index + 1)) /\ ~verify_record(index, Data(index + 1))
  <2>1. index + 1 \in 1 .. n
    BY <1>1, <1>4
  <2> QED
    BY <1>1, <1>3, <1>4, <2>1 DEF verify_record
<1>5. ASSUME NEW index \in 0 .. n - 1, n > 1
      PROVE  ~verify_proof(RootOf(n), Payload(index + 1), get_proof(n, index), (index + 1) % n)
  BY <1>2, <1>5 DEF Verifies
<1> QED
  BY <1>1, <1>3, <1>4, <1>5 DEF ProofsVerify

\* For any number of records and holders, odd levels included: the proof that the ledger gives of a record
\* verifies what its hash was made of and nothing else, neither another record's, nor a hash, nor the data alone, at
\* its place and not at the next; and when the signed head covers all records verify_record accepts that, and not
\* the data alone (MerkleTree.get_proof, verify_proof, CreditLedger.verify_record).
THEOREM RecordsAreProved == CreditsSpec => []ProofsVerify
<1>1. CreditsInit => CreditsInv
  BY CreditsBegin
<1>2. CreditsInv /\ [CreditsNext]_creditsVars => CreditsInv'
  BY CreditsKept
<1>3. CreditsInv => ProofsVerify
  <2> SUFFICES ASSUME CreditsInv PROVE ProofsVerify
    OBVIOUS
  <2>1. records \in Seq(CreditRecord)
    BY DEF CreditsInv, CreditsTypes
  <2>2. Len(records) \in Nat
    BY <2>1, LenProperties
  <2> QED
    BY <2>2, LedgerVerifies
<1> QED
  BY <1>1, <1>2, <1>3, PTL DEF CreditsSpec

-----------------------------------------------------------------------------
(* Sequences put one behind the other. *)
Flat(ss, n, g) == g = [i \in 1 .. n |-> IF i = 1 THEN ss[i] ELSE g[i - 1] \o ss[i]]
TheFlat(ss, n) == CHOOSE g : Flat(ss, n, g)
Joined(ss, k) == FlattenSeq([i \in 1 .. k |-> ss[i]])

\* There is a function that joins the first parts, however many.
LEMMA FlatsExist ==
  ASSUME NEW X, NEW n \in Nat, NEW ss \in [1 .. n -> Seq(X)]
  PROVE  \E g : Flat(ss, n, g) /\ g \in [1 .. n -> Seq(X)]
<1> DEFINE Good == {m \in Nat : m <= n => \E g \in [1 .. m -> Seq(X)] : Flat(ss, m, g)}
<1>1. 0 \in Good
  <2>1. PICK g : g = [i \in 1 .. 0 |-> ss[i]]
    OBVIOUS
  <2>2. g \in [1 .. 0 -> Seq(X)] /\ Flat(ss, 0, g)
    BY <2>1 DEF Flat
  <2> QED
    BY <2>2
<1>2. ASSUME NEW m \in Good PROVE m + 1 \in Good
  <2>1. m \in Nat
    OBVIOUS
  <2> SUFFICES ASSUME m + 1 <= n PROVE \E h \in [1 .. m + 1 -> Seq(X)] : Flat(ss, m + 1, h)
    BY <2>1
  <2>2. PICK g \in [1 .. m -> Seq(X)] : Flat(ss, m, g)
    BY <2>1
  <2>3. PICK last \in Seq(X) : last = IF m = 0 THEN ss[1] ELSE g[m] \o ss[m + 1]
    <3>1. ss[m + 1] \in Seq(X) /\ ss[1] \in Seq(X)
      BY <2>1
    <3>2. CASE m = 0
      <4>1. ss[1] = IF m = 0 THEN ss[1] ELSE g[m] \o ss[m + 1]
        BY <3>2
      <4> QED
        BY <3>1, <4>1
    <3>3. CASE m # 0
      <4>1. g[m] \in Seq(X)
        BY <2>1, <3>3
      <4>2. g[m] \o ss[m + 1] \in Seq(X)
        BY <3>1, <4>1
      <4>3. g[m] \o ss[m + 1] = IF m = 0 THEN ss[1] ELSE g[m] \o ss[m + 1]
        BY <3>3
      <4> QED
        BY <4>2, <4>3
    <3> QED
      BY <3>2, <3>3
  <2>4. PICK h : h = [i \in 1 .. m + 1 |-> IF i <= m THEN g[i] ELSE last]
    OBVIOUS
  <2>5. h \in [1 .. m + 1 -> Seq(X)]
    BY <2>1, <2>4
  <2>6. ASSUME NEW i \in 1 .. m + 1 PROVE h[i] = IF i = 1 THEN ss[i] ELSE h[i - 1] \o ss[i]
    <3>0. /\ \A k \in 1 .. m : g[k] = IF k = 1 THEN ss[k] ELSE g[k - 1] \o ss[k]
          /\ \A k \in 1 .. m : h[k] = g[k]
          /\ h[m + 1] = last
      <4>1. \A k \in 1 .. m : g[k] = IF k = 1 THEN ss[k] ELSE g[k - 1] \o ss[k]
        BY <2>2 DEF Flat
      <4>2. \A k \in 1 .. m : h[k] = g[k]
        BY <2>1, <2>4
      <4>3. h[m + 1] = last
        BY <2>1, <2>4
      <4> QED
        BY <4>1, <4>2, <4>3
    <3>1. CASE i <= m
      <4>1. i \in 1 .. m /\ (i # 1 => i - 1 \in 1 .. m)
        BY <2>1, <3>1
      <4> QED
        BY <3>0, <4>1
    <3>2. CASE i = m + 1 /\ m = 0
      BY <2>3, <3>0, <3>2
    <3>3. CASE i = m + 1 /\ m # 0
      <4>1. i # 1 /\ i - 1 = m /\ m \in 1 .. m
        BY <2>1, <3>3
      <4> QED
        BY <2>3, <3>0, <3>3, <4>1
    <3> QED
      BY <2>1, <3>1, <3>2, <3>3
  <2>7. Flat(ss, m + 1, h)
    <3>1. h = [i \in 1 .. m + 1 |-> h[i]]
      BY <2>4
    <3> QED
      BY <2>6, <3>1 DEF Flat
  <2> QED
    BY <2>5, <2>7
<1> HIDE DEF Good
<1>3. Good \in SUBSET Nat
  BY DEF Good
<1>4. n \in Good
  BY <1>1, <1>2, <1>3, SetInduction
<1> QED
  BY <1>4 DEF Good

\* Two that begin alike are put together alike, as far as they are alike.
Alike(n, ss, m, tt) == n \in Nat /\ m \in Nat /\ n <= m /\ \A i \in 1 .. n : ss[i] = tt[i]
\* Parts that are alike are joined alike.
LEMMA FlatsAgree ==
  ASSUME NEW n, NEW m, NEW ss, NEW tt, Alike(n, ss, m, tt), NEW g, Flat(ss, n, g), NEW h, Flat(tt, m, h)
  PROVE  \A i \in 1 .. n : g[i] = h[i]
<1>a. n \in Nat /\ m \in Nat /\ n <= m /\ \A i \in 1 .. n : ss[i] = tt[i]
  BY DEF Alike
<1> DEFINE Good == {k \in Nat : k \in 1 .. n => g[k] = h[k]}
<1>0. /\ \A k \in 1 .. n : g[k] = IF k = 1 THEN ss[k] ELSE g[k - 1] \o ss[k]
      /\ \A k \in 1 .. m : h[k] = IF k = 1 THEN tt[k] ELSE h[k - 1] \o tt[k]
  BY DEF Flat
<1>1. 0 \in Good
  BY <1>a
<1>2. ASSUME NEW k \in Good PROVE k + 1 \in Good
  <2>1. k \in Nat /\ (k \in 1 .. n => g[k] = h[k])
    OBVIOUS
  <2> SUFFICES ASSUME k + 1 \in 1 .. n PROVE g[k + 1] = h[k + 1]
    BY <2>1
  <2>2. k + 1 \in 1 .. m /\ ss[k + 1] = tt[k + 1] /\ (k # 0 => k \in 1 .. n /\ k + 1 # 1 /\ (k + 1) - 1 = k)
    BY <1>a, <2>1
  <2>3. CASE k = 0
    BY <1>0, <2>2, <2>3
  <2>4. CASE k # 0
    BY <1>0, <2>1, <2>2, <2>4
  <2> QED
    BY <2>3, <2>4
<1> HIDE DEF Good
<1>3. Good \in SUBSET Nat
  BY DEF Good
<1>4. \A k \in Nat : k \in Good
  BY <1>1, <1>2, <1>3, SetInduction
<1> QED
  BY <1>4, <1>a DEF Good

\* What joining the first parts gives is what that function says.
LEMMA JoinedIs ==
  ASSUME NEW X, NEW n \in Nat, NEW ss \in [1 .. n -> Seq(X)], NEW g, Flat(ss, n, g)
  PROVE  Joined(ss, 0) = <<>> /\ \A k \in 1 .. n : Joined(ss, k) = g[k]
<1>1. Joined(ss, 0) = <<>>
  <2>1. PICK tt : tt = [i \in 1 .. 0 |-> ss[i]]
    OBVIOUS
  <2>2. tt = <<>> /\ Len(tt) = 0
    BY <2>1
  <2> QED
    BY <2>1, <2>2 DEF Joined, FlattenSeq
<1>2. ASSUME NEW k \in 1 .. n PROVE Joined(ss, k) = g[k]
  <2>1. PICK tt : tt = [i \in 1 .. k |-> ss[i]]
    OBVIOUS
  <2>2. tt \in [1 .. k -> Seq(X)] /\ k \in Nat /\ k # 0 /\ k <= n
    BY <2>1
  <2>3. Len(tt) = k
    BY <2>2
  <2>4. Flat(tt, k, TheFlat(tt, k))
    BY <2>2, FlatsExist DEF TheFlat
  <2>5. FlattenSeq(tt) = TheFlat(tt, k)[k]
    BY <2>2, <2>3 DEF FlattenSeq, TheFlat, Flat
  <2>6. \A i \in 1 .. k : tt[i] = ss[i]
    BY <2>1
  <2>7. TheFlat(tt, k)[k] = g[k]
    <3>1. PICK h : h = TheFlat(tt, k) /\ Flat(tt, k, h)
      BY <2>4
    <3>2. Alike(k, tt, n, ss) /\ Flat(tt, k, h)
      BY <2>2, <2>6, <3>1 DEF Alike
    <3>3. \A i \in 1 .. k : h[i] = g[i]
      BY <3>2, FlatsAgree
    <3> QED
      BY <3>1, <3>3
  <2> QED
    BY <2>1, <2>5, <2>7 DEF Joined
<1> QED
  BY <1>1, <1>2

\* Joining one part more appends it.
LEMMA JoinedNext ==
  ASSUME NEW X, NEW n \in Nat, NEW ss \in [1 .. n -> Seq(X)]
  PROVE  /\ \A k \in 0 .. n : Joined(ss, k) \in Seq(X)
         /\ \A k \in 1 .. n : Joined(ss, k) = Joined(ss, k - 1) \o ss[k]
<1>1. PICK g : Flat(ss, n, g) /\ g \in [1 .. n -> Seq(X)]
  BY FlatsExist
<1>2. Joined(ss, 0) = <<>> /\ \A k \in 1 .. n : Joined(ss, k) = g[k]
  BY <1>1, JoinedIs
<1>3. ASSUME NEW k \in 0 .. n PROVE Joined(ss, k) \in Seq(X)
  <2>1. CASE k = 0
    <3>1. <<>> \in Seq(X)
      OBVIOUS
    <3> QED
      BY <1>2, <2>1, <3>1
  <2>2. CASE k # 0
    <3>1. k \in 1 .. n
      BY <2>2
    <3> QED
      BY <1>1, <1>2, <3>1
  <2> QED
    BY <2>1, <2>2
<1>4. ASSUME NEW k \in 1 .. n PROVE Joined(ss, k) = Joined(ss, k - 1) \o ss[k]
  <2>1. g[k] = IF k = 1 THEN ss[k] ELSE g[k - 1] \o ss[k]
    BY <1>1 DEF Flat
  <2>2. CASE k = 1
    <3>1. PICK s \in Seq(X) : s = ss[k]
      OBVIOUS
    <3>2. <<>> \o s = s
      OBVIOUS
    <3> QED
      BY <1>2, <2>1, <2>2, <3>1, <3>2
  <2>3. CASE k # 1
    <3>1. k - 1 \in 1 .. n
      BY <2>3
    <3> QED
      BY <1>2, <2>1, <2>3, <3>1
  <2> QED
    BY <2>2, <2>3
<1> QED
  BY <1>3, <1>4

\* Where the elements of two joined sequences are.
LEMMA Concatenated ==
  ASSUME NEW X, NEW s \in Seq(X), NEW t \in Seq(X)
  PROVE  /\ s \o t \in Seq(X) /\ Len(s) \in Nat /\ Len(t) \in Nat /\ Len(s \o t) = Len(s) + Len(t)
         /\ \A j \in 1 .. Len(s) : (s \o t)[j] = s[j]
         /\ \A j \in 1 .. Len(t) : (s \o t)[Len(s) + j] = t[j]
  OBVIOUS

\* s is in whole from the position that follows the first b.
Holds(whole, b, s) == Len(whole) >= b + Len(s) /\ \A j \in 1 .. Len(s) : whole[b + j] = s[j]

\* A sequence that another holds is a slice of it.
LEMMA HeldWholly ==
  ASSUME NEW X, NEW whole \in Seq(X), NEW s \in Seq(X), NEW b \in Nat, Holds(whole, b, s)
  PROVE  SubSeq(whole, b + 1, b + Len(s)) = s
<1>1. PICK n \in Nat, m \in Nat : n = Len(s) /\ m = Len(whole) /\ m >= b + n
  BY DEF Holds
<1>2. \A j \in b + 1 .. b + n : whole[j] \in X
  BY <1>1
<1>3. /\ SubSeq(whole, b + 1, b + n) \in Seq(X)
      /\ Len(SubSeq(whole, b + 1, b + n)) = IF b + 1 <= b + n THEN (b + n) - (b + 1) + 1 ELSE 0
      /\ \A j \in 1 .. (b + n) - (b + 1) + 1 : SubSeq(whole, b + 1, b + n)[j] = whole[(b + 1) + j - 1]
  <2>1. b + 1 \in Int /\ b + n \in Int
    OBVIOUS
  <2> QED
    BY <1>2, <2>1, SubSeqProperties
<1>4. PICK t \in Seq(X) : t = SubSeq(whole, b + 1, b + n)
  BY <1>3
<1>5. (b + n) - (b + 1) + 1 = n /\ (IF b + 1 <= b + n THEN n ELSE 0) = n
  OBVIOUS
<1>6. Len(t) = n
  BY <1>3, <1>4, <1>5
<1>7. \A j \in 1 .. n : t[j] = s[j]
  <2> TAKE j \in 1 .. n
  <2>1. (b + 1) + j - 1 = b + j
    OBVIOUS
  <2>2. t[j] = whole[b + j]
    BY <1>3, <1>4, <1>5, <2>1
  <2> QED
    BY <1>1, <2>2 DEF Holds
<1>8. t = s
  BY <1>1, <1>6, <1>7
<1> QED
  BY <1>1, <1>4, <1>8

\* What is held stays held when more is appended.
LEMMA HoldsOn ==
  ASSUME NEW X, NEW whole \in Seq(X), NEW b \in Nat, NEW s \in Seq(X), Holds(whole, b, s), NEW t \in Seq(X)
  PROVE  Holds(whole \o t, b, s)
<1>1. PICK n \in Nat, m \in Nat, k \in Nat : n = Len(s) /\ m = Len(whole) /\ m >= b + n /\ k = Len(t)
  BY DEF Holds
<1>2. Len(whole \o t) = m + k /\ \A j \in 1 .. m : (whole \o t)[j] = whole[j]
  BY <1>1, Concatenated
<1>3. \A j \in 1 .. n : b + j \in 1 .. m
  BY <1>1
<1>4. \A j \in 1 .. n : (whole \o t)[b + j] = s[j]
  BY <1>1, <1>2, <1>3 DEF Holds
<1> QED
  BY <1>1, <1>2, <1>4 DEF Holds

\* What is appended is held behind what was there.
LEMMA HoldsAtTheEnd ==
  ASSUME NEW X, NEW s \in Seq(X), NEW t \in Seq(X) PROVE Holds(s \o t, Len(s), t)
  BY Concatenated DEF Holds

\* The slice behind the parts before it is the part.
LEMMA SliceIsItsPart ==
  ASSUME NEW X, NEW n \in Nat, NEW ss \in [1 .. n -> Seq(X)], NEW i \in 1 .. n
  PROVE  LET b == Len(Joined(ss, i - 1)) IN SubSeq(Joined(ss, n), b + 1, b + Len(ss[i])) = ss[i]
<1>1. PICK before \in Seq(X) : before = Joined(ss, i - 1)
  <2>1. i - 1 \in 0 .. n
    OBVIOUS
  <2> QED
    BY <2>1, JoinedNext
<1>2. PICK s \in Seq(X) : s = ss[i]
  OBVIOUS
<1>3. PICK b \in Nat : b = Len(before)
  BY Concatenated
<1> DEFINE Good == {k \in Nat : i + k <= n => Holds(Joined(ss, i + k), b, s)}
<1>4. 0 \in Good
  <2>1. Joined(ss, i) = before \o s
    BY <1>1, <1>2, JoinedNext
  <2>2. Holds(before \o s, b, s)
    BY <1>3, HoldsAtTheEnd
  <2>3. i + 0 = i
    OBVIOUS
  <2> QED
    BY <2>1, <2>2, <2>3
<1>5. ASSUME NEW k \in Good PROVE k + 1 \in Good
  <2>1. k \in Nat /\ (i + k <= n => Holds(Joined(ss, i + k), b, s))
    OBVIOUS
  <2> SUFFICES ASSUME i + (k + 1) <= n PROVE Holds(Joined(ss, i + (k + 1)), b, s)
    BY <2>1
  <2>2. PICK m \in 1 .. n : m = i + (k + 1) /\ m - 1 = i + k /\ m - 1 \in 0 .. n /\ i + k <= n
    BY <2>1
  <2>3. PICK whole \in Seq(X) : whole = Joined(ss, m - 1)
    BY <2>2, JoinedNext
  <2>4. Holds(whole, b, s)
    BY <2>1, <2>2, <2>3
  <2>5. PICK t \in Seq(X) : t = ss[m]
    OBVIOUS
  <2>6. Joined(ss, m) = whole \o t
    BY <2>3, <2>5, JoinedNext
  <2>7. Holds(whole \o t, b, s)
    BY <2>4, HoldsOn
  <2> QED
    BY <2>2, <2>6, <2>7
<1> HIDE DEF Good
<1>6. Good \in SUBSET Nat
  BY DEF Good
<1>7. n - i \in Nat /\ i + (n - i) = n
  OBVIOUS
<1>8. n - i \in Good
  BY <1>4, <1>5, <1>6, <1>7, SetInduction
<1>9. Holds(Joined(ss, n), b, s)
  BY <1>7, <1>8 DEF Good
<1>10. PICK whole \in Seq(X) : whole = Joined(ss, n)
  <2>1. n \in 0 .. n
    OBVIOUS
  <2> QED
    BY <2>1, JoinedNext
<1>11. SubSeq(whole, b + 1, b + Len(s)) = s
  BY <1>9, <1>10, HeldWholly
<1> QED
  BY <1>1, <1>2, <1>3, <1>10, <1>11

\* A finite set in some order has everyone.
LEMMA EveryoneIsListed ==
  ASSUME NEW S, IsFiniteSet(S)
  PROVE  /\ Cardinality(S) \in Nat /\ SetToSeq(S) \in [1 .. Cardinality(S) -> S]
         /\ \A x \in S : \E i \in 1 .. Cardinality(S) : SetToSeq(S)[i] = x
<1>1. PICK n \in Nat : n = Cardinality(S)
  BY FS_CardinalityType
<1>2. PICK b : b \in Bijection(1 .. n, S)
  BY <1>1, FS_CardinalityType DEF ExistsBijection
<1>3. b \in [1 .. n -> S] /\ IsInjective(b)
  BY <1>2 DEF Bijection, Injection
<1>4. PICK f : f = SetToSeq(S) /\ f \in [1 .. n -> S] /\ IsInjective(f)
  BY <1>1, <1>3 DEF SetToSeq
<1>5. f \in Surjection(1 .. n, S)
  <2>1. f \in Injection(1 .. n, S)
    BY <1>4 DEF Injection
  <2>2. Cardinality(1 .. n) = n
    BY FS_Interval
  <2> QED
    BY <1>1, <2>1, <2>2, FS_Injection
<1> QED
  BY <1>1, <1>4, <1>5 DEF Surjection

-----------------------------------------------------------------------------
(* Grpo: what a worker is sent is the part of the joined rewards that it       *)
(* reported.                                                                  *)
GrpoSpec == GrpoInit /\ [][GrpoNext]_grpoVars

Reward == [by : Reporters, round : Nat, at : Nat, nth : Nat]
Buffer == [Reporters -> Seq(Reward)]
\* Each buffer holds the last report of each node; what was reported and sent was so before this turn.
GrpoInv ==
  /\ rounds \in Seq(Buffer) /\ turn \in Nat
  /\ \A r \in reward_reports : r.at \in Nat /\ r.at < turn /\ r.round \in DOMAIN rounds
  /\ \A nth_round \in DOMAIN rounds : \A w \in Reporters : LastReport(w, nth_round, turn, rounds[nth_round][w])
  /\ \A c \in completions : c.at \in Nat /\ c.at < turn
  /\ AdvantagesAreOfTheLastReport

\* The rewards of a report.
LEMMA RewardsAre ==
  ASSUME turn \in Nat, NEW w \in Reporters, NEW nth_round \in Nat, NEW n \in Nat PROVE Rewards(w, nth_round, n) \in Seq(Reward)
<1>1. PICK c : c = Rewards(w, nth_round, n)
  OBVIOUS
<1>2. c = [i \in 1 .. n |-> [by |-> w, round |-> nth_round, at |-> turn, nth |-> i]]
  BY <1>1 DEF Rewards
<1>3. \A i \in 1 .. n : c[i] \in Reward
  BY <1>2 DEF Reward
<1> QED
  BY <1>1, <1>2, <1>3

\* Each worker is sent the part it reported.
LEMMA SliceIsItsRewards ==
  ASSUME NEW worker_rewards \in Buffer, NEW w \in WorkerIds
  PROVE  Slice(worker_rewards, w) = worker_rewards[w]
<1>1. PICK n \in Nat : n = Cardinality(WorkerIds)
  BY GrpoAssumption, FS_CardinalityType
<1>2. PICK ids \in [1 .. n -> WorkerIds] : ids = worker_ids /\ \E i \in 1 .. n : ids[i] = w
  BY <1>1, GrpoAssumption, EveryoneIsListed DEF worker_ids
<1>3. DOMAIN ids = 1 .. n /\ Len(ids) = n
  OBVIOUS
<1>4. PICK i \in 1 .. n : i = (CHOOSE k \in DOMAIN worker_ids : worker_ids[k] = w) /\ ids[i] = w
  BY <1>2, <1>3
<1>5. PICK ss : ss = [k \in 1 .. n |-> worker_rewards[ids[k]]]
  OBVIOUS
<1>6. ss \in [1 .. n -> Seq(Reward)] /\ ss[i] = worker_rewards[w]
  BY <1>4, <1>5 DEF Buffer, Reporters
<1>7. ASSUME NEW k \in 0 .. n PROVE RewardsUpTo(worker_rewards, k) = Joined(ss, k)
  <2>1. [j \in 1 .. k |-> worker_rewards[worker_ids[j]]] = [j \in 1 .. k |-> ss[j]]
    BY <1>2, <1>5
  <2> QED
    BY <2>1 DEF RewardsUpTo, Joined
<1>8. all_rewards(worker_rewards) = Joined(ss, n) /\ RewardsUpTo(worker_rewards, i - 1) = Joined(ss, i - 1)
  <2>1. n \in 0 .. n /\ i - 1 \in 0 .. n
    OBVIOUS
  <2>2. Len(worker_ids) = n
    BY <1>2, <1>3
  <2> QED
    BY <1>7, <2>1, <2>2 DEF all_rewards
<1>9. Slice(worker_rewards, w) = SubSeq(Joined(ss, n), Len(Joined(ss, i - 1)) + 1, Len(Joined(ss, i - 1)) + Len(ss[i]))
  BY <1>4, <1>6, <1>8 DEF Slice
<1> QED
  BY <1>6, <1>9, SliceIsItsPart

\* Starting a round keeps the invariant of Grpo.
LEMMA RoundStarts == GrpoInv /\ start_round => GrpoInv'
<1> SUFFICES ASSUME GrpoInv, start_round PROVE GrpoInv'
  OBVIOUS
<1> DEFINE empty == [w \in Reporters |-> <<>>]
<1>1. rounds' = Append(rounds, empty) /\ UNCHANGED <<reward_reports, completions, turn>> /\ rounds \in Seq(Buffer)
  BY DEF GrpoInv, start_round
<1>2. empty \in Buffer
  BY DEF Buffer
<1> HIDE DEF empty
<1>3. /\ rounds' \in Seq(Buffer) /\ DOMAIN rounds = 1 .. Len(rounds) /\ DOMAIN rounds' = 1 .. Len(rounds) + 1
      /\ Len(rounds) \in Nat /\ rounds'[Len(rounds) + 1] = empty
      /\ \A nth_round \in DOMAIN rounds : rounds'[nth_round] = rounds[nth_round]
  BY <1>1, <1>2
<1>4. ASSUME NEW nth_round \in DOMAIN rounds', NEW w \in Reporters PROVE LastReport(w, nth_round, turn, rounds[nth_round][w])'
  <2>1. CASE nth_round \in DOMAIN rounds
    BY <1>1, <1>3, <2>1 DEF GrpoInv, LastReport
  <2>2. CASE nth_round \notin DOMAIN rounds
    <3>1. rounds'[nth_round][w] = <<>>
      BY <1>3, <2>2 DEF empty
    <3>2. \A r \in reward_reports : r.round # nth_round
      BY <2>2 DEF GrpoInv
    <3> QED
      BY <1>1, <3>1, <3>2 DEF LastReport
  <2> QED
    BY <2>1, <2>2
<1>5. AdvantagesAreOfTheLastReport'
  BY <1>1 DEF GrpoInv, AdvantagesAreOfTheLastReport, LastReport
<1> QED
  BY <1>1, <1>3, <1>4, <1>5 DEF GrpoInv

\* Taking a report keeps the invariant of Grpo.
LEMMA ReportIsTaken == \A w \in Reporters : GrpoInv /\ _handle_grpo_reward_report(w) => GrpoInv'
<1> SUFFICES ASSUME GrpoInv, NEW w \in Reporters, _handle_grpo_reward_report(w) PROVE GrpoInv'
  OBVIOUS
<1>1. PICK nth_round \in DOMAIN rounds, n \in 0 .. GroupSize :
        /\ rounds' = [rounds EXCEPT ![nth_round][w] = Rewards(w, nth_round, n)]
        /\ reward_reports' = reward_reports \cup {[by |-> w, round |-> nth_round, at |-> turn, rewards |-> Rewards(w, nth_round, n)]}
  BY DEF _handle_grpo_reward_report, handle_reward_report
<1>2. turn' = turn + 1 /\ turn \in Nat /\ UNCHANGED completions /\ rounds \in Seq(Buffer)
  BY DEF GrpoInv, _handle_grpo_reward_report
<1>3. PICK given \in Seq(Reward) : given = Rewards(w, nth_round, n)
  BY <1>2, RewardsAre, GrpoAssumption
<1>4. PICK new : new = [by |-> w, round |-> nth_round, at |-> turn, rewards |-> given]
  OBVIOUS
<1>5. reward_reports' = reward_reports \cup {new} /\ new.by = w /\ new.round = nth_round /\ new.at = turn /\ new.rewards = given
  BY <1>1, <1>3, <1>4
<1>6. /\ rounds' \in Seq(Buffer) /\ DOMAIN rounds' = DOMAIN rounds
      /\ rounds'[nth_round][w] = given
      /\ \A q \in DOMAIN rounds : \A v \in Reporters : q # nth_round \/ v # w => rounds'[q][v] = rounds[q][v]
  <2>1. rounds' = [rounds EXCEPT ![nth_round] = [rounds[nth_round] EXCEPT ![w] = given]]
    BY <1>1, <1>3
  <2>2. rounds[nth_round] \in Buffer /\ [rounds[nth_round] EXCEPT ![w] = given] \in Buffer
    BY <1>2 DEF Buffer
  <2>3. rounds' \in Seq(Buffer) /\ DOMAIN rounds' = DOMAIN rounds /\ rounds'[nth_round] = [rounds[nth_round] EXCEPT ![w] = given]
        /\ \A q \in DOMAIN rounds : q # nth_round => rounds'[q] = rounds[q]
    BY <1>2, <2>1, <2>2
  <2> QED
    BY <2>2, <2>3 DEF Buffer
<1>7. \A r \in reward_reports' : r.at \in Nat /\ r.at < turn' /\ r.round \in DOMAIN rounds'
  BY <1>2, <1>5, <1>6 DEF GrpoInv
<1>8. ASSUME NEW q \in DOMAIN rounds', NEW v \in Reporters PROVE LastReport(v, q, turn, rounds[q][v])'
  <2>1. CASE q = nth_round /\ v = w
    <3>1. \A other \in reward_reports' : other.at <= new.at
      BY <1>2, <1>5 DEF GrpoInv
    <3>2. PICK its : its = {r \in reward_reports' : r.by = w /\ r.round = nth_round /\ r.at < turn'}
      OBVIOUS
    <3>3. new \in its /\ rounds'[nth_round][w] = new.rewards /\ \A other \in its : other.at <= new.at
      <4>1. new.at < turn' /\ new \in reward_reports'
        BY <1>2, <1>5
      <4> QED
        BY <1>5, <1>6, <3>1, <3>2, <4>1
    <3> QED
      BY <2>1, <3>2, <3>3 DEF LastReport
  <2>2. CASE q # nth_round \/ v # w
    <3>1. {r \in reward_reports' : r.by = v /\ r.round = q /\ r.at < turn'} = {r \in reward_reports : r.by = v /\ r.round = q /\ r.at < turn}
      BY <1>2, <1>5, <2>2 DEF GrpoInv
    <3>2. LastReport(v, q, turn, rounds[q][v]) /\ rounds'[q][v] = rounds[q][v]
      BY <1>6, <2>2 DEF GrpoInv
    <3> QED
      BY <3>1, <3>2 DEF LastReport
  <2> QED
    BY <2>1, <2>2
<1>9. ASSUME NEW c \in completions' PROVE c.at \in Nat /\ c.at < turn' /\ LastReport(c.to, c.round, c.at, c.advantages)'
  <2>1. c.at \in Nat /\ c.at < turn /\ LastReport(c.to, c.round, c.at, c.advantages)
    BY <1>2 DEF GrpoInv, AdvantagesAreOfTheLastReport
  <2>2. {r \in reward_reports' : r.by = c.to /\ r.round = c.round /\ r.at < c.at} = {r \in reward_reports : r.by = c.to /\ r.round = c.round /\ r.at < c.at}
    BY <1>2, <1>5, <2>1
  <2> QED
    BY <1>2, <2>1, <2>2 DEF LastReport
<1> QED
  BY <1>2, <1>6, <1>7, <1>8, <1>9 DEF GrpoInv, AdvantagesAreOfTheLastReport

\* Finalising a round keeps the invariant of Grpo.
LEMMA RoundIsFinalised == GrpoInv /\ finalise_round => GrpoInv'
<1> SUFFICES ASSUME GrpoInv, finalise_round PROVE GrpoInv'
  OBVIOUS
<1>1. turn' = turn + 1 /\ turn \in Nat /\ UNCHANGED <<rounds, reward_reports>> /\ rounds \in Seq(Buffer)
  BY DEF GrpoInv, finalise_round
<1>2. PICK nth_round \in DOMAIN rounds :
        completions' = completions \cup {[to |-> w, round |-> nth_round, at |-> turn, advantages |-> Slice(rounds[nth_round], w)] : w \in WorkerIds}
  BY DEF finalise_round
<1>3. \A w \in WorkerIds : Slice(rounds[nth_round], w) = rounds[nth_round][w]
  <2>1. rounds[nth_round] \in Buffer
    BY <1>1
  <2> QED
    BY <2>1, SliceIsItsRewards
<1>4. ASSUME NEW q \in DOMAIN rounds', NEW v \in Reporters PROVE LastReport(v, q, turn, rounds[q][v])'
  <2>1. LastReport(v, q, turn, rounds[q][v])
    BY <1>1 DEF GrpoInv
  <2>2. {r \in reward_reports : r.by = v /\ r.round = q /\ r.at < turn'} = {r \in reward_reports : r.by = v /\ r.round = q /\ r.at < turn}
    BY <1>1 DEF GrpoInv
  <2> QED
    BY <1>1, <2>1, <2>2 DEF LastReport
<1>5. ASSUME NEW c \in completions' PROVE c.at \in Nat /\ c.at < turn' /\ LastReport(c.to, c.round, c.at, c.advantages)'
  <2>1. CASE c \in completions
    BY <1>1, <2>1 DEF GrpoInv, AdvantagesAreOfTheLastReport, LastReport
  <2>2. CASE c \notin completions
    <3>1. PICK w \in WorkerIds : c = [to |-> w, round |-> nth_round, at |-> turn, advantages |-> Slice(rounds[nth_round], w)]
      BY <1>2, <2>2
    <3>2. c.to = w /\ c.round = nth_round /\ c.at = turn /\ c.advantages = rounds[nth_round][w]
      BY <1>3, <3>1
    <3>3. LastReport(w, nth_round, turn, rounds[nth_round][w])
      BY DEF GrpoInv, Reporters
    <3>4. LastReport(c.to, c.round, c.at, c.advantages)
      BY <3>2, <3>3
    <3> QED
      BY <1>1, <3>2, <3>4 DEF LastReport
  <2> QED
    BY <2>1, <2>2
<1>6. \A r \in reward_reports' : r.at \in Nat /\ r.at < turn' /\ r.round \in DOMAIN rounds'
  BY <1>1 DEF GrpoInv
<1> QED
  BY <1>1, <1>4, <1>5, <1>6 DEF GrpoInv, AdvantagesAreOfTheLastReport

\* With any number of workers and rounds, and rewards of whatever length reported late, again, by
\* other nodes or not at all: the advantages a worker is sent for a round are, place by place, those
\* of the last report it made on that round (handle_reward_report, finalise_round).
THEOREM AdvantagesAreItsOwn == GrpoSpec => []AdvantagesAreOfTheLastReport
<1>1. GrpoInit => GrpoInv
  BY DEF GrpoInit, GrpoInv, AdvantagesAreOfTheLastReport
<1>2. GrpoInv /\ [GrpoNext]_grpoVars => GrpoInv'
  <2> SUFFICES ASSUME GrpoInv, [GrpoNext]_grpoVars PROVE GrpoInv'
    OBVIOUS
  <2>1. CASE UNCHANGED grpoVars
    BY <2>1 DEF grpoVars, GrpoInv, AdvantagesAreOfTheLastReport, LastReport
  <2>2. CASE GrpoNext
    BY <2>2, RoundStarts, ReportIsTaken, RoundIsFinalised DEF GrpoNext
  <2> QED
    BY <2>1, <2>2
<1>3. GrpoInv => AdvantagesAreOfTheLastReport
  BY DEF GrpoInv
<1> QED
  BY <1>1, <1>2, <1>3, PTL DEF GrpoSpec

-----------------------------------------------------------------------------
(* Sums that can be compared, and the least and the greatest of a set. *)
LEMMA RestCounted ==
  ASSUME NEW S, IsFiniteSet(S), NEW n \in Nat, NEW s \in SUBSET S, Cardinality(s) = n + 1
  PROVE  s # {} /\ Pick(s) \in S /\ Rest(s) \in SUBSET S /\ Cardinality(Rest(s)) = n
<1>1. n + 1 # 0
  OBVIOUS
<1>2. s # {}
  BY <1>1, FS_EmptySet
<1> QED
  BY <1>2, RestIsSmaller

\* Sums are ordered as their summands are.
LEMMA SumsOrdered ==
  ASSUME NEW S, IsFiniteSet(S), NEW f \in [S -> Int], NEW h \in [S -> Int], \A x \in S : f[x] <= h[x]
  PROVE  SumFunction(f) <= SumFunction(h)
<1>1. PICK a : Sums(f, S, a) /\ SumFunction(f) = a[S]
  BY SumFunctionIs
<1>2. PICK b : Sums(h, S, b) /\ SumFunction(h) = b[S]
  BY SumFunctionIs
<1>3. \A s \in SUBSET S : /\ a[s] = IF s = {} THEN 0 ELSE f[Pick(s)] + a[Rest(s)]
                          /\ b[s] = IF s = {} THEN 0 ELSE h[Pick(s)] + b[Rest(s)]
  BY <1>1, <1>2 DEF Sums, SumsTo
<1>4. \A s \in SUBSET S : a[s] \in Int /\ b[s] \in Int
  BY <1>1, <1>2, SumIsInt
<1> DEFINE Good == {n \in Nat : \A s \in SUBSET S : Cardinality(s) = n => a[s] <= b[s]}
<1>5. 0 \in Good
  <2>1. ASSUME NEW s \in SUBSET S, Cardinality(s) = 0 PROVE a[s] <= b[s]
    <3>1. s = {}
      BY <2>1, FS_EmptySet, FS_Subset
    <3>2. a[s] = 0 /\ b[s] = 0
      BY <1>3, <3>1
    <3> QED
      BY <3>2
  <2> QED
    BY <2>1
<1>6. ASSUME NEW n \in Good PROVE n + 1 \in Good
  <2>1. ASSUME NEW s \in SUBSET S, Cardinality(s) = n + 1 PROVE a[s] <= b[s]
    <3>1. n \in Nat
      OBVIOUS
    <3>2. s # {} /\ Pick(s) \in S /\ Rest(s) \in SUBSET S /\ Cardinality(Rest(s)) = n
      BY <2>1, <3>1, RestCounted
    <3>3. a[Rest(s)] <= b[Rest(s)]
      BY <3>2
    <3>4. a[s] = f[Pick(s)] + a[Rest(s)] /\ b[s] = h[Pick(s)] + b[Rest(s)]
      BY <1>3, <3>2
    <3>5. /\ f[Pick(s)] \in Int /\ h[Pick(s)] \in Int /\ f[Pick(s)] <= h[Pick(s)]
          /\ a[Rest(s)] \in Int /\ b[Rest(s)] \in Int
      BY <1>4, <3>2
    <3> QED
      BY <3>3, <3>4, <3>5
  <2> QED
    BY <2>1
<1>7. Cardinality(S) \in Nat
  BY FS_CardinalityType
<1> HIDE DEF Good
<1>8. Good \in SUBSET Nat
  BY DEF Good
<1>9. Cardinality(S) \in Good
  BY <1>5, <1>6, <1>7, <1>8, SetInduction
<1> QED
  BY <1>1, <1>2, <1>9 DEF Good

\* Multiplication distributes over addition.
LEMMA Distributed == \A x, y, c \in Int : (x + y) * c = x * c + y * c
  OBVIOUS
\* Products with a natural number are ordered as their factors are.
LEMMA ProductsOrdered == \A n \in Nat, x, y \in Int : x <= y => n * x <= n * y
  OBVIOUS

\* A common factor of the summands is one of the sum.
LEMMA SumScaled ==
  ASSUME NEW S, IsFiniteSet(S), NEW w \in [S -> Int], NEW c \in Int, NEW f \in [S -> Int], \A x \in S : f[x] = w[x] * c
  PROVE  SumFunction(f) = SumFunction(w) * c
<1>1. PICK a : Sums(f, S, a) /\ SumFunction(f) = a[S]
  BY SumFunctionIs
<1>2. PICK b : Sums(w, S, b) /\ SumFunction(w) = b[S]
  BY SumFunctionIs
<1>3. \A s \in SUBSET S : /\ a[s] = IF s = {} THEN 0 ELSE f[Pick(s)] + a[Rest(s)]
                          /\ b[s] = IF s = {} THEN 0 ELSE w[Pick(s)] + b[Rest(s)]
  BY <1>1, <1>2 DEF Sums, SumsTo
<1>4. \A s \in SUBSET S : a[s] \in Int /\ b[s] \in Int
  BY <1>1, <1>2, SumIsInt
<1> DEFINE Good == {n \in Nat : \A s \in SUBSET S : Cardinality(s) = n => a[s] = b[s] * c}
<1>5. 0 \in Good
  <2>1. ASSUME NEW s \in SUBSET S, Cardinality(s) = 0 PROVE a[s] = b[s] * c
    <3>1. s = {}
      BY <2>1, FS_EmptySet, FS_Subset
    <3>2. a[s] = 0 /\ b[s] = 0
      BY <1>3, <3>1
    <3> QED
      BY <3>2
  <2> QED
    BY <2>1
<1>6. ASSUME NEW n \in Good PROVE n + 1 \in Good
  <2>1. ASSUME NEW s \in SUBSET S, Cardinality(s) = n + 1 PROVE a[s] = b[s] * c
    <3>1. n \in Nat
      OBVIOUS
    <3>2. s # {} /\ Pick(s) \in S /\ Rest(s) \in SUBSET S /\ Cardinality(Rest(s)) = n
      BY <2>1, <3>1, RestCounted
    <3>3. a[Rest(s)] = b[Rest(s)] * c
      BY <3>2
    <3>4. a[s] = f[Pick(s)] + a[Rest(s)] /\ b[s] = w[Pick(s)] + b[Rest(s)]
      BY <1>3, <3>2
    <3>5. PICK one \in Int : one = w[Pick(s)] /\ f[Pick(s)] = one * c
      BY <3>2
    <3>6. PICK others \in Int : others = b[Rest(s)]
      BY <1>4, <3>2
    <3>7. (one + others) * c = one * c + others * c
      BY Distributed
    <3> QED
      BY <3>3, <3>4, <3>5, <3>6, <3>7
  <2> QED
    BY <2>1
<1>7. Cardinality(S) \in Nat
  BY FS_CardinalityType
<1> HIDE DEF Good
<1>8. Good \in SUBSET Nat
  BY DEF Good
<1>9. Cardinality(S) \in Good
  BY <1>5, <1>6, <1>7, <1>8, SetInduction
<1> QED
  BY <1>1, <1>2, <1>9 DEF Good

\* n numbers from lo to hi sum to something from n times lo to n times hi.
LEMMA SumOfCounted ==
  ASSUME NEW S, IsFiniteSet(S), NEW f \in [S -> Int], NEW lo \in Int, NEW hi \in Int, \A x \in S : lo <= f[x] /\ f[x] <= hi
  PROVE  Cardinality(S) * lo <= SumFunction(f) /\ SumFunction(f) <= Cardinality(S) * hi
<1>1. PICK a : Sums(f, S, a) /\ SumFunction(f) = a[S]
  BY SumFunctionIs
<1>3. \A s \in SUBSET S : a[s] = IF s = {} THEN 0 ELSE f[Pick(s)] + a[Rest(s)]
  BY <1>1 DEF Sums, SumsTo
<1>4. \A s \in SUBSET S : a[s] \in Int
  BY <1>1, SumIsInt
<1> DEFINE Good == {n \in Nat : \A s \in SUBSET S : Cardinality(s) = n => n * lo <= a[s] /\ a[s] <= n * hi}
<1>5. 0 \in Good
  <2>1. ASSUME NEW s \in SUBSET S, Cardinality(s) = 0 PROVE 0 * lo <= a[s] /\ a[s] <= 0 * hi
    <3>1. s = {}
      BY <2>1, FS_EmptySet, FS_Subset
    <3>2. a[s] = 0
      BY <1>3, <3>1
    <3> QED
      BY <3>2
  <2> QED
    BY <2>1
<1>6. ASSUME NEW n \in Good PROVE n + 1 \in Good
  <2>1. ASSUME NEW s \in SUBSET S, Cardinality(s) = n + 1 PROVE (n + 1) * lo <= a[s] /\ a[s] <= (n + 1) * hi
    <3>1. n \in Nat
      OBVIOUS
    <3>2. s # {} /\ Pick(s) \in S /\ Rest(s) \in SUBSET S /\ Cardinality(Rest(s)) = n
      BY <2>1, <3>1, RestCounted
    <3>3. n * lo <= a[Rest(s)] /\ a[Rest(s)] <= n * hi
      BY <3>2
    <3>4. a[s] = f[Pick(s)] + a[Rest(s)]
      BY <1>3, <3>2
    <3>5. PICK one \in Int : one = f[Pick(s)] /\ lo <= one /\ one <= hi
      BY <3>2
    <3>6. PICK others \in Int : others = a[Rest(s)]
      BY <1>4, <3>2
    <3>7. (n + 1) * lo = n * lo + 1 * lo /\ (n + 1) * hi = n * hi + 1 * hi
      BY Distributed
    <3>8. PICK low, high \in Int : low = n * lo /\ high = n * hi
      OBVIOUS
    <3> QED
      BY <3>3, <3>4, <3>5, <3>6, <3>7, <3>8
  <2> QED
    BY <2>1
<1>7. Cardinality(S) \in Nat
  BY FS_CardinalityType
<1> HIDE DEF Good
<1>8. Good \in SUBSET Nat
  BY DEF Good
<1>9. Cardinality(S) \in Good
  BY <1>5, <1>6, <1>7, <1>8, SetInduction
<1> QED
  BY <1>1, <1>9 DEF Good

\* A sum of positive numbers is positive.
LEMMA SumIsPositive ==
  ASSUME NEW S, IsFiniteSet(S), S # {}, NEW w \in [S -> Nat \ {0}]
  PROVE  SumFunction(w) \in Nat \ {0}
<1>1. PICK x : x \in S
  OBVIOUS
<1>2. PICK zeros : zeros = [y \in S |-> 0]
  OBVIOUS
<1>3. PICK one : one = [y \in S |-> IF y = x THEN 1 ELSE 0]
  OBVIOUS
<1>4. zeros \in [S -> Int] /\ (\A y \in S : zeros[y] = 0) /\ zeros[x] = 0
  BY <1>1, <1>2
<1>5. one \in [S -> Int] /\ one[x] = 1 /\ \A y \in S \ {x} : one[y] = zeros[y]
  BY <1>1, <1>2, <1>3
<1>6. SumFunction(zeros) = 0
  BY <1>4, SumOfZeros
<1>7. SumFunction(one) = SumFunction(zeros) - zeros[x] + one[x]
  BY <1>1, <1>4, <1>5, SumWithOneChanged
<1>8. SumFunction(one) = 1
  BY <1>4, <1>5, <1>6, <1>7
<1>9. w \in [S -> Int] /\ \A y \in S : one[y] <= w[y]
  BY <1>3
<1>10. SumFunction(one) <= SumFunction(w)
  BY <1>5, <1>9, SumsOrdered
<1>11. SumFunction(w) \in Int
  BY <1>9, SumType
<1> QED
  BY <1>8, <1>10, <1>11

\* A weighted sum of numbers from lo to hi lies from lo to hi times the weight.
LEMMA WeightedSumBetween ==
  ASSUME NEW S, IsFiniteSet(S), NEW w \in [S -> Nat \ {0}], NEW f \in [S -> Int], NEW lo \in Int, NEW hi \in Int,
         \A x \in S : lo <= f[x] /\ f[x] <= hi
  PROVE  LET sum == SumFunction([x \in S |-> w[x] * f[x]])
         IN  sum \in Int /\ SumFunction(w) * lo <= sum /\ sum <= SumFunction(w) * hi
<1>1. PICK products : products = [x \in S |-> w[x] * f[x]]
  OBVIOUS
<1>2. PICK least : least = [x \in S |-> w[x] * lo]
  OBVIOUS
<1>3. PICK greatest : greatest = [x \in S |-> w[x] * hi]
  OBVIOUS
<1>4. \A x \in S : /\ w[x] \in Nat /\ w[x] \in Int /\ f[x] \in Int
                   /\ w[x] * f[x] \in Int /\ w[x] * lo \in Int /\ w[x] * hi \in Int
  OBVIOUS
<1>5. w \in [S -> Int] /\ products \in [S -> Int] /\ least \in [S -> Int] /\ greatest \in [S -> Int]
  BY <1>1, <1>2, <1>3, <1>4
<1>6. \A x \in S : w[x] * lo <= w[x] * f[x] /\ w[x] * f[x] <= w[x] * hi
  BY <1>4, ProductsOrdered
<1>7. (\A x \in S : least[x] <= products[x]) /\ (\A x \in S : products[x] <= greatest[x])
  BY <1>1, <1>2, <1>3, <1>6
<1>8. SumFunction(least) <= SumFunction(products) /\ SumFunction(products) <= SumFunction(greatest)
  BY <1>5, <1>7, SumsOrdered
<1>9. SumFunction(least) = SumFunction(w) * lo /\ SumFunction(greatest) = SumFunction(w) * hi
  <2>1. SumFunction(least) = SumFunction(w) * lo
    BY <1>2, <1>5, SumScaled
  <2>2. SumFunction(greatest) = SumFunction(w) * hi
    BY <1>3, <1>5, SumScaled
  <2> QED
    BY <2>1, <2>2
<1>10. SumFunction(products) \in Int
  BY <1>5, SumType
<1> QED
  BY <1>1, <1>8, <1>9, <1>10

\* A finite set of integers has a least and a greatest.
LEMMA BoundsAre ==
  ASSUME NEW S \in SUBSET Int, IsFiniteSet(S), S # {}
  PROVE  /\ Min(S) \in S /\ \A x \in S : Min(S) <= x
         /\ Max(S) \in S /\ \A x \in S : x <= Max(S)
<1> DEFINE Bounded(s) == (\E lo \in s : \A x \in s : lo <= x) /\ (\E hi \in s : \A x \in s : x <= hi)
           Good == {n \in Nat : \A s \in SUBSET S : Cardinality(s) = n /\ s # {} => Bounded(s)}
<1>1. 0 \in Good
  BY FS_EmptySet, FS_Subset
<1>2. ASSUME NEW n \in Good PROVE n + 1 \in Good
  <2>1. ASSUME NEW s \in SUBSET S, Cardinality(s) = n + 1 PROVE Bounded(s)
    <3>1. n \in Nat
      OBVIOUS
    <3>2. s # {} /\ Pick(s) \in s /\ Pick(s) \in S /\ Rest(s) \in SUBSET S /\ Cardinality(Rest(s)) = n
      BY <2>1, <3>1, RestCounted, PickIsOne
    <3>3. PICK one \in Int : one = Pick(s)
      BY <3>2
    <3>4. s = Rest(s) \cup {one}
      BY <3>2, <3>3 DEF Rest
    <3>5. CASE Rest(s) = {}
      BY <3>3, <3>4, <3>5
    <3>6. CASE Rest(s) # {}
      <4>1. PICK lo \in Rest(s), hi \in Rest(s) : \A x \in Rest(s) : lo <= x /\ x <= hi
        BY <3>2, <3>6
      <4>2. \A x \in Rest(s) : x \in Int
        BY <3>2
      <4>3. \E low \in s : \A x \in s : low <= x
        BY <3>3, <3>4, <4>1, <4>2
      <4>4. \E high \in s : \A x \in s : x <= high
        BY <3>3, <3>4, <4>1, <4>2
      <4> QED
        BY <4>3, <4>4
    <3> QED
      BY <3>5, <3>6
  <2> QED
    BY <2>1
<1>3. Cardinality(S) \in Nat
  BY FS_CardinalityType
<1> HIDE DEF Good
<1>4. Good \in SUBSET Nat
  BY DEF Good
<1>5. Cardinality(S) \in Good
  BY <1>1, <1>2, <1>3, <1>4, SetInduction
<1>6. Bounded(S)
  BY <1>5 DEF Good
<1>7. Min(S) \in S /\ \A x \in S : Min(S) <= x
  <2>1. \E lo : lo \in S /\ \A x \in S : lo <= x
    BY <1>6
  <2> QED
    BY <2>1, Zenon DEF Min
<1>8. Max(S) \in S /\ \A x \in S : Max(S) >= x
  <2>1. \E hi : hi \in S /\ \A x \in S : hi >= x
    BY <1>6
  <2> QED
    BY <2>1, Zenon DEF Max
<1> QED
  BY <1>7, <1>8

-----------------------------------------------------------------------------
(* Aggregation: the ranks of a set are the numbers below its cardinality. *)
Before(key, i, j) == key[i] < key[j] \/ (key[i] = key[j] /\ i < j)
Keyed(key, S) == S \in SUBSET Int /\ IsFiniteSet(S) /\ \A i \in S : key[i] \in Int

\* A rank is below the size of the set.
LEMMA RankType ==
  ASSUME NEW S, NEW key, Keyed(key, S), NEW i \in S
  PROVE  Rank(key, S, i) \in 0 .. Cardinality(S) - 1
<1>1. PICK below : below = {j \in S : Before(key, j, i)}
  OBVIOUS
<1>2. ~ Before(key, i, i)
  BY DEF Before, Keyed
<1>3. below \in SUBSET (S \ {i}) /\ IsFiniteSet(S \ {i}) /\ Cardinality(S \ {i}) = Cardinality(S) - 1
  BY <1>1, <1>2, FS_RemoveElement DEF Keyed
<1>4. Cardinality(below) <= Cardinality(S \ {i}) /\ IsFiniteSet(below)
  BY <1>3, FS_Subset
<1>5. Cardinality(below) \in Nat /\ Cardinality(S) \in Nat
  BY <1>4, FS_CardinalityType DEF Keyed
<1>6. Rank(key, S, i) = Cardinality(below)
  BY <1>1 DEF Rank, Before
<1> QED
  BY <1>3, <1>4, <1>5, <1>6

\* A rank grows along the order.
LEMMA RankGrows ==
  ASSUME NEW S, NEW key, Keyed(key, S), NEW i \in S, NEW j \in S, Before(key, i, j)
  PROVE  Rank(key, S, i) < Rank(key, S, j)
<1>1. PICK before : before = {k \in S : Before(key, k, i)}
  OBVIOUS
<1>2. PICK below : below = {k \in S : Before(key, k, j)}
  OBVIOUS
<1>3. ~ Before(key, i, i)
  BY DEF Before, Keyed
<1>4. \A k \in S : Before(key, k, i) => Before(key, k, j)
  BY DEF Before, Keyed
<1>5. before \in SUBSET (below \ {i}) /\ i \in below
  BY <1>1, <1>2, <1>3, <1>4
<1>6. IsFiniteSet(below)
  <2>1. below \in SUBSET S
    BY <1>2
  <2> QED
    BY <2>1, FS_Subset DEF Keyed
<1>7. IsFiniteSet(below \ {i}) /\ Cardinality(below \ {i}) = Cardinality(below) - 1
  BY <1>5, <1>6, FS_RemoveElement
<1>8. Cardinality(before) <= Cardinality(below \ {i}) /\ IsFiniteSet(before)
  BY <1>5, <1>7, FS_Subset
<1>9. Cardinality(before) \in Nat /\ Cardinality(below) \in Nat
  BY <1>6, <1>8, FS_CardinalityType
<1>10. Rank(key, S, i) = Cardinality(before) /\ Rank(key, S, j) = Cardinality(below)
  BY <1>1, <1>2 DEF Rank, Before
<1> QED
  BY <1>7, <1>8, <1>9, <1>10

\* Two have two ranks.
LEMMA RanksDiffer ==
  ASSUME NEW S, NEW key, Keyed(key, S), NEW i \in S, NEW j \in S, i # j
  PROVE  Rank(key, S, i) # Rank(key, S, j)
<1>1. Before(key, i, j) \/ Before(key, j, i)
  BY DEF Before, Keyed
<1>2. Rank(key, S, i) < Rank(key, S, j) \/ Rank(key, S, j) < Rank(key, S, i)
  BY <1>1, RankGrows
<1>3. Rank(key, S, i) \in 0 .. Cardinality(S) - 1 /\ Rank(key, S, j) \in 0 .. Cardinality(S) - 1
  BY RankType
<1> QED
  BY <1>2, <1>3

\* Somebody is at each rank.
LEMMA SomebodyIsAtRank ==
  ASSUME NEW S, NEW key, Keyed(key, S), NEW k \in 0 .. Cardinality(S) - 1
  PROVE  AtRank(key, S, k) \in S /\ Rank(key, S, AtRank(key, S, k)) = k
<1>1. PICK n \in Nat : n = Cardinality(S)
  BY FS_CardinalityType DEF Keyed
<1>2. PICK ranks : ranks = [i \in S |-> Rank(key, S, i)]
  OBVIOUS
<1>3. ranks \in Injection(S, 0 .. n - 1)
  BY <1>1, <1>2, RankType, RanksDiffer DEF Injection, IsInjective
<1>4. IsFiniteSet(0 .. n - 1) /\ Cardinality(0 .. n - 1) = n
  <2>1. 0 \in Int /\ n - 1 \in Int /\ (0 > n - 1 => n = 0) /\ (n - 1) - 0 + 1 = n
    OBVIOUS
  <2> QED
    BY <2>1, FS_Interval
<1>5. ranks \in Surjection(S, 0 .. n - 1)
  BY <1>1, <1>3, <1>4, FS_Injection
<1>6. \E i \in S : Rank(key, S, i) = k
  BY <1>1, <1>2, <1>5 DEF Surjection
<1> QED
  BY <1>6 DEF AtRank

\* Whoever ranks at most in the middle comes to more than half.
LEMMA LowerHalf ==
  ASSUME NEW S, NEW key, Keyed(key, S), S # {}, NEW most \in SUBSET S,
         \A i \in S : Rank(key, S, i) <= Cardinality(S) \div 2 => i \in most
  PROVE  2 * Cardinality(most) > Cardinality(S)
<1>1. PICK n \in Nat : n = Cardinality(S) /\ n # 0
  BY FS_CardinalityType, FS_EmptySet DEF Keyed
<1>2. PICK m \in Nat : m = n \div 2
  OBVIOUS
<1>h. 2 * m <= n /\ n < 2 * m + 2
  BY <1>2
<1>3. m <= n - 1
  <2>1. n # 0
    BY <1>1
  <2> QED
    BY <1>h, <2>1
<1>4. PICK at : at = [k \in 0 .. m |-> AtRank(key, S, k)]
  OBVIOUS
<1>5. \A k \in 0 .. m : k \in 0 .. n - 1 /\ k <= m
  BY <1>1, <1>3
<1>6. \A k \in 0 .. m : at[k] \in S /\ Rank(key, S, at[k]) = k
  BY <1>1, <1>4, <1>5, SomebodyIsAtRank
<1>7. at \in Injection(0 .. m, most)
  <2>1. \A k \in 0 .. m : at[k] \in most
    BY <1>1, <1>2, <1>5, <1>6
  <2>2. \A j, k \in 0 .. m : at[j] = at[k] => j = k
    BY <1>6
  <2> QED
    BY <1>4, <2>1, <2>2 DEF Injection, IsInjective
<1>8. IsFiniteSet(most) /\ Cardinality(most) \in Nat
  BY FS_Subset, FS_CardinalityType DEF Keyed
<1>9. Cardinality(0 .. m) <= Cardinality(most)
  BY <1>7, <1>8, FS_Injection
<1>10. Cardinality(0 .. m) = m + 1
  <2>1. 0 \in Int /\ m \in Int /\ ~(0 > m) /\ m - 0 + 1 = m + 1
    OBVIOUS
  <2> QED
    BY <2>1, FS_Interval
<1> QED
  BY <1>1, <1>h, <1>8, <1>9, <1>10

-----------------------------------------------------------------------------
(* Aggregation: every path makes an aggregate that lies between its sources. *)
AggregationSpec == AggregationInit /\ [][AggregationNext]_aggregationVars

Between(of) ==
  LET seen == Values(of.sources) \cup (IF of.of = "filtered" THEN {0} ELSE {})
  IN  /\ of.sources # {} /\ of.weight > 0
      /\ of.weight * Min(seen) <= of.sum /\ of.sum <= of.weight * Max(seen)
      /\ of.of = "pure" => 2 * Cardinality(of.sources) > Cardinality(All)
Loaded == node_gradients \in Seq(Payloads)
AggregationInv == Loaded /\ AggregateLiesBetweenItsSources

\* The loaded gradients are finitely many, with integer values and positive weights.
LEMMA AllIsFinite ==
  ASSUME Loaded
  PROVE  /\ All \in SUBSET Int /\ IsFiniteSet(All) /\ Value \in [All -> Int]
         /\ \A i \in All : _result_weight(i) \in Nat \ {0}
<1>1. PICK n \in Nat : n = Len(node_gradients)
  BY DEF Loaded
<1>2. All = 1 .. n /\ \A i \in 1 .. n : node_gradients[i] \in Payloads
  BY <1>1 DEF All, Loaded
<1>3. IsFiniteSet(1 .. n)
  BY FS_Interval
<1>4. \A i \in All : node_gradients[i].value \in Int /\ node_gradients[i].weight \in Nat \ {0}
  BY <1>2, AggregationAssumption
<1> QED
  BY <1>2, <1>3, <1>4 DEF Value, _result_weight

\* The values of some gradients have a least and a greatest.
LEMMA ValuesAreBounded ==
  ASSUME Loaded, NEW S \in SUBSET All, S # {}, NEW others \in SUBSET {0}
  PROVE  LET seen == Values(S) \cup others
         IN  /\ Min(seen) \in Int /\ \A x \in seen : Min(seen) <= x
             /\ Max(seen) \in Int /\ \A x \in seen : x <= Max(seen)
<1>1. IsFiniteSet(S) /\ Value \in [All -> Int]
  BY AllIsFinite, FS_Subset
<1>2. PICK f : f = [i \in S |-> Value[i]]
  OBVIOUS
<1>3. f \in Surjection(S, Values(S))
  BY <1>2 DEF Surjection, Values
<1>4. IsFiniteSet(Values(S))
  BY <1>1, <1>3, FS_Surjection
<1>5. PICK seen : seen = Values(S) \cup others
  OBVIOUS
<1>6. IsFiniteSet(seen)
  <2>1. others = {} \/ others = {0}
    OBVIOUS
  <2>2. CASE others = {}
    BY <1>4, <1>5, <2>2
  <2>3. CASE others = {0}
    BY <1>4, <1>5, <2>3, FS_AddElement
  <2> QED
    BY <2>1, <2>2, <2>3
<1>7. seen \in SUBSET Int /\ seen # {}
  <2>1. Values(S) \in SUBSET Int
    BY <1>1 DEF Values
  <2>2. Values(S) # {}
    BY DEF Values
  <2>3. others \in SUBSET Int
    OBVIOUS
  <2> QED
    BY <1>5, <2>1, <2>2, <2>3
<1>8. /\ Min(seen) \in seen /\ \A x \in seen : Min(seen) <= x
      /\ Max(seen) \in seen /\ \A x \in seen : x <= Max(seen)
  BY <1>6, <1>7, BoundsAre
<1> QED
  BY <1>5, <1>7, <1>8

\* A weighted mean lies between the least and the greatest value.
LEMMA MeanIsBetween ==
  ASSUME Loaded, NEW S \in SUBSET All, S # {}, NEW w, \A i \in S : w[i] \in Nat \ {0}
  PROVE  /\ Mean(S, w).weight > 0
         /\ Mean(S, w).weight * Min(Values(S)) <= Mean(S, w).sum /\ Mean(S, w).sum <= Mean(S, w).weight * Max(Values(S))
<1>1. IsFiniteSet(S) /\ Value \in [All -> Int]
  BY AllIsFinite, FS_Subset
<1>2. PICK lo \in Int, hi \in Int : lo = Min(Values(S)) /\ hi = Max(Values(S)) /\ \A x \in Values(S) : lo <= x /\ x <= hi
  <2>1. PICK others \in SUBSET {0} : others = {}
    OBVIOUS
  <2>2. Values(S) \cup others = Values(S)
    BY <2>1
  <2> QED
    BY <2>2, ValuesAreBounded
<1>3. PICK weights : weights = [i \in S |-> w[i]]
  OBVIOUS
<1>4. PICK values : values = [i \in S |-> Value[i]]
  OBVIOUS
<1>5. weights \in [S -> Nat \ {0}] /\ values \in [S -> Int]
  BY <1>1, <1>3, <1>4
<1>6. \A i \in S : lo <= values[i] /\ values[i] <= hi
  BY <1>2, <1>4 DEF Values
<1>7. [i \in S |-> w[i] * Value[i]] = [i \in S |-> weights[i] * values[i]]
  BY <1>3, <1>4
<1>8. PICK sum \in Int : /\ sum = SumFunction([i \in S |-> weights[i] * values[i]])
                         /\ SumFunction(weights) * lo <= sum /\ sum <= SumFunction(weights) * hi
  BY <1>1, <1>5, <1>6, WeightedSumBetween
<1>9. SumFunction(weights) \in Nat \ {0}
  BY <1>1, <1>5, SumIsPositive
<1>10. Mean(S, w).weight = SumFunction(weights) /\ Mean(S, w).sum = sum
  BY <1>3, <1>7, <1>8 DEF Mean
<1> QED
  BY <1>2, <1>8, <1>9, <1>10

\* What lies between is what the property asks for.
LEMMA BetweenIs ==
  ASSUME NEW S, S # {}, NEW m, m = [sources |-> S, sum |-> m.sum, weight |-> m.weight, of |-> m.of],
         m.weight > 0, m.weight * Min(Values(S)) <= m.sum, m.sum <= m.weight * Max(Values(S)),
         m.of # "filtered", m.of = "pure" => 2 * Cardinality(S) > Cardinality(All)
  PROVE  Between(m)
<1>1. m.sources = S
  OBVIOUS
<1>2. Values(S) \cup (IF m.of = "filtered" THEN {0} ELSE {}) = Values(S)
  OBVIOUS
<1> QED
  BY <1>1, <1>2 DEF Between

\* A mean lies between under whatever name.
LEMMA NamedMeanIsBetween ==
  ASSUME Loaded, NEW S \in SUBSET All, S # {}, NEW w, \A i \in S : w[i] \in Nat \ {0},
         NEW name \in {"mean", "pure", "trimmed", "median"},
         name = "pure" => 2 * Cardinality(S) > Cardinality(All)
  PROVE  Between([Mean(S, w) EXCEPT !.of = name])
<1>1. PICK sum, weight : sum = Mean(S, w).sum /\ weight = Mean(S, w).weight
  OBVIOUS
<1>2. Mean(S, w) = [sources |-> S, sum |-> sum, weight |-> weight, of |-> "mean"]
  BY <1>1 DEF Mean
<1>3. PICK m : m = [sources |-> S, sum |-> sum, weight |-> weight, of |-> name]
  OBVIOUS
<1>4. [Mean(S, w) EXCEPT !.of = name] = m
  BY <1>2, <1>3
<1>5. weight > 0 /\ weight * Min(Values(S)) <= sum /\ sum <= weight * Max(Values(S))
  BY <1>1, MeanIsBetween
<1>6. m.sources = S /\ m.sum = sum /\ m.weight = weight /\ m.of = name
  BY <1>3
<1>7. Between(m)
  BY <1>3, <1>5, <1>6, BetweenIs
<1> QED
  BY <1>4, <1>7

\* More than half of the gradients are not taken for byzantine.
LEMMA MostAreKept ==
  ASSUME Loaded, All # {}
  PROVE  2 * Cardinality(All \ Byzantine) > Cardinality(All)
<1>1. PICK n \in Nat : n = Cardinality(All) /\ n # 0 /\ IsFiniteSet(All)
  BY AllIsFinite, FS_CardinalityType, FS_EmptySet
<1>2. Value \in [All -> Int] /\ SumFunction(Value) \in Int
  BY AllIsFinite, SumType
<1>3. \A i \in All : Distance[i] \in Int /\ Distance[i] >= 0
  <2> SUFFICES ASSUME NEW i \in All PROVE Distance[i] \in Int /\ Distance[i] >= 0
    OBVIOUS
  <2>1. PICK total \in Int : total = SumFunction(Value)
    BY <1>2
  <2>2. PICK scaled \in Int : scaled = n * Value[i]
    BY <1>2
  <2>3. Distance[i] = IF scaled - total < 0 THEN 0 - (scaled - total) ELSE scaled - total
    BY <1>1, <2>1, <2>2 DEF Distance
  <2> QED
    BY <2>3
<1>4. Keyed(Distance, All)
  BY <1>1, <1>3, AllIsFinite DEF Keyed
<1>5. PICK m \in Nat : m = n \div 2 /\ m \in 0 .. n - 1
  BY <1>1
<1>6. PICK middle \in All : middle = AtRank(Distance, All, m) /\ Rank(Distance, All, middle) = m
  BY <1>1, <1>4, <1>5, SomebodyIsAtRank
<1>7. ASSUME NEW i \in All, Rank(Distance, All, i) <= m PROVE i \in All \ Byzantine
  <2>1. Distance[i] \in Int /\ Distance[middle] \in Int /\ Distance[middle] >= 0
    BY <1>3
  <2>2. Rank(Distance, All, i) \in 0 .. n - 1
    BY <1>1, <1>4, RankType
  <2>3. ~(Distance[middle] < Distance[i])
    <3>1. Distance[middle] < Distance[i] => Before(Distance, middle, i)
      BY DEF Before
    <3>2. Distance[middle] < Distance[i] => Rank(Distance, All, middle) < Rank(Distance, All, i)
      BY <1>4, <3>1, RankGrows
    <3> QED
      BY <1>6, <1>7, <2>2, <3>2
  <2>4. ~(Distance[i] > 3 * Distance[middle])
    BY <2>1, <2>3
  <2> QED
    BY <1>1, <1>5, <1>6, <2>4 DEF Byzantine
<1> QED
  <2>1. PICK most \in SUBSET All : most = All \ Byzantine
    OBVIOUS
  <2>2. \A i \in All : Rank(Distance, All, i) <= Cardinality(All) \div 2 => i \in most
    BY <1>1, <1>5, <1>7, <2>1
  <2> QED
    BY <1>4, <2>1, <2>2, LowerHalf

\* The path in pure Python lies between.
LEMMA PureIsBetween ==
  ASSUME Loaded, _detect_byzantine_gradients_pure_python
  PROVE  Between(outcome')
<1>1. All # {}
  BY DEF _detect_byzantine_gradients_pure_python, PurePythonUsable
<1>2. 2 * Cardinality(All \ Byzantine) > Cardinality(All)
  BY <1>1, MostAreKept
<1>3. PICK S \in SUBSET All : S = All \ Byzantine
  OBVIOUS
<1>4. IsFiniteSet(S) /\ IsFiniteSet(All) /\ Cardinality(S) \in Nat /\ Cardinality(All) \in Nat
  BY AllIsFinite, FS_Subset, FS_CardinalityType
<1>5. S # {}
  <2>1. Cardinality(S) # 0
    BY <1>2, <1>3, <1>4
  <2> QED
    BY <2>1, FS_EmptySet
<1>6. PICK w : w = [i \in All |-> _result_weight(i)]
  OBVIOUS
<1>7. \A i \in S : w[i] \in Nat \ {0}
  BY <1>6, AllIsFinite
<1>8. outcome' = [Mean(S, w) EXCEPT !.of = "pure"]
  BY <1>3, <1>5, <1>6 DEF _detect_byzantine_gradients_pure_python
<1>9. Between([Mean(S, w) EXCEPT !.of = "pure"])
  BY <1>2, <1>3, <1>5, <1>7, NamedMeanIsBetween
<1>10. Between([Mean(S, w) EXCEPT !.of = "pure"]) => Between(outcome')
  BY <1>8
<1> QED
  BY <1>9, <1>10

\* Values order the gradients.
LEMMA ValuesKey == ASSUME Loaded, NEW S \in SUBSET All PROVE Keyed(Value, S)
  BY AllIsFinite, FS_Subset DEF Keyed

\* Some gradients are one at least.
LEMMA SizeIs == ASSUME Loaded, NEW S \in SUBSET All, S # {} PROVE Cardinality(S) \in Nat \ {0}
  BY AllIsFinite, FS_Subset, FS_CardinalityType, FS_EmptySet

\* Trimming both ends leaves somebody.
LEMMA OthersRemain == \A n \in Nat \ {0} : Trim(n) \in 0 .. n - 1 /\ Trim(n) <= n - Trim(n) - 1
<1> SUFFICES ASSUME NEW n \in Nat \ {0} PROVE Trim(n) \in 0 .. n - 1 /\ Trim(n) <= n - Trim(n) - 1
  OBVIOUS
<1>1. PICK t \in Nat : t = TrimOneIn /\ t > 2
  BY AggregationAssumption
<1>2. PICK k \in Int : k = n \div t /\ k >= 0 /\ k * t <= n
  BY <1>1
<1>3. 3 * k <= k * t
  BY <1>1, <1>2
<1>4. 3 * k <= n
  BY <1>2, <1>3
<1> QED
  BY <1>1, <1>2, <1>4 DEF Trim

\* The trimmed mean lies between.
LEMMA TrimmedIsBetween ==
  ASSUME Loaded, NEW S \in SUBSET All, S # {}
  PROVE  Between(TrimmedMean_aggregate(S))
<1>1. PICK n \in Nat \ {0} : n = Cardinality(S)
  BY SizeIs
<1>2. PICK k \in 0 .. n - 1 : k = Trim(n) /\ k <= n - k - 1
  BY <1>1, OthersRemain
<1>3. PICK i \in S : Rank(Value, S, i) = k
  BY <1>1, <1>2, ValuesKey, SomebodyIsAtRank
<1>4. PICK kept \in SUBSET All : kept = {j \in S : Rank(Value, S, j) \in k .. n - k - 1}
  OBVIOUS
<1>5. kept # {}
  BY <1>2, <1>3, <1>4
<1>6. PICK w : w = [j \in S |-> 1]
  OBVIOUS
<1>7. \A j \in kept : w[j] \in Nat \ {0}
  BY <1>4, <1>6
<1>8. TrimmedMean_aggregate(S) = [Mean(kept, w) EXCEPT !.of = "trimmed"]
  BY <1>1, <1>2, <1>4, <1>6 DEF TrimmedMean_aggregate
<1>9. Between([Mean(kept, w) EXCEPT !.of = "trimmed"])
  BY <1>5, <1>7, NamedMeanIsBetween
<1> QED
  BY <1>8, <1>9

\* The median lies between.
LEMMA MedianIsBetween ==
  ASSUME Loaded, NEW S \in SUBSET All, S # {}
  PROVE  Between(CoordinateWiseMedian_aggregate(S))
<1>1. PICK n \in Nat \ {0} : n = Cardinality(S)
  BY SizeIs
<1>2. (n - 1) \div 2 \in 0 .. n - 1
  OBVIOUS
<1>3. PICK middle \in S : middle = AtRank(Value, S, (n - 1) \div 2)
  BY <1>1, <1>2, ValuesKey, SomebodyIsAtRank
<1>4. PICK kept \in SUBSET All : kept = {middle}
  OBVIOUS
<1>5. PICK w : w = [j \in S |-> 1]
  OBVIOUS
<1>6. kept # {} /\ \A j \in kept : w[j] \in Nat \ {0}
  BY <1>4, <1>5
<1>7. CoordinateWiseMedian_aggregate(S) = [Mean(kept, w) EXCEPT !.of = "median"]
  BY <1>1, <1>3, <1>4, <1>5 DEF CoordinateWiseMedian_aggregate
<1>8. Between([Mean(kept, w) EXCEPT !.of = "median"])
  BY <1>6, NamedMeanIsBetween
<1> QED
  BY <1>7, <1>8

\* The mean weighed by reputation lies between.
LEMMA WeighedIsBetween ==
  ASSUME Loaded, NEW S \in SUBSET All, S # {}, NEW passed \in SUBSET S, NEW consistent \in SUBSET passed
  PROVE  Between(ReputationWeightedAggregator_aggregate(S, passed, consistent))
<1>1. CASE passed = {}
  BY <1>1, MedianIsBetween DEF ReputationWeightedAggregator_aggregate
<1>2. CASE passed # {}
  <2>1. PICK w : w = [i \in S |-> IF i \in consistent THEN 2 ELSE 1]
    OBVIOUS
  <2>2. \A i \in passed : w[i] \in Nat \ {0}
    BY <2>1
  <2>3. passed \in SUBSET All
    OBVIOUS
  <2>4. Between([Mean(passed, w) EXCEPT !.of = "mean"])
    BY <1>2, <2>2, <2>3, NamedMeanIsBetween
  <2>5. [Mean(passed, w) EXCEPT !.of = "mean"] = Mean(passed, w)
    BY DEF Mean
  <2>6. ReputationWeightedAggregator_aggregate(S, passed, consistent) = Mean(passed, w)
    BY <1>2, <2>1 DEF ReputationWeightedAggregator_aggregate
  <2> QED
    BY <2>4, <2>5, <2>6
<1> QED
  BY <1>1, <1>2

\* Every robust aggregate lies between.
LEMMA RobustIsBetween ==
  ASSUME Loaded, NEW S \in SUBSET All, S # {}
  PROVE  \A aggregate \in RobustAggregator_aggregate(S) : Between(aggregate)
<1> SUFFICES ASSUME NEW aggregate \in RobustAggregator_aggregate(S) PROVE Between(aggregate)
  OBVIOUS
<1>1. CASE Cardinality(S) < WeighFrom
  <2>1. aggregate = TrimmedMean_aggregate(S)
    BY <1>1 DEF RobustAggregator_aggregate
  <2> QED
    BY <2>1, TrimmedIsBetween
<1>2. CASE ~(Cardinality(S) < WeighFrom)
  <2>1. PICK passed \in SUBSET S : \E consistent \in SUBSET passed :
          aggregate = ReputationWeightedAggregator_aggregate(S, passed, consistent)
    BY <1>2 DEF RobustAggregator_aggregate
  <2> QED
    BY <2>1, WeighedIsBetween
<1> QED
  BY <1>1, <1>2

\* The path with its fallback lies between, if it gives anything.
LEMMA FallbackIsBetween ==
  ASSUME Loaded, _detect_byzantine_gradients
  PROVE  outcome' = NoAggregate \/ Between(outcome')
<1>1. Tensors \in SUBSET All
  BY DEF Tensors, SameLayout
<1>2. CASE Cardinality(Tensors) < 3
  BY <1>2 DEF _detect_byzantine_gradients
<1>3. CASE ~(Cardinality(Tensors) < 3)
  <2>1. PICK flagged : outcome' \in IF Tensors \ flagged = {} THEN {NoAggregate} ELSE RobustAggregator_aggregate(Tensors \ flagged)
    BY <1>3 DEF _detect_byzantine_gradients
  <2>2. PICK S \in SUBSET All : S = Tensors \ flagged
    BY <1>1
  <2>3. CASE S = {}
    BY <2>1, <2>2, <2>3
  <2>4. CASE S # {}
    <3>1. outcome' \in RobustAggregator_aggregate(S)
      BY <2>1, <2>2, <2>4
    <3> QED
      BY <2>4, <3>1, RobustIsBetween
  <2> QED
    BY <2>3, <2>4
<1> QED
  BY <1>2, <1>3

\* The buckets of a filter: one or two of its gradients each.
Buckets(S, buckets) ==
  /\ buckets # {} /\ IsFiniteSet(buckets)
  /\ \A b \in buckets : b \in SUBSET S /\ Cardinality(b) \in {1, 2}

\* Each gradient in a bucket of its own.
LEMMA SinglesAreBuckets ==
  ASSUME NEW S, IsFiniteSet(S), S # {}
  PROVE  Buckets(S, {{i} : i \in S})
<1>1. PICK buckets : buckets = {{i} : i \in S}
  OBVIOUS
<1>2. PICK f : f = [i \in S |-> {i}]
  OBVIOUS
<1>3. f \in Surjection(S, buckets)
  BY <1>1, <1>2 DEF Surjection
<1>4. IsFiniteSet(buckets)
  BY <1>3, FS_Surjection
<1>5. \A b \in buckets : b \in SUBSET S /\ Cardinality(b) = 1
  BY <1>1, FS_Singleton
<1> QED
  BY <1>1, <1>4, <1>5 DEF Buckets

\* Gradients in buckets of two.
LEMMA PairsAreBuckets ==
  ASSUME NEW S, IsFiniteSet(S), S # {}, NEW buckets \in BucketingClipping(S)
  PROVE  Buckets(S, buckets)
<1>1. PICK n \in Nat : n = Cardinality(S) /\ n # 0
  BY FS_CardinalityType, FS_EmptySet
<1>2. PICK last \in Nat : last = (n + 1) \div 2 /\ last >= 1
  BY <1>1
<1>3. PICK of \in [S -> 1 .. last] :
        /\ buckets = {{i \in S : of[i] = b} : b \in 1 .. last}
        /\ \A b \in 1 .. last : Cardinality({i \in S : of[i] = b}) \in (IF b = last THEN 1 .. 2 ELSE {2})
  BY <1>1, <1>2 DEF BucketingClipping
<1>4. PICK f : f = [b \in 1 .. last |-> {i \in S : of[i] = b}]
  OBVIOUS
<1>5. f \in Surjection(1 .. last, buckets)
  BY <1>3, <1>4 DEF Surjection
<1>6. IsFiniteSet(buckets)
  BY <1>2, <1>5, FS_Interval, FS_Surjection
<1>7. ASSUME NEW b \in buckets PROVE b \in SUBSET S /\ Cardinality(b) \in {1, 2}
  <2>1. PICK k \in 1 .. last : b = {i \in S : of[i] = k}
    BY <1>3
  <2>2. Cardinality(b) \in (IF k = last THEN 1 .. 2 ELSE {2})
    BY <1>3, <2>1
  <2>3. Cardinality(b) \in {1, 2}
    BY <2>2
  <2> QED
    BY <2>1, <2>3
<1>8. buckets # {}
  <2>1. last \in 1 .. last
    BY <1>2
  <2>2. {i \in S : of[i] = last} \in buckets
    BY <1>3, <2>1
  <2> QED
    BY <2>2
<1> QED
  BY <1>6, <1>7, <1>8 DEF Buckets

\* The filtered mean of buckets lies between.
LEMMA FilteredIsBetween ==
  ASSUME Loaded, SignGuard # {}, NEW buckets, Buckets(SignGuard, buckets)
  PROVE  Between(FilteredMean(buckets))
<1>1. PICK S \in SUBSET All : S = SignGuard
  BY DEF SignGuard
<1>2. Value \in [All -> Int] /\ IsFiniteSet(S)
  BY AllIsFinite, FS_Subset
<1>3. PICK seen : seen = Values(S) \cup {0}
  OBVIOUS
<1>4. PICK lo \in Int, hi \in Int : lo = Min(seen) /\ hi = Max(seen) /\ \A x \in seen : lo <= x /\ x <= hi
  <2>1. PICK others \in SUBSET {0} : others = {0}
    OBVIOUS
  <2>2. seen = Values(S) \cup others /\ S # {}
    BY <1>1, <1>3, <2>1
  <2>3. Min(seen) \in Int /\ Max(seen) \in Int /\ \A x \in seen : Min(seen) <= x /\ x <= Max(seen)
    BY <2>2, ValuesAreBounded
  <2> QED
    BY <2>3
<1>5. \A i \in S : FoolsGoldFilter[i] \in Int /\ FoolsGoldFilter[i] \in seen
  <2>1. ASSUME NEW i \in S PROVE FoolsGoldFilter[i] = 0 \/ FoolsGoldFilter[i] = Value[i]
    BY DEF FoolsGoldFilter
  <2> QED
    BY <1>2, <1>3, <2>1 DEF Values
<1>6. \A i \in S : lo <= FoolsGoldFilter[i] /\ FoolsGoldFilter[i] <= hi
  BY <1>4, <1>5
<1>7. buckets # {} /\ IsFiniteSet(buckets) /\ \A b \in buckets : b \in SUBSET S /\ Cardinality(b) \in {1, 2}
  BY <1>1 DEF Buckets
<1>8. PICK sums : sums = [b \in buckets |-> (IF Cardinality(b) = 1 THEN 2 ELSE 1) * SumFunction([i \in b |-> FoolsGoldFilter[i]])]
  OBVIOUS
<1>9. PICK low \in Int, high \in Int : low = 2 * lo /\ high = 2 * hi
  OBVIOUS
<1>10. ASSUME NEW b \in buckets PROVE sums[b] \in Int /\ low <= sums[b] /\ sums[b] <= high
  <2>1. PICK f : f = [i \in b |-> FoolsGoldFilter[i]]
    OBVIOUS
  <2>2. b \in SUBSET S /\ IsFiniteSet(b)
    BY <1>2, <1>7, FS_Subset
  <2>3. f \in [b -> Int] /\ \A i \in b : lo <= f[i] /\ f[i] <= hi
    BY <1>5, <1>6, <2>1, <2>2
  <2>4. PICK sum \in Int : sum = SumFunction(f)
    BY <2>2, <2>3, SumType
  <2>5. Cardinality(b) * lo <= sum /\ sum <= Cardinality(b) * hi
    BY <2>2, <2>3, <2>4, SumOfCounted
  <2>6. sums[b] = (IF Cardinality(b) = 1 THEN 2 ELSE 1) * sum
    BY <1>8, <2>1, <2>4
  <2>7. CASE Cardinality(b) = 1
    <3>1. 1 * lo = lo /\ 1 * hi = hi
      OBVIOUS
    <3>2. lo <= sum /\ sum <= hi /\ sums[b] = 2 * sum
      BY <2>5, <2>6, <2>7, <3>1
    <3> QED
      BY <1>9, <3>2
  <2>8. CASE Cardinality(b) = 2
    <3>1. low <= sum /\ sum <= high
      BY <1>9, <2>5, <2>8
    <3>2. sums[b] = 1 * sum
      BY <2>6, <2>8
    <3> QED
      BY <3>1, <3>2
  <2> QED
    BY <1>7, <2>7, <2>8
<1>11. PICK n \in Nat \ {0} : n = Cardinality(buckets)
  BY <1>7, FS_CardinalityType, FS_EmptySet
<1>12. sums \in [buckets -> Int]
  BY <1>8, <1>10
<1>13. PICK sum \in Int : sum = SumFunction(sums) /\ n * low <= sum /\ sum <= n * high
  BY <1>7, <1>10, <1>11, <1>12, SumType, SumOfCounted
<1>14. (2 * n) * lo <= sum /\ sum <= (2 * n) * hi
  <2>1. n * low = (2 * n) * lo /\ n * high = (2 * n) * hi
    BY <1>9
  <2> QED
    BY <1>13, <2>1
<1>15. FilteredMean(buckets) = [sources |-> S, of |-> "filtered", weight |-> 2 * n, sum |-> sum]
  BY <1>1, <1>8, <1>11, <1>13 DEF FilteredMean
<1>16. PICK m : m = [sources |-> S, of |-> "filtered", weight |-> 2 * n, sum |-> sum]
  OBVIOUS
<1>17. m.sources = S /\ m.of = "filtered" /\ m.weight = 2 * n /\ m.sum = sum
  BY <1>16
<1>18. Values(m.sources) \cup (IF m.of = "filtered" THEN {0} ELSE {}) = seen
  BY <1>3, <1>17
<1>19. Between(m)
  <2>1. m.weight > 0 /\ m.of # "pure" /\ m.sources # {}
    BY <1>1, <1>17
  <2>2. m.weight * Min(seen) <= m.sum /\ m.sum <= m.weight * Max(seen)
    BY <1>4, <1>14, <1>17
  <2> QED
    BY <1>18, <2>1, <2>2 DEF Between
<1> QED
  BY <1>15, <1>16, <1>19

\* The path of the defense pipeline lies between.
LEMMA PipelineIsBetween ==
  ASSUME Loaded, defense_pipeline
  PROVE  Between(outcome')
<1>1. IsFiniteSet(All) /\ Cardinality(All) \in Nat /\ Cardinality(All) >= 4
  BY AllIsFinite, FS_CardinalityType DEF defense_pipeline
<1>2. PICK agree \in SUBSET All : SignGuard = IF 2 * Cardinality(agree) > Cardinality(All) THEN agree ELSE All
  BY DEF SignGuard
<1>3. Cardinality({}) = 0
  BY FS_EmptySet
<1>4. SignGuard # {} /\ IsFiniteSet(SignGuard)
  <2>1. CASE 2 * Cardinality(agree) > Cardinality(All)
    <3>1. SignGuard = agree
      BY <1>2, <2>1
    <3>2. agree # {}
      BY <1>1, <1>3, <2>1
    <3> QED
      BY <1>1, <3>1, <3>2, FS_Subset
  <2>2. CASE ~(2 * Cardinality(agree) > Cardinality(All))
    <3>1. SignGuard = All
      BY <1>2, <2>2
    <3>2. All # {}
      BY <1>1, <1>3
    <3> QED
      BY <1>1, <3>1, <3>2
  <2> QED
    BY <2>1, <2>2
<1>5. PICK buckets : /\ buckets = {{i} : i \in SignGuard} \/ buckets \in BucketingClipping(SignGuard)
                     /\ outcome' = FilteredMean(buckets)
  BY DEF defense_pipeline
<1>6. Buckets(SignGuard, buckets)
  BY <1>4, <1>5, SinglesAreBuckets, PairsAreBuckets
<1>7. Between(FilteredMean(buckets))
  BY <1>4, <1>6, FilteredIsBetween
<1> QED
  BY <1>5, <1>7

\* For any number of gradients with any integer values and positive weights: every aggregate, whichever
\* path made it, lies between the least and the greatest of its sources, has some, and the weighted mean
\* keeps more than half (_detect_byzantine_gradients, RobustAggregator, make_adaptive_defense_filter).
THEOREM AggregatesLieBetween == AggregationSpec => []AggregateLiesBetweenItsSources
<1>1. AggregationInit => AggregationInv
  BY DEF AggregationInit, AggregationInv, Loaded, AggregateLiesBetweenItsSources
<1>2. AggregationInv /\ [AggregationNext]_aggregationVars => AggregationInv'
  <2> SUFFICES ASSUME AggregationInv, [AggregationNext]_aggregationVars PROVE AggregationInv'
    OBVIOUS
  <2>1. CASE GradientArrives
    BY <2>1 DEF GradientArrives, AggregationInv, Loaded, AggregateLiesBetweenItsSources
  <2>2. CASE _check_and_aggregate
    <3>1. Loaded /\ node_gradients' = node_gradients
      BY <2>2 DEF _check_and_aggregate, AggregationInv
    <3>2. outcome' = NoAggregate \/ Between(outcome')
      BY <2>2, <3>1, PureIsBetween, FallbackIsBetween, PipelineIsBetween DEF _check_and_aggregate
    <3>3. All' = All /\ Value' = Value
      BY <3>1 DEF All, Value
    <3>4. Between(outcome') => AggregateLiesBetweenItsSources'
      BY <3>3 DEF Between, AggregateLiesBetweenItsSources, Values
    <3>5. outcome' = NoAggregate => AggregateLiesBetweenItsSources'
      BY DEF AggregateLiesBetweenItsSources, NoAggregate
    <3> QED
      BY <3>1, <3>2, <3>4, <3>5 DEF AggregationInv, Loaded
  <2>3. CASE NextRound
    BY <2>3 DEF NextRound, AggregationInv, Loaded, AggregateLiesBetweenItsSources, NoAggregate
  <2>4. CASE UNCHANGED aggregationVars
    BY <2>4 DEF aggregationVars, AggregationInv, Loaded, AggregateLiesBetweenItsSources, Values, Value, All
  <2> QED
    BY <2>1, <2>2, <2>3, <2>4 DEF AggregationNext
<1>3. AggregationInv => AggregateLiesBetweenItsSources
  BY DEF AggregationInv
<1> QED
  BY <1>1, <1>2, <1>3, PTL DEF AggregationSpec
=============================================================================
